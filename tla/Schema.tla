------------------------------- MODULE Schema -------------------------------
(***************************************************************************)
(* Opening the database (Open and migrate in internal/store/db.go): each   *)
(* statement of schema.sql, then ensureColumn for the columns added since  *)
(* the first version, then the version's row, every one a transaction of   *)
(* its own.  Several processes may open one database, and die at any       *)
(* point: "run" is the process of module Startup, another one is, say, a   *)
(* second shadowstat run by hand.                                          *)
(***************************************************************************)
EXTENDS Naturals, Sequences

CONSTANT Openers    \* the processes

(* The tables of schema.sql that matter here, in its order, and the        *)
(* columns an old database lacks.                                          *)
Tables == <<"schema_meta", "users", "hosts">>
Columns == <<"hosts", "users">>
Steps == ({"idle", "open", "failed", "count", "insert"} \X {0})
         \cup ({"create"} \X DOMAIN Tables) \cup ({"look", "alter"} \X DOMAIN Columns)

VARIABLES
    tables,     \* the tables there are
    columns,    \* those with their new column
    versions,   \* the rows of schema_meta
    opening,    \* where each process is in Open
    overlapped  \* history: two processes were inside migrate at once

schemaVars == <<tables, columns, versions, opening, overlapped>>

Inside(p) == opening[p][1] \notin {"idle", "open", "failed"}

Migrated == tables = {"schema_meta", "users", "hosts"} /\ columns = {"users", "hosts"} /\ versions >= 1

NewDatabase == tables = {} /\ columns = {} /\ versions = 0
OldDatabase == tables = {"schema_meta", "users", "hosts"} /\ columns = {} /\ versions = 1

SchemaInit ==
    /\ NewDatabase \/ OldDatabase
    /\ opening = [p \in Openers |-> <<"idle", 0>>] /\ overlapped = FALSE

Step(p, from, to) == opening[p] = from /\ opening' = [opening EXCEPT ![p] = to]

(* Open: the pragmas change no table.                                      *)
OpenDatabase(p) ==
    /\ Step(p, <<"idle", 0>>, <<"create", 1>>)
    /\ overlapped' = (overlapped \/ \E q \in Openers \ {p} : Inside(q))
    /\ UNCHANGED <<tables, columns, versions>>

(* CREATE TABLE IF NOT EXISTS, with every column.                          *)
Create(p, n) ==
    /\ Step(p, <<"create", n>>, IF n < Len(Tables) THEN <<"create", n + 1>> ELSE <<"look", 1>>)
    /\ tables' = tables \cup {Tables[n]}
    /\ columns' = IF Tables[n] \in tables \/ n = 1 THEN columns ELSE columns \cup {Tables[n]}
    /\ UNCHANGED <<versions, overlapped>>

AfterColumn(n) == IF n < Len(Columns) THEN <<"look", n + 1>> ELSE <<"count", 0>>

(* Mutant: the column of an existing table is taken to be there.           *)
TableInfoPresent(p, n) ==
    /\ Step(p, <<"look", n>>, IF Columns[n] \in tables THEN AfterColumn(n) ELSE <<"alter", n>>)
    /\ UNCHANGED <<tables, columns, versions, overlapped>>

(* PRAGMA table_info.                                                      *)
TableInfo(p, n) ==
    /\ Step(p, <<"look", n>>, IF Columns[n] \in columns THEN AfterColumn(n) ELSE <<"alter", n>>)
    /\ UNCHANGED <<tables, columns, versions, overlapped>>

(* ALTER TABLE fails if the column has appeared in the meantime.           *)
AddColumn(p, n) ==
    /\ Step(p, <<"alter", n>>, IF Columns[n] \in columns THEN <<"failed", 0>> ELSE AfterColumn(n))
    /\ columns' = columns \cup {Columns[n]}
    /\ UNCHANGED <<tables, versions, overlapped>>

(* Mutant: the row is inserted at every start.                             *)
CountAlwaysInserts(p) ==
    /\ Step(p, <<"count", 0>>, <<"insert", 0>>)
    /\ UNCHANGED <<tables, columns, versions, overlapped>>

CountVersions(p) ==
    /\ Step(p, <<"count", 0>>, IF versions = 0 THEN <<"insert", 0>> ELSE <<"open", 0>>)
    /\ UNCHANGED <<tables, columns, versions, overlapped>>

InsertVersion(p) ==
    /\ Step(p, <<"insert", 0>>, <<"open", 0>>)
    /\ versions' = versions + 1
    /\ UNCHANGED <<tables, columns, overlapped>>

(* Open returns, or the process dies.                                      *)
LeaveOpen(p) ==
    /\ opening[p][1] # "idle"
    /\ opening' = [opening EXCEPT ![p] = <<"idle", 0>>]
    /\ UNCHANGED <<tables, columns, versions, overlapped>>

Migrate(p) ==
    \/ \E n \in DOMAIN Tables : Create(p, n)
    \/ \E n \in DOMAIN Columns : TableInfo(p, n) \/ AddColumn(p, n)
    \/ CountVersions(p) \/ InsertVersion(p)

-----------------------------------------------------------------------------
(* A database that Open has returned is migrated, whether it was new, old  *)
(* or half migrated by a process that died, and whoever else opens it: no  *)
(* later statement names a table or a column that is not there.            *)
OpenIsMigrated ==
    \A p \in Openers : opening[p][1] = "open" => Migrated

(* A process alone in migrate does not fail, and leaves one version row,   *)
(* after any number of crashes.                                            *)
MigratesAlone ==
    ~overlapped => versions <= 1 /\ \A p \in Openers : opening[p][1] # "failed"

(* The same when two processes start at once.                              *)
MigratesTogether == versions <= 1 /\ \A p \in Openers : opening[p][1] # "failed"
=============================================================================
