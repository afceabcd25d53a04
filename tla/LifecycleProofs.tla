-------------------------- MODULE LifecycleProofs ---------------------------
(***************************************************************************)
(* Proofs about how the program is started and installed.                  *)
(*                                                                         *)
(* Startup and Schema, for any set of processes, any names and any number  *)
(* of crashes.  Each property gets its own inductive invariant: they are   *)
(* about different variables.                                              *)
(*                                                                         *)
(* ServiceInstall, for any batches and any number of processes and         *)
(* installs: nothing recorded is lost, and an installed service finds a    *)
(* directory that is set up and that it may use.                           *)
(***************************************************************************)
EXTENDS Startup, ServiceInstall, TLAPS

(***************************************************************************)
(* Startup and Schema.                                                     *)
(***************************************************************************)

(* What is there when some process is at step s.                           *)
Reached(s, T, C, v) ==
    /\ s = <<"create", 2>> => "schema_meta" \in T
    /\ s = <<"create", 3>> => "schema_meta" \in T /\ "users" \in T
    /\ s[1] \in {"look", "alter", "count", "insert", "open"} =>
          "schema_meta" \in T /\ "users" \in T /\ "hosts" \in T
    /\ s \in {<<"look", 2>>, <<"alter", 2>>} => "hosts" \in C
    /\ s[1] \in {"count", "insert", "open"} => "hosts" \in C /\ "users" \in C
    /\ s[1] = "open" => v >= 1

SchemaTyped ==
    /\ opening \in [Openers -> Steps] /\ versions \in Nat /\ overlapped \in BOOLEAN
    /\ tables \subseteq {"schema_meta", "users", "hosts"} /\ columns \subseteq {"users", "hosts"}

(* OpenIsMigrated is not inductive: what a process has passed must also    *)
(* be there while others add to it.                                        *)
MigrationInv ==
    /\ SchemaTyped
    /\ \A p \in Openers : Reached(opening[p], tables, columns, versions)

(* What a process alone in migrate has looked at is still so.              *)
Fresh(s, C, v) ==
    /\ s[1] # "failed"
    /\ s = <<"alter", 1>> => "hosts" \notin C
    /\ s = <<"alter", 2>> => "users" \notin C
    /\ s[1] = "insert" => v = 0

AloneInv ==
    /\ SchemaTyped
    /\ ~overlapped =>
          /\ versions <= 1
          /\ \A p \in Openers : Fresh(opening[p], columns, versions)
          /\ \A p, q \in Openers : Inside(p) /\ Inside(q) => p = q

(* The wizard and what follows it.                                         *)
WizardInv ==
    /\ web # "off" => phase = "running"
    /\ settings \in Settings
    /\ complete => admins # {} /\ \A k \in Keys : settings[k] # "absent"
    /\ phase \notin {"down", "opening", "opened"} => admins # {}
    /\ phase \notin {"down", "opening", "opened", "admin"} => \A k \in Keys : settings[k] # "absent"

(* The files, as long as none is spoilt.                                   *)
FilesInv ==
    /\ pairs \in 0 .. MaxPairs
    /\ phase \in {"certOpen", "certDone", "keyOpen"} => pairs \in Pairs
    /\ "files" \notin spoilt =>
          /\ key = Absent \/ (phase = "keyOpen" /\ key = Empty) \/ (key = cert /\ cert \in Pairs)
          /\ phase \in {"certOpen", "certDone"} => key = Absent
          /\ phase \in {"certDone", "keyOpen"} => cert = pairs
          /\ phase \in {"keyDone", "running"} => key # Absent
          /\ phase = "keyOpen" => key = Empty

-----------------------------------------------------------------------------
(* What a step does to the variables of Schema.                            *)
SchemaNext == \E p \in Openers : OpenDatabase(p) \/ Migrate(p) \/ LeaveOpen(p)

(* Every step of the run command leaves the database's schema alone, or is *)
(* a step of some process in Open (store/db.go).                           *)
LEMMA StepOfSchema == ASSUME [Next]_vars PROVE UNCHANGED schemaVars \/ SchemaNext
<1>1. ASSUME Prepare PROVE UNCHANGED schemaVars \/ SchemaNext
  BY <1>1, StartupAssumption, Zenon
     DEF Prepare, SchemaNext, Open, MigrateStep, Opened, OpenFails, SkipWizard, SaveSettings, Finalize,
         LoadSettings, KeepFiles, OpenCert, WriteCert, OpenKey, WriteKey, Run, Serve, Panic, schemaVars
<1>2. ASSUME OtherProcess PROVE SchemaNext
  BY <1>2 DEF OtherProcess, Other, SchemaNext
<1>3. ASSUME ExitNoSetup \/ Remove \/ (\E name \in Names : CreateAdmin(name)) \/ \E req \in Requests : PutSettings(req)
      PROVE UNCHANGED schemaVars
  BY <1>3 DEF ExitNoSetup, Remove, CreateAdmin, PutSettings, schemaVars
<1>4. ASSUME Stop PROVE UNCHANGED schemaVars \/ SchemaNext
  BY <1>4, StartupAssumption DEF Stop, SchemaNext
<1>5. ASSUME UNCHANGED vars PROVE UNCHANGED schemaVars
  BY <1>5 DEF vars
<1> QED BY <1>1, <1>2, <1>3, <1>4, <1>5 DEF Next

(* The two lists of statements.                                            *)
LEMMA Lists ==
    /\ Len(Tables) = 3 /\ DOMAIN Tables = {1, 2, 3}
    /\ Tables[1] = "schema_meta" /\ Tables[2] = "users" /\ Tables[3] = "hosts"
    /\ Len(Columns) = 2 /\ DOMAIN Columns = {1, 2}
    /\ Columns[1] = "hosts" /\ Columns[2] = "users"
BY DEF Tables, Columns

(* Every step has a name and a number.                                     *)
LEMMA StepsTyped ==
    /\ \A w \in {"idle", "open", "failed", "count", "insert"} : <<w, 0>> \in Steps
    /\ \A n \in {1, 2, 3} : <<"create", n>> \in Steps
    /\ \A n \in {1, 2} : <<"look", n>> \in Steps /\ <<"alter", n>> \in Steps
BY Lists DEF Steps

(* The database only grows: what one process has reached stays reached     *)
(* whatever the others do.                                                 *)
LEMMA ReachedStays ==
    ASSUME NEW s, NEW T, NEW C, NEW v \in Nat, NEW T2, NEW C2, NEW v2 \in Nat,
           T \subseteq T2, C \subseteq C2, v <= v2, Reached(s, T, C, v)
    PROVE  Reached(s, T2, C2, v2)
BY DEF Reached

(* Nothing goes away.                                                      *)
Growth ==
    /\ tables' \subseteq {"schema_meta", "users", "hosts"} /\ columns' \subseteq {"users", "hosts"}
    /\ tables \subseteq tables' /\ columns \subseteq columns'
    /\ versions' \in Nat /\ versions <= versions' /\ overlapped' \in BOOLEAN

(* A step of p in Open: the others stay where they are, nothing goes away, *)
(* and p has reached what its new place says.                              *)
Grows(p) ==
    /\ opening' \in [Openers -> Steps] /\ Growth
    /\ \A q \in Openers \ {p} : opening'[q] = opening[q]
    /\ Reached(opening'[p], tables', columns', versions')

(* What EXCEPT does to opening.                                            *)
LEMMA Moved ==
    ASSUME SchemaTyped, NEW p \in Openers, NEW s \in Steps, opening' = [opening EXCEPT ![p] = s]
    PROVE  /\ opening' \in [Openers -> Steps] /\ opening'[p] = s
           /\ \A q \in Openers \ {p} : opening'[q] = opening[q]
BY DEF SchemaTyped

(* Every statement of Open and migrate (store/db.go) is such a step.       *)
LEMMA StatementGrows ==
    ASSUME MigrationInv, NEW p \in Openers, OpenDatabase(p) \/ Migrate(p) \/ LeaveOpen(p)
    PROVE  Grows(p)
<1> SchemaTyped /\ Reached(opening[p], tables, columns, versions) BY DEF MigrationInv
<1>0. ASSUME NEW s \in Steps, opening' = [opening EXCEPT ![p] = s], Growth,
             Reached(s, tables', columns', versions')
      PROVE  Grows(p)
  BY <1>0, Moved, Zenon DEF Grows
<1>1. CASE OpenDatabase(p)
  <2>1. Growth BY <1>1 DEF OpenDatabase, Growth, SchemaTyped
  <2>2. Reached(<<"create", 1>>, tables', columns', versions') BY DEF Reached
  <2> QED BY <1>0, <1>1, <2>1, <2>2, StepsTyped, Zenon DEF OpenDatabase, Step
<1>2. ASSUME NEW n \in DOMAIN Tables, Create(p, n) PROVE Grows(p)
  <2>0. Growth
    <3>1. Tables[n] \in {"schema_meta", "users", "hosts"} /\ (n # 1 => Tables[n] \in {"users", "hosts"})
      BY Lists
    <3>2. tables' = tables \cup {Tables[n]} BY <1>2 DEF Create
    <3>3. columns' = columns \/ (n # 1 /\ columns' = columns \cup {Tables[n]})
      <4>1. CASE Tables[n] \in tables \/ n = 1 BY <1>2, <4>1, Zenon DEF Create
      <4>2. CASE ~(Tables[n] \in tables \/ n = 1) BY <1>2, <4>2, Zenon DEF Create
      <4> QED BY <4>1, <4>2
    <3>4. UNCHANGED <<versions, overlapped>> BY <1>2 DEF Create
    <3>5. columns \subseteq columns' /\ columns' \subseteq {"users", "hosts"}
      BY <3>1, <3>3, Zenon DEF SchemaTyped
    <3>6. tables \subseteq tables' /\ tables' \subseteq {"schema_meta", "users", "hosts"}
      BY <3>1, <3>2, Zenon DEF SchemaTyped
    <3> QED BY <3>4, <3>5, <3>6 DEF Growth, SchemaTyped
  <2>1. CASE n = 1
    <3>1. Reached(<<"create", 2>>, tables', columns', versions')
      BY <1>2, <2>1, Lists DEF Create, Reached
    <3>2. opening' = [opening EXCEPT ![p] = <<"create", 2>>]
      BY <1>2, <2>1, Lists DEF Create, Step
    <3> QED BY <1>0, <2>0, <3>1, <3>2, StepsTyped, Zenon
  <2>2. CASE n = 2
    <3>1. Reached(<<"create", 3>>, tables', columns', versions')
      BY <1>2, <2>2, Lists DEF Create, Step, Reached
    <3>2. opening' = [opening EXCEPT ![p] = <<"create", 3>>]
      BY <1>2, <2>2, Lists DEF Create, Step
    <3> QED BY <1>0, <2>0, <3>1, <3>2, StepsTyped, Zenon
  <2>3. CASE n = 3
    <3>1. Reached(<<"look", 1>>, tables', columns', versions')
      BY <1>2, <2>3, Lists DEF Create, Step, Reached
    <3>2. opening' = [opening EXCEPT ![p] = <<"look", 1>>]
      BY <1>2, <2>3, Lists DEF Create, Step
    <3> QED BY <1>0, <2>0, <3>1, <3>2, StepsTyped, Zenon
  <2> QED BY <2>1, <2>2, <2>3, Lists
<1>3. ASSUME NEW n \in DOMAIN Columns, TableInfo(p, n) \/ AddColumn(p, n) PROVE Grows(p)
  <2>1. \E s \in {AfterColumn(n), <<"alter", n>>, <<"failed", 0>>} :
           /\ opening' = [opening EXCEPT ![p] = s]
           /\ s = AfterColumn(n) => Columns[n] \in columns'
    <3>1. CASE TableInfo(p, n)
      <4>1. CASE Columns[n] \in columns BY <3>1, <4>1 DEF TableInfo, Step
      <4>2. CASE Columns[n] \notin columns
        BY <3>1, <4>2, Lists DEF TableInfo, Step, AfterColumn
      <4> QED BY <4>1, <4>2
    <3>2. CASE AddColumn(p, n) BY <3>2, Zenon DEF AddColumn, Step
    <3> QED BY <1>3, <3>1, <3>2
  <2>2. PICK s \in {AfterColumn(n), <<"alter", n>>, <<"failed", 0>>} :
           /\ opening' = [opening EXCEPT ![p] = s]
           /\ s = AfterColumn(n) => Columns[n] \in columns'
    BY <2>1, Zenon
  <2>3. opening[p] = <<"look", n>> \/ opening[p] = <<"alter", n>>
    BY <1>3 DEF TableInfo, AddColumn, Step
  <2>4. s \in Steps
    BY <2>2, Lists, StepsTyped DEF AfterColumn
  <2>5. UNCHANGED <<tables, versions, overlapped>> /\ columns \subseteq columns'
    BY <1>3 DEF TableInfo, AddColumn
  <2>6. Growth BY <1>3, <2>5, Lists DEF TableInfo, AddColumn, Growth, SchemaTyped
  <2>7. Reached(s, tables', columns', versions')
    <3>1. "schema_meta" \in tables' /\ "users" \in tables' /\ "hosts" \in tables'
      BY <2>3, <2>5 DEF Reached
    <3>2. n = 2 => "hosts" \in columns'
      BY <2>3, <2>5 DEF Reached
    <3>3. CASE s = AfterColumn(n)
      <4>1. CASE n = 1 BY <3>1, <3>3, <4>1, Lists, <2>2 DEF AfterColumn, Reached
      <4>2. CASE n = 2 BY <3>1, <3>2, <3>3, <4>2, Lists, <2>2 DEF AfterColumn, Reached
      <4> QED BY <4>1, <4>2, Lists
    <3>4. CASE s = <<"alter", n>> BY <3>1, <3>2, <3>4, Lists DEF Reached
    <3>5. CASE s = <<"failed", 0>> BY <3>5 DEF Reached
    <3> QED BY <2>2, <3>3, <3>4, <3>5
  <2> QED BY <1>0, <2>2, <2>4, <2>6, <2>7, Zenon
<1>4. CASE CountVersions(p)
  <2>1. Growth BY <1>4 DEF CountVersions, Growth, SchemaTyped
  <2>2. CASE versions = 0
    <3>1. Reached(<<"insert", 0>>, tables', columns', versions')
      BY <1>4 DEF CountVersions, Step, Reached
    <3> QED BY <1>0, <1>4, <2>1, <2>2, <3>1, StepsTyped, Zenon DEF CountVersions, Step
  <2>3. CASE versions # 0
    <3>1. Reached(<<"open", 0>>, tables', columns', versions')
      BY <1>4, <2>3 DEF CountVersions, Step, Reached, SchemaTyped
    <3> QED BY <1>0, <1>4, <2>1, <2>3, <3>1, StepsTyped, Zenon DEF CountVersions, Step
  <2> QED BY <2>2, <2>3
<1>5. CASE InsertVersion(p)
  <2>1. Growth BY <1>5 DEF InsertVersion, Growth, SchemaTyped
  <2>2. Reached(<<"open", 0>>, tables', columns', versions')
    BY <1>5 DEF InsertVersion, Step, Reached, SchemaTyped
  <2> QED BY <1>0, <1>5, <2>1, <2>2, StepsTyped, Zenon DEF InsertVersion, Step
<1>6. CASE LeaveOpen(p)
  <2>1. Growth BY <1>6 DEF LeaveOpen, Growth, SchemaTyped
  <2>2. Reached(<<"idle", 0>>, tables', columns', versions') BY DEF Reached
  <2> QED BY <1>0, <1>6, <2>1, <2>2, StepsTyped, Zenon DEF LeaveOpen
<1> QED BY <1>1, <1>2, <1>3, <1>4, <1>5, <1>6 DEF Migrate

(* The invariant behind OpenIsMigrated is inductive.                       *)
LEMMA MigrationStep == MigrationInv /\ [Next]_vars => MigrationInv'
<1> SUFFICES ASSUME MigrationInv, [Next]_vars PROVE MigrationInv' OBVIOUS
<1>1. CASE UNCHANGED schemaVars
  BY <1>1 DEF schemaVars, MigrationInv, SchemaTyped
<1>2. CASE SchemaNext
  <2>1. PICK p \in Openers : Grows(p) BY <1>2, StatementGrows DEF SchemaNext
  <2>2. ASSUME NEW q \in Openers \ {p} PROVE Reached(opening'[q], tables', columns', versions')
    BY <2>1, ReachedStays, Zenon DEF Grows, Growth, MigrationInv, SchemaTyped
  <2>3. SchemaTyped' BY <2>1 DEF Grows, Growth, SchemaTyped
  <2> QED BY <2>1, <2>2, <2>3 DEF Grows, MigrationInv
<1> QED BY <1>1, <1>2, StepOfSchema

(* A new database and an old one satisfy the invariant.                    *)
LEMMA MigrationInit == Init => MigrationInv
<1> SUFFICES ASSUME Init PROVE MigrationInv OBVIOUS
<1>1. SchemaTyped
  <2>1. opening \in [Openers -> Steps] BY StepsTyped DEF Init, SchemaInit
  <2>2. CASE NewDatabase BY <2>1, <2>2, Zenon DEF Init, SchemaInit, NewDatabase, SchemaTyped
  <2>3. CASE OldDatabase BY <2>1, <2>3, Zenon DEF Init, SchemaInit, OldDatabase, SchemaTyped
  <2> QED BY <2>2, <2>3 DEF Init, SchemaInit
<1>2. ASSUME NEW p \in Openers PROVE Reached(opening[p], tables, columns, versions)
  BY DEF Init, SchemaInit, Reached
<1> QED BY <1>1, <1>2 DEF MigrationInv

(* OpenIsMigrated for every behaviour: no crash, and nobody else opening   *)
(* the database, leaves it half migrated when Open returns (store/db.go).  *)
THEOREM OpenedIsMigrated == Spec => []OpenIsMigrated
<1>1. MigrationInv => OpenIsMigrated
  BY Zenon DEF MigrationInv, SchemaTyped, Reached, OpenIsMigrated, Migrated
<1> QED BY <1>1, MigrationInit, MigrationStep, PTL DEF Spec

-----------------------------------------------------------------------------
(* MigratesAlone for every behaviour: however often a process dies in      *)
(* migrate, the next one alone in it finishes with one version row, and no *)
(* ALTER TABLE fails (store/db.go).                                        *)
THEOREM AloneMigrates == Spec => []MigratesAlone
(* A step of p keeps AloneInv: the others are outside migrate.             *)
<1>AloneStatement.
    ASSUME MigrationInv, AloneInv, NEW p \in Openers, OpenDatabase(p) \/ Migrate(p) \/ LeaveOpen(p)
    PROVE  AloneInv'
  <2> USE <1>AloneStatement
  <2> SUFFICES ASSUME ~overlapped'
               PROVE  /\ versions' <= 1
                      /\ \A q \in Openers : Fresh(opening'[q], columns', versions')
                      /\ \A q, r \in Openers : Inside(q)' /\ Inside(r)' => q = r
    BY StatementGrows DEF AloneInv, Grows, Growth, SchemaTyped
  <2>0. ~overlapped /\ SchemaTyped
    <3>1. CASE OpenDatabase(p) BY <3>1, Zenon DEF AloneInv, OpenDatabase
    <3>2. CASE LeaveOpen(p) BY <3>2 DEF AloneInv, LeaveOpen
    <3>3. CASE Migrate(p)
      <4>1. UNCHANGED overlapped
        BY <3>3, Zenon DEF Migrate, Create, TableInfo, AddColumn, CountVersions, InsertVersion
      <4> QED BY <4>1 DEF AloneInv
    <3> QED BY <3>1, <3>2, <3>3
  <2>1. \A q \in Openers \ {p} : opening'[q] = opening[q]
    BY StatementGrows DEF Grows
  <2>2. ASSUME NEW s \in Steps, opening' = [opening EXCEPT ![p] = s], versions' <= 1, Fresh(s, columns', versions'),
               s[1] \in {"idle", "open", "failed"} \/ \A q \in Openers \ {p} : ~Inside(q),
               UNCHANGED <<columns, versions>> \/ \A q \in Openers \ {p} : ~Inside(q)
        PROVE  /\ versions' <= 1
               /\ \A q \in Openers : Fresh(opening'[q], columns', versions')
               /\ \A q, r \in Openers : Inside(q)' /\ Inside(r)' => q = r
    <3>1. opening'[p] = s BY <2>0, <2>2, Moved, Zenon
    <3>2. ASSUME NEW q \in Openers \ {p} PROVE Fresh(opening'[q], columns', versions')
      <4>1. Fresh(opening[q], columns, versions) BY <2>0 DEF AloneInv
      <4> QED BY <2>1, <2>2, <4>1 DEF Fresh, Inside
    <3>3. ASSUME NEW q \in Openers, NEW r \in Openers, Inside(q)', Inside(r)' PROVE q = r
      <4>1. CASE q = p /\ r # p
        <5>1. Inside(r) /\ s[1] \notin {"idle", "open", "failed"} BY <2>1, <3>1, <3>3, <4>1 DEF Inside
        <5> QED BY <2>2, <4>1, <5>1
      <4>2. CASE q # p /\ r = p
        <5>1. Inside(q) /\ s[1] \notin {"idle", "open", "failed"} BY <2>1, <3>1, <3>3, <4>2 DEF Inside
        <5> QED BY <2>2, <4>2, <5>1
      <4>3. CASE q # p /\ r # p
        <5>1. Inside(q) /\ Inside(r) BY <2>1, <3>3, <4>3 DEF Inside
        <5> QED BY <2>0, <5>1 DEF AloneInv
      <4> QED BY <4>1, <4>2, <4>3
    <3> QED BY <2>2, <3>1, <3>2, <3>3
  <2>3. CASE OpenDatabase(p)
    <3>1. \A q \in Openers \ {p} : ~Inside(q) BY <2>3, Zenon DEF OpenDatabase
    <3>2. Fresh(<<"create", 1>>, columns', versions') BY DEF Fresh
    <3>3. versions' <= 1 /\ opening' = [opening EXCEPT ![p] = <<"create", 1>>]
      BY <2>0, <2>3 DEF AloneInv, OpenDatabase, Step
    <3> QED BY <2>2, <3>1, <3>2, <3>3, StepsTyped, Zenon
  <2>4. CASE LeaveOpen(p)
    <3>1. Fresh(<<"idle", 0>>, columns', versions') BY DEF Fresh
    <3>2. /\ versions' <= 1 /\ opening' = [opening EXCEPT ![p] = <<"idle", 0>>]
          /\ UNCHANGED <<columns, versions>>
      BY <2>0, <2>4 DEF AloneInv, LeaveOpen
    <3>3. <<"idle", 0>>[1] \in {"idle", "open", "failed"} OBVIOUS
    <3> QED BY <2>2, <3>1, <3>2, <3>3, StepsTyped, Zenon
  <2>5. CASE Migrate(p)
    <3>1. Inside(p)
      <4>1. ASSUME NEW n, NEW s, Step(p, <<"create", n>>, s) PROVE Inside(p) BY <4>1 DEF Step, Inside
      <4>2. ASSUME NEW n, NEW s, Step(p, <<"look", n>>, s) PROVE Inside(p) BY <4>2 DEF Step, Inside
      <4>3. ASSUME NEW n, NEW s, Step(p, <<"alter", n>>, s) PROVE Inside(p) BY <4>3 DEF Step, Inside
      <4>4. ASSUME NEW n, NEW s, Step(p, <<"count", n>>, s) PROVE Inside(p) BY <4>4 DEF Step, Inside
      <4>5. ASSUME NEW n, NEW s, Step(p, <<"insert", n>>, s) PROVE Inside(p) BY <4>5 DEF Step, Inside
      <4>6. CASE \E n \in DOMAIN Tables : Create(p, n) BY <4>1, <4>6, Zenon DEF Create
      <4>7. CASE \E n \in DOMAIN Columns : TableInfo(p, n) BY <4>2, <4>7, Zenon DEF TableInfo
      <4>8. CASE \E n \in DOMAIN Columns : AddColumn(p, n) BY <4>3, <4>8, Zenon DEF AddColumn
      <4>9. CASE CountVersions(p) BY <4>4, <4>9, Zenon DEF CountVersions
      <4>10. CASE InsertVersion(p) BY <4>5, <4>10, Zenon DEF InsertVersion
      <4> QED BY <2>5, <4>6, <4>7, <4>8, <4>9, <4>10, Zenon DEF Migrate
    <3>2. \A q \in Openers \ {p} : ~Inside(q) BY <2>0, <3>1 DEF AloneInv
    <3>3. versions <= 1 /\ Fresh(opening[p], columns, versions) BY <2>0 DEF AloneInv
    <3>4. ASSUME NEW s \in Steps, opening' = [opening EXCEPT ![p] = s], versions' <= 1, Fresh(s, columns', versions')
          PROVE  /\ versions' <= 1
                 /\ \A q \in Openers : Fresh(opening'[q], columns', versions')
                 /\ \A q, r \in Openers : Inside(q)' /\ Inside(r)' => q = r
      BY <2>2, <3>2, <3>4, Zenon
    <3>5. ASSUME NEW n \in DOMAIN Tables, Create(p, n) PROVE \E s \in Steps :
             opening' = [opening EXCEPT ![p] = s] /\ versions' <= 1 /\ Fresh(s, columns', versions')
      <4>1. versions' <= 1 BY <3>3, <3>5 DEF Create
      <4>2. CASE n < 3
        <5>1. opening' = [opening EXCEPT ![p] = <<"create", n + 1>>] BY <3>5, <4>2, Lists DEF Create, Step
        <5>2. <<"create", n + 1>> \in Steps BY <4>2, Lists, StepsTyped
        <5>3. Fresh(<<"create", n + 1>>, columns', versions') BY DEF Fresh
        <5> QED BY <4>1, <5>1, <5>2, <5>3, Zenon
      <4>3. CASE n = 3
        <5>1. opening' = [opening EXCEPT ![p] = <<"look", 1>>] BY <3>5, <4>3, Lists DEF Create, Step
        <5>2. Fresh(<<"look", 1>>, columns', versions') BY DEF Fresh
        <5> QED BY <4>1, <5>1, <5>2, StepsTyped, Zenon
      <4> QED BY <4>2, <4>3, Lists
    <3>6. ASSUME NEW n \in DOMAIN Columns
          PROVE  AfterColumn(n) \in Steps /\ Fresh(AfterColumn(n), columns', versions')
      <4>1. AfterColumn(n) \in {<<"look", 2>>, <<"count", 0>>} BY Lists DEF AfterColumn
      <4> QED BY <4>1, StepsTyped DEF Fresh
    <3>7. ASSUME NEW n \in DOMAIN Columns, TableInfo(p, n) PROVE \E s \in Steps :
             opening' = [opening EXCEPT ![p] = s] /\ versions' <= 1 /\ Fresh(s, columns', versions')
      <4>1. versions' <= 1 /\ UNCHANGED columns BY <3>3, <3>7 DEF TableInfo
      <4>2. CASE Columns[n] \in columns
        <5>1. opening' = [opening EXCEPT ![p] = AfterColumn(n)] BY <3>7, <4>2 DEF TableInfo, Step
        <5> QED BY <3>6, <4>1, <5>1, Zenon
      <4>3. CASE Columns[n] \notin columns
        <5>1. opening' = [opening EXCEPT ![p] = <<"alter", n>>] BY <3>7, <4>3 DEF TableInfo, Step
        <5>2. <<"alter", n>> \in Steps BY Lists, StepsTyped
        <5>3. Fresh(<<"alter", n>>, columns', versions') BY <4>1, <4>3, Lists DEF Fresh
        <5> QED BY <4>1, <5>1, <5>2, <5>3, Zenon
      <4> QED BY <4>2, <4>3
    <3>8. ASSUME NEW n \in DOMAIN Columns, AddColumn(p, n) PROVE \E s \in Steps :
             opening' = [opening EXCEPT ![p] = s] /\ versions' <= 1 /\ Fresh(s, columns', versions')
      <4>1. Columns[n] \notin columns BY <3>3, <3>8, Lists DEF AddColumn, Step, Fresh
      <4>2. versions' <= 1 BY <3>3, <3>8 DEF AddColumn
      <4>3. opening' = [opening EXCEPT ![p] = AfterColumn(n)] BY <3>8, <4>1 DEF AddColumn, Step
      <4> QED BY <3>6, <4>2, <4>3, Zenon
    <3>9. ASSUME CountVersions(p) PROVE \E s \in Steps :
             opening' = [opening EXCEPT ![p] = s] /\ versions' <= 1 /\ Fresh(s, columns', versions')
      <4>1. versions' <= 1 /\ UNCHANGED versions BY <3>3, <3>9 DEF CountVersions
      <4>2. CASE versions = 0
        <5>1. opening' = [opening EXCEPT ![p] = <<"insert", 0>>] BY <3>9, <4>2 DEF CountVersions, Step
        <5>2. Fresh(<<"insert", 0>>, columns', versions') BY <4>1, <4>2 DEF Fresh
        <5> QED BY <4>1, <5>1, <5>2, StepsTyped, Zenon
      <4>3. CASE versions # 0
        <5>1. opening' = [opening EXCEPT ![p] = <<"open", 0>>] BY <3>9, <4>3 DEF CountVersions, Step
        <5>2. Fresh(<<"open", 0>>, columns', versions') BY DEF Fresh
        <5> QED BY <4>1, <5>1, <5>2, StepsTyped, Zenon
      <4> QED BY <4>2, <4>3
    <3>10. ASSUME InsertVersion(p) PROVE \E s \in Steps :
              opening' = [opening EXCEPT ![p] = s] /\ versions' <= 1 /\ Fresh(s, columns', versions')
      <4>1. versions' <= 1 BY <3>3, <3>10 DEF InsertVersion, Step, Fresh
      <4>2. opening' = [opening EXCEPT ![p] = <<"open", 0>>] BY <3>10 DEF InsertVersion, Step
      <4>3. Fresh(<<"open", 0>>, columns', versions') BY DEF Fresh
      <4> QED BY <4>1, <4>2, <4>3, StepsTyped, Zenon
    <3>11. \E s \in Steps :
              opening' = [opening EXCEPT ![p] = s] /\ versions' <= 1 /\ Fresh(s, columns', versions')
      BY <2>5, <3>5, <3>7, <3>8, <3>9, <3>10, Zenon DEF Migrate
    <3> QED BY <3>4, <3>11, Zenon
  <2> QED BY <2>3, <2>4, <2>5
<1>AloneMigrates. Spec => []MigratesAlone
  <2>1. Init => MigrationInv /\ AloneInv
    <3> SUFFICES ASSUME Init PROVE MigrationInv /\ AloneInv OBVIOUS
    <3>1. MigrationInv BY MigrationInit
    <3>2. \A p \in Openers : opening[p] = <<"idle", 0>> BY Zenon DEF Init, SchemaInit
    <3>3. ASSUME NEW p \in Openers PROVE Fresh(opening[p], columns, versions) /\ ~Inside(p)
      <4>1. opening[p] = <<"idle", 0>> /\ opening[p][1] = "idle" BY <3>2
      <4>2. Fresh(<<"idle", 0>>, columns, versions) BY DEF Fresh
      <4> QED BY <4>1, <4>2 DEF Inside
    <3>4. versions <= 1 BY DEF Init, SchemaInit, NewDatabase, OldDatabase
    <3> QED BY <3>1, <3>3, <3>4 DEF MigrationInv, AloneInv
  <2>2. MigrationInv /\ AloneInv /\ [Next]_vars => AloneInv'
    <3> SUFFICES ASSUME MigrationInv, AloneInv, [Next]_vars PROVE AloneInv' OBVIOUS
    <3>1. CASE UNCHANGED schemaVars
      BY <3>1 DEF schemaVars, AloneInv, SchemaTyped, Inside
    <3>2. CASE SchemaNext BY <3>2, <1>AloneStatement DEF SchemaNext
    <3> QED BY <3>1, <3>2, StepOfSchema
  <2>3. AloneInv => MigratesAlone BY DEF AloneInv, Fresh, MigratesAlone
  <2> QED BY <2>1, <2>2, <2>3, MigrationStep, PTL DEF Spec
<1> QED
    BY <1>AloneMigrates

-----------------------------------------------------------------------------
(* CompleteIsComplete for every behaviour: setup_complete is written after *)
(* the admin and the settings (config/firstrun.go), and nothing that may   *)
(* be stored later takes one away (web/handlers_api.go).                   *)
THEOREM SetupIsComplete == Spec => []CompleteIsComplete
(* The invariant of the wizard is inductive: setup_complete is written     *)
(* last, and a request to change settings stores values that are there.    *)
<1>WizardStep. WizardInv /\ [Next]_vars => WizardInv'
  <2> SUFFICES ASSUME WizardInv, [Next]_vars PROVE WizardInv' OBVIOUS
  <2> USE DEF WizardInv, Goto, database, files
  <2>1. CASE UNCHANGED vars BY <2>1 DEF vars
  <2>2. CASE Open \/ MigrateStep \/ Opened \/ OpenFails \/ OtherProcess
    <3>1. /\ UNCHANGED <<web, admins, settings, complete>> /\ phase # "running"
          /\ phase' \in {"down", "opening", "opened"}
      <4>1. CASE Open BY <4>1 DEF Open
      <4>2. CASE MigrateStep BY <4>2 DEF MigrateStep
      <4>3. CASE Opened BY <4>3, Zenon DEF Opened
      <4>4. CASE OpenFails BY <4>4, Zenon DEF OpenFails
      <4>5. CASE OtherProcess BY <4>5 DEF OtherProcess
      <4> QED BY <2>2, <4>1, <4>2, <4>3, <4>4, <4>5, Zenon
    <3> QED BY <3>1
  <2>3. CASE ExitNoSetup \/ SkipWizard
    <3>1. CASE ExitNoSetup BY <3>1 DEF ExitNoSetup
    <3>2. CASE SkipWizard BY <3>2 DEF SkipWizard
    <3> QED BY <2>3, <3>1, <3>2
  <2>4. ASSUME NEW name \in Names, CreateAdmin(name) PROVE WizardInv' BY <2>4 DEF CreateAdmin
  <2>5. CASE SaveSettings
    <3>1. settings' \in Settings BY <2>5 DEF SaveSettings, Settings, Values
    <3> QED BY <2>5, <3>1 DEF SaveSettings
  <2>6. CASE Finalize BY <2>6 DEF Finalize
  <2>7. CASE LoadSettings BY <2>7 DEF LoadSettings
  <2>8. CASE KeepFiles \/ OpenCert \/ WriteCert \/ OpenKey \/ WriteKey \/ Run
    <3>1. /\ UNCHANGED <<web, admins, settings, complete>> /\ phase' # "down"
          /\ phase \in {"loaded", "certOpen", "certDone", "keyOpen", "keyDone"}
      <4>1. CASE KeepFiles BY <4>1 DEF KeepFiles
      <4>2. CASE OpenCert BY <4>2 DEF OpenCert
      <4>3. CASE WriteCert BY <4>3 DEF WriteCert
      <4>4. CASE OpenKey BY <4>4 DEF OpenKey
      <4>5. CASE WriteKey BY <4>5 DEF WriteKey
      <4>6. CASE Run BY <4>6 DEF Run
      <4> QED BY <2>8, <4>1, <4>2, <4>3, <4>4, <4>5, <4>6, Zenon
    <3> QED BY <3>1
  <2>9. CASE Serve \/ Panic \/ Stop \/ Remove
    <3>1. /\ UNCHANGED <<admins, settings, complete>>
          /\ \/ UNCHANGED <<phase, web>>
             \/ phase = "running" /\ phase' = "running"
             \/ phase' = "down" /\ web' = "off"
      <4>1. CASE Serve BY <4>1 DEF Serve
      <4>2. CASE Panic BY <4>2 DEF Panic
      <4>3. CASE Stop BY <4>3 DEF Stop
      <4>4. CASE Remove BY <4>4 DEF Remove
      <4> QED BY <2>9, <4>1, <4>2, <4>3, <4>4, Zenon
    <3> QED BY <3>1
  <2>10. ASSUME NEW req \in Requests, PutSettings(req) PROVE WizardInv'
    <3>1. \A k \in Keys \cap DOMAIN req : req[k] \in Values(k) BY Zenon DEF Requests
    <3>2. settings' = [k \in Keys |-> IF k \in DOMAIN req THEN req[k] ELSE settings[k]]
      BY <2>10, Zenon DEF PutSettings
    <3>3. \A k \in Keys : settings[k] # "absent" /\ settings[k] \in Values(k) \cup {"absent"}
      BY <2>10, Zenon DEF PutSettings, Settings
    <3>4. \A k \in Keys : settings'[k] \in Values(k) BY <3>1, <3>2, <3>3, Zenon
    <3>5. \A k \in Keys : Values(k) \subseteq {"usable", "unusable", "nonpositive"} BY DEF Values
    <3>6. settings' \in Settings /\ \A k \in Keys : settings'[k] # "absent"
      BY <3>2, <3>4, <3>5 DEF Settings
    <3> QED BY <2>10, <3>6, Zenon DEF PutSettings
  <2> QED BY <2>1, <2>2, <2>3, <2>4, <2>5, <2>6, <2>7, <2>8, <2>9, <2>10, Zenon DEF Next, Prepare
<1>SetupIsComplete. Spec => []CompleteIsComplete
  <2>1. Init => WizardInv
    <3> SUFFICES ASSUME Init PROVE WizardInv OBVIOUS
    <3>1. settings \in Settings BY DEF Init, NoSettings, Settings, Values
    <3> QED BY <3>1 DEF Init, WizardInv
  <2>2. WizardInv => CompleteIsComplete BY Zenon DEF WizardInv, CompleteIsComplete
  <2> QED BY <2>1, <2>2, <1>WizardStep, PTL DEF Spec
<1> QED
    BY <1>SetupIsComplete

-----------------------------------------------------------------------------
(* PairMatches for every behaviour: a process that died anywhere but       *)
(* between creating and writing the key file leaves the next one with two  *)
(* halves of one pair (tlscert/selfsigned.go).                             *)
THEOREM PairAlwaysMatches == Spec => []PairMatches
(* The invariant of the files is inductive: a key is there only with its   *)
(* certificate, except between the two writes.                             *)
<1>FilesStep. FilesInv /\ [Next]_vars => FilesInv'
  <2> SUFFICES ASSUME FilesInv, [Next]_vars PROVE FilesInv' OBVIOUS
  <2> USE StartupAssumption DEF FilesInv, Goto, database, files, Pairs, Absent, Empty
  <2>1. CASE UNCHANGED vars BY <2>1, Zenon DEF vars
  <2>2. CASE Open \/ MigrateStep \/ Opened \/ OpenFails \/ OtherProcess
    BY <2>2, Zenon DEF Open, MigrateStep, Opened, OpenFails, OtherProcess
  <2>3. CASE ExitNoSetup \/ SkipWizard \/ SaveSettings \/ Finalize
    BY <2>3, Zenon DEF ExitNoSetup, SkipWizard, SaveSettings, Finalize
  <2>4. ASSUME NEW name \in Names, CreateAdmin(name) PROVE FilesInv' BY <2>4 DEF CreateAdmin
  <2>5. CASE LoadSettings BY <2>5 DEF LoadSettings
  <2>6. CASE KeepFiles BY <2>6 DEF KeepFiles, Present
  <2>7. CASE OpenCert
    <3>1. pairs' = pairs + 1 /\ pairs < MaxPairs /\ phase = "loaded" /\ phase' = "certOpen" /\ UNCHANGED <<key, spoilt>>
      BY <2>7 DEF OpenCert
    <3>2. pairs' \in 0 .. MaxPairs /\ pairs' \in 1 .. MaxPairs BY <3>1
    <3>3. "files" \notin spoilt => key = Absent
      <4>1. "files" \notin spoilt /\ key # Absent => cert # Absent BY <3>1
      <4> QED BY <2>7, <4>1 DEF OpenCert, Present
    <3> QED BY <3>1, <3>2, <3>3
  <2>8. CASE WriteCert BY <2>8 DEF WriteCert
  <2>9. CASE OpenKey BY <2>9 DEF OpenKey
  <2>10. CASE WriteKey BY <2>10 DEF WriteKey
  <2>11. CASE Run \/ Serve \/ Panic BY <2>11 DEF Run, Serve, Panic
  <2>12. ASSUME NEW req \in Requests, PutSettings(req) PROVE FilesInv' BY <2>12 DEF PutSettings
  <2>13. CASE Stop BY <2>13 DEF Stop
  <2>14. CASE Remove BY <2>14 DEF Remove
  <2> QED BY <2>1, <2>2, <2>3, <2>4, <2>5, <2>6, <2>7, <2>8, <2>9, <2>10, <2>11, <2>12, <2>13, <2>14, Zenon
          DEF Next, Prepare
<1>PairAlwaysMatches. Spec => []PairMatches
  <2>1. Init => FilesInv BY StartupAssumption DEF Init, FilesInv, Pairs, Absent, Empty
  <2>2. FilesInv => PairMatches BY DEF FilesInv, PairMatches, Absent
  <2> QED BY <2>1, <2>2, <1>FilesStep, PTL DEF Spec
<1> QED
    BY <1>PairAlwaysMatches

(***************************************************************************)
(* ServiceInstall.                                                         *)
(***************************************************************************)

Calm == "raced" \notin mishaps /\ "mixed" \notin mishaps

(* A database that is not whole has no content.                            *)
TreeOK(t) == t \in Tree /\ (t.db # "whole" => t.data = {})

(* Where everything recorded is: in either directory, but before and       *)
(* during the copy it must be in the source, and after it in the target.   *)
Kept ==
    /\ recorded \subseteq Holds(tree["dev"]) \cup Holds(tree["system"])
    /\ stage \in {"migrate", "copy"} => recorded \subseteq Holds(tree["dev"])
    /\ stage = "remove" => recorded \subseteq Holds(tree["system"])

(* What cp has copied.                                                     *)
CopiedOK ==
    stage = "copy" =>
        /\ "db" \in copied => /\ tree["system"].db = tree["dev"].db
                              /\ tree["system"].data = tree["dev"].data
        /\ "wal" \in copied => /\ tree["dev"].wal /\ tree["system"].wal
                               /\ tree["system"].log = tree["dev"].log

(* Without a race no process runs during an install, and one that runs has *)
(* its database open.                                                      *)
ProcOK ==
    \A d \in Dirs : proc[d] # "none" =>
        stage = "idle" /\ tree[d].db = "whole" /\ tree[d].wal /\ ~Mixed(tree[d])

LossInv ==
    /\ \A d \in Dirs : TreeOK(tree[d])
    /\ tree \in [Dirs -> Tree] /\ proc \in [Dirs -> Kinds \cup {"none"}]
    /\ install \in [dir : Dirs, root : BOOLEAN] /\ unit \in Units
    /\ Calm => ProcOK /\ CopiedOK /\ Kept

-----------------------------------------------------------------------------
(* store.Open changes nothing that could be read, and a database that      *)
(* opens is whole.                                                         *)
LEMMA OpenedKeeps ==
    ASSUME NEW t, TreeOK(t)
    PROVE  /\ TreeOK(OpenedTree(t)) /\ Holds(OpenedTree(t)) = Holds(t)
           /\ OpenedTree(t).db # "broken" => OpenedTree(t).db = "whole" /\ OpenedTree(t).wal /\ ~Mixed(OpenedTree(t))
<1>1. CASE t.db = "broken"
  BY <1>1 DEF OpenedTree
<1>2. CASE t.db # "broken" /\ Mixed(t)
  <2>1. OpenedTree(t) = [t EXCEPT !.db = "broken", !.data = {}] BY <1>2 DEF OpenedTree
  <2>2. TreeOK(OpenedTree(t)) /\ OpenedTree(t).db = "broken" BY <2>1, Zenon DEF TreeOK, Tree, Content
  <2>3. Holds(t) = {} BY <1>2 DEF Holds
  <2>4. Holds(OpenedTree(t)) = Holds(t) BY <2>2, <2>3 DEF Holds
  <2> QED BY <2>2, <2>4, Zenon
<1>3. CASE t.db # "broken" /\ ~Mixed(t)
  <2>1. OpenedTree(t) = [here |-> TRUE, db |-> "whole", data |-> t.data, wal |-> TRUE, log |-> Holds(t)]
    BY <1>3 DEF OpenedTree
  <2>2. Holds(t) \in Content /\ t.data \subseteq Holds(t)
    BY <1>3 DEF Holds, Mixed, TreeOK, Tree, Content
  <2>3. TreeOK(OpenedTree(t)) BY <2>1, <2>2 DEF TreeOK, Tree
  <2>4. ~Mixed(OpenedTree(t)) BY <2>1, <2>2 DEF Mixed
  <2>5. Holds(OpenedTree(t)) = Holds(t) BY <2>1, <2>4 DEF Holds
  <2>6. OpenedTree(t).db = "whole" /\ OpenedTree(t).wal BY <2>1
  <2> QED BY <2>3, <2>4, <2>5, <2>6, Zenon
<1> QED BY <1>1, <1>2, <1>3

(* Closing a database changes nothing that could be read.                  *)
LEMMA ClosedKeeps ==
    ASSUME NEW t, TreeOK(t)
    PROVE  /\ TreeOK(Closed(t)) /\ Holds(t) \subseteq Holds(Closed(t))
           /\ Holds(t) # {} => Holds(Closed(t)) = Holds(t)
<1>1. CASE t.db = "whole" /\ t.wal
  <2>1. Closed(t) = [t EXCEPT !.data = t.log, !.wal = FALSE, !.log = {}] BY <1>1 DEF Closed
  <2>2. TreeOK(Closed(t)) BY <1>1, <2>1, Zenon DEF TreeOK, Tree, Content
  <2>3. Closed(t).db = "whole" /\ Closed(t).wal = FALSE /\ Closed(t).data = t.log
    BY <1>1, <2>1 DEF TreeOK, Tree
  <2>4. Holds(Closed(t)) = t.log BY <2>3 DEF Holds, Mixed
  <2>5. Holds(t) \in {{}, t.log} BY <1>1 DEF Holds
  <2> QED BY <2>2, <2>4, <2>5
<1>2. CASE ~(t.db = "whole" /\ t.wal) BY <1>2 DEF Closed
<1> QED BY <1>1, <1>2

-----------------------------------------------------------------------------
(* LossInv is inductive.                                                   *)
LEMMA LossStep == LossInv /\ [InstallNext]_installVars => LossInv'
(* A change of one directory between installs that loses nothing keeps     *)
(* the invariant.                                                          *)
<1>IdleStep.
    ASSUME LossInv, NEW d \in Dirs, NEW t, TreeOK(t),
           tree' = [tree EXCEPT ![d] = t], install' \in [dir : Dirs, root : BOOLEAN], unit' \in Units,
           proc' \in [Dirs -> Kinds \cup {"none"}], \A e \in Dirs \ {d} : proc'[e] \in {proc[e], "none"},
           Calm' => /\ Calm /\ stage = "idle" /\ stage' = "idle"
                    /\ Holds(tree[d]) \subseteq Holds(t) /\ recorded' \subseteq recorded \cup Holds(t)
                    /\ proc'[d] # "none" => t.db = "whole" /\ t.wal /\ ~Mixed(t)
    PROVE  LossInv'
  <2> USE <1>IdleStep
  <2>1. tree'[d] = t /\ \A e \in Dirs \ {d} : tree'[e] = tree[e] BY DEF LossInv
  <2>2. tree' \in [Dirs -> Tree] BY Zenon DEF LossInv, TreeOK
  <2>3. \A e \in Dirs : TreeOK(tree'[e]) BY <2>1 DEF LossInv
  <2>4. ASSUME Calm' PROVE ProcOK' /\ CopiedOK' /\ Kept'
    <3>1. ProcOK /\ Kept /\ stage' = "idle" BY <2>4 DEF LossInv
    <3>2. ProcOK'
      <4> SUFFICES ASSUME NEW e \in Dirs, proc'[e] # "none"
                   PROVE  stage' = "idle" /\ tree'[e].db = "whole" /\ tree'[e].wal /\ ~Mixed(tree'[e])
        BY Zenon DEF ProcOK, Mixed
      <4>1. CASE e = d BY <2>1, <2>4, <3>1, <4>1
      <4>2. CASE e # d BY <2>1, <3>1, <4>2 DEF ProcOK
      <4> QED BY <4>1, <4>2
    <3>3. CopiedOK' BY <3>1 DEF CopiedOK
    <3>4. Holds(tree["dev"]) \subseteq Holds(tree'["dev"]) /\ Holds(tree["system"]) \subseteq Holds(tree'["system"])
      BY <2>1, <2>4 DEF Dirs
    <3>5. Holds(t) \subseteq Holds(tree'["dev"]) \cup Holds(tree'["system"]) BY <2>1 DEF Dirs
    <3>6. recorded' \subseteq Holds(tree'["dev"]) \cup Holds(tree'["system"])
      BY <2>4, <3>1, <3>4, <3>5 DEF Kept
    <3>7. Holds(tree["dev"])' = Holds(tree'["dev"]) /\ Holds(tree["system"])' = Holds(tree'["system"])
      BY Zenon DEF Holds, Mixed
    <3>8. Kept' BY <3>1, <3>6, <3>7 DEF Kept
    <3> QED BY <3>2, <3>3, <3>8
  <2>5. \A e \in Dirs : TreeOK(tree[e])' BY <2>3 DEF TreeOK
  <2> QED BY <2>2, <2>4, <2>5 DEF LossInv
(* A step that changes neither files nor processes.                        *)
<1>StillStep.
    ASSUME LossInv, UNCHANGED <<tree, proc, recorded>>, Calm' => Calm,
           install' \in [dir : Dirs, root : BOOLEAN], unit' \in Units,
           stage' # "idle" => stage # "idle" \/ \A d \in Dirs : proc[d] = "none",
           stage' \in {"migrate", "copy", "remove"} => UNCHANGED <<stage, copied>>
    PROVE  LossInv'
  <2> USE <1>StillStep
  <2>1. \A d \in Dirs : TreeOK(tree[d])' BY Zenon DEF LossInv, TreeOK
  <2>2. tree' \in [Dirs -> Tree] /\ proc' \in [Dirs -> Kinds \cup {"none"}] BY DEF LossInv
  <2>3. ASSUME Calm' PROVE ProcOK' /\ CopiedOK' /\ Kept'
    <3>1. ProcOK /\ CopiedOK /\ Kept BY <2>3 DEF LossInv
    <3>2. \A d \in Dirs : Mixed(tree[d])' = Mixed(tree[d]) BY DEF Mixed
    <3>3. \A d \in Dirs : proc[d] # "none" => stage' = "idle" BY <3>1 DEF ProcOK
    <3>4. ProcOK' BY <3>1, <3>2, <3>3 DEF ProcOK
    <3>5. CopiedOK' BY <3>1 DEF CopiedOK
    <3>6. Holds(tree["dev"])' = Holds(tree["dev"]) /\ Holds(tree["system"])' = Holds(tree["system"]) BY Zenon DEF Holds, Mixed
    <3>7. Kept' BY <3>1, <3>6 DEF Kept
    <3> QED BY <3>4, <3>5, <3>7
  <2> QED BY <2>1, <2>2, <2>3 DEF LossInv
(* The processes: starting, recording, ending.                             *)
<1>OpenStep.
    ASSUME LossInv, NEW d \in Dirs, NEW kind \in Kinds, NEW account \in Accounts, OpenAt(d, kind, account),
           UNCHANGED <<command, manager, recorded>>, Calm' => Calm /\ stage = "idle"
    PROVE  LossInv'
  <2> USE <1>OpenStep
  <2>1. TreeOK(tree[d]) /\ UNCHANGED <<install, unit, stage>> BY DEF LossInv, command, manager
  <2>2. /\ TreeOK(OpenedTree(tree[d])) /\ Holds(tree[d]) \subseteq Holds(OpenedTree(tree[d]))
        /\ OpenedTree(tree[d]).db # "broken" =>
              OpenedTree(tree[d]).db = "whole" /\ OpenedTree(tree[d]).wal /\ ~Mixed(OpenedTree(tree[d]))
    BY <2>1, OpenedKeeps, Zenon
  <2>3. tree' = [tree EXCEPT ![d] = OpenedTree(tree[d])] BY DEF OpenAt
  <2>4. /\ proc' \in [Dirs -> Kinds \cup {"none"}] /\ \A e \in Dirs \ {d} : proc'[e] = proc[e]
        /\ proc'[d] # "none" => OpenedTree(tree[d]).db # "broken"
    BY DEF OpenAt, LossInv
  <2>5. install' \in [dir : Dirs, root : BOOLEAN] /\ unit' \in Units BY <2>1 DEF LossInv
  <2> QED BY <2>1, <2>2, <2>3, <2>4, <2>5, <1>IdleStep, Zenon
(* What a process commits is in the log of its open database.              *)
<1>CommitStep.
    ASSUME LossInv, NEW d \in Dirs, NEW b \in Batches \cup Switches, proc[d] # "none", Commit(d, b),
           proc' = proc \/ proc' = [proc EXCEPT ![d] = "running"], Calm' => Calm
    PROVE  LossInv'
  <2> USE <1>CommitStep
  <2> DEFINE t == [tree[d] EXCEPT !.log = IF tree[d].wal THEN @ \cup {b} ELSE @]
  <2>1. TreeOK(tree[d]) BY DEF LossInv
  <2>2. TreeOK(t) /\ t.db = tree[d].db /\ t.data = tree[d].data /\ t.wal = tree[d].wal
    BY <2>1 DEF TreeOK, Tree, Content
  <2>3. tree[d].wal => t.log = tree[d].log \cup {b} BY <2>1 DEF TreeOK, Tree
  <2>4. tree' = [tree EXCEPT ![d] = t] BY DEF Commit
  <2>5. Calm' => Calm /\ ProcOK BY DEF LossInv
  <2>6. Calm' => tree[d].db = "whole" /\ tree[d].wal /\ ~Mixed(tree[d]) /\ stage = "idle"
    BY <2>5 DEF ProcOK
  <2>7. Calm' => ~Mixed(t) /\ Holds(t) = tree[d].log \cup {b} /\ Holds(tree[d]) = tree[d].log
    BY <2>2, <2>3, <2>6 DEF Mixed, Holds
  <2>8. /\ UNCHANGED <<install, unit, stage>> /\ recorded' = recorded \cup {b}
        /\ install \in [dir : Dirs, root : BOOLEAN] /\ unit \in Units
    BY DEF Commit, LossInv, command, manager
  <2>9. proc' \in [Dirs -> Kinds \cup {"none"}] /\ \A e \in Dirs \ {d} : proc'[e] = proc[e]
    BY DEF LossInv, Kinds
  <2> HIDE DEF t
  <2>10. Calm' => /\ Calm /\ stage = "idle" /\ stage' = "idle"
                  /\ Holds(tree[d]) \subseteq Holds(t) /\ recorded' \subseteq recorded \cup Holds(t)
                  /\ proc'[d] # "none" => t.db = "whole" /\ t.wal /\ ~Mixed(t)
    BY <2>2, <2>5, <2>6, <2>7, <2>8, Zenon
  <2> QED BY <2>2, <2>4, <2>8, <2>9, <2>10, <1>IdleStep, Zenon
(* A process ends and its database is closed, or left as it is.            *)
<1>EndStep.
    ASSUME LossInv, NEW d \in Dirs, proc[d] # "none", proc' = [proc EXCEPT ![d] = "none"],
           tree' = tree \/ tree' = [tree EXCEPT ![d] = Closed(tree[d])],
           UNCHANGED <<stage, install, copied, recorded, mishaps>>, unit' \in Units
    PROVE  LossInv'
  <2> USE <1>EndStep
  <2>1. TreeOK(tree[d]) /\ install \in [dir : Dirs, root : BOOLEAN] BY DEF LossInv
  <2>2. TreeOK(Closed(tree[d])) /\ Holds(tree[d]) \subseteq Holds(Closed(tree[d])) BY <2>1, ClosedKeeps
  <2>3. PICK t \in {tree[d], Closed(tree[d])} : tree' = [tree EXCEPT ![d] = t] BY DEF LossInv
  <2>4. TreeOK(t) /\ Holds(tree[d]) \subseteq Holds(t) BY <2>1, <2>2, <2>3
  <2>5. Calm' => Calm /\ stage = "idle" BY DEF Calm, LossInv, ProcOK
  <2>6. /\ proc' \in [Dirs -> Kinds \cup {"none"}] /\ proc'[d] = "none"
        /\ \A e \in Dirs \ {d} : proc'[e] = proc[e]
    BY DEF LossInv
  <2>7. Calm' => /\ Calm /\ stage = "idle" /\ stage' = "idle"
                 /\ Holds(tree[d]) \subseteq Holds(t) /\ recorded' \subseteq recorded \cup Holds(t)
                 /\ proc'[d] # "none" => t.db = "whole" /\ t.wal /\ ~Mixed(t)
    BY <2>4, <2>5, <2>6
  <2> QED BY <2>1, <2>3, <2>4, <2>6, <2>7, <1>IdleStep, Zenon
(* The steps of an install: what the two directories hold after it.        *)
<1>InstallStep.
    ASSUME LossInv, NEW dev, NEW sys, TreeOK(dev), TreeOK(sys),
           tree' = [tree EXCEPT !["dev"] = dev, !["system"] = sys],
           proc' \in [Dirs -> Kinds \cup {"none"}],
           install' \in [dir : Dirs, root : BOOLEAN], unit' \in Units,
           Calm' => /\ \A d \in Dirs : proc'[d] = "none"
                    /\ recorded' \subseteq Holds(dev) \cup Holds(sys)
                    /\ stage' \in {"migrate", "copy"} => recorded' \subseteq Holds(dev)
                    /\ stage' = "remove" => recorded' \subseteq Holds(sys)
                    /\ stage' = "copy" => /\ "db" \in copied' => sys.db = dev.db /\ sys.data = dev.data
                                          /\ "wal" \in copied' => dev.wal /\ sys.wal /\ sys.log = dev.log
    PROVE  LossInv'
  <2> USE <1>InstallStep
  <2>1. tree'["dev"] = dev /\ tree'["system"] = sys BY DEF LossInv, Dirs
  <2>2. tree' \in [Dirs -> Tree] BY DEF LossInv, TreeOK, Dirs
  <2>3. \A d \in Dirs : TreeOK(tree[d])' BY <2>1, Zenon DEF Dirs, TreeOK
  <2>4. Holds(tree["dev"])' = Holds(dev) /\ Holds(tree["system"])' = Holds(sys)
    <3>1. Holds(tree["dev"])' = Holds(tree'["dev"]) /\ Holds(tree["system"])' = Holds(tree'["system"])
      BY Zenon DEF Holds, Mixed
    <3> QED BY <2>1, <3>1
  <2>5. Calm' => ProcOK' BY DEF ProcOK
  <2>6. Calm' => CopiedOK' BY <2>1 DEF CopiedOK
  <2>7. Calm' => Kept' BY <2>4, Zenon DEF Kept
  <2> QED BY <2>2, <2>3, <2>5, <2>6, <2>7 DEF LossInv
(* Facts every step of an install has.                                     *)
<1>Installing.
    ASSUME LossInv, stage # "idle"
    PROVE  /\ TreeOK(tree["dev"]) /\ TreeOK(tree["system"])
           /\ proc \in [Dirs -> Kinds \cup {"none"}] /\ unit \in Units
           /\ install \in [dir : Dirs, root : BOOLEAN] /\ Default \in [dir : Dirs, root : BOOLEAN]
           /\ Calm => (\A d \in Dirs : proc[d] = "none") /\ CopiedOK /\ Kept
    BY <1>Installing DEF LossInv, ProcOK, Dirs, Default
(* What Proceed does to the locals of the install command.                 *)
<1>GotoTyped.
    ASSUME LossInv, NEW p, Proceed(p)
    PROVE  install' \in [dir : Dirs, root : BOOLEAN] /\ stage' = p /\ copied' = {}
    BY <1>GotoTyped DEF Proceed, LossInv, Default, Dirs
(* os.Rename moves everything at once.                                     *)
<1>RenameStep. ASSUME LossInv, Rename PROVE LossInv'
  <2> USE <1>RenameStep
  <2>1. stage = "migrate" /\ Proceed("verify") /\ stage # "idle" BY DEF Rename
  <2>2. Calm' => Calm BY DEF Rename, Calm
  <2>3. tree' = [tree EXCEPT !["dev"] = Nothing, !["system"] = tree["dev"]]
    BY Zenon DEF Rename, LossInv, Dirs
  <2>4. TreeOK(Nothing) BY DEF TreeOK, Nothing, Tree, Content
  <2>5. proc' \in [Dirs -> Kinds \cup {"none"}] /\ (Calm' => \A d \in Dirs : proc'[d] = "none")
    BY <2>1, <2>2, <1>Installing DEF Rename, Dirs
  <2>6. Calm' => recorded' \subseteq Holds(tree["dev"]) BY <2>1, <2>2, <1>Installing DEF Rename, Kept
  <2>7. unit' \in Units BY <2>1, <1>Installing DEF Rename, manager
  <2>8. /\ TreeOK(tree["dev"]) /\ install' \in [dir : Dirs, root : BOOLEAN] /\ stage' = "verify"
    BY <2>1, <1>Installing, <1>GotoTyped
  <2> QED BY <2>3, <2>4, <2>5, <2>6, <2>7, <2>8, <1>InstallStep, Zenon
(* MkdirAll touches no file.                                               *)
<1>MakeTargetStep. ASSUME LossInv, MakeTarget PROVE LossInv'
  <2> USE <1>MakeTargetStep
  <2> DEFINE sys == [tree["system"] EXCEPT !.here = TRUE]
  <2>1. stage = "migrate" /\ Proceed("copy") /\ stage # "idle" BY DEF MakeTarget
  <2>2. Calm' => Calm BY DEF MakeTarget, Calm
  <2>3. tree' = [tree EXCEPT !["dev"] = tree["dev"], !["system"] = sys] BY Zenon DEF MakeTarget, LossInv, Dirs
  <2>4. TreeOK(sys) BY <2>1, <1>Installing, Zenon DEF TreeOK, Tree
  <2>5. UNCHANGED <<proc, recorded, unit>> BY DEF MakeTarget, manager
  <2>6. Calm' => recorded' \subseteq Holds(tree["dev"]) BY <2>1, <2>2, <2>5, <1>Installing DEF Kept
  <2> HIDE DEF sys
  <2>7. /\ TreeOK(tree["dev"]) /\ install' \in [dir : Dirs, root : BOOLEAN] /\ stage' = "copy" /\ copied' = {}
        /\ proc' \in [Dirs -> Kinds \cup {"none"}] /\ unit' \in Units
    BY <2>1, <2>5, <1>Installing, <1>GotoTyped
  <2>8. Calm' => \A d \in Dirs : proc'[d] = "none" BY <2>1, <2>2, <2>5, <1>Installing
  <2> QED BY <2>3, <2>4, <2>6, <2>7, <2>8, <1>InstallStep, Zenon
(* While cp runs the source is left alone and has everything.              *)
<1>CopyStep.
    ASSUME LossInv, stage = "copy", NEW sys, TreeOK(sys), tree' = [tree EXCEPT !["system"] = sys],
           UNCHANGED <<proc, recorded, manager>>, Calm' => Calm, stage' \in {"copy", "idle"},
           install' \in [dir : Dirs, root : BOOLEAN],
           stage' = "copy" /\ CopiedOK =>
               /\ "db" \in copied' => sys.db = tree["dev"].db /\ sys.data = tree["dev"].data
               /\ "wal" \in copied' => tree["dev"].wal /\ sys.wal /\ sys.log = tree["dev"].log
    PROVE  LossInv'
  <2> USE <1>CopyStep
  <2>1. stage # "idle" OBVIOUS
  <2>2. tree' = [tree EXCEPT !["dev"] = tree["dev"], !["system"] = sys] BY Zenon DEF LossInv, Dirs
  <2>3. Calm' => (\A d \in Dirs : proc'[d] = "none") /\ CopiedOK /\ recorded' \subseteq Holds(tree["dev"])
    BY <2>1, <1>Installing DEF Kept
  <2>4. /\ TreeOK(tree["dev"]) /\ proc' \in [Dirs -> Kinds \cup {"none"}] /\ unit' \in Units
    BY <2>1, <1>Installing DEF manager
  <2> QED BY <2>2, <2>3, <2>4, <1>InstallStep, Zenon
(* cp writes the database,                                                 *)
<1>CopyDBStep. ASSUME LossInv, CopyDB PROVE LossInv'
  <2> USE <1>CopyDBStep
  <2> DEFINE sys == [tree["system"] EXCEPT !.db = tree["dev"].db, !.data = tree["dev"].data]
  <2>1. stage = "copy" /\ stage # "idle" /\ copied' = copied \cup {"db"} BY DEF CopyDB
  <2>2. TreeOK(sys) /\ sys.wal = tree["system"].wal /\ sys.log = tree["system"].log
        /\ sys.db = tree["dev"].db /\ sys.data = tree["dev"].data
    BY <2>1, <1>Installing, Zenon DEF TreeOK, Tree
  <2>3. tree' = [tree EXCEPT !["system"] = sys] BY Zenon DEF CopyDB, LossInv, Dirs
  <2>4. UNCHANGED <<proc, stage, install, manager, recorded, mishaps>> BY DEF CopyDB
  <2>5. install' \in [dir : Dirs, root : BOOLEAN] /\ (Calm' => Calm) BY <2>4 DEF LossInv, Calm
  <2>6. CopiedOK => ("wal" \in copied' => tree["dev"].wal /\ sys.wal /\ sys.log = tree["dev"].log)
    BY <2>1, <2>2 DEF CopiedOK
  <2> HIDE DEF sys
  <2> QED BY <2>1, <2>2, <2>3, <2>4, <2>5, <2>6, <1>CopyStep, Zenon
(* the log,                                                                *)
<1>CopyLogStep. ASSUME LossInv, CopyLog PROVE LossInv'
  <2> USE <1>CopyLogStep
  <2> DEFINE sys == [tree["system"] EXCEPT !.wal = TRUE, !.log = tree["dev"].log]
  <2>1. stage = "copy" /\ stage # "idle" /\ copied' = copied \cup {"wal"} /\ tree["dev"].wal BY DEF CopyLog
  <2>2. TreeOK(sys) /\ sys.wal /\ sys.log = tree["dev"].log
        /\ sys.db = tree["system"].db /\ sys.data = tree["system"].data
    BY <2>1, <1>Installing, Zenon DEF TreeOK, Tree
  <2>3. tree' = [tree EXCEPT !["system"] = sys] BY Zenon DEF CopyLog, LossInv, Dirs
  <2>4. UNCHANGED <<proc, stage, install, manager, recorded, mishaps>> BY DEF CopyLog
  <2>5. install' \in [dir : Dirs, root : BOOLEAN] /\ (Calm' => Calm) BY <2>4 DEF LossInv, Calm
  <2>6. CopiedOK => ("db" \in copied' => sys.db = tree["dev"].db /\ sys.data = tree["dev"].data)
    BY <2>1, <2>2 DEF CopiedOK
  <2> HIDE DEF sys
  <2> QED BY <2>1, <2>2, <2>3, <2>4, <2>5, <2>6, <1>CopyStep, Zenon
(* or part of one of them.                                                 *)
<1>CopyPartStep. ASSUME LossInv, CopyPart PROVE LossInv'
  <2> USE <1>CopyPartStep
  <2>1. stage = "copy" /\ stage # "idle" /\ Proceed("idle") /\ UNCHANGED <<proc, manager, recorded>>
        /\ mishaps' = mishaps \cup {"cut"}
    BY DEF CopyPart
  <2>2. \E sys : TreeOK(sys) /\ tree' = [tree EXCEPT !["system"] = sys]
    <3>1. ASSUME NEW db \in {"broken", "whole"},
                 tree' = [tree EXCEPT !["system"].db = db, !["system"].data = {}]
          PROVE  \E sys : TreeOK(sys) /\ tree' = [tree EXCEPT !["system"] = sys]
      <4> DEFINE sys == [tree["system"] EXCEPT !.db = db, !.data = {}]
      <4>1. TreeOK(sys) BY <2>1, <1>Installing, Zenon DEF TreeOK, Tree, Content
      <4>2. tree' = [tree EXCEPT !["system"] = sys] BY <3>1, Zenon DEF LossInv, Dirs
      <4> QED BY <4>1, <4>2, Zenon
    <3>2. ASSUME NEW log \in SUBSET tree["dev"].log,
                 tree' = [tree EXCEPT !["system"].wal = TRUE, !["system"].log = log]
          PROVE  \E sys : TreeOK(sys) /\ tree' = [tree EXCEPT !["system"] = sys]
      <4> DEFINE sys == [tree["system"] EXCEPT !.wal = TRUE, !.log = log]
      <4>1. TreeOK(sys) BY <2>1, <1>Installing, Zenon DEF TreeOK, Tree, Content
      <4>2. tree' = [tree EXCEPT !["system"] = sys] BY <3>2, Zenon DEF LossInv, Dirs
      <4> QED BY <4>1, <4>2, Zenon
    <3> QED BY <3>1, <3>2, Zenon DEF CopyPart
  <2>3. PICK sys : TreeOK(sys) /\ tree' = [tree EXCEPT !["system"] = sys] BY <2>2, Zenon
  <2>4. install' \in [dir : Dirs, root : BOOLEAN] /\ stage' = "idle" /\ (Calm' => Calm)
    BY <2>1, <1>GotoTyped DEF Calm
  <2> QED BY <2>1, <2>3, <2>4, <1>CopyStep, Zenon
(* cp has ended well: the target has what the source has, or is mixed.     *)
<1>EndCopyStep. ASSUME LossInv, EndCopy PROVE LossInv'
  <2> USE <1>EndCopyStep
  <2>1. /\ stage = "copy" /\ stage # "idle" /\ Proceed("remove") /\ UNCHANGED <<tree, proc, manager, recorded>>
        /\ "db" \in copied /\ (tree["dev"].wal => "wal" \in copied)
    BY DEF EndCopy
  <2>2. Calm' => Calm /\ ~Mixed(tree["system"]) BY DEF EndCopy, Calm
  <2>3. Calm' => (\A d \in Dirs : proc'[d] = "none") /\ CopiedOK /\ recorded' \subseteq Holds(tree["dev"])
    BY <2>1, <2>2, <1>Installing DEF Kept
  <2>4. Calm' => Holds(tree["dev"]) \subseteq Holds(tree["system"])
    <3> SUFFICES ASSUME Calm' PROVE Holds(tree["dev"]) \subseteq Holds(tree["system"]) OBVIOUS
    <3>1. tree["system"].db = tree["dev"].db /\ tree["system"].data = tree["dev"].data
      BY <2>1, <2>3 DEF CopiedOK
    <3>2. CASE tree["dev"].wal
      <4>1. tree["system"].wal /\ tree["system"].log = tree["dev"].log BY <2>1, <2>3, <3>2 DEF CopiedOK
      <4> QED BY <3>1, <3>2, <4>1, Zenon DEF Holds, Mixed
    <3>3. CASE ~tree["dev"].wal BY <2>2, <3>1, <3>3, Zenon DEF Holds, Mixed
    <3> QED BY <3>2, <3>3
  <2>5. tree' = [tree EXCEPT !["dev"] = tree["dev"], !["system"] = tree["system"]] BY <2>1 DEF LossInv, Dirs
  <2>6. /\ TreeOK(tree["dev"]) /\ TreeOK(tree["system"]) /\ proc' \in [Dirs -> Kinds \cup {"none"}]
        /\ install' \in [dir : Dirs, root : BOOLEAN] /\ unit' \in Units /\ stage' = "remove"
    BY <2>1, <1>Installing, <1>GotoTyped DEF manager
  <2>7. Calm' => recorded' \subseteq Holds(tree["system"]) BY <2>3, <2>4
  <2> QED BY <2>3, <2>5, <2>6, <2>7, <1>InstallStep, Zenon
(* os.RemoveAll touches only the source, and the target has everything.    *)
<1>RemoveAllStep. ASSUME LossInv, RemoveAll PROVE LossInv'
  <2> USE <1>RemoveAllStep
  <2>1. stage = "remove" /\ stage # "idle" /\ UNCHANGED <<manager, recorded>> BY DEF RemoveAll
  <2>2. Calm' => Calm BY DEF RemoveAll, Calm
  <2>3. \E dev : TreeOK(dev) /\ tree' = [tree EXCEPT !["dev"] = dev]
    <3>1. CASE tree' = [tree EXCEPT !["dev"] = Nothing]
      <4>1. TreeOK(Nothing) BY DEF TreeOK, Nothing, Tree, Content
      <4> QED BY <3>1, <4>1, Zenon
    <3>2. CASE tree' = [tree EXCEPT !["dev"].db = "absent", !["dev"].data = {}]
      <4> DEFINE dev == [tree["dev"] EXCEPT !.db = "absent", !.data = {}]
      <4>1. TreeOK(dev) BY <2>1, <1>Installing, Zenon DEF TreeOK, Tree, Content
      <4>2. tree' = [tree EXCEPT !["dev"] = dev] BY <3>2, Zenon DEF LossInv, Dirs
      <4> QED BY <4>1, <4>2, Zenon
    <3>3. CASE tree' = [tree EXCEPT !["dev"].wal = FALSE, !["dev"].log = {}]
      <4> DEFINE dev == [tree["dev"] EXCEPT !.wal = FALSE, !.log = {}]
      <4>1. TreeOK(dev) BY <2>1, <1>Installing, Zenon DEF TreeOK, Tree, Content
      <4>2. tree' = [tree EXCEPT !["dev"] = dev] BY <3>3, Zenon DEF LossInv, Dirs
      <4> QED BY <4>1, <4>2, Zenon
    <3> QED BY <3>1, <3>2, <3>3, Zenon DEF RemoveAll
  <2>4. PICK dev : TreeOK(dev) /\ tree' = [tree EXCEPT !["dev"] = dev] BY <2>3, Zenon
  <2>5. tree' = [tree EXCEPT !["dev"] = dev, !["system"] = tree["system"]] BY <2>4, Zenon DEF LossInv, Dirs
  <2>6. proc' = proc \/ proc' = [proc EXCEPT !["dev"] = "none"] BY DEF RemoveAll
  <2>7. /\ proc' \in [Dirs -> Kinds \cup {"none"}]
        /\ Calm' => (\A d \in Dirs : proc'[d] = "none") /\ recorded' \subseteq Holds(tree["system"])
    BY <2>1, <2>2, <2>6, <1>Installing DEF Kept, Dirs
  <2>8. /\ stage' \in {"verify", "idle"} /\ install' \in [dir : Dirs, root : BOOLEAN] /\ unit' \in Units
        /\ TreeOK(tree["system"])
    BY <2>1, <1>Installing, <1>GotoTyped DEF RemoveAll, manager
  <2> QED BY <2>4, <2>5, <2>7, <2>8, <1>InstallStep, Zenon
(* verifySetupComplete opens the database and closes it.                   *)
<1>VerifyStep. ASSUME LossInv, Verify PROVE LossInv'
  <2> USE <1>VerifyStep
  <2> DEFINE d == install.dir
             t == OpenedTree(tree[d])
             u == IF proc[d] = "none" THEN Closed(t) ELSE t
  <2>1. stage = "verify" /\ stage # "idle" /\ UNCHANGED <<proc, manager, recorded>> BY Zenon DEF Verify
  <2>2. d \in Dirs /\ TreeOK(tree[d]) BY DEF LossInv
  <2>3. TreeOK(t) /\ Holds(tree[d]) \subseteq Holds(t) BY <2>2, OpenedKeeps, Zenon
  <2>4. TreeOK(Closed(t)) /\ Holds(t) \subseteq Holds(Closed(t)) BY <2>3, ClosedKeeps, Zenon
  <2>5. tree' = [tree EXCEPT ![d] = u] BY Zenon DEF Verify
  <2>6. stage' \in {"own", "idle"} /\ install' \in [dir : Dirs, root : BOOLEAN] /\ (Calm' => Calm)
    BY <1>GotoTyped, Zenon DEF Verify, Calm
  <2>7. TreeOK(u) /\ Holds(tree[d]) \subseteq Holds(u) BY <2>3, <2>4, Zenon
  <2>8. /\ TreeOK(tree["dev"]) /\ TreeOK(tree["system"]) /\ proc' \in [Dirs -> Kinds \cup {"none"}]
        /\ unit' \in Units /\ (Calm' => (\A e \in Dirs : proc'[e] = "none") /\ Kept)
    BY <2>1, <2>6, <1>Installing DEF manager
  <2> HIDE DEF u
  <2>9. CASE d = "dev"
    <3>1. tree' = [tree EXCEPT !["dev"] = u, !["system"] = tree["system"]] BY <2>5, <2>9, Zenon DEF LossInv, Dirs
    <3>2. Calm' => recorded' \subseteq Holds(u) \cup Holds(tree["system"]) BY <2>1, <2>7, <2>8, <2>9 DEF Kept
    <3> QED BY <2>6, <2>7, <2>8, <3>1, <3>2, <1>InstallStep, Zenon
  <2>10. CASE d = "system"
    <3>1. tree' = [tree EXCEPT !["dev"] = tree["dev"], !["system"] = u] BY <2>5, <2>10, Zenon DEF LossInv, Dirs
    <3>2. Calm' => recorded' \subseteq Holds(tree["dev"]) \cup Holds(u) BY <2>1, <2>7, <2>8, <2>10 DEF Kept
    <3> QED BY <2>6, <2>7, <2>8, <3>1, <3>2, <1>InstallStep, Zenon
  <2> QED BY <2>2, <2>9, <2>10 DEF Dirs
(* Resolve: where a migration begins, the target has no database.          *)
<1>ResolveStep. ASSUME LossInv, Resolve PROVE LossInv'
  <2> USE <1>ResolveStep
  <2>1. stage = "resolve" /\ stage # "idle" /\ UNCHANGED <<tree, proc, manager, recorded, mishaps>>
    BY DEF Resolve, data
  <2>2. /\ TreeOK(tree["dev"]) /\ TreeOK(tree["system"]) /\ proc' \in [Dirs -> Kinds \cup {"none"}]
        /\ unit' \in Units /\ (Calm' => (\A d \in Dirs : proc'[d] = "none") /\ Kept)
    BY <2>1, <1>Installing DEF manager, Calm
  <2>3. /\ stage' \in {"verify", "migrate", "idle"} /\ install' \in [dir : Dirs, root : BOOLEAN]
        /\ stage' = "migrate" => tree["system"].db = "absent"
    <3>1. \E p \in {"verify", "migrate", "idle"} :
            Proceed(p) /\ (p = "migrate" => tree["system"].db = "absent")
      BY DEF Resolve
    <3> QED BY <3>1, <1>GotoTyped, Zenon
  <2>4. tree' = [tree EXCEPT !["dev"] = tree["dev"], !["system"] = tree["system"]] BY <2>1 DEF LossInv, Dirs
  <2>5. stage' = "migrate" => Holds(tree["system"]) = {} BY <2>3 DEF Holds
  <2>6. Calm' => /\ recorded' \subseteq Holds(tree["dev"]) \cup Holds(tree["system"])
                 /\ stage' = "migrate" => recorded' \subseteq Holds(tree["dev"])
    BY <2>1, <2>2, <2>5 DEF Kept
  <2> QED BY <2>2, <2>3, <2>4, <2>6, <1>InstallStep, Zenon
(* The steps that touch neither files nor processes.                       *)
<1>QuietStep.
    ASSUME LossInv,
           \/ \E override \in Overrides \cup {"none"}, root \in BOOLEAN : Check(override, root)
           \/ Abort \/ Chown \/ WriteUnit \/ Enable \/ UNCHANGED installVars
    PROVE  LossInv'
  <2> USE <1>QuietStep
  <2>1. ASSUME NEW override \in Overrides \cup {"none"}, NEW root \in BOOLEAN, Check(override, root)
        PROVE  LossInv'
    <3>1. install' \in [dir : Dirs, root : BOOLEAN] BY <2>1, ServiceAssumption DEF Check, Dirs
    <3> QED BY <2>1, <3>1, <1>StillStep, Zenon DEF Check, data, manager, Calm, LossInv
  <2>2. CASE Abort
    <3>1. stage # "idle" /\ stage' = "idle" /\ install' \in [dir : Dirs, root : BOOLEAN]
      BY <2>2, <1>GotoTyped DEF Abort
    <3>2. UNCHANGED <<tree, proc, recorded, unit>> BY <2>2 DEF Abort, data, manager
    <3>3. Calm' => Calm BY <2>2 DEF Abort, Calm
    <3>4. unit' \in Units BY <3>2 DEF LossInv
    <3> QED BY <3>1, <3>2, <3>3, <3>4, <1>StillStep
  <2>3. CASE Chown
    <3>1. stage = "own" /\ stage' \in {"unit", "idle"} /\ install' \in [dir : Dirs, root : BOOLEAN]
      BY <2>3, <1>GotoTyped DEF Chown
    <3> QED BY <2>3, <3>1, <1>StillStep, Zenon DEF Chown, manager, Calm, LossInv
  <2>4. CASE WriteUnit
    <3>1. stage = "unit" /\ stage' \in {"enable", "idle"} /\ install' \in [dir : Dirs, root : BOOLEAN]
      BY <2>4, <1>GotoTyped DEF WriteUnit
    <3>2. unit' \in Units BY <2>4 DEF WriteUnit, LossInv, Units
    <3> QED BY <2>4, <3>1, <3>2, <1>StillStep DEF WriteUnit, data, Calm, LossInv
  <2>5. CASE Enable
    <3>1. stage = "enable" /\ stage' = "idle" /\ install' \in [dir : Dirs, root : BOOLEAN]
      BY <2>5, <1>GotoTyped DEF Enable
    <3>2. UNCHANGED <<tree, proc, recorded, unit>> BY <2>5 DEF Enable, data
    <3>3. Calm' => Calm BY <2>5 DEF Enable, Calm
    <3>4. unit' \in Units BY <3>2 DEF LossInv
    <3> QED BY <3>1, <3>2, <3>3, <3>4, <1>StillStep
  <2>6. CASE UNCHANGED installVars BY <2>6, <1>StillStep DEF installVars, data, command, manager, Calm, LossInv
  <2> QED BY <2>1, <2>2, <2>3, <2>4, <2>5, <2>6
(* Uninstalling ends the service at most.                                  *)
<1>UninstallStep. ASSUME LossInv, UninstallSystemd \/ UninstallOpenRC PROVE LossInv'
  <2> USE <1>UninstallStep
  <2>1. /\ UNCHANGED <<stage, install, copied, recorded, mishaps>>
        /\ StopService(unit.dir) \/ UNCHANGED <<proc, tree>>
    <3>1. CASE UninstallSystemd BY <3>1 DEF UninstallSystemd, command
    <3>2. CASE UninstallOpenRC BY <3>2 DEF UninstallOpenRC, command
    <3> QED BY <3>1, <3>2
  <2>2. unit' \in Units
    <3>1. NoUnit \in Units BY DEF Units, NoUnit, Dirs
    <3>2. CASE UninstallSystemd BY <3>1, <3>2 DEF UninstallSystemd, LossInv
    <3>3. CASE UninstallOpenRC BY <3>1, <3>3 DEF UninstallOpenRC, LossInv
    <3> QED BY <3>2, <3>3
  <2>3. CASE UNCHANGED <<proc, tree>>
    <3>1. install' \in [dir : Dirs, root : BOOLEAN] /\ (Calm' => Calm) BY <2>1 DEF LossInv, Calm
    <3> QED BY <2>1, <2>2, <2>3, <3>1, <1>StillStep
  <2>4. CASE StopService(unit.dir)
    <3>1. unit.dir \in Dirs BY DEF LossInv, Units
    <3>2. CASE proc[unit.dir] = "service"
      <4>1. proc' = [proc EXCEPT ![unit.dir] = "none"] BY <2>4, <3>2 DEF StopService
      <4>2. tree' = [tree EXCEPT ![unit.dir] = Closed(tree[unit.dir])] BY <2>4, <3>2 DEF StopService
      <4>3. proc[unit.dir] # "none" BY <3>2
      <4> QED BY <2>1, <2>2, <3>1, <4>1, <4>2, <4>3, <1>EndStep, Zenon
    <3>3. CASE proc[unit.dir] # "service"
      <4>1. UNCHANGED <<proc, tree>> BY <2>4, <3>3 DEF StopService, LossInv
      <4> QED BY <2>3, <4>1
    <3> QED BY <3>2, <3>3
  <2> QED BY <2>1, <2>3, <2>4
<1>LossStep. LossInv /\ [InstallNext]_installVars => LossInv'
  <2> SUFFICES ASSUME LossInv, [InstallNext]_installVars PROVE LossInv' OBVIOUS
  <2>1. ASSUME NEW by \in {"user", "root"}, NEW override \in Overrides \cup {"none"}, StartRun(by, override)
        PROVE  LossInv'
    <3>1. PICK d \in Dirs, kind \in Kinds : OpenAt(d, kind, by)
      <4>1. \E d \in Dirs : OpenAt(d, IF IsSetupComplete(Holds(tree[d])) THEN "running" ELSE "wizard", by)
        BY <2>1, ServiceAssumption, Zenon DEF StartRun, ResolveDataDir, Dirs
      <4>2. \A c : (IF IsSetupComplete(c) THEN "running" ELSE "wizard") \in Kinds BY DEF Kinds
      <4> QED BY <4>1, <4>2, Zenon
    <3>2. Calm' => Calm /\ stage = "idle" BY <2>1, Zenon DEF StartRun, Calm
    <3>3. by \in Accounts /\ UNCHANGED <<command, manager, recorded>> BY <2>1, Zenon DEF Accounts, StartRun
    <3> QED BY <3>1, <3>2, <3>3, <1>OpenStep
  <2>2. CASE StartService
    <3>1. unit.dir \in Dirs BY DEF LossInv, Units
    <3>2. Calm' => Calm /\ stage = "idle" BY <2>2, Zenon DEF StartService, Calm
    <3>3. "service" \in Kinds /\ ServiceAccount \in Accounts BY DEF Kinds, Accounts, ServiceAccount
    <3> QED BY <2>2, <3>1, <3>2, <3>3, <1>OpenStep, Zenon DEF StartService
  <2>3. ASSUME NEW d \in Dirs, NEW killed \in BOOLEAN, EndRun(d, killed) PROVE LossInv'
    <3>1. unit' \in Units /\ UNCHANGED <<stage, install, copied, recorded, mishaps>>
      BY <2>3 DEF EndRun, LossInv, command, manager
    <3> QED BY <2>3, <3>1, <1>EndStep, Zenon DEF EndRun
  <2>4. ASSUME NEW d \in Dirs, NEW b \in Switches, RunFirstRunWizard(d, b) PROVE LossInv'
    <3>1. proc[d] # "none" /\ Commit(d, b) /\ proc' = [proc EXCEPT ![d] = "running"] /\ UNCHANGED mishaps
      BY <2>4 DEF RunFirstRunWizard
    <3> QED BY <3>1, <1>CommitStep DEF Calm
  <2>5. ASSUME NEW d \in Dirs, NEW b \in Switches, PutSetupComplete(d, b) PROVE LossInv'
    <3>1. proc[d] # "none" /\ Commit(d, b) /\ UNCHANGED proc /\ mishaps \subseteq mishaps'
      BY <2>5 DEF PutSetupComplete
    <3> QED BY <3>1, <1>CommitStep DEF Calm
  <2>6. ASSUME NEW d \in Dirs, NEW b \in Batches, Flush(d, b) PROVE LossInv'
    <3>1. proc[d] # "none" /\ Commit(d, b) /\ UNCHANGED <<proc, mishaps>>
      BY <2>6 DEF Flush
    <3> QED BY <3>1, <1>CommitStep DEF Calm
  <2> QED BY <2>1, <2>2, <2>3, <2>4, <2>5, <2>6, <1>RenameStep, <1>MakeTargetStep, <1>CopyDBStep, <1>CopyLogStep,
             <1>CopyPartStep, <1>EndCopyStep, <1>RemoveAllStep, <1>VerifyStep, <1>ResolveStep, <1>QuietStep, <1>UninstallStep
          DEF InstallNext
<1> QED
    BY <1>LossStep

(* It holds before anything has been recorded.                             *)
LEMMA InitLoss == InstallInit => LossInv
<1> SUFFICES ASSUME InstallInit PROVE LossInv OBVIOUS
<1>1. TreeOK(Nothing) BY Zenon DEF TreeOK, Nothing, Tree, Content
<1>2. \A d \in Dirs : TreeOK(tree[d]) /\ tree[d] = Nothing /\ proc[d] = "none" BY <1>1 DEF InstallInit
<1>3. tree \in [Dirs -> Tree] /\ proc \in [Dirs -> Kinds \cup {"none"}] BY <1>1, Zenon DEF InstallInit, TreeOK
<1>4. install \in [dir : Dirs, root : BOOLEAN] /\ unit \in Units
  BY Zenon DEF InstallInit, Default, NoUnit, Units, Dirs
<1>5. ProcOK /\ CopiedOK /\ Kept BY <1>2 DEF InstallInit, ProcOK, CopiedOK, Kept
<1> QED BY <1>2, <1>3, <1>4, <1>5 DEF LossInv

(* NothingLost for every behaviour: a failed, interrupted or repeated      *)
(* install (service/migrate.go, cmd/service.go) leaves everything readable *)
(* that was ever recorded, short of the two races it names.                *)
THEOREM NothingIsLost == InstallSpec => []NothingLost
<1>1. LossInv => NothingLost
  BY DEF LossInv, Kept, Calm, NothingLost, Dirs
<1> QED BY <1>1, InitLoss, LossStep, PTL DEF InstallSpec

-----------------------------------------------------------------------------
(***************************************************************************)
(* What an install leaves behind: until the next one changes something the *)
(* unit describes a directory that is set up and belongs to the service.   *)
(***************************************************************************)
Untouched == stage \in {"idle", "resolve", "migrate"}

(* The unit that is about to be enabled is that of the install, unless it  *)
(* has been uninstalled meanwhile.                                         *)
UnitInv ==
    /\ owner \in [Dirs -> SUBSET Accounts]
    /\ stage = "enable" /\ unit.state = "written" =>
          unit.dir = install.dir /\ unit.root = install.root

OwnerInv ==
    /\ "raced" \notin mishaps /\ stage \in {"unit", "enable"} /\ ~install.root =>
          owner[install.dir] = {"service"}
    /\ /\ {"raced", "cut", "root"} \cap mishaps = {} /\ Untouched
       /\ unit.state = "written" /\ ~unit.root /\ ~openrc
       => owner[unit.dir] = {"service"}

SetUpInv ==
    /\ "cleared" \notin mishaps /\ stage \in {"own", "unit", "enable"} =>
          IsSetupComplete(Holds(tree[install.dir]))
    /\ /\ "cut" \notin mishaps /\ "cleared" \notin mishaps /\ Untouched
       /\ unit.state = "written"
       => IsSetupComplete(Holds(tree[unit.dir]))

ServiceInv == UnitInv /\ OwnerInv /\ SetUpInv

(* While an install changes something it owes nothing yet, and one that    *)
(* does not end well is known as cut short.                                *)
LEMMA Working ==
    ASSUME owner' \in [Dirs -> SUBSET Accounts], stage' \notin {"own", "unit", "enable"},
           "cut" \in mishaps' \/ stage' \in {"copy", "remove", "verify"}
    PROVE  ServiceInv'
BY Zenon DEF ServiceInv, UnitInv, OwnerInv, SetUpInv, Untouched

(* Before that it changes nothing.                                         *)
LEMMA Looking ==
    ASSUME ServiceInv, Untouched, Untouched', UNCHANGED <<tree, owner, unit, mishaps, openrc>>
    PROVE  ServiceInv'
BY Zenon DEF ServiceInv, UnitInv, OwnerInv, SetUpInv, Untouched

(* What Proceed does to the install.                                       *)
LEMMA GotoOn ==
    ASSUME NEW p, Proceed(p), p # "idle"
    PROVE  stage' = p /\ install' = install
BY DEF Proceed

(* The steps before an install changes anything.                           *)
LEMMA LookingSteps ==
    ASSUME LossInv, ServiceInv,
           \/ \E override \in Overrides \cup {"none"}, root \in BOOLEAN : Check(override, root)
           \/ Resolve \/ Abort
    PROVE  ServiceInv'
<1>1. ASSUME NEW override, NEW root, Check(override, root) PROVE ServiceInv'
    BY <1>1, Looking, Zenon DEF Check, Untouched, data, manager
<1>2. CASE Resolve
  <2>1. UNCHANGED <<tree, owner, unit, mishaps, openrc>> /\ stage = "resolve"
      BY <1>2, Zenon DEF Resolve, data, manager
  <2>2. stage' \in {"verify", "migrate", "idle"}
      BY <1>2, Zenon DEF Resolve, Proceed
  <2>3. CASE stage' = "verify"
    <3>1. owner' \in [Dirs -> SUBSET Accounts]
        BY <2>1 DEF ServiceInv, UnitInv
    <3> QED
        BY <2>3, <3>1, Working
  <2>4. CASE stage' \in {"migrate", "idle"}
      BY <2>1, <2>4, Looking DEF Untouched
  <2> QED
      BY <2>2, <2>3, <2>4
<1>3. CASE Abort
  <2>1. UNCHANGED <<tree, owner, unit, openrc>> /\ stage # "idle" /\ stage' = "idle"
      BY <1>3 DEF Abort, Proceed, data, manager
  <2>2. CASE stage \in {"resolve", "migrate"}
    <3>1. mishaps' = mishaps
        BY <1>3, <2>2 DEF Abort
    <3> QED
        BY <2>1, <2>2, <3>1, Looking DEF Untouched
  <2>3. CASE stage \notin {"resolve", "migrate"}
    <3>1. "cut" \in mishaps'
        BY <1>3, <2>3 DEF Abort
    <3>2. owner' \in [Dirs -> SUBSET Accounts]
        BY <2>1 DEF ServiceInv, UnitInv
    <3> QED
        BY <2>1, <3>1, <3>2, Working
  <2> QED
      BY <2>2, <2>3
<1> QED
    BY <1>1, <1>2, <1>3

(* Moving the data.                                                        *)
LEMMA MovingSteps ==
    ASSUME ServiceInv,
           Rename \/ MakeTarget \/ CopyDB \/ CopyLog \/ CopyPart \/ EndCopy \/ RemoveAll
    PROVE  ServiceInv'
<1>1. owner \in [Dirs -> SUBSET Accounts] /\ "root" \in Accounts /\ {"dev", "system"} = Dirs
    BY DEF ServiceInv, UnitInv, Accounts, Dirs
<1>2. CASE Rename
  <2>1. owner' \in [Dirs -> SUBSET Accounts]
      BY <1>1, <1>2 DEF Rename
  <2>2. stage' = "verify"
      BY <1>2 DEF Rename, Proceed
  <2> QED
      BY <2>1, <2>2, Working
<1>3. CASE MakeTarget
  <2>1. owner' \in [Dirs -> SUBSET Accounts]
      BY <1>1, <1>3 DEF MakeTarget
  <2>2. stage' = "copy"
      BY <1>3 DEF MakeTarget, Proceed
  <2> QED
      BY <2>1, <2>2, Working
<1>4. CASE CopyDB \/ CopyLog
  <2>1. owner' = owner /\ stage' = "copy"
      BY <1>4 DEF CopyDB, CopyLog
  <2> QED
      BY <1>1, <2>1, Working
<1>5. CASE CopyPart
  <2>1. owner' = owner /\ stage' = "idle" /\ "cut" \in mishaps'
      BY <1>5 DEF CopyPart, Proceed
  <2> QED
      BY <1>1, <2>1, Working
<1>6. CASE EndCopy
  <2>1. owner' \in [Dirs -> SUBSET Accounts]
      BY <1>1, <1>6 DEF EndCopy
  <2>2. stage' = "remove"
      BY <1>6 DEF EndCopy, Proceed
  <2> QED
      BY <2>1, <2>2, Working
<1>7. CASE RemoveAll
  <2>1. owner' \in {owner, [owner EXCEPT !["dev"] = {}]}
      BY <1>7, Zenon DEF RemoveAll
  <2>2. owner' \in [Dirs -> SUBSET Accounts]
      BY <1>1, <2>1
  <2>3. stage' = "verify" \/ (stage' = "idle" /\ "cut" \in mishaps')
      BY <1>7 DEF RemoveAll, Proceed
  <2> QED
      BY <2>2, <2>3, Working
<1> QED
    BY <1>2, <1>3, <1>4, <1>5, <1>6, <1>7

(* Closing a database leaves its setup complete.                           *)
LEMMA ClosedSetUp ==
    ASSUME NEW t, TreeOK(t), IsSetupComplete(Holds(t))
    PROVE  IsSetupComplete(Holds(Closed(t)))
<1>1. Holds(t) # {}
    BY Zenon DEF IsSetupComplete
<1> QED
    BY <1>1, ClosedKeeps, Zenon

(* So does everything recorded but a write that clears the setting.        *)
LEMMA AddKeepsSetUp ==
    ASSUME NEW c, NEW b, b \notin Switches \/ b % 2 = 1, IsSetupComplete(c)
    PROVE  IsSetupComplete(c \cup {b})
<1>1. PICK n \in c \cap Switches : n % 2 = 1 /\ n + 1 \notin c \cap Switches
    BY Zenon DEF IsSetupComplete
<1>2. n \in Int /\ (n + 1) % 2 = 0
    BY <1>1 DEF Switches
<1>3. n + 1 \notin (c \cup {b}) \cap Switches
    BY <1>1, <1>2
<1> QED
    BY <1>1, <1>3, Zenon DEF IsSetupComplete

(* verifySetupComplete.                                                    *)
LEMMA VerifyService == ASSUME LossInv, ServiceInv, Verify PROVE ServiceInv'
<1> DEFINE d == install.dir
           t == OpenedTree(tree[d])
           u == IF proc[d] = "none" THEN Closed(t) ELSE t
<1>1. d \in Dirs /\ TreeOK(tree[d]) /\ tree \in [Dirs -> Tree]
    BY DEF LossInv
<1>2. TreeOK(t)
    BY <1>1, OpenedKeeps
<1>3. IsSetupComplete(Holds(t)) => IsSetupComplete(Holds(u))
    BY <1>2, ClosedSetUp, Zenon
<1>4. tree' = [tree EXCEPT ![d] = u]
    BY Zenon DEF Verify
<1>5. owner' \in [Dirs -> SUBSET Accounts]
    BY <1>1, Zenon DEF Verify, ServiceInv, UnitInv, Accounts
<1>6. \/ IsSetupComplete(Holds(t)) /\ Proceed("own")
      \/ stage' = "idle" /\ "cut" \in mishaps'
    BY Zenon DEF Verify, Proceed
<1> HIDE DEF d, t, u
<1>7. CASE IsSetupComplete(Holds(t)) /\ Proceed("own")
  <2>1. stage' = "own" /\ install'.dir = d
      BY <1>7, GotoOn DEF d
  <2>2. IsSetupComplete(Holds(tree'[d]))
      BY <1>1, <1>3, <1>4, <1>7
  <2> QED
      BY <1>5, <2>1, <2>2, Zenon DEF ServiceInv, UnitInv, OwnerInv, SetUpInv, Untouched
<1>8. CASE stage' = "idle" /\ "cut" \in mishaps'
    BY <1>5, <1>8, Working
<1> QED
    BY <1>6, <1>7, <1>8

(* ChownDataDir, the unit file, and enable.                                *)
LEMMA FinishingSteps ==
    ASSUME LossInv, ServiceInv, Chown \/ WriteUnit \/ Enable
    PROVE  ServiceInv'
<1>1. /\ owner \in [Dirs -> SUBSET Accounts] /\ {"root", "service"} \subseteq Accounts
      /\ install.dir \in Dirs
    BY DEF ServiceInv, UnitInv, Accounts, LossInv
<1>2. CASE Chown
  <2>1. stage = "own" /\ UNCHANGED tree
      BY <1>2, Zenon DEF Chown
  <2>2. /\ owner' \in [Dirs -> SUBSET Accounts]
        /\ \/ stage' = "idle" /\ "cut" \in mishaps'
           \/ Proceed("unit") /\ UNCHANGED mishaps /\ install.root
           \/ Proceed("unit") /\ UNCHANGED mishaps /\ owner'[install.dir] = {"service"}
    <3>1. CASE install.root /\ Proceed("unit") /\ UNCHANGED mishaps
               /\ owner' = [owner EXCEPT ![install.dir] = owner[install.dir] \cup {"root"}]
        BY <1>1, <3>1
    <3>2. CASE Proceed("unit") /\ UNCHANGED mishaps
               /\ owner' = [owner EXCEPT ![install.dir] = {"service"}]
        BY <1>1, <3>2
    <3>3. CASE Proceed("idle") /\ "cut" \in mishaps'
               /\ owner' = [owner EXCEPT ![install.dir] = owner[install.dir] \cup {"service"}]
        BY <1>1, <3>3 DEF Proceed
    <3>4. "cut" \in mishaps \cup {"cut"}
        BY Zenon
    <3> QED
        BY <1>2, <3>1, <3>2, <3>3, <3>4, Zenon DEF Chown
  <2>3. CASE stage' = "idle" /\ "cut" \in mishaps'
      BY <2>2, <2>3, Working
  <2>4. CASE /\ Proceed("unit") /\ UNCHANGED mishaps
             /\ install.root \/ owner'[install.dir] = {"service"}
    <3>1. stage' = "unit" /\ install' = install
        BY <2>4, GotoOn
    <3> QED
        BY <2>1, <2>2, <2>4, <3>1, Zenon DEF ServiceInv, UnitInv, OwnerInv, SetUpInv, Untouched
  <2> QED
      BY <2>2, <2>3, <2>4
<1>3. CASE WriteUnit
  <2>1. stage = "unit" /\ UNCHANGED <<tree, owner>>
      BY <1>3 DEF WriteUnit, data
  <2>2. CASE stage' = "idle" /\ "cut" \in mishaps'
      BY <1>1, <2>1, <2>2, Working
  <2>3. CASE /\ Proceed("enable") /\ UNCHANGED mishaps
             /\ unit' = [state |-> "written", dir |-> install.dir, root |-> install.root]
    <3>1. stage' = "enable" /\ install' = install
        BY <2>3, GotoOn
    <3>2. unit'.dir = install.dir /\ unit'.root = install.root
        BY <2>3
    <3> QED
        BY <1>1, <2>1, <2>3, <3>1, <3>2, Zenon DEF ServiceInv, UnitInv, OwnerInv, SetUpInv, Untouched
  <2> QED
      BY <1>3, <2>2, <2>3 DEF WriteUnit, Proceed
<1>4. CASE Enable
  <2>1. /\ stage = "enable" /\ stage' = "idle" /\ UNCHANGED <<tree, owner, unit, openrc>>
        /\ "raced" \in mishaps => "raced" \in mishaps'
        /\ "cleared" \in mishaps => "cleared" \in mishaps'
      BY <1>4 DEF Enable, Proceed, data
  <2>2. unit.state = "written" => unit.dir = install.dir /\ unit.root = install.root
      BY <2>1 DEF ServiceInv, UnitInv
  <2>3. OwnerInv'
      BY <2>1, <2>2, Zenon DEF ServiceInv, OwnerInv
  <2>4. SetUpInv'
      BY <2>1, <2>2, Zenon DEF ServiceInv, SetUpInv
  <2>5. UnitInv'
      BY <1>1, <2>1 DEF UnitInv
  <2> QED
      BY <2>3, <2>4, <2>5 DEF ServiceInv
<1> QED
    BY <1>2, <1>3, <1>4

(* A process leaves in a directory what it finds there, unless it clears   *)
(* the setting.                                                            *)
LEMMA SetUpStays ==
    ASSUME LossInv, SetUpInv, NEW d \in Dirs, NEW t, tree' = [tree EXCEPT ![d] = t],
           \/ "cleared" \in mishaps'
           \/ IsSetupComplete(Holds(tree[d])) => IsSetupComplete(Holds(t)),
           UNCHANGED <<stage, install>>,
           mishaps \subseteq mishaps', unit' = unit \/ unit'.state = "absent"
    PROVE  SetUpInv'
<1>1. install.dir \in Dirs /\ unit.dir \in Dirs /\ tree \in [Dirs -> Tree]
    BY DEF LossInv, Units
<1>2. CASE "cleared" \in mishaps'
    BY <1>2, Zenon DEF SetUpInv
<1>3. CASE IsSetupComplete(Holds(tree[d])) => IsSetupComplete(Holds(t))
  <2>1. \A e \in Dirs : IsSetupComplete(Holds(tree[e])) => IsSetupComplete(Holds(tree'[e]))
      BY <1>1, <1>3, Zenon
  <2> QED
      BY <1>1, <2>1, Zenon DEF SetUpInv, Untouched
<1> QED
    BY <1>2, <1>3

(* A process that starts takes a directory no other account uses.          *)
LEMMA OpenService ==
    ASSUME LossInv, ServiceInv, NEW d \in Dirs, NEW kind, NEW account \in Accounts,
           OpenAt(d, kind, account), UNCHANGED <<command, manager>>, mishaps \subseteq mishaps',
           stage # "idle" => "raced" \in mishaps',
           {"raced", "root"} \cap mishaps' = {} /\ ~unit.root /\ ~openrc /\ d = unit.dir =>
               account = "service" \/ owner[d] # {"service"}
    PROVE  ServiceInv'
<1>1. TreeOK(tree[d]) /\ owner \in [Dirs -> SUBSET Accounts] /\ unit.dir \in Dirs
    BY DEF LossInv, Units, ServiceInv, UnitInv
<1>2. UNCHANGED <<stage, install, unit, openrc>>
    BY Zenon DEF command, manager
<1>3. /\ tree' = [tree EXCEPT ![d] = OpenedTree(tree[d])]
      /\ owner' = [owner EXCEPT ![d] = @ \cup {account}]
    BY Zenon DEF OpenAt
<1>4. Holds(OpenedTree(tree[d])) = Holds(tree[d])
    BY <1>1, OpenedKeeps, Zenon
<1>5. SetUpInv'
    BY <1>2, <1>3, <1>4, SetUpStays, Zenon DEF ServiceInv
<1>6. owner' \in [Dirs -> SUBSET Accounts]
    BY <1>1, <1>3
<1>7. UnitInv'
    BY <1>2, <1>6, Zenon DEF ServiceInv, UnitInv
<1>8. OwnerInv'
  <2>1. CASE stage # "idle"
      BY <1>2, <2>1, Zenon DEF OwnerInv
  <2>2. CASE stage = "idle"
    <3> SUFFICES ASSUME {"raced", "cut", "root"} \cap mishaps' = {},
                        unit.state = "written", ~unit.root, ~openrc
                 PROVE  owner'[unit.dir] = {"service"}
        BY <1>2, <2>2, Zenon DEF OwnerInv
    <3>1. owner[unit.dir] = {"service"}
        BY <2>2, Zenon DEF ServiceInv, OwnerInv, Untouched
    <3>2. CASE d = unit.dir
        BY <1>1, <1>3, <3>1, <3>2
    <3>3. CASE d # unit.dir
        BY <1>1, <1>3, <3>1, <3>3
    <3> QED
        BY <3>2, <3>3, Zenon
  <2> QED
      BY <2>1, <2>2
<1> QED
    BY <1>5, <1>7, <1>8, Zenon DEF ServiceInv

(* The steps of the processes and of uninstall-service.                    *)
LEMMA ProcessSteps ==
    ASSUME LossInv, ServiceInv,
           \/ \E who \in {"user", "root"}, override \in Overrides \cup {"none"} :
                  StartRun(who, override)
           \/ StartService
           \/ \E d \in Dirs, b \in Switches : RunFirstRunWizard(d, b) \/ PutSetupComplete(d, b)
           \/ \E d \in Dirs, b \in Batches : Flush(d, b)
           \/ \E d \in Dirs, killed \in BOOLEAN : EndRun(d, killed)
           \/ UninstallSystemd \/ UninstallOpenRC
    PROVE  ServiceInv'
<1>1. ASSUME NEW who \in {"user", "root"}, NEW override \in Overrides \cup {"none"},
             StartRun(who, override)
      PROVE  ServiceInv'
  <2>1. PICK d \in Dirs : /\ \E kind : OpenAt(d, kind, who)
                          /\ who = "root" \/ owner[d] \subseteq {who}
      BY <1>1, ServiceAssumption, Zenon DEF StartRun, ResolveDataDir, Dirs
  <2>2. /\ UNCHANGED <<command, manager>> /\ mishaps \subseteq mishaps'
        /\ stage # "idle" => "raced" \in mishaps'
        /\ who = "root" => "root" \in mishaps'
      BY <1>1, Zenon DEF StartRun
  <2>3. who \in Accounts
      BY DEF Accounts
  <2>4. "root" \notin mishaps' => owner[d] # {"service"}
    <3>1. CASE who = "root"
        BY <2>2, <3>1, Zenon
    <3>2. CASE who = "user"
      <4>1. owner[d] \subseteq {"user"}
          BY <2>1, <3>2
      <4> QED
          BY <4>1
    <3> QED
        BY <3>1, <3>2, Zenon
  <2> QED
      BY <2>1, <2>2, <2>3, <2>4, OpenService, Zenon
<1>2. CASE StartService
  <2>1. OpenAt(unit.dir, "service", ServiceAccount) /\ unit.dir \in Dirs
      BY <1>2, Zenon DEF StartService, LossInv, Units
  <2>2. /\ UNCHANGED <<command, manager>> /\ mishaps \subseteq mishaps'
        /\ stage # "idle" => "raced" \in mishaps'
      BY <1>2, Zenon DEF StartService
  <2>3. ServiceAccount \in Accounts /\ (~unit.root /\ ~openrc => ServiceAccount = "service")
      BY DEF ServiceAccount, Accounts
  <2> QED
      BY <2>1, <2>2, <2>3, OpenService, Zenon
<1>3. ASSUME UNCHANGED <<stage, install, owner, openrc>>, mishaps \subseteq mishaps',
             unit' = unit \/ unit'.state = "absent", SetUpInv'
      PROVE  ServiceInv'
    BY <1>3, Zenon DEF ServiceInv, UnitInv, OwnerInv, Untouched
<1>4. ASSUME NEW d \in Dirs, NEW b, Commit(d, b), mishaps \subseteq mishaps',
             \/ "cleared" \in mishaps'
             \/ b \notin Switches \/ b % 2 = 1
      PROVE  ServiceInv'
  <2> DEFINE t == [tree[d] EXCEPT !.log = IF tree[d].wal THEN @ \cup {b} ELSE @]
  <2>1. tree[d] \in Tree
      BY DEF LossInv
  <2>2. /\ t.db = tree[d].db /\ t.data = tree[d].data /\ t.wal = tree[d].wal
        /\ t.log = (IF tree[d].wal THEN tree[d].log \cup {b} ELSE tree[d].log)
      BY <2>1 DEF Tree
  <2>3. tree' = [tree EXCEPT ![d] = t]
      BY <1>4 DEF Commit
  <2> HIDE DEF t
  <2>4. Holds(tree[d]) # {} => Holds(t) \in {Holds(tree[d]), Holds(tree[d]) \cup {b}}
      BY <2>2, Zenon DEF Holds, Mixed
  <2>5. UNCHANGED <<stage, install, unit, owner, openrc>>
      BY <1>4 DEF Commit, command, manager
  <2>6. "cleared" \in mishaps' \/ (IsSetupComplete(Holds(tree[d])) => IsSetupComplete(Holds(t)))
    <3> SUFFICES ASSUME b \notin Switches \/ b % 2 = 1, IsSetupComplete(Holds(tree[d]))
                 PROVE  IsSetupComplete(Holds(t))
        BY <1>4, Zenon
    <3>1. Holds(tree[d]) # {}
        BY Zenon DEF IsSetupComplete
    <3>2. IsSetupComplete(Holds(tree[d]) \cup {b})
        BY AddKeepsSetUp
    <3> QED
        BY <2>4, <3>1, <3>2, Zenon
  <2>7. SetUpInv'
      BY <1>4, <2>3, <2>5, <2>6, SetUpStays, Zenon DEF ServiceInv
  <2> QED
      BY <1>3, <1>4, <2>5, <2>7
<1>8. ASSUME NEW d \in Dirs, NEW b \in Switches, RunFirstRunWizard(d, b) PROVE ServiceInv'
    BY <1>4, <1>8 DEF RunFirstRunWizard
<1>9. ASSUME NEW d \in Dirs, NEW b \in Switches, PutSetupComplete(d, b) PROVE ServiceInv'
  <2>1. b % 2 \in {0, 1}
      BY DEF Switches
  <2>2. mishaps \subseteq mishaps' /\ ("cleared" \in mishaps' \/ b % 2 = 1) /\ Commit(d, b)
      BY <1>9, <2>1 DEF PutSetupComplete
  <2> QED
      BY <1>4, <2>2
<1>10. ASSUME NEW d \in Dirs, NEW b \in Batches, Flush(d, b) PROVE ServiceInv'
  <2>1. b \notin Switches
      BY ServiceAssumption, Zenon
  <2>2. mishaps \subseteq mishaps' /\ Commit(d, b)
      BY <1>10 DEF Flush
  <2> QED
      BY <1>4, <2>1, <2>2
<1>5. ASSUME NEW d \in Dirs, tree' = tree \/ tree' = [tree EXCEPT ![d] = Closed(tree[d])],
             UNCHANGED <<stage, install, owner, mishaps, openrc>>,
             unit' = unit \/ unit'.state = "absent"
      PROVE  ServiceInv'
  <2>1. TreeOK(tree[d]) /\ tree \in [Dirs -> Tree]
      BY DEF LossInv
  <2>2. IsSetupComplete(Holds(tree[d])) => IsSetupComplete(Holds(Closed(tree[d])))
      BY <2>1, ClosedSetUp
  <2>3. tree = [tree EXCEPT ![d] = tree[d]]
      BY <2>1
  <2>4. SetUpInv'
      BY <1>5, <2>2, <2>3, SetUpStays DEF ServiceInv
  <2> QED
      BY <1>3, <1>5, <2>4
<1>6. ASSUME NEW d \in Dirs, NEW killed \in BOOLEAN, EndRun(d, killed) PROVE ServiceInv'
    BY <1>5, <1>6 DEF EndRun, command, manager
<1>7. CASE UninstallSystemd \/ UninstallOpenRC
  <2>1. unit.dir \in Dirs /\ NoUnit.state = "absent"
      BY DEF LossInv, Units, NoUnit
  <2>2. unit' = unit \/ unit'.state = "absent"
      BY <1>7, <2>1 DEF UninstallSystemd, UninstallOpenRC
  <2>3. UNCHANGED <<stage, install, owner, mishaps, openrc>>
      BY <1>7, Zenon DEF UninstallSystemd, UninstallOpenRC, command
  <2>4. tree' = tree \/ tree' = [tree EXCEPT ![unit.dir] = Closed(tree[unit.dir])]
      BY <1>7, Zenon DEF UninstallSystemd, UninstallOpenRC, StopService
  <2> QED
      BY <1>5, <2>1, <2>2, <2>3, <2>4
<1> QED
    BY <1>1, <1>2, <1>6, <1>7, <1>8, <1>9, <1>10

(* Together: what an install leaves behind stays.                          *)
LEMMA ServiceInvariance == InstallSpec => [](LossInv /\ ServiceInv)
<1>1. InstallInit => LossInv /\ ServiceInv
  <2> SUFFICES ASSUME InstallInit PROVE ServiceInv
      BY InitLoss
  <2>1. unit.state = "absent" /\ stage = "idle" /\ owner \in [Dirs -> SUBSET Accounts]
      BY DEF InstallInit, NoUnit
  <2> QED
      BY <2>1, Zenon DEF ServiceInv, UnitInv, OwnerInv, SetUpInv
<1>2. LossInv /\ ServiceInv /\ [InstallNext]_installVars => LossInv' /\ ServiceInv'
  <2> SUFFICES ASSUME LossInv, ServiceInv, [InstallNext]_installVars PROVE ServiceInv'
      BY LossStep
  <2>1. CASE UNCHANGED installVars
      BY <2>1, Zenon DEF installVars, data, command, manager, ServiceInv, UnitInv, OwnerInv, SetUpInv, Untouched
  <2> QED
      BY <2>1, LookingSteps, MovingSteps, VerifyService, FinishingSteps, ProcessSteps DEF InstallNext
<1> QED
    BY <1>1, <1>2, PTL DEF InstallSpec

(* ChownDataDir leaves the service a directory it can use, whoever used it *)
(* before and however earlier installs ended, for any number of installs;  *)
(* below a home the systemd unit's ProtectHome hides it all the same.      *)
THEOREM TheServiceMayOpen == InstallSpec => []InstalledIsUsable
<1>1. ServiceInv => InstalledIsUsable
    BY DEF ServiceInv, OwnerInv, Untouched, InstalledIsUsable, Usable, ServiceAccount
<1> QED
    BY <1>1, ServiceInvariance, PTL

(* What verifySetupComplete has seen is so whenever the service starts,    *)
(* also when other processes were started during the install, as long as   *)
(* putSettings does not clear the setting.                                 *)
THEOREM TheServiceIsSetUp == InstallSpec => []InstalledIsSetUp
<1>1. ServiceInv => InstalledIsSetUp
    BY DEF ServiceInv, SetUpInv, Untouched, InstalledIsSetUp
<1> QED
    BY <1>1, ServiceInvariance, PTL
=============================================================================
