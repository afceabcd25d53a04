--------------------------- MODULE ServiceInstall ---------------------------
(***************************************************************************)
(* install-service and uninstall-service (cmd/service.go, internal/service)*)
(* beside the processes that use the data directories: interactive runs    *)
(* of the user and of root, and the service.  Every step of an install may *)
(* fail or be the last one before the command is killed, and install may   *)
(* be tried again after that.                                              *)
(*                                                                         *)
(* A data directory is a database file and its write-ahead log.  The log   *)
(* stands for the whole content as of its last commit.  A log is removed   *)
(* when the last process closes the database, and stays when it is killed. *)
(* What is recorded in a database comes in batches and in writes of the    *)
(* setting setup_complete.                                                 *)
(***************************************************************************)
EXTENDS Naturals, FiniteSets

CONSTANTS
    Batches,        \* what may be recorded besides the setup
    Overrides,      \* directories that --data-dir may name
    MaxSwitches,    \* bound: writes of setup_complete to one database
    MaxCommands     \* bound: processes started

(* The writes of setup_complete to a database, in their order: the odd     *)
(* ones complete the setup, the even ones clear it.                        *)
Switches == 1 .. MaxSwitches

Dirs == {"dev", "system"}
Content == SUBSET (Batches \cup Switches)
Accounts == {"user", "root", "service"}

(* What a process may be: at a terminal, in the wizard or past it, or the  *)
(* service.                                                                *)
Kinds == {"wizard", "running", "service"}

ASSUME ServiceAssumption ==
    /\ MaxSwitches \in Nat /\ Batches \cap Switches = {}
    /\ Overrides \subseteq Dirs /\ MaxCommands \in Nat

Tree == [here : BOOLEAN, db : {"absent", "broken", "whole"}, data : Content,
         wal : BOOLEAN, log : Content]
Nothing == [here |-> FALSE, db |-> "absent", data |-> {}, wal |-> FALSE, log |-> {}]

VARIABLES
    tree,       \* what each directory holds
    owner,      \* the accounts that own something in it
    proc,       \* the kind of the process that uses it, or "none"
    stage,      \* where the install command is
    install,    \* its data directory and its --root flag
    copied,     \* the files cp has copied
    unit,       \* the unit file: its state, data directory and account
    enabled,    \* the unit is enabled
    commands,   \* processes started so far
    openrc,     \* the init system is OpenRC, not systemd
    homes,      \* the directories below /home, /root or /run/user
    recorded,   \* history: everything ever recorded
    mishaps     \* history: "raced", a process started while an install was under
                \* way; "mixed", a log was left beside a newer database;
                \* "cut", the last install that moved or changed anything did
                \* not end well; "root", root has run since it did; "cleared",
                \* setup_complete has been cleared since verifySetupComplete

data == <<tree, owner>>
manager == <<unit, enabled, openrc, homes>>
command == <<stage, install, copied>>
installVars == <<data, proc, command, manager, commands, recorded, mishaps>>

Stages == {"idle", "resolve", "migrate", "copy", "remove", "verify", "own", "unit", "enable"}
Default == [dir |-> "system", root |-> FALSE]
NoUnit == [state |-> "absent", dir |-> "system", root |-> FALSE]
Units == [state : {"absent", "empty", "written"}, dir : Dirs, root : BOOLEAN]

InstallTypeOK ==
    /\ tree \in [Dirs -> Tree]
    /\ owner \in [Dirs -> SUBSET Accounts]
    /\ proc \in [Dirs -> Kinds \cup {"none"}]
    /\ stage \in Stages /\ install \in [dir : Dirs, root : BOOLEAN]
    /\ copied \subseteq {"db", "wal"}
    /\ unit \in Units /\ enabled \in BOOLEAN
    /\ openrc \in BOOLEAN /\ homes \in SUBSET {"dev"}
    /\ commands \in 0 .. MaxCommands
    /\ recorded \in Content /\ mishaps \subseteq {"raced", "mixed", "cut", "root", "cleared"}

InstallInit ==
    /\ tree = [d \in Dirs |-> Nothing] /\ owner = [d \in Dirs |-> {}]
    /\ proc = [d \in Dirs |-> "none"]
    /\ stage = "idle" /\ install = Default /\ copied = {}
    /\ unit = NoUnit /\ enabled = FALSE
    /\ openrc \in BOOLEAN /\ homes \in IF openrc THEN {{}} ELSE SUBSET {"dev"}
    /\ commands = 0 /\ recorded = {} /\ mishaps = {}

-----------------------------------------------------------------------------
(* A log beside a database that is newer than it: opening the database     *)
(* would write old pages over new ones.                                    *)
Mixed(t) == t.db = "whole" /\ t.wal /\ ~(t.data \subseteq t.log)

(* What a process that opens the database finds.                           *)
Holds(t) == IF t.db # "whole" \/ Mixed(t) THEN {} ELSE IF t.wal THEN t.log ELSE t.data

(* IsSetupComplete: the last write of setup_complete was "1".              *)
IsSetupComplete(c) == \E n \in c \cap Switches : n % 2 = 1 /\ n + 1 \notin c \cap Switches

(* The database is open: store.Open makes one where there is none, and a   *)
(* log without a database is discarded.                                    *)
OpenedTree(t) ==
    IF t.db = "broken" THEN t
    ELSE IF Mixed(t) THEN [t EXCEPT !.db = "broken", !.data = {}]
    ELSE [here |-> TRUE, db |-> "whole", data |-> t.data, wal |-> TRUE, log |-> Holds(t)]

(* The last process closes it: the log is written into the database.       *)
Closed(t) ==
    IF t.db = "whole" /\ t.wal THEN [t EXCEPT !.data = t.log, !.wal = FALSE, !.log = {}] ELSE t

(* ResolveDataDir: the system directory is writable for its owner.         *)
ResolveDataDir(who, override) ==
    IF override # "none" THEN override
    ELSE IF who = "root" \/ (tree["system"].here /\ owner["system"] = {who}) THEN "system"
    ELSE "dev"

Start == commands < MaxCommands /\ commands' = commands + 1

(* A process starts at d with the rights of an account and opens the       *)
(* database; it needs them for every file.                                 *)
OpenAt(d, kind, account) ==
    /\ Start
    /\ proc[d] = "none"
    /\ tree' = [tree EXCEPT ![d] = OpenedTree(tree[d])]
    /\ owner' = [owner EXCEPT ![d] = @ \cup {account}]
    /\ proc' = [proc EXCEPT ![d] = IF OpenedTree(tree[d]).db = "broken" THEN "none" ELSE kind]

(* shadowstat run at a terminal: the wizard, if the setup is not complete. *)
StartRun(who, override) ==
    /\ LET d == ResolveDataDir(who, override) IN
          /\ who = "root" \/ owner[d] \subseteq {who}
          /\ OpenAt(d, IF IsSetupComplete(Holds(tree[d])) THEN "running" ELSE "wizard", who)
    /\ mishaps' = mishaps \cup (IF stage # "idle" THEN {"raced"} ELSE {})
                        \cup (IF who = "root" THEN {"root"} ELSE {})
    /\ UNCHANGED <<command, manager, recorded>>

(* The account of the service: OpenRC runs it as root, and so does systemd *)
(* with --root.  Under systemd root has no right to other accounts' files, *)
(* because of the unit's CapabilityBoundingSet, and ProtectHome hides what *)
(* is below a home from any account.                                       *)
ServiceAccount == IF openrc \/ unit.root THEN "root" ELSE "service"
Usable(d) == openrc \/ (d \notin homes /\ owner[d] \subseteq {ServiceAccount})

(* The service manager starts the service: after enable --now, at boot and *)
(* after a failure.  Without a completed setup the process exits at once.  *)
StartService ==
    /\ enabled /\ unit.state = "written"
    /\ Usable(unit.dir) /\ IsSetupComplete(Holds(tree[unit.dir]))
    /\ OpenAt(unit.dir, "service", ServiceAccount)
    /\ mishaps' = IF stage # "idle" THEN mishaps \cup {"raced"} ELSE mishaps
    /\ UNCHANGED <<command, manager, recorded>>

(* A process commits b; what it writes to files that were removed under it *)
(* is nowhere.                                                             *)
Commit(d, b) ==
    /\ tree' = [tree EXCEPT ![d].log = IF tree[d].wal THEN @ \cup {b} ELSE @]
    /\ recorded' = recorded \cup {b}
    /\ UNCHANGED <<owner, command, manager, commands>>

(* b is the next write of setup_complete.                                  *)
NextSwitch(d, b) == b \in Switches /\ \A n \in Switches : n \in tree[d].log <=> n < b

(* The wizard completes, and the process goes on.                          *)
RunFirstRunWizard(d, b) ==
    /\ proc[d] = "wizard" /\ NextSwitch(d, b) /\ b % 2 = 1
    /\ Commit(d, b)
    /\ proc' = [proc EXCEPT ![d] = "running"]
    /\ UNCHANGED mishaps

(* putSettings stores any value of setup_complete.  The process goes on as *)
(* before: only the next one asks for the setting.                         *)
PutSetupComplete(d, b) ==
    /\ proc[d] \in {"running", "service"} /\ NextSwitch(d, b)
    /\ Commit(d, b)
    /\ mishaps' = IF b % 2 = 0 THEN mishaps \cup {"cleared"} ELSE mishaps
    /\ UNCHANGED proc

(* A flush writes what was captured.                                       *)
Flush(d, b) ==
    /\ proc[d] \in {"running", "service"} /\ b \notin recorded
    /\ Commit(d, b)
    /\ UNCHANGED <<proc, mishaps>>

(* The process ends; killed, it leaves the log behind.                     *)
EndRun(d, killed) ==
    /\ proc[d] # "none"
    /\ proc' = [proc EXCEPT ![d] = "none"]
    /\ tree' = IF killed THEN tree ELSE [tree EXCEPT ![d] = Closed(tree[d])]
    /\ UNCHANGED <<owner, command, manager, commands, recorded, mishaps>>

-----------------------------------------------------------------------------
Proceed(p) ==
    /\ stage' = p /\ copied' = {}
    /\ install' = IF p = "idle" THEN Default ELSE install

(* installServiceCmd, up to findOtherRunningInstance.                      *)
Check(override, root) ==
    /\ Start
    /\ stage = "idle" /\ \A d \in Dirs : proc[d] = "none"
    /\ stage' = "resolve"
    /\ install' = [dir |-> IF override = "none" THEN "system" ELSE override, root |-> root]
    /\ UNCHANGED <<data, proc, copied, manager, recorded, mishaps>>

(* The command returns with an error, or is killed.                        *)
Abort ==
    /\ stage # "idle"
    /\ Proceed("idle")
    /\ mishaps' = IF stage \in {"resolve", "migrate"} THEN mishaps ELSE mishaps \cup {"cut"}
    /\ UNCHANGED <<data, proc, manager, commands, recorded>>

(* resolveServiceDataDir and FindDevDataDir.                               *)
Resolve ==
    /\ stage = "resolve"
    /\ \/ /\ install.dir # "system" \/ tree["system"].db # "absent"
          /\ Proceed("verify")
       \/ /\ install.dir = "system" /\ tree["system"].db = "absent"
          /\ Proceed(IF tree["dev"].db # "absent" THEN "migrate" ELSE "idle")
    /\ UNCHANGED <<data, proc, manager, commands, recorded, mishaps>>

(* MigrateDataDir: os.Rename refuses a target that exists, and so does the *)
(* system when the directories are on different file systems.              *)
Rename ==
    /\ stage = "migrate" /\ ~tree["system"].here
    /\ Proceed("verify")
    /\ tree' = [tree EXCEPT !["system"] = tree["dev"], !["dev"] = Nothing]
    /\ owner' = [owner EXCEPT !["system"] = owner["dev"], !["dev"] = {}]
    /\ proc' = [proc EXCEPT !["system"] = proc["dev"], !["dev"] = "none"]
    /\ UNCHANGED <<manager, commands, recorded, mishaps>>

(* The rename has failed: MkdirAll, and cp begins.                         *)
MakeTarget ==
    /\ stage = "migrate"
    /\ Proceed("copy")
    /\ tree' = [tree EXCEPT !["system"].here = TRUE]
    /\ owner' = [owner EXCEPT !["system"] = @ \cup {"root"}]
    /\ UNCHANGED <<proc, manager, commands, recorded, mishaps>>

(* cp has written one file.                                                *)
CopyDB ==
    /\ stage = "copy" /\ "db" \notin copied
    /\ copied' = copied \cup {"db"}
    /\ tree' = [tree EXCEPT !["system"].db = tree["dev"].db, !["system"].data = tree["dev"].data]
    /\ UNCHANGED <<owner, proc, stage, install, manager, commands, recorded, mishaps>>

CopyLog ==
    /\ stage = "copy" /\ "wal" \notin copied /\ tree["dev"].wal
    /\ copied' = copied \cup {"wal"}
    /\ tree' = [tree EXCEPT !["system"].wal = TRUE, !["system"].log = tree["dev"].log]
    /\ UNCHANGED <<owner, proc, stage, install, manager, commands, recorded, mishaps>>

(* cp is cut short within a file: the database is unreadable or, with no   *)
(* byte written, empty; a shorter log ends at an earlier commit.           *)
CopyPart ==
    /\ stage = "copy"
    /\ Proceed("idle")
    /\ \/ /\ "db" \notin copied
          /\ \E db \in {"broken", "whole"} :
                tree' = [tree EXCEPT !["system"].db = db, !["system"].data = {}]
       \/ /\ "wal" \notin copied /\ tree["dev"].wal
          /\ \E log \in SUBSET tree["dev"].log :
                /\ tree["dev"].data \subseteq log /\ \A n \in log \cap Switches : 1 .. n \subseteq log
                /\ tree' = [tree EXCEPT !["system"].wal = TRUE, !["system"].log = log]
    /\ mishaps' = mishaps \cup {"cut"}
    /\ UNCHANGED <<owner, proc, manager, commands, recorded>>

(* cp is done.  It does not remove a log that is only in the target.       *)
EndCopy ==
    /\ stage = "copy" /\ "db" \in copied /\ (tree["dev"].wal => "wal" \in copied)
    /\ Proceed("remove")
    /\ owner' = [owner EXCEPT !["system"] = owner["dev"]]
    /\ mishaps' = IF Mixed(tree["system"]) THEN mishaps \cup {"mixed"} ELSE mishaps
    /\ UNCHANGED <<tree, proc, manager, commands, recorded>>

(* Mutant: the source is removed though cp has failed.                     *)
RemoveAllAnyway ==
    /\ stage \in {"copy", "remove"}
    /\ Proceed("verify")
    /\ tree' = [tree EXCEPT !["dev"] = Nothing]
    /\ owner' = [owner EXCEPT !["dev"] = {}] /\ proc' = [proc EXCEPT !["dev"] = "none"]
    /\ UNCHANGED <<manager, commands, recorded, mishaps>>

(* os.RemoveAll of the source, or of part of it.                           *)
RemoveAll ==
    /\ stage = "remove"
    /\ \/ /\ Proceed("verify")
          /\ tree' = [tree EXCEPT !["dev"] = Nothing]
          /\ owner' = [owner EXCEPT !["dev"] = {}] /\ proc' = [proc EXCEPT !["dev"] = "none"]
          /\ UNCHANGED mishaps
       \/ /\ Proceed("idle") /\ mishaps' = mishaps \cup {"cut"}
          /\ \/ tree' = [tree EXCEPT !["dev"].db = "absent", !["dev"].data = {}]
             \/ tree' = [tree EXCEPT !["dev"].wal = FALSE, !["dev"].log = {}]
          /\ UNCHANGED <<owner, proc>>
    /\ UNCHANGED <<manager, commands, recorded>>

(* Mutant: a database that opens is enough.                                *)
VerifyOpens ==
    /\ stage = "verify" /\ tree[install.dir].here
    /\ LET t == OpenedTree(tree[install.dir]) IN
          /\ tree' = [tree EXCEPT ![install.dir] = IF proc[install.dir] = "none" THEN Closed(t) ELSE t]
          /\ t.db = "whole" /\ Proceed("own")
    /\ mishaps' = mishaps \ {"cleared"}
    /\ UNCHANGED <<owner, proc, manager, commands, recorded>>

(* verifySetupComplete opens the database, which may make one, and closes  *)
(* it again.                                                               *)
Verify ==
    /\ stage = "verify" /\ tree[install.dir].here
    /\ LET t == OpenedTree(tree[install.dir]) IN
          /\ tree' = [tree EXCEPT ![install.dir] = IF proc[install.dir] = "none" THEN Closed(t) ELSE t]
          /\ \/ /\ IsSetupComplete(Holds(t)) /\ Proceed("own")
                /\ mishaps' = mishaps \ {"cleared"}
             \/ /\ ~IsSetupComplete(Holds(t)) /\ Proceed("idle")
                /\ mishaps' = mishaps \cup {"cut"}
          /\ owner' = [owner EXCEPT ![install.dir] =
                IF tree[install.dir].db = "absent" THEN @ \cup {"root"} ELSE @]
    /\ UNCHANGED <<proc, manager, commands, recorded>>

(* Mutant: only the directory changes hands, as with --root.               *)
ChownTopOnly ==
    /\ stage = "own"
    /\ Proceed("unit")
    /\ owner' = [owner EXCEPT ![install.dir] = @ \cup {IF install.root THEN "root" ELSE "service"}]
    /\ UNCHANGED <<tree, proc, manager, commands, recorded, mishaps>>

(* With --root the directory alone is given to root; otherwise             *)
(* EnsureSystemUser and ChownDataDir, which walks the directory and may    *)
(* stop on the way.                                                        *)
Chown ==
    /\ stage = "own"
    /\ \/ /\ install.root /\ Proceed("unit")
          /\ owner' = [owner EXCEPT ![install.dir] = @ \cup {"root"}]
          /\ UNCHANGED mishaps
       \/ /\ ~install.root /\ Proceed("unit")
          /\ owner' = [owner EXCEPT ![install.dir] = {"service"}]
          /\ UNCHANGED mishaps
       \/ /\ ~install.root /\ Proceed("idle")
          /\ owner' = [owner EXCEPT ![install.dir] = @ \cup {"service"}]
          /\ mishaps' = mishaps \cup {"cut"}
    /\ UNCHANGED <<tree, proc, manager, commands, recorded>>

(* The unit file is truncated, then written.                               *)
WriteUnit ==
    /\ stage = "unit"
    /\ \/ /\ Proceed("enable")
          /\ unit' = [state |-> "written", dir |-> install.dir, root |-> install.root]
          /\ UNCHANGED mishaps
       \/ /\ Proceed("idle")
          /\ unit' = [unit EXCEPT !.state = "empty"]
          /\ mishaps' = mishaps \cup {"cut"}
    /\ UNCHANGED <<data, proc, enabled, openrc, homes, commands, recorded>>

(* daemon-reload and enable --now, or rc-update add and rc-service start;  *)
(* the service manager does the starting.                                  *)
Enable ==
    /\ stage = "enable"
    /\ Proceed("idle") /\ enabled' = TRUE
    /\ mishaps' = mishaps \ {"cut", "root"}
    /\ UNCHANGED <<data, proc, unit, openrc, homes, commands, recorded>>

-----------------------------------------------------------------------------
StopService(d) ==
    /\ proc' = [proc EXCEPT ![d] = IF @ = "service" THEN "none" ELSE @]
    /\ tree' = IF proc[d] = "service" THEN [tree EXCEPT ![d] = Closed(tree[d])] ELSE tree

(* UninstallSystemd: an error of disable keeps everything, one of the      *)
(* removal keeps the unit.                                                 *)
UninstallSystemd ==
    /\ Start /\ ~openrc /\ unit.state # "absent"
    /\ StopService(unit.dir) /\ enabled' = FALSE
    /\ unit' \in {unit, NoUnit}
    /\ UNCHANGED <<owner, command, openrc, homes, recorded, mishaps>>

(* UninstallOpenRC: stopping is best effort, and an error of rc-update del *)
(* ends the command.                                                       *)
UninstallOpenRC ==
    /\ Start /\ openrc /\ unit.state # "absent"
    /\ StopService(unit.dir) \/ UNCHANGED <<proc, tree>>
    /\ \/ UNCHANGED <<enabled, unit>>
       \/ enabled' = FALSE /\ unit' \in {unit, NoUnit}
    /\ UNCHANGED <<owner, command, openrc, homes, recorded, mishaps>>

InstallNext ==
    \/ \E who \in {"user", "root"}, override \in Overrides \cup {"none"} : StartRun(who, override)
    \/ StartService
    \/ \E d \in Dirs, b \in Switches : RunFirstRunWizard(d, b) \/ PutSetupComplete(d, b)
    \/ \E d \in Dirs, b \in Batches : Flush(d, b)
    \/ \E d \in Dirs, killed \in BOOLEAN : EndRun(d, killed)
    \/ \E override \in Overrides \cup {"none"}, root \in BOOLEAN : Check(override, root)
    \/ Abort \/ Resolve \/ Rename \/ MakeTarget \/ CopyDB \/ CopyLog \/ CopyPart \/ EndCopy
    \/ RemoveAll \/ Verify \/ Chown \/ WriteUnit \/ Enable
    \/ UninstallSystemd \/ UninstallOpenRC

InstallSpec == InstallInit /\ [][InstallNext]_installVars

-----------------------------------------------------------------------------
(* Whatever step of an install fails, is interrupted or is tried again,    *)
(* everything ever recorded is still readable in some data directory,      *)
(* unless a process was started while the install was under way or a       *)
(* retried copy met the log an earlier one had left.                       *)
NothingLost ==
    {"raced", "mixed"} \cap mishaps = {} => recorded \subseteq UNION {Holds(tree[d]) : d \in Dirs}

(* A service that was installed to run as its own user can open its        *)
(* database, also when root owned or used the directory before and when    *)
(* earlier installs were cut short on the way; unless it is a systemd      *)
(* service whose directory is below a home.                                *)
InstalledIsUsable ==
    (/\ enabled /\ unit.state = "written" /\ stage = "idle" /\ ~unit.root
     /\ openrc \/ unit.dir \notin homes
     /\ {"raced", "cut", "root"} \cap mishaps = {})
    => Usable(unit.dir)

(* The service is never started on a database whose setup is not complete, *)
(* where it could only exit, unless putSettings has cleared the setting    *)
(* since verifySetupComplete saw it: neither the steps of an install nor   *)
(* the crashes and restarts of the processes that use the directory change *)
(* what it saw.                                                            *)
InstalledIsSetUp ==
    (/\ enabled /\ unit.state = "written" /\ stage = "idle"
     /\ {"cut", "cleared"} \cap mishaps = {})
    => IsSetupComplete(Holds(tree[unit.dir]))

(* The same, whatever putSettings stores.                                  *)
SetupStaysComplete ==
    (enabled /\ unit.state = "written" /\ stage = "idle" /\ "cut" \notin mishaps)
    => IsSetupComplete(Holds(tree[unit.dir]))

(* The directory that --data-dir named is one the service can open.        *)
OverrideIsUsable ==
    (/\ enabled /\ unit.state = "written" /\ stage = "idle" /\ ~unit.root
     /\ {"raced", "cut", "root"} \cap mishaps = {})
    => Usable(unit.dir)

(* The user's history is moved, not discarded: an install that gets as far *)
(* as the unit file has all of it in the system directory, also when an    *)
(* earlier install was cut short.                                          *)
MigrationResumes ==
    stage = "unit" /\ install.dir = "system" /\ {"raced", "mixed", "root"} \cap mishaps = {} =>
        recorded \subseteq Holds(tree["system"])

(* The same of a service installed with --root.                            *)
RootIsUsable ==
    (/\ enabled /\ unit.state = "written" /\ stage = "idle" /\ unit.root
     /\ openrc \/ unit.dir \notin homes
     /\ mishaps = {})
    => Usable(unit.dir)
=============================================================================
