------------------------------ MODULE Startup ------------------------------
(***************************************************************************)
(* The run command (cmd/run.go) from the data directory to the web server: *)
(* opening the database (module Schema), the first-run wizard with its     *)
(* three writes (internal/config/firstrun.go), loading the settings        *)
(* (config.go), making the certificate (internal/tlscert/selfsigned.go)    *)
(* and serving (internal/web/server.go), with crashes between any two      *)
(* writes.                                                                 *)
(*                                                                         *)
(* A setting is absent, usable or unusable: it does not parse, or there is *)
(* no such interface or address.  A flush interval may also parse and be   *)
(* nonpositive.  A file is absent, empty (created but not written) or      *)
(* holds its half of a key pair.                                           *)
(***************************************************************************)
EXTENDS Schema, Integers, FiniteSets

CONSTANTS
    Names,          \* admin names the operator may type
    MaxKeys,        \* bound: keys in one request to change settings
    MaxStops,       \* bound: crashes, stops and removed files
    MaxPairs        \* bound: key pairs made

ASSUME StartupAssumption == MaxStops \in Nat /\ MaxPairs \in Nat \ {0} /\ "run" \in Openers

Keys == {"capture_interface", "lan_subnet_cidr", "retention_days",
         "flush_interval_seconds", "http_listen_addr"}
Values(k) == {"usable", "unusable"}
             \cup (IF k = "flush_interval_seconds" THEN {"nonpositive"} ELSE {})
Settings == {s \in [Keys -> {"absent", "usable", "unusable", "nonpositive"}] :
                \A k \in Keys : s[k] \in Values(k) \cup {"absent"}}
NoSettings == [k \in Keys |-> "absent"]

(* The body of PUT /api/settings; "usable" for setup_complete is "1".      *)
Requests ==
    UNION {{r \in [K -> {"usable", "unusable", "nonpositive"}] : \A k \in K : r[k] \in Values(k)} :
              K \in {K \in SUBSET (Keys \cup {"setup_complete"}) : Cardinality(K) \in 1 .. MaxKeys}}

Pairs == 1 .. MaxPairs
Absent == 0
Empty == -1
Files == {Absent, Empty} \cup Pairs

(* Where the run command is: the writes of the wizard and of               *)
(* EnsureSelfSigned are steps of their own.                                *)
Phases == {"down", "opening", "opened", "admin", "saved", "ready", "loaded",
           "certOpen", "certDone", "keyOpen", "keyDone", "running"}

VARIABLES
    phase,      \* where the run command is
    web,        \* "off", "serving", or "failed": ListenAndServeTLS returned
    admins,     \* users with the role admin
    settings,   \* the settings table
    config,     \* the settings as the process loaded them, absent before
    complete,   \* setup_complete = 1
    cert, key,  \* the files
    pairs,      \* key pairs made so far
    stops,      \* crashes, stops and removed files so far
    spoilt      \* history: "files" (one was removed, or the process died
                \* with the key file empty) and "settings" (an unusable
                \* value was stored)

database == <<admins, settings, complete>>
Other == Openers \ {"run"}
files == <<cert, key, pairs>>
vars == <<phase, web, config, database, files, stops, spoilt, schemaVars>>

TypeOK ==
    /\ phase \in Phases /\ web \in {"off", "serving", "failed"}
    /\ admins \subseteq Names /\ complete \in BOOLEAN
    /\ settings \in Settings /\ config \in Settings
    /\ cert \in Files /\ key \in Files /\ pairs \in 0 .. MaxPairs /\ stops \in 0 .. MaxStops
    /\ spoilt \subseteq {"files", "settings"}
    /\ opening \in [Openers -> Steps] /\ overlapped \in BOOLEAN
    /\ columns \subseteq tables /\ versions \in 0 .. Cardinality(Openers)

(* No database, or one an older version has set up and used.               *)
Init ==
    /\ SchemaInit
    /\ phase = "down" /\ web = "off" /\ stops = 0 /\ spoilt = {}
    /\ \/ /\ NewDatabase
          /\ admins = {} /\ complete = FALSE
          /\ settings = NoSettings
          /\ cert = Absent /\ key = Absent /\ pairs = 0
       \/ /\ OldDatabase
          /\ \E name \in Names : admins = {name}
          /\ complete = TRUE
          /\ settings = [k \in Keys |-> "usable"]
          /\ cert = 1 /\ key = 1 /\ pairs = 1
    /\ config = NoSettings

Goto(from, to) == phase = from /\ phase' = to

Open ==
    /\ Goto("down", "opening")
    /\ OpenDatabase("run")
    /\ UNCHANGED <<web, config, database, files, stops, spoilt>>

(* A step of migrate, and its outcome.                                     *)
MigrateStep ==
    /\ phase = "opening" /\ Migrate("run")
    /\ UNCHANGED <<phase, web, config, database, files, stops, spoilt>>

Opened ==
    /\ Goto("opening", "opened") /\ opening["run"][1] = "open"
    /\ LeaveOpen("run")
    /\ UNCHANGED <<web, config, database, files, stops, spoilt>>

OpenFails ==
    /\ Goto("opening", "down") /\ opening["run"][1] = "failed"
    /\ LeaveOpen("run")
    /\ UNCHANGED <<web, config, database, files, stops, spoilt>>

(* Another process opens the database, or dies, and does no more than      *)
(* that.  One that opens a migrated database changes nothing and is left   *)
(* out, and after this one has opened it the other waits: it can no longer *)
(* take anything away.                                                     *)
OtherProcess ==
    /\ phase \in {"down", "opening"}
    /\ \E p \in Other :
          \/ OpenDatabase(p) /\ ~overlapped /\ ~Migrated
          \/ Migrate(p)
          \/ LeaveOpen(p)
    /\ UNCHANGED <<phase, web, config, database, files, stops, spoilt>>

-----------------------------------------------------------------------------
(* Without a terminal a process whose setup is not complete exits.         *)
ExitNoSetup ==
    /\ ~complete
    /\ Goto("opened", "down")
    /\ UNCHANGED <<web, config, database, files, stops, spoilt, schemaVars>>

SkipWizard ==
    /\ complete
    /\ Goto("opened", "ready")
    /\ UNCHANGED <<web, config, database, files, stops, spoilt, schemaVars>>

(* Mutant: the wizard refuses to make a second admin.                      *)
CreateAdminOnce(name) ==
    /\ ~complete
    /\ \/ admins = {} /\ Goto("opened", "admin") /\ admins' = admins \cup {name}
       \/ admins # {} /\ Goto("opened", "down") /\ UNCHANGED admins
    /\ UNCHANGED <<web, config, settings, complete, files, stops, spoilt, schemaVars>>

(* The wizard's first write; CreateUser refuses a name that is taken, and  *)
(* the wizard gives up.                                                    *)
CreateAdmin(name) ==
    /\ ~complete
    /\ \/ name \notin admins /\ Goto("opened", "admin") /\ admins' = admins \cup {name}
       \/ name \in admins /\ Goto("opened", "down") /\ UNCHANGED admins
    /\ UNCHANGED <<web, config, settings, complete, files, stops, spoilt, schemaVars>>

(* Mutant: setup_complete is written before the other settings.            *)
SaveSettingsLast ==
    /\ Goto("admin", "saved")
    /\ complete' = TRUE
    /\ UNCHANGED settings
    /\ UNCHANGED <<web, config, admins, files, stops, spoilt, schemaVars>>

(* SetSettings: one transaction.                                           *)
SaveSettings ==
    /\ Goto("admin", "saved")
    /\ settings' = [k \in Keys |-> "usable"]
    /\ UNCHANGED <<web, config, admins, complete, files, stops, spoilt, schemaVars>>

Finalize ==
    /\ Goto("saved", "ready")
    /\ complete' = TRUE
    /\ UNCHANGED <<web, config, admins, settings, files, stops, spoilt, schemaVars>>

(* Load, ParseCIDR and NewPcapgoSource: numbers that do not parse, and an  *)
(* interface or subnet that is missing or unusable, end the process.  The  *)
(* other settings have defaults; nothing looks at the listen address yet.  *)
Loads ==
    /\ \A k \in {"retention_days", "flush_interval_seconds"} : settings[k] # "unusable"
    /\ \A k \in {"capture_interface", "lan_subnet_cidr"} : settings[k] = "usable"

LoadSettings ==
    /\ \/ Loads /\ Goto("ready", "loaded") /\ config' = settings
       \/ ~Loads /\ Goto("ready", "down") /\ UNCHANGED config
    /\ UNCHANGED <<web, database, files, stops, spoilt, schemaVars>>

-----------------------------------------------------------------------------
(* Mutant: a pair is made only if neither file exists.                     *)
PresentEither == cert # Absent \/ key # Absent

(* os.Stat finds both files, whatever they hold.                           *)
Present == cert # Absent /\ key # Absent

KeepFiles ==
    /\ Present /\ Goto("loaded", "keyDone")
    /\ UNCHANGED <<web, config, database, files, stops, spoilt, schemaVars>>

(* O_CREATE|O_TRUNC, then the new certificate.                             *)
OpenCert ==
    /\ ~Present /\ pairs < MaxPairs
    /\ Goto("loaded", "certOpen")
    /\ pairs' = pairs + 1
    /\ cert' = Empty
    /\ UNCHANGED <<web, config, database, key, stops, spoilt, schemaVars>>

WriteCert ==
    /\ Goto("certOpen", "certDone")
    /\ cert' = pairs
    /\ UNCHANGED <<web, config, database, key, pairs, stops, spoilt, schemaVars>>

OpenKey ==
    /\ Goto("certDone", "keyOpen")
    /\ key' = Empty
    /\ UNCHANGED <<web, config, database, cert, pairs, stops, spoilt, schemaVars>>

WriteKey ==
    /\ Goto("keyOpen", "keyDone")
    /\ key' = pairs
    /\ UNCHANGED <<web, config, database, cert, pairs, stops, spoilt, schemaVars>>

(* The goroutines start.                                                   *)
Run ==
    /\ Goto("keyDone", "running")
    /\ UNCHANGED <<web, config, database, files, stops, spoilt, schemaVars>>

(* ListenAndServeTLS refuses an address it cannot listen on and halves of  *)
(* different pairs.  The other goroutines go on when it has failed.        *)
Serve ==
    /\ phase = "running" /\ web = "off"
    /\ web' = IF config["http_listen_addr"] # "unusable" /\ cert = key /\ cert \in Pairs
              THEN "serving" ELSE "failed"
    /\ UNCHANGED <<phase, config, database, files, stops, spoilt, schemaVars>>

(* time.NewTicker panics in the goroutine of the pipeline, which ends the  *)
(* process, before or after the web server listens.                        *)
Panic ==
    /\ Goto("running", "down")
    /\ config["flush_interval_seconds"] = "nonpositive"
    /\ web' = "off" /\ config' = NoSettings
    /\ UNCHANGED <<database, files, stops, spoilt, schemaVars>>

-----------------------------------------------------------------------------
(* PUT /api/settings stores every key of the request as it is given, in    *)
(* one transaction; the running process keeps what it loaded.              *)
PutSettings(req) ==
    /\ web = "serving"
    /\ settings' = [k \in Keys |-> IF k \in DOMAIN req THEN req[k] ELSE settings[k]]
    /\ complete' = IF "setup_complete" \in DOMAIN req
                   THEN req["setup_complete"] = "usable" ELSE complete
    /\ spoilt' = IF \A k \in DOMAIN req : req[k] = "usable" THEN spoilt
                 ELSE spoilt \cup {"settings"}
    /\ UNCHANGED <<phase, web, config, admins, files, stops, schemaVars>>

(* The process is killed, or ends on a signal.                             *)
Stop ==
    /\ phase # "down" /\ stops < MaxStops
    /\ phase' = "down" /\ web' = "off" /\ config' = NoSettings /\ stops' = stops + 1
    /\ spoilt' = IF phase = "keyOpen" THEN spoilt \cup {"files"} ELSE spoilt
    /\ IF phase = "opening" THEN LeaveOpen("run") ELSE UNCHANGED schemaVars
    /\ UNCHANGED <<database, files>>

(* The operator removes a file.                                            *)
Remove ==
    /\ phase = "down" /\ stops < MaxStops
    /\ stops' = stops + 1 /\ spoilt' = spoilt \cup {"files"}
    /\ \/ cert' = Absent /\ UNCHANGED key
       \/ key' = Absent /\ UNCHANGED cert
    /\ UNCHANGED <<phase, web, config, database, pairs, schemaVars>>

Prepare == Open \/ MigrateStep \/ Opened \/ OpenFails
           \/ SkipWizard \/ SaveSettings \/ Finalize \/ LoadSettings \/ KeepFiles \/ OpenCert \/ WriteCert \/ OpenKey \/ WriteKey \/ Run \/ Serve \/ Panic

Next ==
    \/ Prepare
    \/ OtherProcess
    \/ ExitNoSetup
    \/ \E name \in Names : CreateAdmin(name)
    \/ \E req \in Requests : PutSettings(req)
    \/ Stop
    \/ Remove

Spec == Init /\ [][Next]_vars

(* The process is started again when it is down and goes on by itself; the *)
(* operator eventually answers the wizard at a terminal with a name that   *)
(* is not taken.                                                           *)
Fairness ==
    /\ WF_vars(Prepare)
    /\ SF_vars(\E name \in Names \ admins : CreateAdmin(name))

FairSpec == Spec /\ Fairness

-----------------------------------------------------------------------------
(* Whenever a crash leaves setup_complete set, the wizard's other writes   *)
(* are there: an admin can log in and the settings load.                   *)
CompleteIsComplete ==
    complete => admins # {} /\ \A k \in Keys : settings[k] # "absent"

(* A running process has two halves of one pair, also when an earlier one  *)
(* died while it wrote the certificate: the key is missing then, and       *)
(* EnsureSelfSigned makes both anew.  (A process that dies between         *)
(* creating the key file and writing it is excepted: it leaves an empty    *)
(* file that counts as present.)                                           *)
PairMatches == phase = "running" /\ "files" \notin spoilt => cert = key /\ cert \in Pairs

(* After the last crash or stop the system comes up and stays up: neither  *)
(* an interrupted wizard nor a half-written certificate keeps it down,     *)
(* unless a file or a setting was spoilt.                                  *)
EventuallyServes == <>[](web = "serving") \/ <>(spoilt # {})

(* The wizard writes everything in one transaction: an admin without a     *)
(* completed setup never stays behind.                                     *)
WizardIsAtomic == phase = "down" /\ ~complete => admins = {}

(* EnsureSelfSigned never overwrites a file that exists.                   *)
NeverOverwrites ==
    [][ /\ cert # Absent /\ phase = "loaded" => cert' = cert
        /\ key # Absent /\ phase = "certDone" => key' = key ]_vars
=============================================================================
