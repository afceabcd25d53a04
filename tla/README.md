# ShadowStat: TLA+ models, model checking and proofs

ShadowStat is one Go process that watches a mirrored LAN link, keeps traffic
history in SQLite and shows it over HTTPS. This directory holds TLA+ modules
translated from its source, the TLC configurations that check them on small
instances, and TLAPS proofs of the theorems that matter most. `PROJECT.json`
lists components, runs, mutants, hazards, findings and theorems, and maps every
definition to the source lines it stands for.

    tlc -workers 2 -config MCCapture.cfg MCCapture     # one run
    tlapm CaptureProofs.tla                            # one proof module

## The system

Goroutines of the one process, and what they share:

| Part | Code | State | Operations |
|---|---|---|---|
| Read loop | `internal/capture/pcapgo_source.go` | socket, packet channel, error channel | read, queue or drop, stop |
| Decoder | `internal/capture/decode.go`, `pipeline.go` | aggregator, DNS and DHCP buffers, MAC table | one packet to events, apply each |
| Flush loop | `internal/capture/pipeline.go` | host cache, drained tables | tick, resolve hosts, insert, final flush |
| Store | `internal/store` | SQLite tables, one writer connection | transactions of the above and below |
| Rollup scheduler | `internal/rollupjob` | four rollup tiers | roll up, prune |
| Detectors | `internal/detect` | alerts, known peers | six scans with cooldowns |
| Web | `internal/web`, `internal/auth` | sessions, users, settings | login, elevation, user admin, queries |
| Start and stop | `cmd/run.go`, `internal/config`, `internal/tlscert` | data directory | wizard, certificate, startup, shutdown |
| Browser tab | `internal/web/static/app.js` | what a page shows, its pending calls, the password dialog | load, acknowledge, save, re-authenticate |
| Service | `cmd/service.go`, `internal/service` | unit file, system user, data directory | install, migrate, uninstall |
| GeoIP | `internal/geoip`, `tools/geoip-gen` | sorted range table | build, look up |

The parts meet in the database. The writer pool has one connection, so writing
statements and transactions are atomic steps in the models; what a goroutine
reads before such a step may be stale when the step happens. What makes the
system hard: the decoder adds to tables the flush swaps; a flush period that is
out of step with the rollup and detection tickers, whose windows are computed
from the clock; handlers of several statements that interleave; statements that
fail halfway through a flush or a scan; crashes between the writes of the wizard,
of the key pair and of the schema migration; an installation that moves the data
directory and may be cut short at any step; and a browser tab whose calls are
answered out of order.

## Modules

| Module | Models | State and actions |
|---|---|---|
| `FlowLedger` | what the pipeline promises | the status of each event; drop, accept, store, lose |
| `Capture` | read loop, decode goroutine, `Pipeline.Run`, `flush`, `resolveHost`, inserts | the two channels, the aggregator, the buffers, where `Run` is, host cache, tables; one action per critical section or database call, with failures, cancellation, crash and restart |
| `Traffic` | the capture filter, `Decode`, `Aggregator.Add`, rows, DNS queries and their prune; what the exfiltration, port scan, DNS and watchlist detectors make of them | the numbers of each flow; deliver a packet, flush, prune. A detector is an operator over the rows, so every invariant about it speaks of a scan at any moment |
| `HostNaming` | `rememberMAC`, `SetHostMAC`, `UpsertDHCPHostname` | MAC table, DHCP buffer, `hosts`, `dhcp_hostnames` |
| `Rollup` | 1m and 5m rollups against the flush | clock, tickers, pending bytes, rows, two tiers |
| `Series` | `prune` and the tier choice of `hostSeries` | clock, what each tier still holds |
| `Detection` | `NewDestinations`, `raiseAlert`, `known_peers`, acknowledgements, switches | contacts, rows, known peers, alerts, a scan in progress |
| `Beaconing` | flush, `PruneFlowsRecent`, `PeerFlowTimestamps`, `intervalStats`, `Beaconing` | contacts, answered or not, the aggregator's entry and the rows of each direction; the verdict of a scan of the last window |
| `Sums` | `SUM(...)` of the queries, and the loops that add | none: the sum of a function over a set, used by `Traffic`, `Rollup` and `Beaconing` |
| `Accounts` | `auth.Manager`, middleware, user handlers | users, sessions, and the statement each request is at |
| `GeoTable` | `resolveOverlapsAndMergeAdjacent`, `CountryForIP` | the records, the closed runs, the open run; a round of the loop |
| `WebClient` | `app.js` in one tab, against the handlers it calls | the page, what it shows, calls out, the dialog, the server's session; a call is sent, served and answered in three steps |
| `Schema` | `store.Open` and `migrate` | tables, columns, version rows; one action per statement and process |
| `ServiceInstall` | `install-service`, `uninstall-service`, `MigrateDataDir`, the unit files, `ResolveDataDir`, and what the processes write beside them | two data directories (database, write-ahead log, owners, whether below a home), the process that uses each (in the wizard, running, or the service), where the command is, the unit; one action per step, each of which may be the last |
| `Startup` | `runCmd` with `Schema`, the wizard, `Load`, `EnsureSelfSigned`, `Server.Start`, `putSettings` | where the command is, settings stored and loaded, admins, the two files |

`MC*` modules give constants their values. `MCWeb` and `MCAlgorithms` each hold
two modules that share no state: a behaviour is one of either, so a run costs the
sum of the two. Eight modules hold theorems: `CaptureProofs`; `HostProofs`, of
`HostNaming` and `Detection`; `GeoTableProofs`; `WebProofs`, of `Accounts`,
`WebClient` and `Series`; `LifecycleProofs`, of `Startup`, `Schema` and
`ServiceInstall`; `SumsProofs`, of sums over finite sets, which the last two use;
`TrafficProofs`; and `RollupProofs`, of `Rollup` and `Beaconing`. A module proved
together with another has names of its own for `Init`, `Next` and `Spec`
(`SeriesInit`, `InstallSpec` and so on). Operators described as mutants are faulty
variants of the definition that follows them; no specification uses them. They
record, for each property, a mistake that it detects.

Abstractions. In `Capture` an event is an item and a row the set of items it
counts; `Traffic` checks separately that the sums are right. Addresses, names,
tokens and passwords are members of small sets. Times are small integers that
keep the order and the ratios that matter (a flush shorter than a minute, a
minute dividing five). `Beaconing` compares variances multiplied out, so no
division is rounded. The entropy of a name is a property of the name, `odd`.
In `ServiceInstall` what is recorded comes in batches and in numbered writes of
`setup_complete`, the odd ones completing the setup (`RunFirstRunWizard`,
`putSettings`) and the even ones clearing it (`putSettings`); the write-ahead log
stands for everything committed when it was last written. In `GeoTable` the end of
a record may wrap around the last address, as the generator's 32-bit sum does.
`Schema` keeps the three tables that the columns and the version row are about.
In `Startup` a setting is absent, usable or unusable, and a flush interval may
also be nonpositive, which `time.NewTicker` refuses.

## Runs

Ten runs pass. Faults are part of the models and not of separate configurations:
where a property needs that nothing failed, it says so through a history variable
(`faulty`, `faults`, `spoilt`, `mishaps`, `overlapped`), so one run covers the behaviours
with and without faults. The modules' type invariants hold in the runs' instances
as well; only that of `Capture`, which bounds the queue, is listed.

| Run | What it shows | Bounds |
|---|---|---|
| `capture` | no event is counted twice, forgotten or given to the wrong host, with failures, crashes and restarts; accepted events settle, cancellation ends `Run`, the pipeline implements `FlowLedger` | two packets with four events, a queue of one packet, so that it overflows |
| `naming` | a row never shows a name of a device not seen at its address; a rename reaches both tables; the last lease wins | one address, two devices, two names, two DHCP messages in hand |
| `traffic` | sums and per-host totals are exact, and count exactly the IPv4 frames with at most one tag; merging into rows hides no scan; the DNS alerts are exact although queries are pruned, and so are the watchlist's, with a true direction | four packets out of ten; a DNS window of one unit, kept for two, and a clock of four instants, so that a prune falls behind a window that still has queries |
| `accounts` | no session outlives its account or changes owner | two requests at once, three accounts, two sessions, one tick of the clock, after which sessions and elevations have lapsed |
| `rollup` | both tiers hold every byte if the start phase lets a flush come before each tick (`LatePhase`) and nothing waits, fails or restarts; no bucket is summed twice if no tick waits | a minute of two flush periods, five minutes of two minutes, every start phase, a tick late by one, one restart, two packets |
| `web` | `Series`: graphs of the last day lack nothing that is stored, whatever prunes failed. `WebClient`: what a page shows is the range or filter chosen last if answers come in order; what looks acknowledged is, and was meant; a settings form tells the truth, and its action is done once at most; a pending prompt is visible unless prompts overlap | eight units of half a day; two alerts with a page of one, three loads, two forms, two passwords |
| `detection` | without a fault, new peers are reported, and once per novelty window; with one, alerts of one key are still more than a cooldown apart | one peer, two contacts, two alerts, one fault, a clock that jumps by one |
| `algorithms` | `GeoTable`: sorted, minimal, and a lookup gives the first claim. If a record wraps around the last address, a lookup may find nothing, but no wrong country. `Beaconing`: a regular, unanswered beacon with enough contacts in the window is flagged wherever flushes, prunes and the window fall | all lists of up to three records over six addresses, wrapping ones included; up to four contacts in eleven instants, answered or not, a window and a retention of eight, with every phase of the flush |
| `startup` | whoever has opened the database finds it migrated, and a process alone in the migration does not fail; a setup marked complete has an admin and every setting; after the last crash the process serves, with a matching pair, unless a file or a setting was spoilt | a new or an old database, two processes that open it, two crashes or removals, two keys in a request |
| `service` | nothing recorded is lost, whatever step fails; a service installed to run as its own user can open its database, and the setup of an installed one is complete until it is cleared | four commands, one batch, a setup completed and cleared once per database, systemd and OpenRC, a user's directory below a home or elsewhere |

What the premises exclude in `startup`: a file that was removed, a crash between
creating and writing the key file (an empty key file counts as present and is
never replaced), and an unusable value stored by `PUT /api/settings`. In
`service`: `raced`, a process started while an install was under way (the check
for running instances comes first, and nothing is locked); `mixed`, a retried
copy that leaves the log of an earlier one beside the new database; `cut`, the
last install did not end well, of which the command has told the user; `root`,
root has used the directory since; `cleared`, `PUT /api/settings` has stored
another value of `setup_complete` since `verifySetupComplete` saw it. A directory
below a home (`homes`) is excepted from `InstalledIsUsable` under systemd, since
the unit has `ProtectHome=true`. `SetupStaysComplete` and `OverrideIsUsable` below
are the two properties without these exceptions. In `algorithms`, `BeaconIsFlagged`
asks for enough contacts within one window: with the code's constants (five
observations, 24 hours, intervals of up to six hours) beacons near the longest
accepted interval seldom have them.

Two runs end in a violation; each states what a document or comment of the
repository says, quoted in `PROJECT.json` under `findings`:

| Run | What the code does |
|---|---|
| `accounts_last_admin` | two concurrent requests remove the last two admins, each guard having counted two |
| `traffic_exfil` | received bytes are in rows the exfiltration query leaves out, so an even exchange is flagged |

Bounds. Each is the smallest that still lets the interesting case happen: a
queue that overflows, two records of one host in one flush, a flush on either
side of a tick, a novelty window that ends, an install after an interrupted one,
two loads or two prompts at once. The mutants are the evidence that it
does: each property fails under its run's own bounds when the code is changed in
one place. Nothing is claimed beyond the bounds except by the theorems. Symmetry
is used only with invariants and `RenamesTogether`, whose formulas do not tell
the permuted values apart. Deadlock is not checked where the model ends by
design: bounded traffic or time, a finished table, the last start.

### Further disagreements with comments and documents

The modules also define properties that the code does not keep. No run lists
them; the right column says what to change in the configuration of the module's
passing run to see TLC refute each.

| Where the code says it | What it does | To reproduce |
|---|---|---|
| `capture/pipeline.go:50`, "blocks until ctx is canceled, performing a final flush before returning" | on a silent interface the read never returns, and neither does `Run` | `MCCapture`: `SPECIFICATION QuietSpec`, `ShutdownCompletes` |
| `capture/pipeline.go:197`, "already fully handled" | after a failed `UpsertHost` the next record of the address gets host id 0, and the foreign key rolls back the whole flush | `MCCapture`: `ResolvedIsHandled` |
| `store/dhcp.go:7`, "so the two tables never disagree" | a name learned before the row has the MAC does not reach the row | `MCHostNaming`: `TablesAgree` |
| `store/flows.go:16`, "this host initiated contact" | the answers of a LAN server to several client ports look like a scan it initiated | `MCTraffic`: `ScannerInitiated` with `Packets` two connections from ports 8 and 9 of `a` to port 80 of `b`, and the answers |
| `store/rollup.go:25`, "don't double- or under-count" | traffic flushed after the minute's tick is never rolled up; a tick handled late sums a bucket twice | `MCRollup`: drop `LatePhase` from `RollupsComplete`, or the premise of `NothingCountedTwice` |
| `rollupjob/scheduler.go:14`, "superseded by coarser tiers well before these windows expire" | a range older than a tier's retention is read from that tier if it is short | `MCWeb`: `CoarserTierInTime` |
| `detect/new_destination.go:28`, "haven't been contacted by that host in the last 30 days" | a row stored after the scan of its window is in no later window | `MCDetection`: `NoveltyIsTrue`, with `Learning = 0`, `Novelty = 6` and `MaxFaults = 0` (TLC may show a detector switched off in between; it fails without `SetDetector` as well) |
| `detect/new_destination.go:87`, "no corresponding outbound request" | a request stored late and its answer in the next window look like an unsolicited contact | `MCDetection`: `InboundIsUnsolicited`, with `Learning = 0` and `MaxFaults = 0` |
| `detect/detect.go:27`, "never leaves it ambiguous" | an alert about a LAN peer has the direction unknown | `MCDetection`: `DirectionIsKnown`, with `LanPeers <- Inside` |
| the same | the ports of a watched peer are collapsed to the first one, whose direction is reported for all of them | `MCTraffic`: `GeoLabelComplete` |
| `detect/beaconing.go:36`, "suspiciously regular" | an answered beacon has rows of two directions with gaps that alternate, and is ignored | `MCAlgorithms`: `AnsweredIsFlagged` |
| the same | a flush between two packets of one contact leaves two rows with one `first_seen`; the gap of 0 makes a regular beacon look irregular | `MCAlgorithms`: `ContactIsFlagged` |
| `detect/beaconing.go:20`, "too fast looks like a normal sustained connection" | a one-way stream leaves a row per flush, at exactly the accepted interval, and is flagged | `MCAlgorithms`: `SustainedIsIgnored` |
| `capture/capture.go:48`, "one observed outbound DNS query" | a query from outside to port 53 of a LAN host is recorded as that host's own | `MCTraffic`: `DNSAlertMeansAsked` |
| `tools/geoip-gen/main.go:145`, "always strictly sorted and non-overlapping" | the end of a record is `start+count-1` in 32 bits, unchecked; one that wraps leaves a range that ends before it starts | `MCAlgorithms`: drop `NoneWraps` from `StrictlySorted` |
| `config/firstrun.go:41`, "in one transaction" | the wizard is three writes; a crash leaves an admin without a setup | `MCStartup`: `WizardIsAtomic` |
| `tlscert/selfsigned.go:20`, "never overwrites existing files" | when one file is missing both are written anew | `MCStartup`: `NeverOverwrites` |
| the repository's `README.md:163`, "your existing history is preserved, not discarded" | after a copy that was cut short, the next install finds a database in the target and leaves the rest where it was | `MCServiceInstall`: `MigrationResumes` |
| the repository's `README.md:164`, "`--root` to run as root instead of a dedicated user" | with `--root` the directory alone changes hands, and under systemd's `CapabilityBoundingSet` root cannot open the user's files in it | `MCServiceInstall`: `RootIsUsable` |
| the repository's `README.md:165`, "`--data-dir <path>` to point at a database elsewhere" | below a home systemd hides the directory from the service (`ProtectHome=true`), so it cannot open what was installed | `MCServiceInstall`: `OverrideIsUsable` |

Four more say what no document promises, but a reader might assume:

| Property | What the code does |
|---|---|
| `MCWeb`: `ShownIsAlwaysCurrent` | every answer is rendered, so that to an earlier zoom or filter replaces the later one when it comes last |
| `MCWeb`: `PromptIsAlwaysVisible` | overlapping prompts share one dialog, which the first answer hides |
| `MCServiceInstall`: `SetupStaysComplete` | `putSettings` stores any value of `setup_complete`, also between `verifySetupComplete` and the start of the service, which then only exits |
| `MCStartup`: `MigratesTogether` | two processes that migrate at once both see a column missing, and the second `ALTER TABLE` fails; or both insert the version row |

One more was read in the source and is not in a model: `auth/session.go:12` calls
`SessionIdleTimeout` the time an unused session stays valid, but `expires_at` is
set at login and never renewed (`Valid` in `Accounts` has no effect on
`expires`), so a session in use expires all the same.

Fairness. `Capture` assumes that scheduled goroutines take their enabled steps,
and strong fairness for the `ctx.Done` case, since `select` chooses at random.
`BusySpec` adds that blocked reads return, as they do on a mirrored link that
carries traffic; `QuietSpec` does not, and shutdown fails there. `Startup` assumes that a process that is down is started again (by
the service manager or the operator) and goes on, through the migration too, and that the operator answers
the wizard with a free name again and again until it completes. Everything else
is safety.

## Proofs

Thirty-seven properties of the runs, of 40, are theorems: every safety property,
and the refinement. No bound on the number of packets, peers, calls, commands,
crashes or faults is left in them, as the bounds of the models are constants about
which nothing is assumed that limits them. An invariant about one moment is seldom
inductive; each proof names what has to be known in between.

* **Capture, for any packets, keys, hosts and queue size.** `ExactlyOnce` is not
  inductive alone: that a step moves an event to one place needs to know which
  phase `Run` is in and what is empty then. `IInv` adds the types, the shape of
  the buffers (`ShapeInv`), the phases (`PhaseInv`) and the owners of host ids
  (`HostInv`). `CaptureProofs` shows the types and that steps keep these parts;
  then that each action moves what it touches from one place to one other, from
  which follow `ExactlyOnce`, `FinalFlushComplete`, `RowsOwned` and
  `NoSilentLoss`; and last the refinement, `Spec => LedgerSpec`.
  Assumptions: `QueueCapAssumption` and `DecodeAssumption` (an event comes from
  one place in one packet, and its key has its address).
* **Sums, over any finite set.** `SumOver` is a fold in an unknown order, and the
  library's induction theorems cannot be used here. `SumsProofs` goes round them:
  a sum of natural numbers is the size of the set of their units (`Units`: f[x]
  pairs for each x). That `SumOver` is that size (`SumIsCount`) is shown by the least
  size of a set for which it is not, which has no set of one element less; that sums
  split, grow and can be renamed then follows from the library's facts about the
  size of a set.
* **Traffic, for any packets, subnet, thresholds, windows, countries and watchlist.**
  `TableIsExact`: first the filter, executed instruction by instruction on any frame
  (the frames kept are exactly those of `Monitored`); then `FlowInv`, which says that
  the table summarises the events that no flush has covered (`TableInv`), that a row
  comes from an event (`RowsInv`) and that an event a flush has covered is in a row of
  its key that is no older (`CoverInv`). From the last two follow `ScansAreFound` and
  `WatchlistIsExact`, whatever the flushes merged: a row of many packets is selected
  by its last one, and every packet in the window is in some selected row.
  `DNSAlertsAreExact`: `QueryInv` says that the buffer has the queries no flush has
  covered, that the table has only queries seen on the wire, and all that the last
  prune had to keep; a window shorter than the retention lies behind no prune. The
  queries of a host are those it sent and those sent to it from outside, as in
  `Decode`.
  `EveryByteIsRecorded`: the bytes of a host in rows and table are those on the wire
  (`BytesInv`), because `Decode` gives one event to each end that is in the LAN.
  Assumptions: `PacketAssumption` (a packet has bytes, and tags come before the type
  of the payload), `RetentionAssumption` (the DNS window is shorter than the
  retention, as the code's constants are) and `ThresholdAssumption`.
* **Rollup, for any widths, flush period, start phases and restarts.** Neither
  property is inductive: that a tick adds a bucket only once needs to know which
  buckets have been added. `RollupInv` says, as long as no tick has waited, that a
  waiting tick is due now (`Ticks`), that what waits for a flush came after the last
  one (`Recent`), that a tier is empty beyond the bucket its last tick has filled
  (`Below` its `Frontier`, which moves with the phase of the tickers) and has no more
  than its bytes before (`Within`). `RollupIsComplete` adds that up to the frontier
  nothing is missing (`Above`): with `LatePhase` a flush or the finer tick has always
  come first. `RollupCountsOnce` holds over restarts because new tickers start at the
  clock, and the first bucket they fill ends after it.
  Assumption: `WidthAssumption` (five minutes are a whole number of minutes).
* **Beaconing, for any flush period, window, bounds and number of observations.**
  `BeaconsAreFlagged`: `BeaconInv` says that if contacts are further apart than the
  flush period and none is answered, each is one row with its own time
  (`OneRowEach`), which needs that an entry of the aggregator is no older than the
  last flush (`Opened`), and that a prune has deleted no row a window still reaches.
  The rows a scan reads are then those of the contacts within its window, all gaps
  are equal, and the deviations in `Regular` sum to nothing. The premise that no
  contact is answered is needed, see above. Assumption: `BeaconingAssumption` (the
  rows are kept for at least one window, as the code's constants say).
* **HostNaming, for any addresses, devices, names and messages in hand.**
  `HostsShowTheirOwnNames`: a name travels from the wire through two buffers to
  the table, so `NamingInv` says of each place on the way that what it holds was
  seen (`Seen`). `TheLastLeaseWins`: the buffer and what the flush has taken from
  it form one queue; without faults, the last message of a device in it carries
  the latest name, or the table does when there is none (`Settled`).
  `TablesChangeTogether` is an action property, from the same invariant.
  Assumption: `NoneAssumption`.
* **Detection, for any peers, durations, cooldowns and number of faults.**
  `AlertsAreSpaced`: the invariant adds the shape of the alerts and of a scan in
  progress. `NewPeersAreReported` and `NewIsReportedOnce`: a scan first records
  the peer and then raises the alert, so `Fresh` says that as long as nothing has
  failed a peer met after the learning period has its alert or is the one the
  scan is about to raise, and that no alert about a peer is later than its last
  sighting. Assumptions: `CooldownAssumption`, `DetectionAssumption` (the
  durations are natural numbers, as the code's constants are).
* **GeoTable, for any number of addresses and records, wrapping ones included.**
  `TableIsSorted`: the closed runs are sorted and end before the open one (`Inv`);
  only a record that wraps makes a run that ends before it starts. `TableIsMinimal`:
  no two neighbours of one country touch, the open run included (`Apart`).
  `LookupsAreRight`: `ClaimInv` says that an address in a run has the country of
  its first claim, and that an address in a record is in a run. A later record
  may begin before the open run does, when its head was claimed; that the gap is
  covered by closed runs is the part of `ClaimInv` without which it is not
  inductive. The first record that claims an address is found with the least
  element of a set of positions, not by induction. Assumption: `GeoAssumption`.
* **Series, for any retention setting and any failed or late prunes.**
  `TheLastDayIsComplete`: `SeriesInv` says that no tier has deleted what it is to
  keep, and that the days are read only for ranges longer than those the hours
  serve. Assumption: `KeepAssumption`, about the constants of `scheduler.go` and
  `handlers_api.go` only. `retention_days`, which `PUT /api/settings` stores as it
  is, may be any number.
* **WebClient, for any alerts, page size, number of calls, forms and passwords.**
  `TheChoiceIsShown`: the last call carries the choice and is out or shown
  (`LoadInv`). `AcknowledgementsAreTrue`: every answer on its way is as true as
  what is shown, and every request on its way was meant (`AckInv`).
  `FormsReportTheTruth`: what each phase of a form says about how often its action
  was carried out (`Honest`), the repeated call after a password included.
  `ThePromptIsVisible`: without overlap one form waits at most, and every password
  on its way is that form's (`PromptInv`). Assumption: `WebAssumption`.
* **Startup, for any set of processes, any names, keys and number of crashes.**
  Four invariants over different variables. `OpenedIsMigrated`: that an open
  database is migrated is not inductive, `MigrationInv` says what must be there
  at every statement of `migrate`, and that others only add to it.
  `AloneMigrates`: `AloneInv` says that what a process alone in `migrate` has
  looked at is still so. `SetupIsComplete`: `WizardInv` ties each phase of the
  command to what it has stored. `PairAlwaysMatches`: `FilesInv` says, for each
  phase of `EnsureSelfSigned`, which of the files is absent, empty or of the last
  pair. Assumption: `StartupAssumption`.
* **Accounts, for any number of requests, accounts and sessions.**
  `SessionsAlwaysOwned` and `SessionsAlwaysKeepOwner`: a login inserts its session
  long after the password check, so `IInv` adds what each handler holds in its
  locals (`LoginInv`: the id it read is that of the name or of a deleted account)
  and that ids are never used again. Assumptions: `NoneAssumption`,
  `BoundAssumption`, `DurationAssumption`.
* **ServiceInstall, for any batches and any number of commands and of writes of
  `setup_complete`.** `NothingIsLost`:
  that everything is in one of the two directories is not inductive, since the
  removal of the source needs it to be in the target. `LossInv` adds where it must
  be in each phase (`Kept`), what `cp` has copied (`CopiedOK`) and that without a
  race no process runs during an install (`ProcOK`). `TheServiceMayOpen` and
  `TheServiceIsSetUp`: `ServiceInv` follows the owner of the directory and the
  completed setup from the step that establishes them to the unit that relies on
  them, over processes that crash before their log is flushed, later installs that are refused or cut short and an uninstall that
  comes in between. Assumption: `ServiceAssumption`.

Only model-checked: `EverythingSettles` and `ShutdownCompletes` of `Capture` and
`EventuallyServes` of `Startup`, which are liveness under fairness (fairness and
ENABLED are out of the prover's reach). The type invariants that are no run's
property are parts of the inductive invariants where a proof needs them.

## Not modelled

The replay source of the tests; the entropy of a DNS name (floating point) and
password hashing, which appear as a property of the name and of the password;
read-only listings, pages and routing; the tables of the dashboard, of flows and
of users in `app.js`, and its login form; graceful shutdown of the web server;
the text of unit files; SQLite's pragmas; the download and the binary encoding of
the GeoIP table; the 1h and 1d rollups, which run the code of the 5m one.
`PROJECT.json` gives the reason for each under `components`. One detail of the
alert page is left out as well: the note "Could not acknowledge" appears also
when only the reload after a successful call fails. So do the failure messages of
the user forms; `ReportIsTrue` is about the forms of the settings page, which
reload nothing.

## Plan

1. Composition: `Rollup` with `Series`, so that a graph is compared with the
   packets themselves; `WebClient` with `Accounts`, so that the session it talks to
   can be deleted by another tab.
2. Further proofs: that `Capture`, whose rows are sets of events, and `Traffic`,
   whose rows are numbers, agree: a refinement that composes `EveryByteIsRecorded`
   with `NothingLostOrCountedTwice`.
3. The project keeps to a dozen runs and 40 properties so that all can be repeated
   in an afternoon (the runs take minutes, the proofs about an hour from nothing): a new module shares a run with the one it is composed with, or
   takes the place of a smaller one.
