----------------------------- MODULE Detection -----------------------------
(***************************************************************************)
(* The detection scheduler (internal/detect/scheduler.go), the detector of *)
(* new destinations, known_peers, and the alerts every detector raises and *)
(* the web interface acknowledges, beside the flush of the capture         *)
(* pipeline that feeds flows_recent.                                       *)
(*                                                                         *)
(* One host, first seen at time 0; a contact is a packet of a connection   *)
(* of its own, so that no two share a row.  The other five detectors reach *)
(* the alerts table only through raiseAlert; they are represented by one   *)
(* that may raise at any moment ("ongoing").  What three of them compute   *)
(* is the subject of modules Traffic and Beaconing.                        *)
(***************************************************************************)
EXTENDS Integers, Sequences, FiniteSets

CONSTANTS
    WanPeers,       \* remote ip:port pairs outside the LAN
    LanPeers,       \* remote ip:port pairs inside the LAN
    FlushEvery,     \* the flush period
    ScanWindow,     \* NewDestinationScanWindow, also the period of the scan
    Novelty,        \* NewDestinationNoveltyWindow
    Learning,       \* NewDestinationLearningPeriod
    Cooldown,       \* the cooldown of each kind of alert
    OngoingKeys,    \* what the other detectors may raise an alert about
    MaxFaults,      \* bound: failed calls, late ticks, clock jumps and restarts
    MaxJump,        \* bound: how far the clock is set at once
    MaxContacts,    \* bound: contacts
    MaxAlerts,      \* bound: alerts
    MaxTime         \* bound: the clock

Peers == WanPeers \cup LanPeers
Kinds == {"new_destination", "ongoing"}
Labels == {"bidirectional", "outbound", "inbound", "unknown"}
Tickers == {"flush", "scan"}

ASSUME CooldownAssumption == Cooldown \in [Kinds -> Nat]
ASSUME DetectionAssumption ==
    /\ FlushEvery \in Nat \ {0} /\ ScanWindow \in Nat \ {0}
    /\ Novelty \in Nat /\ Learning \in Nat
    /\ MaxTime \in Nat /\ OngoingKeys \subseteq Peers

Times == 0 .. MaxTime
Never == -1

VARIABLES
    clock,      \* time.Now()
    due,        \* tickers whose channel holds a tick
    pending,    \* contacts in the aggregator: <<peer, "out" or "in", time>>
    flows,      \* flows_recent, in the same form
    enabled,    \* the detector's setting
    known,      \* known_peers: first_seen and last_seen of each peer
    scan,       \* the running scan: its time, the peers left with their
                \* labels, and the one about to be raised
    alerts,     \* the alerts table, in the order of insertion
    acked,      \* the ids of the acknowledged alerts
    faults      \* history: the faults so far

vars == <<clock, due, pending, flows, enabled, known, scan, alerts, acked, faults>>

Idle == [now |-> Never, todo |-> {}, raising |-> <<>>]

TypeOK ==
    /\ clock \in Times /\ due \subseteq Tickers /\ enabled \in BOOLEAN
    /\ pending \subseteq Peers \X {"out", "in"} \X Times
    /\ flows \subseteq Peers \X {"out", "in"} \X Times
    /\ known \in [Peers -> [first : Times \cup {Never}, last : Times \cup {Never}]]
    /\ scan.now \in Times \cup {Never} /\ scan.todo \subseteq Peers \X Labels
    /\ scan.raising \in {<<>>} \cup (Peers \X Labels)
    /\ alerts \in Seq([kind : Kinds, key : Peers, label : Labels, at : Times])
    /\ acked \subseteq 1 .. Len(alerts) /\ faults \in 0 .. MaxFaults

Init ==
    /\ clock \in 0 .. FlushEvery - 1
    /\ due = {} /\ enabled = TRUE
    /\ pending = {} /\ flows = {}
    /\ known = [p \in Peers |-> [first |-> Never, last |-> Never]]
    /\ scan = Idle
    /\ alerts = <<>> /\ acked = {} /\ faults = 0

-----------------------------------------------------------------------------
Fault == faults < MaxFaults /\ faults' = faults + 1

(* Time passes, once the ticks are handled.  At worst they wait, or the    *)
(* clock is set to another time.                                           *)
Advance ==
    /\ \/ due = {} /\ scan = Idle /\ clock < MaxTime /\ clock' = clock + 1 /\ UNCHANGED faults
       \/ clock' \in {t \in Times : t # clock /\ t - clock \in -MaxJump .. MaxJump} /\ Fault
    /\ due' = due \cup (IF clock' % FlushEvery = 0 THEN {"flush"} ELSE {})
                  \cup (IF clock' % ScanWindow = 0 THEN {"scan"} ELSE {})
    /\ UNCHANGED <<pending, flows, enabled, known, scan, alerts, acked>>

(* A packet from or to a peer.                                             *)
Contact(p, d) ==
    /\ Cardinality(pending \cup flows) < MaxContacts
    /\ pending' = pending \cup {<<p, d, clock>>}
    /\ UNCHANGED <<clock, due, flows, enabled, known, scan, alerts, acked, faults>>

Flush ==
    /\ "flush" \in due
    /\ due' = due \ {"flush"}
    /\ flows' = flows \cup pending
    /\ pending' = {}
    /\ UNCHANGED <<clock, enabled, known, scan, alerts, acked, faults>>

(* PUT /api/settings switches the detector.                                *)
SetDetector ==
    /\ enabled' = ~enabled
    /\ UNCHANGED <<clock, due, pending, flows, known, scan, alerts, acked, faults>>

-----------------------------------------------------------------------------
(* The rows RecentFlowPeers groups by peer.                                *)
InScan(now) == {f \in flows : now - ScanWindow <= f[3] /\ f[3] <= now}

(* classifyPeerDirection on MAX(direction = DirLANToWAN) and               *)
(* MAX(direction = DirWANToLAN): rows with a LAN peer have neither.        *)
PeerDirection(p, now) ==
    LET had(d) == p \in WanPeers /\ \E f \in InScan(now) : f[1] = p /\ f[2] = d
    IN  IF had("out") /\ had("in") THEN "bidirectional"
        ELSE IF had("out") THEN "outbound"
        ELSE IF had("in") THEN "inbound"
        ELSE "unknown"

RecentFlowPeers(now) == {<<f[1], PeerDirection(f[1], now)>> : f \in InScan(now)}

(* The tick: NewDestinations lists the peers of the window.  An error of   *)
(* the listing ends the scan, one of DetectorEnabled lets it go on.        *)
StartScan ==
    /\ "scan" \in due /\ scan = Idle
    /\ due' = due \ {"scan"}
    /\ \/ ~enabled /\ UNCHANGED <<scan, faults>>
       \/ /\ (enabled /\ UNCHANGED faults) \/ (~enabled /\ Fault)
          /\ scan' = [now |-> clock, todo |-> RecentFlowPeers(clock), raising |-> <<>>]
       \/ enabled /\ Fault /\ UNCHANGED scan
    /\ UNCHANGED <<clock, pending, flows, enabled, known, alerts, acked>>

(* Mutant: the novelty window is taken to be the cooldown.                 *)
IsNewAfterCooldown(p, now) ==
    known[p].last = Never \/ known[p].last < now - Cooldown["new_destination"]

IsNew(p, now) == known[p].last = Never \/ known[p].last < now - Novelty

UpsertKnownPeer(p) ==
    known' = [known EXCEPT ![p] =
        [first |-> IF @.last = Never THEN scan.now ELSE @.first, last |-> scan.now]]

(* Mutant: the learning period includes its last instant.                  *)
PastLearningLate(now) == now > Learning

PastLearning(now) == now >= Learning

(* One round of the loop, up to raiseAlert.  A failed lookup goes on to    *)
(* the next peer, a failed upsert does not stop the round.                 *)
ScanPeer(p, label) ==
    /\ scan.raising = <<>> /\ <<p, label>> \in scan.todo
    /\ \/ /\ Fault
          /\ scan' = [scan EXCEPT !.todo = @ \ {<<p, label>>}]
          /\ UNCHANGED known
       \/ /\ scan' = [scan EXCEPT !.todo = @ \ {<<p, label>>},
                !.raising = IF IsNew(p, scan.now) /\ PastLearning(scan.now)
                            THEN <<p, label>> ELSE <<>>]
          /\ \/ UpsertKnownPeer(p) /\ UNCHANGED faults
             \/ Fault /\ UNCHANGED known
    /\ UNCHANGED <<clock, due, pending, flows, enabled, alerts, acked>>

-----------------------------------------------------------------------------
(* Mutant: an acknowledged alert no longer holds back the next.            *)
RecentUnackedAlertExists(kind, key, since) ==
    \E i \in DOMAIN alerts :
        alerts[i].kind = kind /\ alerts[i].key = key /\ alerts[i].at >= since /\ i \notin acked

RecentAlertExists(kind, key, since) ==
    \E i \in DOMAIN alerts : alerts[i].kind = kind /\ alerts[i].key = key /\ alerts[i].at >= since

(* raiseAlert; an error of either statement is only logged.                *)
RaiseAlert(kind, key, label, now) ==
    \/ /\ ~RecentAlertExists(kind, key, now - Cooldown[kind])
       /\ Len(alerts) < MaxAlerts
       /\ alerts' = Append(alerts, [kind |-> kind, key |-> key, label |-> label, at |-> now])
       /\ UNCHANGED faults
    \/ RecentAlertExists(kind, key, now - Cooldown[kind]) /\ UNCHANGED <<alerts, faults>>
    \/ Fault /\ UNCHANGED alerts

RaiseNewDestination ==
    /\ scan.raising # <<>>
    /\ RaiseAlert("new_destination", scan.raising[1], scan.raising[2], scan.now)
    /\ scan' = [scan EXCEPT !.raising = <<>>]
    /\ UNCHANGED <<clock, due, pending, flows, enabled, known, acked>>

EndScan ==
    /\ scan # Idle /\ scan.todo = {} /\ scan.raising = <<>>
    /\ scan' = Idle
    /\ UNCHANGED <<clock, due, pending, flows, enabled, known, alerts, acked, faults>>

(* Another detector finds its condition still true.                        *)
RaiseOngoing(p) ==
    /\ scan = Idle
    /\ RaiseAlert("ongoing", p, "outbound", clock)
    /\ UNCHANGED <<clock, due, pending, flows, enabled, known, scan, acked>>

AcknowledgeAlert(i) ==
    /\ i \in DOMAIN alerts
    /\ acked' = acked \cup {i}
    /\ UNCHANGED <<clock, due, pending, flows, enabled, known, scan, alerts, faults>>

(* AcknowledgeAllAlerts, for one kind or (kind empty) for all.             *)
AcknowledgeAllAlerts(kinds) ==
    /\ acked' = acked \cup {i \in DOMAIN alerts : alerts[i].kind \in kinds}
    /\ UNCHANGED <<clock, due, pending, flows, enabled, known, scan, alerts, faults>>

(* The process dies and starts again: what was not in the database is      *)
(* gone.                                                                   *)
Restart ==
    /\ Fault
    /\ due' = {} /\ pending' = {} /\ scan' = Idle
    /\ UNCHANGED <<clock, flows, enabled, known, alerts, acked>>

Next ==
    \/ Advance
    \/ \E p \in Peers, d \in {"out", "in"} : Contact(p, d)
    \/ Flush
    \/ SetDetector
    \/ StartScan
    \/ \E p \in Peers, label \in Labels : ScanPeer(p, label)
    \/ RaiseNewDestination
    \/ EndScan
    \/ \E p \in OngoingKeys : RaiseOngoing(p)
    \/ \E i \in 1 .. MaxAlerts : AcknowledgeAlert(i)
    \/ \E kinds \in {{k} : k \in Kinds} \cup {Kinds} : AcknowledgeAllAlerts(kinds)
    \/ Restart

Spec == Init /\ [][Next]_vars

-----------------------------------------------------------------------------
(* An ongoing condition is reported at most once per cooldown: two alerts  *)
(* of one kind and key are more than the cooldown apart, whatever is       *)
(* acknowledged, fails or restarts in between and wherever the clock goes. *)
AlertsSpaced ==
    \A i, j \in DOMAIN alerts :
        i < j /\ alerts[i].kind = alerts[j].kind /\ alerts[i].key = alerts[j].key =>
            alerts[j].at > alerts[i].at + Cooldown[alerts[i].kind]

(* A peer whose first sighting came after the learning period has an       *)
(* alert once the scan that saw it is over: recording the peer before      *)
(* raising the alert loses nothing while nothing fails.                    *)
NewPeersReported ==
    faults = 0 /\ scan = Idle =>
        \A p \in Peers : known[p].first >= Learning =>
            \E i \in DOMAIN alerts : alerts[i].kind = "new_destination" /\ alerts[i].key = p

(* A peer that stays in touch is reported once: two alerts about one peer  *)
(* are more than the novelty window apart, although the cooldown is much   *)
(* shorter, as long as nothing fails.                                      *)
NewIsNotRepeated ==
    faults = 0 =>
        \A i, j \in DOMAIN alerts :
            i < j /\ alerts[i].kind = "new_destination" /\ alerts[j].kind = "new_destination"
                  /\ alerts[i].key = alerts[j].key =>
                alerts[j].at > alerts[i].at + Novelty

(* The contacts an alert about a new destination is about are the peer's   *)
(* first within the novelty window: none is so much older that the scan    *)
(* before should have seen it.                                             *)
NoveltyIsTrue ==
    \A i \in DOMAIN alerts : \A f \in flows :
        alerts[i].kind = "new_destination" /\ f[1] = alerts[i].key =>
            ~(alerts[i].at - Novelty <= f[3] /\ f[3] < alerts[i].at - 2 * ScanWindow)

(* An alert labelled inbound is about a peer that reached in: if the host  *)
(* sent it anything within the novelty window, the peer had sent first.    *)
InboundIsUnsolicited ==
    \A i \in DOMAIN alerts : \A f \in flows :
        /\ alerts[i].kind = "new_destination" /\ alerts[i].label = "inbound"
        /\ f[1] = alerts[i].key /\ f[2] = "out"
        /\ alerts[i].at - Novelty <= f[3] /\ f[3] <= alerts[i].at
        => \E g \in flows : g[1] = f[1] /\ g[2] = "in" /\ g[3] <= f[3]

(* Every alert about a new destination says which side made contact.       *)
DirectionIsKnown ==
    \A i \in DOMAIN alerts : alerts[i].label # "unknown"
=============================================================================
