----------------------------- MODULE HostProofs -----------------------------
(***************************************************************************)
(* Proofs about what is stored of a host: its alerts and its name.         *)
(*                                                                         *)
(* Detection, for every set of peers, every choice of durations and        *)
(* cooldowns, and any number of failures, late ticks, clock jumps and      *)
(* restarts, except those the properties themselves name: alerts with one  *)
(* key are more than a cooldown apart; a peer first met after the learning *)
(* period is reported as new, and reported once.                           *)
(*                                                                         *)
(* HostNaming, for any sets of addresses, devices and names and any number *)
(* of buffered DHCP messages: a host shows only a name of its own; the last *)
(* DHCP message of a device wins while nothing fails; and the two tables   *)
(* change together.                                                        *)
(***************************************************************************)
EXTENDS Detection, HostNaming, TLAPS

(***************************************************************************)
(* Detection.                                                              *)
(***************************************************************************)

Alert == [kind : Kinds, key : Peers, label : Labels, at : Int]

Contacts == Peers \X {"out", "in"} \X Int

Scans == [now : Int, todo : SUBSET (Peers \X Labels), raising : {<<>>} \cup (Peers \X Labels)]

(* What the argument needs of the types: the alerts are a sequence of      *)
(* records, and a scan carries its time and the peers it may raise, which  *)
(* come from the contacts stored.                                          *)
Shape ==
    /\ clock \in Int
    /\ pending \subseteq Contacts /\ flows \subseteq Contacts
    /\ alerts \in Seq(Alert)
    /\ scan \in Scans

Inv == Shape /\ AlertsSpaced

(* In every state the program starts in, the alerts table is empty.        *)
LEMMA InitInv == Init => Inv
<1> SUFFICES ASSUME Init PROVE Inv
    OBVIOUS
<1>1. clock \in Int /\ alerts = <<>> /\ scan = Idle /\ pending = {} /\ flows = {}
    BY DetectionAssumption DEF Init
<1>2. Shape
    BY <1>1 DEF Shape, Idle, Never, Scans
<1>3. AlertsSpaced
    BY <1>1 DEF AlertsSpaced
<1> QED
    BY <1>2, <1>3 DEF Inv

(* Every step of the scheduler, of the pipeline and of the handlers keeps  *)
(* the invariant.                                                          *)
LEMMA NextInv == Inv /\ [Next]_vars => Inv'
(* The label of a peer is one of the four that classifyPeerDirection       *)
(* returns.                                                                *)
<1>PeerDirectionType.
    ASSUME NEW p, NEW now
    PROVE  PeerDirection(p, now) \in Labels
    BY DEF PeerDirection, Labels
(* raiseAlert keeps the alerts apart: it inserts only when every earlier   *)
(* alert with the key is older than now - cooldown.                        *)
<1>RaiseAlertKeeps.
    ASSUME Inv,
           NEW kind \in Kinds, NEW key \in Peers, NEW label \in Labels, NEW now \in Int,
           RaiseAlert(kind, key, label, now)
    PROVE  alerts' \in Seq(Alert) /\ AlertsSpaced'
  <2> USE <1>RaiseAlertKeeps
  <2> DEFINE a == [kind |-> kind, key |-> key, label |-> label, at |-> now]
  <2>1. CASE UNCHANGED alerts
      BY <2>1 DEF Inv, Shape, AlertsSpaced
  <2>2. CASE /\ ~RecentAlertExists(kind, key, now - Cooldown[kind])
             /\ alerts' = Append(alerts, a)
    <3>1. a \in Alert
        BY DEF Alert
    <3>2. alerts \in Seq(Alert)
        BY DEF Inv, Shape
    <3>3. /\ alerts' \in Seq(Alert)
          /\ DOMAIN alerts = 1 .. Len(alerts) /\ Len(alerts) \in Nat
          /\ DOMAIN alerts' = 1 .. Len(alerts) + 1
          /\ \A i \in 1 .. Len(alerts) : alerts'[i] = alerts[i]
          /\ alerts'[Len(alerts) + 1] = a
        BY <2>2, <3>1, <3>2
    <3>4. \A i \in 1 .. Len(alerts) : alerts[i] \in Alert
        BY <3>2
    <3>5. Cooldown[kind] \in Nat
        BY CooldownAssumption
    <3>6. SUFFICES ASSUME NEW i \in DOMAIN alerts', NEW j \in DOMAIN alerts', i < j,
                          alerts'[i].kind = alerts'[j].kind, alerts'[i].key = alerts'[j].key
                   PROVE  alerts'[j].at > alerts'[i].at + Cooldown[alerts'[i].kind]
        BY <3>3 DEF AlertsSpaced
    <3>7. i \in 1 .. Len(alerts)
        BY <3>3, <3>6
    <3>8. CASE j \in 1 .. Len(alerts)
      <4>1. i \in DOMAIN alerts /\ j \in DOMAIN alerts
            /\ alerts'[i] = alerts[i] /\ alerts'[j] = alerts[j]
          BY <3>3, <3>7, <3>8
      <4> QED
          BY <4>1, <3>6 DEF Inv, AlertsSpaced
    <3>9. CASE j = Len(alerts) + 1
      <4>1. alerts'[i] = alerts[i] /\ alerts'[j] = a
          BY <3>3, <3>7, <3>9
      <4>2. alerts[i].kind = kind /\ alerts[i].key = key
          BY <4>1, <3>6
      <4>3. ~(alerts[i].at >= now - Cooldown[kind])
          BY <2>2, <3>3, <3>7, <4>2 DEF RecentAlertExists
      <4>4. alerts[i].at \in Int
          BY <3>4, <3>7 DEF Alert
      <4>5. now > alerts[i].at + Cooldown[kind]
          BY <4>3, <4>4, <3>5
      <4> QED
          BY <4>1, <4>2, <4>5
    <3> QED
        BY <3>3, <3>8, <3>9
  <2> QED
      BY <2>1, <2>2 DEF RaiseAlert
<1>NextInv. Inv /\ [Next]_vars => Inv'
  <2> SUFFICES ASSUME Inv, [Next]_vars PROVE Inv'
      OBVIOUS
  <2> USE DEF Inv
  <2>1. ASSUME UNCHANGED <<pending, flows, scan, alerts>>, clock' \in Int PROVE Inv'
      BY <2>1 DEF Shape, AlertsSpaced
  <2>2. ASSUME UNCHANGED <<clock, pending, flows, scan, alerts>> PROVE Inv'
      BY <2>2 DEF Shape, AlertsSpaced
  <2>3. ASSUME UNCHANGED <<clock, flows, alerts>>, pending' \subseteq Contacts, scan' \in Scans
        PROVE  Inv'
      BY <2>3 DEF Shape, AlertsSpaced
  <2>4. Idle \in Scans
      BY DEF Idle, Never, Scans
  <2>5. CASE Advance
    <3>1. clock' \in Int /\ UNCHANGED <<pending, flows, scan, alerts>>
        BY <2>5, DetectionAssumption DEF Advance, Times, Shape
    <3> QED
        BY <3>1, <2>1
  <2>6. CASE \E p \in Peers, d \in {"out", "in"} : Contact(p, d)
    <3>1. PICK p \in Peers, d \in {"out", "in"} : Contact(p, d)
        BY <2>6
    <3>2. <<p, d, clock>> \in Contacts
        BY DEF Contacts, Shape
    <3>3. pending' \subseteq Contacts /\ UNCHANGED <<clock, flows, scan, alerts>>
        BY <3>1, <3>2 DEF Contact, Shape
    <3> QED
        BY <3>3, <2>3 DEF Shape
  <2>7. CASE Flush
    <3>1. flows' \subseteq Contacts /\ pending' \subseteq Contacts /\ UNCHANGED <<clock, scan, alerts>>
        BY <2>7 DEF Flush, Shape
    <3> QED
        BY <3>1 DEF Shape, AlertsSpaced
  <2>8. CASE SetDetector
      BY <2>8, <2>2 DEF SetDetector
  <2>9. CASE StartScan
    <3>1. CASE UNCHANGED scan
        BY <2>9, <3>1, <2>2 DEF StartScan
    <3>2. CASE scan' = [now |-> clock, todo |-> RecentFlowPeers(clock), raising |-> <<>>]
      <4>1. RecentFlowPeers(clock) \subseteq Peers \X Labels
        <5>1. InScan(clock) \subseteq Contacts
            BY DEF InScan, Shape
        <5>2. \A f \in Contacts : f[1] \in Peers
            BY DEF Contacts
        <5> QED
            BY <5>1, <5>2, <1>PeerDirectionType DEF RecentFlowPeers
      <4>2. scan' \in Scans /\ UNCHANGED <<clock, pending, flows, alerts>>
          BY <2>9, <3>2, <4>1 DEF StartScan, Shape, Scans
      <4> QED
          BY <4>2, <2>3 DEF Shape
    <3> QED
        BY <2>9, <3>1, <3>2 DEF StartScan
  <2>10. CASE \E p \in Peers, label \in Labels : ScanPeer(p, label)
    <3>1. PICK p \in Peers, label \in Labels : ScanPeer(p, label)
        BY <2>10
    <3>2. scan \in Scans
        BY DEF Shape
    <3>3. UNCHANGED <<clock, pending, flows, alerts>>
        BY <3>1 DEF ScanPeer
    <3>4. CASE scan' = [scan EXCEPT !.todo = @ \ {<<p, label>>}]
        BY <3>2, <3>3, <3>4, <2>3 DEF Scans, Shape
    <3> DEFINE r == IF IsNew(p, scan.now) /\ PastLearning(scan.now) THEN <<p, label>> ELSE <<>>
    <3>5. CASE scan' = [scan EXCEPT !.todo = @ \ {<<p, label>>}, !.raising = r]
      <4>1. r \in {<<>>} \cup (Peers \X Labels)
          OBVIOUS
      <4> HIDE DEF r
      <4>2. scan' \in Scans
          BY <4>1, <3>2, <3>5, Zenon DEF Scans
      <4> QED
          BY <4>2, <3>3, <2>3 DEF Shape
    <3>6. \/ scan' = [scan EXCEPT !.todo = @ \ {<<p, label>>}]
          \/ scan' = [scan EXCEPT !.todo = @ \ {<<p, label>>}, !.raising = r]
        BY <3>1, Zenon DEF ScanPeer
    <3> QED
        BY <3>4, <3>5, <3>6
  <2>11. CASE RaiseNewDestination
    <3>1. /\ scan.raising[1] \in Peers /\ scan.raising[2] \in Labels /\ scan.now \in Int
          /\ UNCHANGED <<clock, pending, flows>> /\ scan' = [scan EXCEPT !.raising = <<>>]
          /\ RaiseAlert("new_destination", scan.raising[1], scan.raising[2], scan.now)
        BY <2>11 DEF RaiseNewDestination, Shape, Scans
    <3>2. alerts' \in Seq(Alert) /\ AlertsSpaced'
        BY <3>1, <1>RaiseAlertKeeps DEF Kinds
    <3> QED
        BY <3>1, <3>2, Zenon DEF Shape, Scans
  <2>12. CASE EndScan
      BY <2>12, <2>3, <2>4 DEF EndScan, Shape
  <2>13. CASE \E p \in OngoingKeys : RaiseOngoing(p)
    <3>1. PICK p \in OngoingKeys : RaiseOngoing(p)
        BY <2>13
    <3>2. /\ p \in Peers /\ clock \in Int /\ UNCHANGED <<clock, pending, flows, scan>>
          /\ RaiseAlert("ongoing", p, "outbound", clock)
        BY <3>1, DetectionAssumption DEF RaiseOngoing, Shape
    <3>3. alerts' \in Seq(Alert) /\ AlertsSpaced'
        BY <3>2, <1>RaiseAlertKeeps DEF Kinds, Labels
    <3> QED
        BY <3>2, <3>3 DEF Shape
  <2>14. CASE \E i \in 1 .. MaxAlerts : AcknowledgeAlert(i)
      BY <2>14, <2>2 DEF AcknowledgeAlert
  <2>15. CASE \E kinds \in {{k} : k \in Kinds} \cup {Kinds} : AcknowledgeAllAlerts(kinds)
      BY <2>15, <2>2 DEF AcknowledgeAllAlerts
  <2>16. CASE Restart
      BY <2>16, <2>3, <2>4 DEF Restart
  <2>17. CASE UNCHANGED vars
      BY <2>17, <2>2 DEF vars
  <2> QED
      BY <2>5, <2>6, <2>7, <2>8, <2>9, <2>10, <2>11, <2>12, <2>13, <2>14, <2>15, <2>16, <2>17
      DEF Next
<1> QED
    BY <1>NextInv

(* Whatever is acknowledged, fails or restarts, and wherever the clock     *)
(* goes, raiseAlert never stores two alerts of one kind and key within the *)
(* cooldown.                                                               *)
THEOREM AlertsAreSpaced == Spec => []AlertsSpaced
<1>1. Inv => AlertsSpaced
    BY DEF Inv
<1> QED
    BY InitInv, NextInv, <1>1, PTL DEF Spec
-----------------------------------------------------------------------------
(***************************************************************************)
(* New destinations, as long as nothing fails.                             *)
(***************************************************************************)
NewAbout(i, p) == alerts[i].kind = "new_destination" /\ alerts[i].key = p

PeerRow == [first : Int, last : Int]

(* While nothing has failed: a running scan works at the present time; no  *)
(* peer was recorded in the future; an alert about a peer is not younger   *)
(* than the peer's last_seen; the one about to be raised was just          *)
(* recorded, and the earlier alerts about it are outside the novelty       *)
(* window; a peer first seen after the learning period has its alert or is *)
(* about to get it.                                                        *)
Fresh ==
    /\ scan = Idle \/ scan.now = clock
    /\ \A p \in Peers : known[p].last <= clock
    /\ \A i \in DOMAIN alerts, p \in Peers :
          NewAbout(i, p) => 0 <= alerts[i].at /\ alerts[i].at <= known[p].last
    /\ scan.raising # <<>> =>
          /\ known[scan.raising[1]].last = scan.now
          /\ \A i \in DOMAIN alerts :
                NewAbout(i, scan.raising[1]) => alerts[i].at + Novelty < scan.now
    /\ \A i, j \in DOMAIN alerts, p \in Peers :
          i < j /\ NewAbout(i, p) /\ NewAbout(j, p) => alerts[j].at > alerts[i].at + Novelty
    /\ \A p \in Peers : known[p].first >= Learning =>
          \/ \E i \in DOMAIN alerts : NewAbout(i, p)
          \/ scan.raising # <<>> /\ scan.raising[1] = p

NewInv ==
    /\ clock \in Nat /\ faults \in Nat
    /\ known \in [Peers -> PeerRow]
    /\ faults = 0 => Fresh

(* What is in the table, position by position.                             *)
LEMMA AlertAt ==
    ASSUME Inv
    PROVE  \A i \in DOMAIN alerts : alerts[i].key \in Peers /\ alerts[i].at \in Int
<1>1. alerts \in Seq(Alert)
    BY DEF Inv, Shape
<1>2. DOMAIN alerts = 1 .. Len(alerts)
    BY <1>1
<1>3. \A i \in 1 .. Len(alerts) : alerts[i] \in Alert
    BY <1>1
<1> QED
    BY <1>2, <1>3 DEF Alert

(* The invariant of the two theorems below.                                *)
LEMMA NewInvariance == Spec => [](Inv /\ NewInv)
(* A failed call, a late tick, a clock jump or a restart ends the promise. *)
<1>AFaultEndsIt.
    ASSUME NewInv, Fault, clock' \in Nat, known' \in [Peers -> PeerRow]
    PROVE  NewInv'
  <2> USE <1>AFaultEndsIt
  <2>1. faults' \in Nat /\ faults' # 0
      BY DEF NewInv, Fault
  <2> QED
      BY <2>1 DEF NewInv
(* What a step that stores no alert and touches neither known_peers nor    *)
(* the scan keeps, also when a tick moves the clock on between two scans.  *)
<1>NothingRaised.
    ASSUME NewInv, UNCHANGED <<known, scan, alerts, faults>>,
           clock' \in Nat, clock <= clock', scan = Idle \/ clock' = clock
    PROVE  NewInv'
  <2> USE <1>NothingRaised
  <2>1. SUFFICES ASSUME faults = 0 PROVE Fresh'
      BY DEF NewInv
  <2>2. Fresh
      BY <2>1 DEF NewInv
  <2>3. \A p \in Peers : known[p].last \in Int
      BY DEF NewInv, PeerRow
  <2>4. \A p \in Peers : known[p].last <= clock'
      BY SMTT(30), <2>2, <2>3 DEF Fresh, NewInv
  <2>5. scan' = Idle \/ scan'.now = clock'
      BY <2>2 DEF Fresh
  <2>6. \A i, p : NewAbout(i, p)' <=> NewAbout(i, p)
      BY DEF NewAbout
  <2> QED
      BY <2>2, <2>4, <2>5, <2>6, Zenon DEF Fresh
(* A new scan raises nothing yet, and one that ends raises nothing more.   *)
<1>ScanTurns.
    ASSUME NewInv, UNCHANGED <<clock, known, alerts, faults>>,
           scan.raising = <<>>, scan'.raising = <<>>, scan' = Idle \/ scan'.now = clock
    PROVE  NewInv'
  <2> USE <1>ScanTurns
  <2>1. SUFFICES ASSUME faults = 0 PROVE Fresh'
      BY DEF NewInv
  <2>2. Fresh
      BY <2>1 DEF NewInv
  <2>3. \A i, p : NewAbout(i, p)' <=> NewAbout(i, p)
      BY DEF NewAbout
  <2> QED
      BY <2>2, <2>3, Zenon DEF Fresh
<1>Between.
    ASSUME NEW a \in Int, NEW b \in Int, NEW c \in Int, a <= b, b <= c
    PROVE  a <= c
    BY <1>Between
(* One peer is recorded: it becomes the one to raise when IsNew held and   *)
(* the learning period was over.                                           *)
<1>PeerRecorded.
    ASSUME Inv, NewInv, NEW p \in Peers, NEW label \in Labels,
           UNCHANGED <<clock, alerts, faults>>,
           scan # Idle, scan.raising = <<>>, UpsertKnownPeer(p),
           scan'.now = scan.now, scan' # Idle,
           scan'.raising = IF IsNew(p, scan.now) /\ PastLearning(scan.now)
                           THEN <<p, label>> ELSE <<>>
    PROVE  NewInv'
  <2> USE <1>PeerRecorded
  <2>1. /\ known' = [known EXCEPT ![p] = known'[p]]
        /\ known'[p] = [first |-> IF known[p].last = Never THEN scan.now ELSE known[p].first,
                        last |-> scan.now]
      BY DEF UpsertKnownPeer, NewInv
  <2>2. scan.now \in Int /\ known[p] \in PeerRow
      BY DEF Inv, Shape, Scans, NewInv
  <2>3. known' \in [Peers -> PeerRow]
    <3>1. known'[p] \in PeerRow
        BY <2>1, <2>2 DEF PeerRow
    <3> QED
        BY <3>1, <2>1, Zenon DEF NewInv
  <2>4. SUFFICES ASSUME faults = 0 PROVE Fresh'
      BY <2>3 DEF NewInv
  <2>5. Fresh /\ scan.now = clock /\ clock \in Nat
      BY <2>4, Zenon DEF NewInv, Fresh
  <2>6. \A q \in Peers : q # p => known'[q] = known[q]
      BY <2>1, Zenon DEF NewInv
  <2>7. known'[p].last = clock /\ known[p].last \in Int
        /\ known'[p].first = IF known[p].last = Never THEN clock ELSE known[p].first
      BY SMTT(30), <2>1, <2>2, <2>5 DEF PeerRow
  <2>8. \A i, q : NewAbout(i, q)' <=> NewAbout(i, q)
      BY DEF NewAbout
  <2>9. \A i \in DOMAIN alerts : alerts[i].at \in Int
      BY AlertAt
  <2>10. scan' = Idle \/ scan'.now = clock'
      BY <2>5
  <2>11. \A q \in Peers : known'[q].last <= clock'
    <3> TAKE q \in Peers
    <3>1. CASE q = p
        BY <3>1, <2>5, <2>7
    <3>2. CASE q # p
        BY <3>2, <2>5, <2>6, Zenon DEF Fresh
    <3> QED
        BY <3>1, <3>2
  <2>12. ASSUME NEW i \in DOMAIN alerts, NEW q \in Peers, NewAbout(i, q)
         PROVE  0 <= alerts[i].at /\ alerts[i].at <= known'[q].last
    <3>1. 0 <= alerts[i].at /\ alerts[i].at <= known[q].last /\ known[q].last <= clock
        BY <2>5, <2>12, Zenon DEF Fresh
    <3>2. CASE q = p
      <4>1. alerts[i].at \in Int /\ known[p].last \in Int /\ clock \in Int
          BY <2>5, <2>7, <2>9
      <4>2. alerts[i].at <= clock
          BY <3>1, <3>2, <4>1, <1>Between, Zenon
      <4> QED
          BY <3>1, <3>2, <4>2, <2>7, Zenon
    <3>3. CASE q # p
        BY <3>1, <3>3, <2>6, Zenon
    <3> QED
        BY <3>2, <3>3, Zenon
  <2>13. ASSUME scan'.raising # <<>>
         PROVE  /\ scan'.raising[1] = p
                /\ known'[p].last = scan'.now
                /\ \A i \in DOMAIN alerts : NewAbout(i, p) => alerts[i].at + Novelty < scan'.now
    <3>1. IsNew(p, clock) /\ scan'.raising = <<p, label>>
        BY <2>5, <2>13
    <3>2. ASSUME NEW i \in DOMAIN alerts, NewAbout(i, p)
          PROVE  alerts[i].at + Novelty < clock
      <4>1. 0 <= alerts[i].at /\ alerts[i].at <= known[p].last
          BY <3>2, <2>5, Zenon DEF Fresh
      <4>2. known[p].last # Never
          BY SMTT(30), <4>1, <2>7, <2>9 DEF Never
      <4>3. known[p].last < clock - Novelty
          BY <3>1, <4>2 DEF IsNew
      <4> QED
          BY <4>1, <4>3, <2>5, <2>7, <2>9, DetectionAssumption
    <3>3. scan'.raising[1] = p /\ scan'.now = clock
      <4>1. <<p, label>>[1] = p
          OBVIOUS
      <4> QED
          BY <3>1, <4>1, <2>5, Zenon
    <3>4. known'[p].last = scan'.now
        BY <3>3, <2>7
    <3> QED
        BY <3>2, <3>3, <3>4
  <2>14. ASSUME NEW q \in Peers, known'[q].first >= Learning
         PROVE  \/ \E i \in DOMAIN alerts : NewAbout(i, q)
                \/ scan'.raising # <<>> /\ scan'.raising[1] = q
    <3>1. CASE q # p \/ known[p].last # Never
      <4>1. known[q].first >= Learning
          BY <3>1, <2>6, <2>7, <2>14
      <4> QED
          BY <4>1, <2>5, Zenon DEF Fresh
    <3>2. CASE q = p /\ known[p].last = Never
      <4>1. clock >= Learning
          BY <3>2, <2>7, <2>14
      <4>2. scan'.raising = <<p, label>>
          BY <4>1, <3>2, <2>5 DEF IsNew, PastLearning
      <4> QED
          BY SMTT(30), <4>2, <3>2
    <3> QED
        BY <3>1, <3>2
  <2>15. \A i, j \in DOMAIN alerts, q \in Peers :
            i < j /\ NewAbout(i, q) /\ NewAbout(j, q) => alerts[j].at > alerts[i].at + Novelty
      BY <2>5, Zenon DEF Fresh
  <2> QED
      BY <2>8, <2>10, <2>11, <2>12, <2>13, <2>14, <2>15, Zenon DEF Fresh
(* Storing an alert adds one position, and leaves the others as they were. *)
<1>Appended.
    ASSUME NEW a \in Alert, alerts \in Seq(Alert), alerts' = Append(alerts, a)
    PROVE  /\ alerts' \in Seq(Alert)
           /\ DOMAIN alerts = 1 .. Len(alerts) /\ Len(alerts) \in Nat
           /\ DOMAIN alerts' = 1 .. Len(alerts) + 1
           /\ \A i \in 1 .. Len(alerts) : alerts'[i] = alerts[i]
           /\ alerts'[Len(alerts) + 1] = a
    BY <1>Appended
(* An alert of another detector says nothing about new destinations.       *)
<1>OngoingRaised.
    ASSUME Inv, NewInv, NEW p \in Peers, NEW now \in Int,
           RaiseAlert("ongoing", p, "outbound", now), UNCHANGED <<clock, known, scan>>
    PROVE  NewInv'
  <2> USE <1>OngoingRaised
  <2> DEFINE a == [kind |-> "ongoing", key |-> p, label |-> "outbound", at |-> now]
  <2>1. CASE Fault
      BY <2>1, <1>AFaultEndsIt DEF NewInv
  <2>2. CASE UNCHANGED <<alerts, faults>>
      BY <2>2, <1>NothingRaised DEF NewInv
  <2>3. CASE alerts' = Append(alerts, a) /\ UNCHANGED faults
    <3>1. SUFFICES ASSUME faults = 0 PROVE Fresh'
        BY <2>3 DEF NewInv
    <3>2. Fresh
        BY <3>1 DEF NewInv
    <3>3. a \in Alert /\ alerts \in Seq(Alert)
        BY DEF Alert, Kinds, Labels, Inv, Shape
    <3>4. /\ DOMAIN alerts \subseteq DOMAIN alerts'
          /\ \A i \in DOMAIN alerts : alerts'[i] = alerts[i]
          /\ \A i \in DOMAIN alerts' : i \in DOMAIN alerts \/ alerts'[i] = a
        BY SMTT(30), <2>3, <3>3, <1>Appended
    <3>5. /\ \A i \in DOMAIN alerts, q \in Peers : NewAbout(i, q)' <=> NewAbout(i, q)
          /\ \A i \in DOMAIN alerts', q \in Peers : NewAbout(i, q)' => i \in DOMAIN alerts
        BY SMTT(30), <3>4 DEF NewAbout
    <3>6. scan.raising # <<>> => scan.raising[1] \in Peers
        BY DEF Inv, Shape, Scans
    <3> QED
        BY <3>2, <3>4, <3>5, <3>6, Zenon DEF Fresh
  <2> QED
      BY <2>1, <2>2, <2>3 DEF RaiseAlert
(* The alert about a new destination: stored now, or an earlier one holds  *)
(* it back and stands for it.                                              *)
<1>NewRaised.
    ASSUME Inv, NewInv, RaiseNewDestination
    PROVE  NewInv'
  <2> USE <1>NewRaised
  <2> DEFINE p == scan.raising[1]
             a == [kind |-> "new_destination", key |-> p, label |-> scan.raising[2], at |-> scan.now]
  <2>1. /\ p \in Peers /\ scan.raising[2] \in Labels /\ scan.now \in Int /\ scan \in Scans
        /\ UNCHANGED <<clock, known>> /\ scan.raising # <<>>
        /\ scan' = [scan EXCEPT !.raising = <<>>]
        /\ RaiseAlert("new_destination", p, scan.raising[2], scan.now)
      BY DEF RaiseNewDestination, Inv, Shape, Scans
  <2>2. scan'.raising = <<>> /\ scan'.now = scan.now
      BY <2>1 DEF Scans
  <2>3. CASE Fault
      BY <2>3, <2>1, <1>AFaultEndsIt DEF NewInv
  <2>4. SUFFICES ASSUME faults = 0, UNCHANGED faults,
                        \/ alerts' = Append(alerts, a)
                        \/ UNCHANGED alerts /\ \E i \in DOMAIN alerts : NewAbout(i, p)
                 PROVE  Fresh'
    <3>1. RecentAlertExists("new_destination", p, scan.now - Cooldown["new_destination"])
             => \E i \in DOMAIN alerts : NewAbout(i, p)
        BY DEF RecentAlertExists, NewAbout
    <3>2. \/ Fault
          \/ UNCHANGED faults /\ alerts' = Append(alerts, a)
          \/ UNCHANGED <<alerts, faults>> /\ \E i \in DOMAIN alerts : NewAbout(i, p)
        BY <2>1, <3>1, Zenon DEF RaiseAlert
    <3>3. CASE UNCHANGED faults
        BY <2>1, <2>4, <3>2, <3>3, <2>3 DEF NewInv
    <3> QED
        BY <2>3, <3>2, <3>3
  <2>5. Fresh /\ scan # Idle
      BY <2>4, <2>1 DEF NewInv, Idle
  <2>6. /\ scan.now = clock /\ clock \in Nat /\ known[p].last = scan.now
        /\ \A i \in DOMAIN alerts : NewAbout(i, p) => alerts[i].at + Novelty < scan.now
      BY <2>1, <2>5 DEF Fresh, NewInv
  <2>7. a.kind = "new_destination" /\ a.key = p /\ a.at = scan.now /\ a \in Alert
      BY <2>1 DEF Alert, Kinds
  <2> HIDE DEF p, a
  <2>8. CASE UNCHANGED alerts /\ \E i \in DOMAIN alerts : NewAbout(i, p)
    <3>1. \A i, q : NewAbout(i, q)' <=> NewAbout(i, q)
        BY <2>8 DEF NewAbout
    <3>2. \A q \in Peers : known[q].first >= Learning => \E i \in DOMAIN alerts : NewAbout(i, q)
        BY <2>5, <2>8 DEF Fresh, p
    <3> QED
        BY <2>1, <2>2, <2>5, <2>6, <2>8, <3>1, <3>2, Zenon DEF Fresh
  <2>9. CASE alerts' = Append(alerts, a)
    <3>1. a \in Alert /\ alerts \in Seq(Alert)
        BY <2>7 DEF Inv, Shape
    <3>2. PICK n \in Nat : n = Len(alerts) + 1
        BY <3>1
    <3>3. /\ DOMAIN alerts = 1 .. Len(alerts) /\ Len(alerts) \in Nat
          /\ DOMAIN alerts' = 1 .. n
          /\ \A i \in 1 .. Len(alerts) : alerts'[i] = alerts[i]
          /\ alerts'[n] = a
        BY <2>9, <3>1, <3>2, <1>Appended, Zenon
    <3>4. /\ DOMAIN alerts \subseteq DOMAIN alerts'
          /\ \A i \in DOMAIN alerts : alerts'[i] = alerts[i] /\ i < n
          /\ \A i \in DOMAIN alerts' : i \in DOMAIN alerts \/ i = n
          /\ n \in DOMAIN alerts'
          /\ \A i \in DOMAIN alerts' : ~(n < i)
        BY <3>3, <3>2
    <3>5. /\ \A i \in DOMAIN alerts, q \in Peers : NewAbout(i, q)' <=> NewAbout(i, q)
          /\ \A q \in Peers : NewAbout(n, q)' <=> q = p
          /\ alerts'[n].at = clock
        BY <3>3, <3>4, <2>7, <2>6 DEF NewAbout
    <3>6. ASSUME NEW i \in DOMAIN alerts', NEW q \in Peers, NewAbout(i, q)'
          PROVE  0 <= alerts'[i].at /\ alerts'[i].at <= known[q].last
      <4>1. CASE i \in DOMAIN alerts
          BY <4>1, <3>4, <3>5, <3>6, <2>5, Zenon DEF Fresh
      <4>2. CASE i = n
          BY SMTT(30), <4>2, <3>5, <3>6, <2>6
      <4> QED
          BY <4>1, <4>2, <3>4
    <3>7. ASSUME NEW i \in DOMAIN alerts', NEW j \in DOMAIN alerts', NEW q \in Peers,
                 i < j, NewAbout(i, q)', NewAbout(j, q)'
          PROVE  alerts'[j].at > alerts'[i].at + Novelty
      <4>1. i \in DOMAIN alerts
          BY <3>4, <3>7
      <4>2. CASE j \in DOMAIN alerts
          BY <4>1, <4>2, <3>4, <3>5, <3>7, <2>5, Zenon DEF Fresh
      <4>3. CASE j = n
        <5>1. q = p /\ alerts'[j].at = clock /\ NewAbout(i, p) /\ alerts'[i].at = alerts[i].at
            BY <4>1, <4>3, <3>4, <3>5, <3>7
        <5>2. alerts[i].at + Novelty < clock
            BY <4>1, <5>1, <2>6
        <5>3. alerts[i].at \in Int
            BY <4>1, AlertAt
        <5> QED
            BY <5>1, <5>2, <5>3, <2>6, DetectionAssumption
      <4> QED
          BY <4>2, <4>3, <3>4
    <3>8. \A q \in Peers : known[q].first >= Learning => \E i \in DOMAIN alerts' : NewAbout(i, q)'
      <4> SUFFICES ASSUME NEW q \in Peers, known[q].first >= Learning
                   PROVE  \E i \in DOMAIN alerts' : NewAbout(i, q)'
          OBVIOUS
      <4>1. CASE q = p
          BY <4>1, <3>4, <3>5
      <4>2. CASE q # p
        <5>1. PICK i \in DOMAIN alerts : NewAbout(i, q)
            BY <4>2, <2>5, Zenon DEF Fresh, p
        <5> QED
            BY <5>1, <3>4, <3>5
      <4> QED
          BY <4>1, <4>2
    <3>9. scan' = Idle \/ scan'.now = clock'
        BY <2>1, <2>2, <2>6
    <3> QED
        BY <2>1, <2>2, <2>5, <3>6, <3>7, <3>8, <3>9, Zenon DEF Fresh
  <2> QED
      BY <2>4, <2>8, <2>9
(* Every step keeps it.                                                    *)
<1>NextNewInv. Inv /\ NewInv /\ [Next]_vars => NewInv'
  <2> SUFFICES ASSUME Inv, NewInv, [Next]_vars PROVE NewInv'
      OBVIOUS
  <2>1. clock \in Nat /\ known \in [Peers -> PeerRow]
      BY DEF NewInv
  <2>2. ASSUME UNCHANGED <<clock, known, scan, alerts, faults>> PROVE NewInv'
      BY <2>2, <2>1, <1>NothingRaised
  <2>3. ASSUME Fault, UNCHANGED <<clock, known>> PROVE NewInv'
      BY <2>3, <2>1, <1>AFaultEndsIt
  <2>4. CASE Advance
    <3>1. /\ UNCHANGED <<known, scan, alerts>> /\ clock' \in Nat
          /\ Fault \/ (scan = Idle /\ clock <= clock' /\ UNCHANGED faults)
        BY <2>4, <2>1, DetectionAssumption DEF Advance, Times
    <3> QED
        BY <3>1, <2>1, <1>NothingRaised, <1>AFaultEndsIt
  <2>5. CASE StartScan
    <3>1. CASE UNCHANGED <<scan, faults>>
        BY <2>5, <3>1, <2>2 DEF StartScan
    <3>2. CASE Fault
        BY <2>5, <3>2, <2>3 DEF StartScan
    <3>3. CASE /\ scan' = [now |-> clock, todo |-> RecentFlowPeers(clock), raising |-> <<>>]
               /\ UNCHANGED faults
      <4>1. /\ scan.raising = <<>> /\ scan'.raising = <<>> /\ scan'.now = clock
            /\ UNCHANGED <<clock, known, alerts, faults>>
          BY <2>5, <3>3 DEF StartScan, Idle
      <4> QED
          BY <4>1, <1>ScanTurns
    <3> QED
        BY <2>5, <3>1, <3>2, <3>3 DEF StartScan
  <2>6. CASE \E p \in Peers, label \in Labels : ScanPeer(p, label)
    <3>1. PICK p \in Peers, label \in Labels : ScanPeer(p, label)
        BY <2>6
    <3>2. UNCHANGED <<clock, alerts>>
        BY <3>1 DEF ScanPeer
    <3> DEFINE r == IF IsNew(p, scan.now) /\ PastLearning(scan.now) THEN <<p, label>> ELSE <<>>
    <3>3. CASE Fault
      <4>1. known' \in [Peers -> PeerRow]
        <5>1. scan.now \in Int
            BY DEF Inv, Shape, Scans
        <5>2. CASE UNCHANGED known
            BY <5>2, <2>1
        <5>3. CASE UpsertKnownPeer(p)
            BY <5>1, <5>3, <2>1 DEF UpsertKnownPeer, PeerRow
        <5> QED
            BY <5>2, <5>3, <3>1 DEF ScanPeer
      <4> QED
          BY <4>1, <3>2, <3>3, <2>1, <1>AFaultEndsIt
    <3>4. CASE /\ scan' = [scan EXCEPT !.todo = @ \ {<<p, label>>}, !.raising = r]
               /\ UpsertKnownPeer(p) /\ UNCHANGED faults
      <4>1. scan.raising = <<>> /\ scan # Idle /\ scan \in Scans
          BY <3>1 DEF ScanPeer, Idle, Inv, Shape
      <4> HIDE DEF r
      <4>2. scan'.now = scan.now /\ scan'.raising = r
          BY <3>4, <4>1 DEF Scans
      <4>3. CASE faults # 0
        <5>1. known' \in [Peers -> PeerRow]
          <6>1. scan.now \in Int
              BY DEF Inv, Shape, Scans
          <6> QED
              BY <6>1, <3>4, <2>1 DEF UpsertKnownPeer, PeerRow
        <5> QED
            BY <5>1, <4>3, <3>2, <3>4 DEF NewInv
      <4>4. CASE faults = 0
        <5>1. scan' # Idle
          <6>1. scan.now = clock /\ clock \in Nat
              BY <4>1, <4>4, Zenon DEF NewInv, Fresh
          <6> QED
              BY <6>1, <4>2 DEF Idle, Never
        <5> QED
            BY <5>1, <3>2, <3>4, <4>1, <4>2, <1>PeerRecorded DEF r
      <4> QED
          BY <4>3, <4>4
    <3>5. \/ Fault
          \/ /\ scan' = [scan EXCEPT !.todo = @ \ {<<p, label>>}, !.raising = r]
             /\ UpsertKnownPeer(p) /\ UNCHANGED faults
        BY <3>1, Zenon DEF ScanPeer
    <3> QED
        BY <3>3, <3>4, <3>5
  <2>7. CASE RaiseNewDestination
      BY <2>7, <1>NewRaised
  <2>8. CASE EndScan
    <3>1. /\ scan.raising = <<>> /\ scan'.raising = <<>> /\ scan' = Idle
          /\ UNCHANGED <<clock, known, alerts, faults>>
        BY <2>8 DEF EndScan, Idle
    <3> QED
        BY <3>1, <1>ScanTurns
  <2>9. CASE \E p \in OngoingKeys : RaiseOngoing(p)
    <3>1. PICK p \in OngoingKeys : RaiseOngoing(p)
        BY <2>9
    <3>2. /\ p \in Peers /\ clock \in Int /\ UNCHANGED <<clock, known, scan>>
          /\ RaiseAlert("ongoing", p, "outbound", clock)
        BY <3>1, <2>1, DetectionAssumption DEF RaiseOngoing
    <3> QED
        BY <3>2, <1>OngoingRaised
  <2>10. CASE Restart
      BY <2>10, <2>3 DEF Restart
  <2>11. ASSUME NEW p, NEW d, Contact(p, d) PROVE UNCHANGED <<clock, known, scan, alerts, faults>>
      BY <2>11 DEF Contact
  <2>12. ASSUME NEW i, AcknowledgeAlert(i) \/ AcknowledgeAllAlerts(i)
         PROVE  UNCHANGED <<clock, known, scan, alerts, faults>>
      BY <2>12 DEF AcknowledgeAlert, AcknowledgeAllAlerts
  <2>13. Flush \/ SetDetector \/ UNCHANGED vars => UNCHANGED <<clock, known, scan, alerts, faults>>
      BY DEF Flush, SetDetector, vars
  <2> QED
      BY <2>2, <2>4, <2>5, <2>6, <2>7, <2>8, <2>9, <2>10, <2>11, <2>12, <2>13 DEF Next
(* The two tables are empty when the program starts for the first time.    *)
<1>InitNewInv. Init => NewInv
  <2> SUFFICES ASSUME Init PROVE NewInv
      OBVIOUS
  <2>1. /\ clock \in Nat /\ faults = 0 /\ scan = Idle /\ alerts = <<>>
        /\ known = [p \in Peers |-> [first |-> Never, last |-> Never]]
      BY DetectionAssumption DEF Init
  <2>2. known \in [Peers -> PeerRow] /\ \A p \in Peers : known[p].last = -1 /\ known[p].first = -1
      BY <2>1 DEF PeerRow, Never
  <2>3. DOMAIN alerts = {} /\ scan.raising = <<>>
      BY <2>1 DEF Idle
  <2>4. Fresh
    <3>1. \A p \in Peers : known[p].last <= clock
        BY <2>1, <2>2
    <3>2. \A p \in Peers : ~(known[p].first >= Learning)
        BY <2>2, DetectionAssumption
    <3> QED
        BY <2>1, <2>3, <3>1, <3>2, Zenon DEF Fresh
  <2> QED
      BY <2>1, <2>2, <2>4 DEF NewInv
<1> QED
    BY InitInv, NextInv, <1>InitNewInv, <1>NextNewInv, PTL DEF Spec

(* Nothing is lost by recording a peer before raising its alert: while     *)
(* nothing fails, every peer first seen after the learning period has its  *)
(* alert when the scan is over.                                            *)
THEOREM NewPeersAreReported == Spec => []NewPeersReported
<1>1. Inv /\ NewInv => NewPeersReported
  <2> SUFFICES ASSUME NewInv, faults = 0, scan = Idle, NEW p \in Peers, known[p].first >= Learning
               PROVE  \E i \in DOMAIN alerts : NewAbout(i, p)
      BY DEF NewPeersReported, NewAbout
  <2> QED
      BY Zenon DEF NewInv, Fresh, Idle
<1> QED
    BY <1>1, NewInvariance, PTL

(* A peer that stays in touch is reported once per novelty window, however *)
(* short the cooldown, while nothing fails.                                *)
THEOREM NewIsReportedOnce == Spec => []NewIsNotRepeated
<1>1. Inv /\ NewInv => NewIsNotRepeated
  <2> SUFFICES ASSUME Inv, NewInv, faults = 0, NEW i \in DOMAIN alerts, NEW j \in DOMAIN alerts, i < j,
                      alerts[i].kind = "new_destination", alerts[j].kind = "new_destination",
                      alerts[i].key = alerts[j].key
               PROVE  alerts[j].at > alerts[i].at + Novelty
      BY DEF NewIsNotRepeated
  <2>1. alerts[i].key \in Peers
      BY AlertAt
  <2> QED
      BY <2>1, Zenon DEF NewInv, Fresh, NewAbout
<1> QED
    BY <1>1, NewInvariance, PTL

(***************************************************************************)
(* HostNaming.                                                             *)
(***************************************************************************)

(* The DHCP messages on their way to the table, oldest first.              *)
Queue == toUpsert \o dhcpBuf

Messages == Optional(MACs) \X Names

(* What the decode goroutine and the flush loop hold, and what the hosts   *)
(* table says, was seen on the network.                                    *)
Seen ==
    /\ event # None /\ event[2] # None => event \in sighted
    /\ \A ip \in IPs : macByIP[ip] # None => <<ip, macByIP[ip]>> \in sighted
    /\ \A ip \in IPs : hostMAC[ip] # None => <<ip, hostMAC[ip]>> \in sighted
    /\ \A i \in 1 .. Len(Queue) : Queue[i][1] # None => Queue[i] \in leased

(* The last message of each MAC, if one is on its way, has the MAC's       *)
(* latest name; if none is, the table has it.                              *)
Settled(q, stored, last) ==
    \A mac \in MACs :
        \/ /\ \A i \in 1 .. Len(q) : q[i][1] # mac
           /\ stored[mac] = last[mac]
        \/ \E i \in 1 .. Len(q) :
              /\ q[i] = <<mac, last[mac]>>
              /\ \A j \in i + 1 .. Len(q) : q[j][1] # mac

NamingInv ==
    /\ NamingTypeOK /\ Seen /\ NamesAreOwn
    /\ run # "dhcp" => toUpsert = <<>>
    /\ ~faulty => Settled(Queue, hostname, latest)

(***************************************************************************)
(* The queue.                                                              *)
(***************************************************************************)

(* q with e behind it.                                                     *)
Grown(q, e, r) ==
    /\ Len(r) = Len(q) + 1 /\ r[Len(q) + 1] = e
    /\ \A i \in 1 .. Len(q) : r[i] = q[i]

(* q without its first element.                                            *)
Shrunk(q, r) ==
    /\ Len(q) = Len(r) + 1
    /\ \A i \in 1 .. Len(r) : r[i] = q[i + 1]

(***************************************************************************)
(* The steps.                                                              *)
(***************************************************************************)

(* Nothing is known when the program starts for the first time.            *)
LEMMA InitNaming == NamingInit => NamingInv
<1> SUFFICES ASSUME NamingInit PROVE NamingInv
    OBVIOUS
<1>1. NamingTypeOK
  <2>1. <<>> \in Seq(Optional(MACs) \X Names)
      OBVIOUS
  <2>2. /\ macByIP \in [IPs -> Optional(MACs)] /\ hostMAC \in [IPs -> Optional(MACs)]
        /\ hostName \in [IPs -> Optional(Names)] /\ hostname \in [MACs -> Optional(Names)]
        /\ latest \in [MACs -> Optional(Names)]
      BY DEF NamingInit, Optional
  <2>3. faulty \in BOOLEAN /\ run \in {"select", "hosts", "dhcp"}
      BY Zenon DEF NamingInit
  <2> QED
      BY <2>1, <2>2, <2>3 DEF NamingInit, NamingTypeOK, Optional
<1>2. Queue = <<>> /\ Len(Queue) = 0 /\ 1 .. Len(Queue) = {}
    BY DEF NamingInit, Queue
<1>3. Seen
    BY <1>2 DEF NamingInit, Seen
<1>4. Settled(Queue, hostname, latest)
    BY <1>2 DEF NamingInit, Settled
<1>5. NamesAreOwn
    BY DEF NamingInit, NamesAreOwn
<1> QED
    BY <1>1, <1>3, <1>4, <1>5 DEF NamingInit, NamingInv

(* The queue is a sequence of messages.                                    *)
LEMMA QueueType ==
    ASSUME NamingTypeOK
    PROVE  /\ toUpsert \in Seq(Messages) /\ dhcpBuf \in Seq(Messages) /\ Queue \in Seq(Messages)
           /\ Len(Queue) \in Nat /\ \A i \in 1 .. Len(Queue) : Queue[i] \in Messages
<1>1. toUpsert \in Seq(Messages) /\ dhcpBuf \in Seq(Messages)
    BY DEF NamingTypeOK, Messages
<1>2. Queue \in Seq(Messages)
    BY <1>1 DEF Queue
<1> QED
    BY <1>1, <1>2

(* What steps that leave the queue, the DHCP names and the history of DHCP *)
(* messages alone keep.                                                    *)
LEMMA QueueKept ==
    ASSUME NamingInv, Queue' = Queue, UNCHANGED <<hostname, leased, latest>>,
           faulty' = faulty \/ faulty'
    PROVE  /\ ~faulty' => Settled(Queue, hostname, latest)'
           /\ \A i \in 1 .. Len(Queue') : Queue'[i][1] # None => Queue'[i] \in leased'
<1>1. ~faulty' => Settled(Queue', hostname', latest')
    BY ZenonT(60) DEF NamingInv, Settled
<1>2. \A i \in 1 .. Len(Queue) : Queue[i][1] # None => Queue[i] \in leased
    BY DEF NamingInv, Seen
<1> QED
    BY <1>1, <1>2, Zenon DEF Settled

(* The decode goroutine sees a flow.                                       *)
LEMMA AddFlowKeeps ==
    ASSUME NamingInv, NEW ip \in IPs, NEW mac \in Optional(MACs), AddFlow(ip, mac)
    PROVE  NamingInv'
<1>1. /\ UNCHANGED <<macByIP, dhcpBuf, hostCache, run, toResolve, toUpsert>>
      /\ UNCHANGED <<hosts, hostMAC, hostName, hostname, leased, latest, faulty>>
      /\ event' = <<ip, mac>> /\ added' = added \cup {ip}
      /\ sighted' = IF mac = None THEN sighted ELSE sighted \cup {<<ip, mac>>}
    BY DEF AddFlow, flushing, tables
<1>2. sighted \subseteq sighted' /\ sighted' \subseteq IPs \X MACs
  <2>1. sighted \subseteq IPs \X MACs
      BY Zenon DEF NamingInv, NamingTypeOK
  <2>2. mac # None => <<ip, mac>> \in IPs \X MACs
      BY Zenon DEF Optional
  <2> QED
      BY <1>1, <2>1, <2>2, Zenon
<1>3. NamingTypeOK'
    BY <1>1, <1>2, Zenon DEF NamingInv, NamingTypeOK, Optional
<1>4. Queue' = Queue
    BY <1>1 DEF Queue
<1>5. event'[2] # None => event' \in sighted'
    BY <1>1
<1>6. Seen'
    BY <1>1, <1>2, <1>4, <1>5, QueueKept, Zenon DEF NamingInv, Seen
<1>7. NamesAreOwn'
    BY <1>1, <1>2, Zenon DEF NamingInv, NamesAreOwn
<1> QED
    BY <1>1, <1>3, <1>4, <1>6, <1>7, QueueKept, Zenon DEF NamingInv

(* It remembers the MAC the flow came with.                                *)
LEMMA RememberKeeps ==
    ASSUME NamingInv, RememberMAC
    PROVE  NamingInv'
<1>1. /\ UNCHANGED <<added, dhcpBuf, hostCache, run, toResolve, toUpsert>>
      /\ UNCHANGED <<hosts, hostMAC, hostName, hostname, sighted, leased, latest, faulty>>
      /\ event # None /\ event' = None
      /\ macByIP' = IF event[2] = None THEN macByIP
                    ELSE [macByIP EXCEPT ![event[1]] = event[2]]
    BY Zenon DEF RememberMAC, flushing, tables, history
<1>2. event \in IPs \X Optional(MACs) /\ macByIP \in [IPs -> Optional(MACs)]
    BY <1>1, Zenon DEF NamingInv, NamingTypeOK, Optional
<1>3. event = <<event[1], event[2]>> /\ event[1] \in IPs /\ event[2] \in Optional(MACs)
    BY <1>2
<1>4. macByIP' \in [IPs -> Optional(MACs)]
    BY <1>1, <1>2, <1>3, Zenon
<1>5. \A ip \in IPs : macByIP'[ip] # None => <<ip, macByIP'[ip]>> \in sighted
  <2>1. \A ip \in IPs : macByIP'[ip] = macByIP[ip]
            \/ (ip = event[1] /\ macByIP'[ip] = event[2] /\ event[2] # None)
      BY <1>1, <1>2, <1>3, Zenon
  <2>2. event[2] # None => <<event[1], event[2]>> \in sighted
      BY <1>1, <1>3 DEF NamingInv, Seen
  <2> QED
      BY <2>1, <2>2, Zenon DEF NamingInv, Seen
<1>6. NamingTypeOK'
    BY <1>1, <1>4, Zenon DEF NamingInv, NamingTypeOK, Optional
<1>7. Queue' = Queue
    BY <1>1, Zenon DEF Queue
<1>8. Seen'
    BY <1>1, <1>5, <1>7, QueueKept, Zenon DEF NamingInv, Seen
<1> QED
    BY <1>1, <1>6, <1>7, <1>8, QueueKept, Zenon DEF NamingInv, NamesAreOwn

(* It buffers a DHCP message.                                              *)
LEMMA BufferKeeps ==
    \A mac \in Optional(MACs), name \in Names :
        NamingInv /\ BufferDHCP(mac, name) =>
            NamingInv'
(* A sequence stays one of its set when an element of the set is appended. *)
<1>AppendTyped.
    ASSUME NEW S, NEW s \in Seq(S), NEW e \in S
    PROVE  Append(s, e) \in Seq(S)
    OBVIOUS
(* A message appended to the buffer is the last of the queue.              *)
<1>AppendGrows.
    ASSUME NEW S, NEW s \in Seq(S), NEW t \in Seq(S), NEW e \in S
    PROVE  Grown(s \o t, e, s \o Append(t, e))
  <2>1. /\ Len(s \o t) = Len(s) + Len(t) /\ Len(s) \in Nat /\ Len(t) \in Nat
        /\ Append(t, e) \in Seq(S) /\ Len(Append(t, e)) = Len(t) + 1
        /\ Len(s \o Append(t, e)) = Len(s) + Len(t) + 1
      OBVIOUS
  <2>2. (s \o Append(t, e))[Len(s) + Len(t) + 1] = e
      BY <2>1
  <2>3. \A i \in 1 .. Len(s) + Len(t) : (s \o Append(t, e))[i] = (s \o t)[i]
      BY <2>1
  <2> QED
      BY <2>1, <2>2, <2>3, Zenon DEF Grown
(* A further message of a MAC is the one that counts.                      *)
<1>SettledGrows.
    ASSUME NEW q \in Seq(Messages), NEW r, NEW mac, NEW name, NEW stored, NEW last, NEW last2,
           Grown(q, <<mac, name>>, r), Settled(q, stored, last),
           mac \in MACs => last2[mac] = name,
           \A m \in MACs : m # mac => last2[m] = last[m]
    PROVE  Settled(r, stored, last2)
  <2> USE <1>SettledGrows
  <2> DEFINE n == Len(q) + 1
  <2>1. /\ Len(q) \in Nat /\ Len(r) = n /\ r[n] = <<mac, name>>
        /\ \A i \in 1 .. Len(q) : r[i] = q[i] /\ i \in 1 .. n
        /\ \A i \in 1 .. n : i \in 1 .. Len(q) \/ i = n
        /\ n \in 1 .. n /\ n + 1 .. n = {}
      BY DEF Grown
  <2>2. \A i \in 1 .. Len(q) : \A j \in i + 1 .. n : j \in i + 1 .. Len(q) \/ j = n
    <3> SUFFICES ASSUME NEW i \in 1 .. Len(q), NEW j \in i + 1 .. n, j # n
                 PROVE  j \in i + 1 .. Len(q)
        BY Zenon
    <3>1. i \in Int /\ j \in Int /\ i + 1 <= j /\ j <= n
        BY <2>1
    <3> QED
        BY <2>1, <3>1
  <2> HIDE DEF n
  <2> SUFFICES ASSUME NEW m \in MACs
               PROVE  \/ /\ \A i \in 1 .. n : r[i][1] # m
                         /\ stored[m] = last2[m]
                      \/ \E i \in 1 .. n :
                            /\ r[i] = <<m, last2[m]>>
                            /\ \A j \in i + 1 .. n : r[j][1] # m
      BY <2>1, Zenon DEF Settled
  <2>3. CASE m = mac
    <3>1. r[n] = <<m, last2[m]>>
        BY <2>1, <2>3, Zenon
    <3> QED
        BY <3>1, <2>1, Zenon
  <2>4. CASE m # mac
    <3>1. r[n][1] # m /\ last2[m] = last[m]
      <4>1. last2[m] = last[m]
          BY <2>4, Zenon
      <4>2. <<mac, name>>[1] = mac
          BY Zenon
      <4> QED
          BY <2>1, <2>4, <4>1, <4>2, Zenon
    <3>2. CASE (\A i \in 1 .. Len(q) : q[i][1] # m) /\ stored[m] = last[m]
        BY <3>1, <3>2, <2>1, Zenon
    <3>3. CASE \E i \in 1 .. Len(q) : q[i] = <<m, last[m]>> /\ \A j \in i + 1 .. Len(q) : q[j][1] # m
      <4>1. PICK i \in 1 .. Len(q) : q[i] = <<m, last[m]>> /\ \A j \in i + 1 .. Len(q) : q[j][1] # m
          BY <3>3, Zenon
      <4>2. \A j \in i + 1 .. Len(q) : j \in 1 .. Len(q)
          BY <2>1
      <4>3. \A j \in i + 1 .. n : r[j][1] # m
        <5> SUFFICES ASSUME NEW j \in i + 1 .. n PROVE r[j][1] # m
            BY Zenon
        <5>1. j \in i + 1 .. Len(q) \/ j = n
            BY <2>2, Zenon
        <5>2. CASE j \in i + 1 .. Len(q)
            BY <2>1, <4>1, <4>2, <5>2, Zenon
        <5> QED
            BY <3>1, <5>1, <5>2, Zenon
      <4> QED
          BY <4>1, <4>3, <3>1, <2>1, Zenon
    <3> QED
        BY <3>2, <3>3, Zenon DEF Settled
  <2> QED
      BY <2>3, <2>4, Zenon
<1>BufferKeeps.
    ASSUME NamingInv, NEW mac \in Optional(MACs), NEW name \in Names, BufferDHCP(mac, name)
    PROVE  NamingInv'
  <2> USE <1>BufferKeeps
  <2>1. /\ UNCHANGED <<added, event, macByIP, hostCache, run, toResolve, toUpsert>>
        /\ UNCHANGED <<hosts, hostMAC, hostName, hostname, sighted, faulty>>
        /\ dhcpBuf' = Append(dhcpBuf, <<mac, name>>)
        /\ leased' = IF mac = None THEN leased ELSE leased \cup {<<mac, name>>}
        /\ latest' = IF mac = None THEN latest ELSE [latest EXCEPT ![mac] = name]
      BY DEF BufferDHCP, flushing, tables
  <2>2. NamingTypeOK /\ <<mac, name>> \in Messages
      BY DEF NamingInv, Messages
  <2>3. /\ leased \subseteq leased' /\ leased' \subseteq MACs \X Names
        /\ mac # None => <<mac, name>> \in leased'
    <3>1. leased \subseteq MACs \X Names
        BY Zenon DEF NamingInv, NamingTypeOK
    <3>2. mac # None => <<mac, name>> \in MACs \X Names
        BY Zenon DEF Optional
    <3> QED
        BY <2>1, <3>1, <3>2, Zenon
  <2>4. /\ latest' \in [MACs -> Optional(Names)]
        /\ mac \in MACs => latest'[mac] = name
        /\ \A m \in MACs : m # mac => latest'[m] = latest[m]
      BY <2>1, NoneAssumption, Zenon DEF NamingInv, NamingTypeOK, Optional
  <2>5. Grown(Queue, <<mac, name>>, Queue')
      BY <2>1, <2>2, QueueType, <1>AppendGrows, Zenon DEF Queue
  <2>6. NamingTypeOK'
    <3>1. dhcpBuf' \in Seq(Optional(MACs) \X Names)
        BY <2>1, <2>2, QueueType, <1>AppendTyped, Zenon DEF Messages
    <3> QED
        BY <2>1, <2>3, <2>4, <3>1, Zenon DEF NamingInv, NamingTypeOK
  <2>7. \A i \in 1 .. Len(Queue') : Queue'[i][1] # None => Queue'[i] \in leased'
    <3>1. \A i \in 1 .. Len(Queue') : i \in 1 .. Len(Queue) \/ i = Len(Queue) + 1
      <4>1. Len(Queue') = Len(Queue) + 1
          BY <2>5, Zenon DEF Grown
      <4>2. Len(Queue) \in Nat
          BY <2>2, QueueType
      <4> QED
          BY <4>1, <4>2
    <3>2. \A i \in 1 .. Len(Queue) : Queue[i][1] # None => Queue[i] \in leased
        BY Zenon DEF NamingInv, Seen
    <3>3. <<mac, name>>[1] = mac
        OBVIOUS
    <3> QED
        BY <2>3, <2>5, <3>1, <3>2, <3>3, Zenon DEF Grown
  <2>8. Seen'
      BY <2>1, <2>7, Zenon DEF NamingInv, Seen
  <2>9. ~faulty' => Settled(Queue', hostname', latest')
    <3>1. CASE faulty
        BY <3>1, <2>1
    <3>2. CASE ~faulty
      <4>1. Settled(Queue, hostname, latest)
          BY <3>2 DEF NamingInv
      <4>2. Settled(Queue', hostname, latest')
          BY <2>2, <2>4, <2>5, <4>1, QueueType, <1>SettledGrows, Zenon
      <4> QED
          BY <2>1, <4>2
    <3> QED
        BY <3>1, <3>2
  <2>10. NamesAreOwn'
      BY <2>1, <2>3, Zenon DEF NamingInv, NamesAreOwn
  <2> QED
      BY <2>1, <2>6, <2>8, <2>9, <2>10, Zenon DEF NamingInv, Settled
<1> QED
    BY <1>BufferKeeps

(* The flush loop takes the addresses, later the buffer, and goes back to  *)
(* waiting: the queue stays as it is.                                      *)
LEMMA TurnsKeep ==
    ASSUME NamingInv, Drain \/ SwapDHCP \/ FlushDone
    PROVE  NamingInv'
<1>1. /\ UNCHANGED <<event, macByIP, hostCache>>
      /\ UNCHANGED <<hosts, hostMAC, hostName, hostname, sighted, leased, latest, faulty>>
    BY DEF Drain, SwapDHCP, FlushDone, decoding, tables, history
<1>2. NamingTypeOK
    BY DEF NamingInv
<1>3. /\ added' \subseteq IPs /\ toResolve' \subseteq IPs /\ run' \in {"select", "hosts", "dhcp"}
      /\ dhcpBuf' \in Seq(Messages) /\ toUpsert' \in Seq(Messages)
      /\ Queue' = Queue /\ (run' # "dhcp" => toUpsert' = <<>>)
  <2>1. CASE Drain \/ FlushDone
    <3>1. /\ UNCHANGED <<toUpsert, dhcpBuf>> /\ toUpsert = <<>>
          /\ added' \in {added, {}} /\ toResolve' \in {toResolve, added}
          /\ run' \in {"select", "hosts"}
        BY <2>1 DEF Drain, FlushDone, decoding, NamingInv
    <3> QED
        BY <3>1, <1>2, QueueType DEF Queue, NamingTypeOK
  <2>2. CASE SwapDHCP
    <3>1. /\ toUpsert' = dhcpBuf /\ dhcpBuf' = <<>> /\ toUpsert = <<>> /\ run' = "dhcp"
          /\ UNCHANGED <<added, toResolve>>
        BY <2>2 DEF SwapDHCP, NamingInv
    <3>2. dhcpBuf \o <<>> = <<>> \o dhcpBuf
        BY <1>2, QueueType
    <3> QED
        BY <3>1, <3>2, <1>2, QueueType DEF Queue, NamingTypeOK
  <2> QED
      BY <2>1, <2>2
<1>4. NamingTypeOK'
    BY <1>1, <1>2, <1>3, Zenon DEF NamingTypeOK, Messages
<1>5. Seen'
    BY <1>1, <1>3, QueueKept, Zenon DEF NamingInv, Seen
<1> QED
    BY <1>1, <1>3, <1>4, <1>5, QueueKept, Zenon DEF NamingInv, NamesAreOwn

(* resolveHost gives a row the MAC that was remembered for its address.    *)
LEMMA ResolveKeeps ==
    ASSUME NamingInv, NEW ip \in IPs, ResolveHost(ip)
    PROVE  NamingInv'
<1>1. /\ UNCHANGED <<added, event, macByIP, dhcpBuf, run, toUpsert>>
      /\ UNCHANGED <<hostName, hostname, sighted, leased, latest>>
      /\ toResolve' = toResolve \ {ip}
    BY DEF ResolveHost, decoding
<1>2. /\ hosts' \subseteq IPs /\ hostCache' \subseteq IPs
      /\ faulty' = faulty \/ faulty' = TRUE
      /\ \/ UNCHANGED hostMAC
         \/ macByIP[ip] # None /\ hostMAC' = [hostMAC EXCEPT ![ip] = macByIP[ip]]
    BY Zenon DEF ResolveHost, SetHostMAC, NamingInv, NamingTypeOK
<1>3. hostMAC \in [IPs -> Optional(MACs)] /\ macByIP[ip] \in Optional(MACs) /\ faulty \in BOOLEAN
    BY Zenon DEF NamingInv, NamingTypeOK
<1>4. hostMAC' \in [IPs -> Optional(MACs)]
    BY <1>2, <1>3
<1>5. \A x \in IPs : hostMAC'[x] # None => <<x, hostMAC'[x]>> \in sighted
    BY <1>2, <1>3, Zenon DEF NamingInv, Seen
<1>6. NamingTypeOK'
    BY <1>1, <1>2, <1>3, <1>4, Zenon DEF NamingInv, NamingTypeOK
<1>7. Queue' = Queue
    BY <1>1 DEF Queue
<1>8. Seen'
    BY <1>1, <1>2, <1>5, <1>7, QueueKept, Zenon DEF NamingInv, Seen
<1> QED
    BY <1>1, <1>2, <1>3, <1>6, <1>7, <1>8, QueueKept, Zenon DEF NamingInv, NamesAreOwn

(* flushDHCP stores one message, in both tables.                           *)
LEMMA UpsertKeeps ==
    NamingInv /\ UpsertNext =>
        NamingInv'
(* The message taken is the first of the queue.                            *)
<1>TailTyped.
    ASSUME NEW S, NEW s \in Seq(S), s # <<>>
    PROVE  Tail(s) \in Seq(S)
    BY <1>TailTyped
<1>TailShrinks.
    ASSUME NEW S, NEW s \in Seq(S), NEW t \in Seq(S), s # <<>>
    PROVE  Shrunk(s \o t, Tail(s) \o t) /\ (s \o t)[1] = Head(s) /\ Head(s) \in S
  <2> USE <1>TailShrinks
  <2>1. /\ Len(s) \in Nat /\ Len(s) > 0 /\ Len(t) \in Nat /\ Head(s) = s[1] /\ s[1] \in S
        /\ Tail(s) \in Seq(S) /\ Len(Tail(s)) = Len(s) - 1
        /\ \A i \in 1 .. Len(s) - 1 : Tail(s)[i] = s[i + 1]
      OBVIOUS
  <2>2. Len(s \o t) = Len(s) + Len(t) /\ Len(Tail(s) \o t) = Len(s) - 1 + Len(t)
      BY <2>1
  <2>3. ASSUME NEW i \in 1 .. Len(s) - 1 + Len(t)
        PROVE  (Tail(s) \o t)[i] = (s \o t)[i + 1]
    <3>1. CASE i <= Len(s) - 1
      <4>1. (Tail(s) \o t)[i] = Tail(s)[i]
          BY <2>1, <3>1
      <4>2. (s \o t)[i + 1] = s[i + 1]
          BY <2>1, <3>1
      <4> QED
          BY <4>1, <4>2, <2>1, <3>1
    <3>2. CASE i > Len(s) - 1
      <4>1. (Tail(s) \o t)[i] = t[i - (Len(s) - 1)]
          BY <2>1, <3>2
      <4>2. (s \o t)[i + 1] = t[i + 1 - Len(s)]
          BY <2>1, <3>2
      <4>3. i - (Len(s) - 1) = i + 1 - Len(s)
          BY <2>1
      <4> QED
          BY <4>1, <4>2, <4>3
    <3>3. i <= Len(s) - 1 \/ i > Len(s) - 1
        BY <2>1
    <3> QED
        BY <3>1, <3>2, <3>3, Zenon
  <2>4. (s \o t)[1] = s[1]
      BY <2>1
  <2> QED
    <3>1. Len(s \o t) = Len(Tail(s) \o t) + 1
        BY <2>1, <2>2
    <3>2. \A i \in 1 .. Len(Tail(s) \o t) : (Tail(s) \o t)[i] = (s \o t)[i + 1]
        BY <2>2, <2>3, Zenon
    <3> QED
        BY <2>1, <2>4, <3>1, <3>2, Zenon DEF Shrunk
(* Storing the first message, or passing over one without a MAC, leaves    *)
(* the rest to decide.                                                     *)
<1>SettledShrinks.
    ASSUME NEW q \in Seq(Messages), NEW r, NEW stored, NEW stored2, NEW last,
           Shrunk(q, r), Len(r) \in Nat, Settled(q, stored, last),
           q[1][1] \in MACs => stored2[q[1][1]] = q[1][2],
           \A m \in MACs : m # q[1][1] => stored2[m] = stored[m]
    PROVE  Settled(r, stored2, last)
  <2> USE <1>SettledShrinks
  <2>1. /\ Len(q) = Len(r) + 1 /\ 1 \in 1 .. Len(q)
        /\ \A i \in 1 .. Len(r) : r[i] = q[i + 1] /\ i + 1 \in 1 .. Len(q)
        /\ \A i \in 1 .. Len(r) : \A j \in i + 1 .. Len(r) : j + 1 \in (i + 1) + 1 .. Len(q)
        /\ \A i \in 1 .. Len(r) : \A j \in i + 1 .. Len(r) : j \in 1 .. Len(r)
        /\ \A i \in 1 .. Len(q) : i = 1 \/ (i - 1 \in 1 .. Len(r) /\ (i - 1) + 1 = i)
        /\ \A i \in 1 .. Len(r) : i + 1 \in 1 + 1 .. Len(q)
    <3>1. Len(q) = Len(r) + 1 /\ \A i \in 1 .. Len(r) : r[i] = q[i + 1]
        BY Zenon DEF Shrunk
    <3> HIDE <1>SettledShrinks
    <3>2. Len(r) \in Nat
        BY <1>SettledShrinks
    <3> QED
        BY <3>1, <3>2
  <2> SUFFICES ASSUME NEW m \in MACs
               PROVE  \/ /\ \A i \in 1 .. Len(r) : r[i][1] # m
                         /\ stored2[m] = last[m]
                      \/ \E i \in 1 .. Len(r) :
                            /\ r[i] = <<m, last[m]>>
                            /\ \A j \in i + 1 .. Len(r) : r[j][1] # m
      BY Zenon DEF Settled
  <2>2. CASE (\A i \in 1 .. Len(q) : q[i][1] # m) /\ stored[m] = last[m]
    <3>1. ASSUME NEW i \in 1 .. Len(r) PROVE r[i][1] # m
      <4>1. r[i] = q[i + 1] /\ i + 1 \in 1 .. Len(q)
          BY <2>1, Zenon
      <4> QED
          BY <2>2, <4>1, Zenon
    <3>2. stored2[m] = stored[m]
        BY <2>1, <2>2, Zenon
    <3> QED
        BY <2>2, <3>1, <3>2, Zenon
  <2>3. CASE \E i \in 1 .. Len(q) : q[i] = <<m, last[m]>> /\ \A j \in i + 1 .. Len(q) : q[j][1] # m
    <3>1. PICK i \in 1 .. Len(q) : q[i] = <<m, last[m]>> /\ \A j \in i + 1 .. Len(q) : q[j][1] # m
        BY <2>3, Zenon
    <3>2. CASE i = 1
      <4>1. q[1][1] = m /\ q[1][2] = last[m]
        <5>1. <<m, last[m]>>[1] = m /\ <<m, last[m]>>[2] = last[m]
            BY Zenon
        <5> QED
            BY <3>1, <3>2, <5>1, Zenon
      <4>2. stored2[m] = last[m]
          BY <4>1, Zenon
      <4>3. ASSUME NEW k \in 1 .. Len(r) PROVE r[k][1] # m
        <5>1. k + 1 \in i + 1 .. Len(q) /\ r[k] = q[k + 1]
            BY <2>1, <3>2, Zenon
        <5> QED
            BY <3>1, <5>1, Zenon
      <4> QED
          BY <4>2, <4>3, Zenon
    <3>3. CASE i # 1
      <4>1. PICK k \in 1 .. Len(r) : k + 1 = i
          BY <2>1, <3>3, Zenon
      <4>2. r[k] = <<m, last[m]>>
          BY <2>1, <3>1, <4>1, Zenon
      <4>3. ASSUME NEW j \in k + 1 .. Len(r) PROVE r[j][1] # m
        <5>1. j + 1 \in i + 1 .. Len(q) /\ j \in 1 .. Len(r)
            BY <2>1, <4>1, Zenon
        <5>2. r[j] = q[j + 1] /\ q[j + 1][1] # m
            BY <2>1, <3>1, <5>1, Zenon
        <5> QED
            BY <5>2, Zenon
      <4> QED
          BY <4>2, <4>3, Zenon
    <3> QED
        BY <3>2, <3>3, Zenon
  <2> QED
      BY <2>2, <2>3, Zenon DEF Settled
<1>UpsertKeeps.
    ASSUME NamingInv, UpsertNext
    PROVE  NamingInv'
  <2> USE <1>UpsertKeeps
  <2> DEFINE mac == Head(toUpsert)[1]
             name == Head(toUpsert)[2]
  <2>1. /\ UNCHANGED <<added, event, macByIP, dhcpBuf, hostCache, run, toResolve>>
        /\ UNCHANGED <<hosts, hostMAC, sighted, leased, latest>>
        /\ run = "dhcp" /\ toUpsert # <<>> /\ toUpsert' = Tail(toUpsert)
        /\ \/ /\ mac # None
              /\ hostname' = [hostname EXCEPT ![mac] = name]
              /\ hostName' = Rename(mac, name)
              /\ UNCHANGED faulty
           \/ faulty' = TRUE /\ UNCHANGED <<hostname, hostName>>
           \/ mac = None /\ UNCHANGED <<hostname, hostName, faulty>>
      BY Zenon DEF UpsertNext, UpsertDHCPHostname, decoding
  <2>2. NamingTypeOK
      BY DEF NamingInv
  <2>3. /\ Shrunk(Queue, Queue') /\ Queue[1] = Head(toUpsert) /\ Head(toUpsert) \in Messages
        /\ toUpsert' \in Seq(Messages)
    <3>1. toUpsert \in Seq(Messages) /\ dhcpBuf \in Seq(Messages)
        BY <2>2, QueueType, Zenon
    <3>2. /\ Shrunk(toUpsert \o dhcpBuf, Tail(toUpsert) \o dhcpBuf)
          /\ (toUpsert \o dhcpBuf)[1] = Head(toUpsert) /\ Head(toUpsert) \in Messages
        BY <2>1, <3>1, <1>TailShrinks, Zenon
    <3>3. Queue = toUpsert \o dhcpBuf /\ Queue' = Tail(toUpsert) \o dhcpBuf
        BY <2>1, Zenon DEF Queue
    <3>4. Tail(toUpsert) \in Seq(Messages)
        BY <2>1, <3>1, <1>TailTyped, Zenon
    <3> QED
        BY <2>1, <3>2, <3>3, <3>4, Zenon
  <2>4. /\ Queue \in Seq(Messages) /\ Queue' \in Seq(Messages) /\ Len(Queue') \in Nat
        /\ Len(Queue) = Len(Queue') + 1
        /\ \A i \in 1 .. Len(Queue') : Queue'[i] = Queue[i + 1] /\ i + 1 \in 1 .. Len(Queue)
        /\ 1 \in 1 .. Len(Queue)
    <3>1. Queue' \in Seq(Messages) /\ Queue \in Seq(Messages)
      <4>1. toUpsert' \in Seq(Messages) /\ dhcpBuf' \in Seq(Messages)
          BY <2>1, <2>2, <2>3, QueueType, Zenon
      <4>2. toUpsert' \o dhcpBuf' \in Seq(Messages)
          BY <4>1
      <4> QED
          BY <2>2, <4>2, QueueType, Zenon DEF Queue
    <3> QED
        BY <3>1, <2>3 DEF Shrunk
  <2>5. mac \in Optional(MACs) /\ name \in Names /\ Queue[1] = <<mac, name>>
      BY <2>3 DEF Messages
  <2>6. mac # None => mac \in MACs /\ <<mac, name>> \in leased
    <3>1. Queue[1][1] # None => Queue[1] \in leased
        BY <2>4, Zenon DEF NamingInv, Seen
    <3> HIDE DEF mac, name
    <3>2. Queue[1][1] = mac
        BY <2>5
    <3> QED
        BY <2>5, <3>1, <3>2 DEF Optional
  <2> HIDE DEF mac, name
  <2>7. /\ hostname' \in [MACs -> Optional(Names)] /\ hostName' \in [IPs -> Optional(Names)]
        /\ faulty' \in BOOLEAN
    <3>1. mac # None => Rename(mac, name) \in [IPs -> Optional(Names)]
        BY <2>2, <2>5 DEF Rename, NamingTypeOK, Optional
    <3> QED
        BY <2>1, <2>2, <2>5, <2>6, <3>1, Zenon DEF NamingTypeOK, Optional
  <2>8. NamingTypeOK'
      BY <2>1, <2>2, <2>3, <2>7, Zenon DEF NamingTypeOK, Messages
  <2>9. \A i \in 1 .. Len(Queue') : Queue'[i][1] # None => Queue'[i] \in leased'
      BY <2>1, <2>4, Zenon DEF NamingInv, Seen
  <2>10. Seen'
      BY <2>1, <2>9, Zenon DEF NamingInv, Seen
  <2>11. NamesAreOwn'
    <3>1. CASE mac # None /\ hostName' = Rename(mac, name)
      <4> SUFFICES ASSUME NEW ip \in IPs, hostName'[ip] # None
                   PROVE  \E m \in MACs : <<ip, m>> \in sighted /\ <<m, hostName'[ip]>> \in leased
          BY <2>1, Zenon DEF NamesAreOwn
      <4>1. CASE ip \in hosts /\ hostMAC[ip] = mac
        <5>1. hostName'[ip] = name
            BY <3>1, <4>1 DEF Rename
        <5>2. <<ip, mac>> \in sighted
            BY <3>1, <4>1 DEF NamingInv, Seen
        <5> QED
            BY <5>1, <5>2, <3>1, <2>6
      <4>2. CASE ~(ip \in hosts /\ hostMAC[ip] = mac)
        <5>1. hostName'[ip] = hostName[ip]
            BY <3>1, <4>2 DEF Rename
        <5> QED
            BY <5>1 DEF NamingInv, NamesAreOwn
      <4> QED
          BY <4>1, <4>2
    <3>2. CASE UNCHANGED hostName
        BY <3>2, <2>1, Zenon DEF NamingInv, NamesAreOwn
    <3> QED
        BY <2>1, <3>1, <3>2
  <2>12. ~faulty' => Settled(Queue', hostname', latest')
    <3> SUFFICES ASSUME ~faulty' PROVE Settled(Queue', hostname', latest)
        BY <2>1
    <3>1. ~faulty /\ Settled(Queue, hostname, latest)
        BY <2>1 DEF NamingInv
    <3>2. /\ Queue[1][1] = mac /\ Queue[1][2] = name
        BY <2>5
    <3>3. mac \in MACs => hostname'[mac] = name
        BY <2>1, <2>2, NoneAssumption, Zenon DEF NamingTypeOK
    <3>4. \A m \in MACs : m # mac => hostname'[m] = hostname[m]
        BY <2>1, <2>2, Zenon DEF NamingTypeOK
    <3>5. /\ Queue[1][1] \in MACs => hostname'[Queue[1][1]] = Queue[1][2]
          /\ \A m \in MACs : m # Queue[1][1] => hostname'[m] = hostname[m]
        BY <3>2, <3>3, <3>4, Zenon
    <3> QED
        BY <2>3, <2>4, <3>1, <3>5, <1>SettledShrinks, Zenon
  <2> QED
      BY <2>1, <2>8, <2>10, <2>11, <2>12, Zenon DEF NamingInv, Settled
<1> QED
    BY <1>UpsertKeeps

(* A crash forgets, and is a fault.                                        *)
LEMMA RestartKeeps ==
    ASSUME NamingInv, RestartNaming
    PROVE  NamingInv'
<1>1. /\ added' = {} /\ event' = None /\ macByIP' = [ip \in IPs |-> None] /\ dhcpBuf' = <<>>
      /\ hostCache' = {} /\ run' = "select" /\ toResolve' = {} /\ toUpsert' = <<>>
      /\ faulty' = TRUE
      /\ UNCHANGED <<hosts, hostMAC, hostName, hostname, sighted, leased, latest>>
    BY DEF RestartNaming, tables
<1>2. NamingTypeOK'
  <2>1. NamingTypeOK
      BY DEF NamingInv
  <2>2. /\ added' \subseteq IPs /\ event' \in Optional(IPs \X Optional(MACs)) /\ hostCache' \subseteq IPs
        /\ macByIP' \in [IPs -> Optional(MACs)] /\ toResolve' \subseteq IPs
      BY <1>1, Zenon DEF Optional
  <2>3. dhcpBuf' \in Seq(Optional(MACs) \X Names) /\ toUpsert' \in Seq(Optional(MACs) \X Names)
      BY <1>1
  <2>4. run' \in {"select", "hosts", "dhcp"} /\ faulty' \in BOOLEAN
      BY <1>1, Zenon
  <2> QED
      BY <1>1, <2>1, <2>2, <2>3, <2>4, Zenon DEF NamingTypeOK
<1>3. Queue' = <<>> /\ 1 .. Len(Queue') = {}
    BY <1>1 DEF Queue
<1>4. Seen'
    BY <1>1, <1>3, Zenon DEF NamingInv, Seen
<1> QED
    BY <1>1, <1>2, <1>4 DEF NamingInv, NamesAreOwn

(* Every step keeps the invariant.                                         *)
LEMMA NextNaming == NamingInv /\ [NamingNext]_namingVars => NamingInv'
<1> SUFFICES ASSUME NamingInv, [NamingNext]_namingVars PROVE NamingInv'
    OBVIOUS
<1>1. CASE UNCHANGED namingVars
  <2>1. /\ UNCHANGED <<added, event, macByIP, dhcpBuf, hostCache, run, toResolve, toUpsert>>
        /\ UNCHANGED <<hosts, hostMAC, hostName, hostname, sighted, leased, latest, faulty>>
      BY <1>1 DEF namingVars, decoding, flushing, tables, history
  <2>2. Queue' = Queue
      BY <2>1 DEF Queue
  <2>3. NamingTypeOK'
      BY <2>1, Zenon DEF NamingInv, NamingTypeOK
  <2>4. Seen'
      BY <2>1, <2>2, QueueKept, Zenon DEF NamingInv, Seen
  <2> QED
      BY <2>1, <2>2, <2>3, <2>4, QueueKept, Zenon DEF NamingInv, NamesAreOwn
<1> QED
    BY <1>1, AddFlowKeeps, RememberKeeps, BufferKeeps, TurnsKeep, ResolveKeeps, UpsertKeeps, RestartKeeps
    DEF NamingNext

(* The invariant holds in every behaviour.                                 *)
LEMMA NamingInvariance == NamingSpec => []NamingInv
    BY InitNaming, NextNaming, PTL DEF NamingSpec

(* Through dropped writes, restarts and re-used addresses, a host never    *)
(* shows the name of a device that was not seen using its address.         *)
THEOREM HostsShowTheirOwnNames == NamingSpec => []NamesAreOwn
<1>1. NamingInv => NamesAreOwn
    BY DEF NamingInv
<1> QED
    BY <1>1, NamingInvariance, PTL

(* While nothing fails, the last DHCP message of each device is the one    *)
(* dhcp_hostnames holds once nothing is buffered, however many messages    *)
(* one flush handled.                                                      *)
THEOREM TheLastLeaseWins == NamingSpec => []LastLeaseWins
<1>1. NamingInv => LastLeaseWins
  <2> SUFFICES ASSUME NamingInv, ~faulty, run # "dhcp", dhcpBuf = <<>> PROVE hostname = latest
      BY DEF LastLeaseWins
  <2>1. Queue = <<>> /\ 1 .. Len(Queue) = {}
      BY DEF NamingInv, Queue
  <2>2. \A mac \in MACs : hostname[mac] = latest[mac]
      BY <2>1, Zenon DEF NamingInv, Settled
  <2>3. hostname \in [MACs -> Optional(Names)] /\ latest \in [MACs -> Optional(Names)]
      BY Zenon DEF NamingInv, NamingTypeOK
  <2> QED
      BY <2>2, <2>3
<1> QED
    BY <1>1, NamingInvariance, PTL

(* The transaction of UpsertDHCPHostname changes a name in dhcp_hostnames  *)
(* and on every host that carries the MAC in the same step.                *)
THEOREM TablesChangeTogether == NamingSpec => RenamesTogether
<1> DEFINE Together ==
        \A mac \in MACs : hostname'[mac] # hostname[mac] =>
            \A ip \in hosts' : hostMAC'[ip] = mac => hostName'[ip] = hostname'[mac]
<1>1. ASSUME NamingInv, [NamingNext]_namingVars PROVE [Together]_namingVars
  <2>1. CASE UNCHANGED hostname
      BY <2>1, Zenon
  <2>2. CASE UpsertNext
    <3> SUFFICES ASSUME NEW mac \in MACs, hostname'[mac] # hostname[mac],
                        NEW ip \in hosts', hostMAC'[ip] = mac
                 PROVE  hostName'[ip] = hostname'[mac]
        BY Zenon
    <3> DEFINE m == Head(toUpsert)[1]
               name == Head(toUpsert)[2]
    <3>1. /\ hostname' = [hostname EXCEPT ![m] = name] /\ hostName' = Rename(m, name)
          /\ UNCHANGED <<hosts, hostMAC>>
        BY <2>2, Zenon DEF UpsertNext, UpsertDHCPHostname
    <3> HIDE DEF m, name
    <3>2. m = mac /\ hostname'[mac] = name
        BY <1>1, <3>1, Zenon DEF NamingInv, NamingTypeOK
    <3>3. ip \in IPs /\ ip \in hosts
        BY <1>1, <3>1, Zenon DEF NamingInv, NamingTypeOK
    <3> QED
        BY <3>1, <3>2, <3>3, Zenon DEF Rename
  <2>3. UpsertNext \/ UNCHANGED hostname
    <3>1. ASSUME NEW ip, NEW mac, AddFlow(ip, mac) \/ BufferDHCP(ip, mac) \/ ResolveHost(ip)
          PROVE  UNCHANGED hostname
        BY <3>1, Zenon DEF AddFlow, BufferDHCP, ResolveHost, tables
    <3>2. RememberMAC \/ Drain \/ SwapDHCP \/ FlushDone \/ RestartNaming \/ UNCHANGED namingVars
             => UNCHANGED hostname
        BY Zenon DEF RememberMAC, Drain, SwapDHCP, FlushDone, RestartNaming, namingVars, tables
    <3> QED
        BY <1>1, <3>1, <3>2 DEF NamingNext
  <2> QED
      BY <2>1, <2>2, <2>3, Zenon
<1> QED
    BY <1>1, NamingInvariance, PTL DEF NamingSpec, RenamesTogether
=============================================================================
