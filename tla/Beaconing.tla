----------------------------- MODULE Beaconing -----------------------------
(***************************************************************************)
(* The beaconing detector (internal/detect/beaconing.go) over the rows the *)
(* flushes leave behind: the packets of one host and one remote ip:port,   *)
(* aggregated per direction between two flushes, stored with the times of  *)
(* their first and last packet until the prune deletes them, and judged by *)
(* how regular the first times are in the scan's window.                   *)
(***************************************************************************)
EXTENDS Integers, Sequences, FiniteSetsExt, Sums

CONSTANTS
    FlushPeriod,        \* the flush period
    BeaconingWindow,    \* BeaconingWindow
    FlowsRecentWindow,  \* flowsRecentWindow, the retention of the rows
    MinObservations,    \* beaconingMinObservations
    MinInterval,        \* beaconingMinInterval
    MaxInterval,        \* beaconingMaxInterval
    MaxContacts,        \* bound: the packets the host sends
    LastInstant         \* bound: the clock

ASSUME BeaconingAssumption ==
    /\ FlushPeriod \in Nat \ {0} /\ MinObservations \in Nat \ {0, 1}
    /\ BeaconingWindow \in Nat /\ FlowsRecentWindow \in Nat /\ BeaconingWindow <= FlowsRecentWindow
    /\ MinInterval \in Nat /\ MaxInterval \in Nat
    /\ MaxContacts \in Nat /\ LastInstant \in Nat /\ FlushPeriod <= LastInstant

Moments == 0 .. LastInstant
Absent == -1
Directions == {"out", "in"}

VARIABLES
    instant,    \* time.Now()
    stored,     \* the flush due at this instant has been made
    contacts,   \* the times of the host's packets to the peer, in order
    answered,   \* history: the peer has answered one of them
    started,    \* the aggregator: the first packet of each direction, or Absent
    latest,     \* the aggregator: the last packet of each direction, or Absent
    starts,     \* the rows of flows_recent: direction, first_seen, last_seen and flush
    verdict     \* what the detector has just made of the pair

beaconVars == <<instant, stored, contacts, answered, started, latest, starts, verdict>>

StartRows == [dir : Directions, first_seen : Moments, last_seen : Moments, flush : Moments]

BeaconTypeOK ==
    /\ instant \in Moments /\ stored \in BOOLEAN /\ verdict \in {"none", "flagged", "ignored"}
    /\ contacts \in Seq(Moments) /\ answered \in BOOLEAN
    /\ {started, latest} \subseteq [Directions -> Moments \cup {Absent}] /\ starts \subseteq StartRows

BeaconInit ==
    /\ instant \in 0 .. FlushPeriod - 1
    /\ stored = FALSE /\ verdict = "none"
    /\ contacts = <<>> /\ answered = FALSE /\ starts = {}
    /\ started = [d \in Directions |-> Absent] /\ latest = [d \in Directions |-> Absent]

FlushDue == instant % FlushPeriod = 0 /\ ~stored

Elapse ==
    /\ instant < LastInstant /\ ~FlushDue
    /\ instant' = instant + 1
    /\ stored' = FALSE /\ verdict' = "none"
    /\ UNCHANGED <<contacts, answered, started, latest, starts>>

FirstSeen(d) == IF started[d] = Absent THEN instant ELSE started[d]

(* The host sends a packet; the peer, if it answers, does so at once.      *)
Exchange(answers) ==
    LET seen == IF answers THEN Directions ELSE {"out"} IN
    /\ Len(contacts) < MaxContacts
    /\ contacts' = Append(contacts, instant)
    /\ answered' = (answered \/ answers)
    /\ started' = [d \in Directions |-> IF d \in seen THEN FirstSeen(d) ELSE started[d]]
    /\ latest' = [d \in Directions |-> IF d \in seen THEN instant ELSE latest[d]]
    /\ verdict' = "none"
    /\ UNCHANGED <<instant, stored, starts>>

StartRow(d) ==
    [dir |-> d, first_seen |-> started[d], last_seen |-> latest[d], flush |-> instant]

StoreFlows ==
    /\ FlushDue
    /\ stored' = TRUE
    /\ starts' = starts \cup {StartRow(d) : d \in {e \in Directions : started[e] # Absent}}
    /\ started' = [d \in Directions |-> Absent] /\ latest' = [d \in Directions |-> Absent]
    /\ verdict' = "none"
    /\ UNCHANGED <<instant, contacts, answered>>

(* The hourly prune, at any moment: its ticker is of another goroutine.    *)
PruneFlowsRecent ==
    /\ starts' = {r \in starts : r.last_seen >= instant - FlowsRecentWindow}
    /\ verdict' = "none"
    /\ UNCHANGED <<instant, stored, contacts, answered, started, latest>>

-----------------------------------------------------------------------------
(* The rows of all directions whose last packet is in the window, ordered  *)
(* by first_seen: the i-th is of the first moment by which i of them had   *)
(* started.                                                                *)
RowsBetween(since, now) == {r \in starts : r.last_seen >= since /\ r.last_seen <= now}
StartedBy(rows, t) == Cardinality({r \in rows : r.first_seen <= t})
PeerFlowTimestamps(since, now) ==
    LET rows == RowsBetween(since, now)
    IN  [i \in 1 .. Cardinality(rows) |-> Min({t \in Moments : StartedBy(rows, t) >= i})]

Gaps(ts) == [i \in 1 .. Len(ts) - 1 |-> ts[i + 1] - ts[i]]

SumOf(s) == SumOver(s, DOMAIN s)

(* Mutant: the mean divides by the number of timestamps.                   *)
RegularByTimestamps(gaps) ==
    LET n == Len(gaps) + 1
        sum == SumOf(gaps)
        dev == SumOf([i \in DOMAIN gaps |-> (n * gaps[i] - sum) * (n * gaps[i] - sum)])
    IN  /\ sum > 0
        /\ sum >= MinInterval * n /\ sum <= MaxInterval * n
        /\ 25 * dev <= n * sum * sum

(* intervalStats and the three tests on it: the mean of the gaps is        *)
(* between the bounds, and their standard deviation is at most a fifth of  *)
(* it.  With n gaps, everything is multiplied by n.                        *)
Regular(gaps) ==
    LET n == Len(gaps)
        sum == SumOf(gaps)
        dev == SumOf([i \in DOMAIN gaps |-> (n * gaps[i] - sum) * (n * gaps[i] - sum)])
    IN  /\ sum > 0
        /\ sum >= MinInterval * n /\ sum <= MaxInterval * n
        /\ 25 * dev <= n * sum * sum

(* Beaconing, at any moment: the ticker is of another goroutine.           *)
Scan ==
    /\ LET timestamps == PeerFlowTimestamps(instant - BeaconingWindow, instant)
       IN  verdict' = IF Len(timestamps) >= MinObservations /\ Regular(Gaps(timestamps))
                      THEN "flagged" ELSE "ignored"
    /\ UNCHANGED <<instant, stored, contacts, answered, started, latest, starts>>

BeaconNext ==
    \/ Elapse
    \/ \E answers \in BOOLEAN : Exchange(answers)
    \/ StoreFlows
    \/ PruneFlowsRecent
    \/ Scan
BeaconSpec == BeaconInit /\ [][BeaconNext]_beaconVars

-----------------------------------------------------------------------------
Settled == \A d \in Directions : started[d] = Absent

(* The packets came every g instants.                                      *)
SentEvery(g) == \A i \in 1 .. Len(contacts) - 1 : contacts[i + 1] - contacts[i] = g

(* The contacts within the window of a scan made now.                      *)
RecentContacts == {i \in 1 .. Len(contacts) : contacts[i] >= instant - BeaconingWindow}

(* A host that has contacted the peer at one and the same interval, longer *)
(* than the flush period and within the detector's bounds, often enough    *)
(* within the window and without an answer, is flagged by a scan of the    *)
(* stored rows: neither the flush, nor the prune, nor the start of the     *)
(* window takes away or adds an observation.                               *)
BeaconIsFlagged ==
    \A g \in FlushPeriod + 1 .. MaxInterval :
        (/\ ~answered /\ Settled
         /\ g >= MinInterval /\ SentEvery(g) /\ Cardinality(RecentContacts) >= MinObservations)
        => verdict # "ignored"

(* The same, whether or not the peer answers.                              *)
AnsweredIsFlagged ==
    \A g \in FlushPeriod + 1 .. MaxInterval :
        (/\ Settled
         /\ g >= MinInterval /\ SentEvery(g) /\ Cardinality(RecentContacts) >= MinObservations)
        => verdict # "ignored"

(* The same, of contacts of several packets each, none answered.           *)
ContactIsFlagged ==
    \A g \in FlushPeriod + 1 .. MaxInterval :
        (/\ ~answered /\ Settled /\ g >= MinInterval
         /\ \A i \in 1 .. Len(contacts) - 1 : contacts[i + 1] - contacts[i] \in {0, g}
         /\ Cardinality({contacts[i] : i \in RecentContacts}) >= MinObservations)
        => verdict # "ignored"

(* A connection that never pauses, and so leaves a row at every flush, is  *)
(* not taken for a beacon.                                                 *)
SustainedIsIgnored == SentEvery(1) => verdict # "flagged"
=============================================================================
