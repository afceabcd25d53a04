---------------------------- MODULE RollupProofs ----------------------------
(***************************************************************************)
(* Proofs about the two users of the flush period.                         *)
(*                                                                         *)
(* Rollup, for any periods and phases: nothing is summed twice, and a      *)
(* process that was started late enough in its bucket leaves nothing out.  *)
(*                                                                         *)
(* Beaconing, for any bounds of the detector: a peer contacted at one      *)
(* interval is flagged.                                                    *)
(***************************************************************************)
EXTENDS Rollup, Beaconing, SumsProofs

(***************************************************************************)
(* Remainders and truncation.                                              *)
(***************************************************************************)

(* Quotient and remainder.                                                 *)
LEMMA DivMod ==
    ASSUME NEW t \in Int, NEW w \in Nat \ {0}
    PROVE  /\ t \div w \in Int /\ t % w \in 0 .. w - 1
           /\ t = w * (t \div w) + (t % w)
OBVIOUS

(* Different multiples of w are at least w apart.                          *)
LEMMA Scale ==
    ASSUME NEW w \in Nat \ {0}, NEW p \in Int, NEW q \in Int, p < q
    PROVE  w * p + w <= w * q
<1>1. q - p \in Nat \ {0}
    OBVIOUS
<1>2. w * (q - p) >= w
    BY <1>1
<1>3. w * (q - p) = w * q - w * p
    OBVIOUS
<1> QED
    BY <1>2, <1>3

(* The remainder is determined by its bounds.                              *)
LEMMA ModUnique ==
    ASSUME NEW w \in Nat \ {0}, NEW q \in Int, NEW r \in 0 .. w - 1
    PROVE  (w * q + r) % w = r
<1> DEFINE t == w * q + r
           p == t \div w
<1>1. t \in Int
    OBVIOUS
<1>2. p \in Int /\ t % w \in 0 .. w - 1 /\ t = w * p + (t % w)
    BY <1>1, DivMod
<1>3. w * p \in Int /\ w * q \in Int
    BY <1>2
<1>4. ~(p < q)
  <2>1. p < q => w * p + w <= w * q
      BY <1>2, Scale
  <2> QED
      BY <1>2, <1>3, <2>1
<1>5. ~(q < p)
  <2>1. q < p => w * q + w <= w * p
      BY <1>2, Scale
  <2> QED
      BY <1>2, <1>3, <2>1
<1>6. p = q
    BY <1>2, <1>4, <1>5
<1> QED
    BY <1>2, <1>3, <1>6

(* The remainder of the next number.                                       *)
LEMMA ModStep ==
    ASSUME NEW t \in Int, NEW w \in Nat \ {0}
    PROVE  (t + 1) % w = IF t % w = w - 1 THEN 0 ELSE (t % w) + 1
<1>1. PICK q \in Int, r \in 0 .. w - 1 : t = w * q + r /\ r = t % w
    BY DivMod, Zenon
<1>2. CASE r = w - 1
  <2>1. t + 1 = w * (q + 1) + 0
      BY <1>1, <1>2
  <2>2. (w * (q + 1) + 0) % w = 0
      BY ModUnique
  <2> QED
      BY <1>1, <1>2, <2>1, <2>2
<1>3. CASE r # w - 1
  <2>1. t + 1 = w * q + (r + 1) /\ r + 1 \in 0 .. w - 1
      BY <1>1, <1>3
  <2>2. (w * q + (r + 1)) % w = r + 1
      BY <2>1, ModUnique
  <2> QED
      BY <1>1, <1>3, <2>1, <2>2
<1> QED
    BY <1>2, <1>3

(***************************************************************************)
(* Beaconing.                                                              *)
(***************************************************************************)

(* The inductive invariant of the beacon.  Sparse: a flush fits between    *)
(* any two contacts.                                                       *)
Sparse == \A i \in 1 .. Len(contacts) - 1 : contacts[i + 1] - contacts[i] > FlushPeriod

(* Types.                                                                  *)
Typical ==
    /\ instant \in Nat /\ instant <= LastInstant /\ contacts \in Seq(Moments)
    /\ starts \subseteq StartRows
    /\ DOMAIN started = Directions /\ DOMAIN latest = Directions
    /\ \A d \in Directions :
          /\ started[d] \in Nat \cup {Absent} /\ started[d] <= instant
          /\ started[d] # Absent => latest[d] \in Nat /\ latest[d] <= instant

(* Contacts are in the order of time, and not of the future.               *)
InOrder ==
    /\ \A i, j \in 1 .. Len(contacts) : i <= j => contacts[i] <= contacts[j]
    /\ \A i \in 1 .. Len(contacts) : contacts[i] <= instant

(* An entry of the aggregator is no older than the last flush.             *)
Opened ==
    started["out"] # Absent =>
        /\ FlushDue => started["out"] >= instant - FlushPeriod
        /\ ~FlushDue => started["out"] >= instant - (instant % FlushPeriod)

(* How many contacts have been rows already.                               *)
Written == IF started["out"] = Absent THEN Len(contacts) ELSE Len(contacts) - 1

(* Without an answer every row is of one contact, with its time, each      *)
(* contact of the window still has its row, and the last may be the entry. *)
OneRowEach ==
    Sparse /\ ~answered =>
        /\ started["in"] = Absent
        /\ started["out"] # Absent =>
              /\ Len(contacts) > 0
              /\ started["out"] = contacts[Len(contacts)] /\ latest["out"] = contacts[Len(contacts)]
        /\ \A r \in starts :
              r.last_seen = r.first_seen /\ \E i \in 1 .. Written : r.first_seen = contacts[i]
        /\ \A i \in 1 .. Written :
              contacts[i] >= instant - BeaconingWindow => \E r \in starts : r.first_seen = contacts[i]
        /\ \A r, s \in starts : r.first_seen = s.first_seen => r = s

(* What a scan would say, and that a verdict is what it said.              *)
Timestamps == PeerFlowTimestamps(instant - BeaconingWindow, instant)
Flags == Len(Timestamps) >= MinObservations /\ Regular(Gaps(Timestamps))
Judged == verdict = "ignored" => ~Flags

(* Together.                                                               *)
BeaconInv == Typical /\ InOrder /\ Opened /\ OneRowEach /\ Judged

(* There has been no contact.                                              *)
LEMMA BeaconInitial == BeaconInit => BeaconInv
<1> SUFFICES ASSUME BeaconInit PROVE BeaconInv
    OBVIOUS
<1>1. /\ instant \in 0 .. FlushPeriod - 1 /\ verdict = "none"
      /\ contacts = <<>> /\ starts = {}
      /\ started = [e \in Directions |-> Absent] /\ latest = [e \in Directions |-> Absent]
    BY DEF BeaconInit
<1>2. /\ \A d \in Directions : started[d] = Absent
      /\ DOMAIN started = Directions /\ DOMAIN latest = Directions
      /\ started["out"] = Absent /\ started["in"] = Absent
    BY <1>1 DEF Directions
<1>3. Len(contacts) = 0 /\ contacts \in Seq(Moments)
    BY <1>1
<1>4. Typical
  <2>1. instant \in Nat /\ instant <= LastInstant /\ Absent <= instant
      BY <1>1, BeaconingAssumption DEF Absent
  <2> QED
      BY <1>1, <1>2, <1>3, <2>1 DEF Typical
<1>5. InOrder
    BY <1>3 DEF InOrder
<1>6. Opened
    BY <1>2 DEF Opened
<1>7. OneRowEach
    BY <1>1, <1>2, <1>3 DEF OneRowEach, Written
<1>8. Judged
    BY <1>1 DEF Judged
<1> QED
    BY <1>4, <1>5, <1>6, <1>7, <1>8 DEF BeaconInv

(* The numbers of the invariant.                                           *)
LEMMA Clock ==
    ASSUME BeaconInv
    PROVE  /\ instant \in Nat /\ FlushPeriod \in Nat /\ FlushPeriod > 0
           /\ instant % FlushPeriod \in Nat /\ instant % FlushPeriod < FlushPeriod
           /\ Len(contacts) \in Nat /\ Absent = -1
           /\ \A i \in 1 .. Len(contacts) : contacts[i] \in Nat
<1>1. instant \in Nat /\ contacts \in Seq(Moments)
    BY DEF BeaconInv, Typical
<1>2. FlushPeriod \in Nat \ {0} /\ LastInstant \in Nat
    BY BeaconingAssumption
<1>3. instant % FlushPeriod \in Nat /\ instant % FlushPeriod < FlushPeriod
    BY <1>1, <1>2, DivMod
<1>4. Len(contacts) \in Nat /\ \A i \in 1 .. Len(contacts) : contacts[i] \in Moments
    BY <1>1
<1>5. Moments \subseteq Nat
    BY <1>2 DEF Moments
<1>6. \A i \in 1 .. Len(contacts) : contacts[i] \in Nat
    BY <1>4, <1>5, Zenon
<1>7. FlushPeriod \in Nat /\ FlushPeriod > 0
    BY <1>2
<1> QED
    BY <1>1, <1>3, <1>4, <1>6, <1>7, Zenon DEF Absent

(* Contacts further apart than a flush are at different times.             *)
LEMMA StrictlyLater ==
    ASSUME BeaconInv, Sparse, NEW i \in 1 .. Len(contacts), NEW j \in 1 .. Len(contacts), i < j
    PROVE  contacts[i] < contacts[j]
<1>1. Len(contacts) \in Nat /\ FlushPeriod \in Nat
    BY Clock
<1>2. i \in 1 .. Len(contacts) - 1 /\ i + 1 \in 1 .. Len(contacts) /\ i + 1 <= j
    BY <1>1
<1>3. contacts[i + 1] - contacts[i] > FlushPeriod
    BY <1>2 DEF Sparse
<1>4. contacts[i + 1] <= contacts[j]
    BY <1>2 DEF BeaconInv, InOrder
<1>5. contacts[i] \in Nat /\ contacts[i + 1] \in Nat /\ contacts[j] \in Nat
    BY <1>2, Clock
<1> QED
    BY <1>1, <1>3, <1>4, <1>5

(* Every step keeps the invariant.                                         *)
LEMMA BeaconStep == BeaconInv /\ [BeaconNext]_beaconVars => BeaconInv'
(* What is known of an entry.                                              *)
<1>Entry.
    ASSUME BeaconInv, NEW d \in Directions, started[d] # Absent
    PROVE  /\ started[d] \in Nat /\ started[d] <= instant
           /\ latest[d] \in Nat /\ latest[d] <= instant
    BY <1>Entry DEF BeaconInv, Typical
(* It is no older than the flush period.                                   *)
<1>OpenedRecently.
    ASSUME BeaconInv, started["out"] # Absent
    PROVE  started["out"] \in Nat /\ instant - started["out"] <= FlushPeriod
  <2> USE <1>OpenedRecently
  <2>1. started["out"] \in Nat
      BY <1>Entry DEF Directions
  <2>2. started["out"] >= instant - FlushPeriod \/ started["out"] >= instant - (instant % FlushPeriod)
      BY DEF BeaconInv, Opened
  <2>3. PICK q : q = instant % FlushPeriod
      OBVIOUS
  <2>4. q \in Nat /\ q < FlushPeriod /\ instant \in Nat /\ FlushPeriod \in Nat
      BY <2>3, Clock
  <2> QED
      BY <2>1, <2>2, <2>3, <2>4
(* Time passes: a flush that becomes due is a period after the last.       *)
<1>ElapseKeeps.
    ASSUME BeaconInv, Elapse
    PROVE  BeaconInv'
  <2> USE <1>ElapseKeeps
  <2>1. /\ instant < LastInstant /\ ~FlushDue /\ instant' = instant + 1 /\ ~stored' /\ verdict' = "none"
        /\ contacts' = contacts /\ answered' = answered
        /\ started' = started /\ latest' = latest /\ starts' = starts
      BY DEF Elapse
  <2>2. instant \in Nat /\ LastInstant \in Nat /\ BeaconingWindow \in Nat
      BY BeaconingAssumption DEF BeaconInv, Typical
  <2>3. Typical'
    <3>1. instant' \in Nat /\ instant' <= LastInstant
        BY <2>1, <2>2
    <3>2. ASSUME NEW d \in Directions
          PROVE  /\ started[d] \in Nat \cup {Absent} /\ started[d] <= instant'
                 /\ started[d] # Absent => latest[d] \in Nat /\ latest[d] <= instant'
      <4>1. started[d] \in Nat \cup {Absent} /\ started[d] <= instant
          BY DEF BeaconInv, Typical
      <4>2. started[d] <= instant'
          BY <2>1, <2>2, <4>1 DEF Absent
      <4>3. ASSUME started[d] # Absent PROVE latest[d] \in Nat /\ latest[d] <= instant'
        <5>1. latest[d] \in Nat /\ latest[d] <= instant
            BY <1>Entry, <4>3
        <5> QED
            BY <2>1, <2>2, <5>1
      <4> QED
          BY <4>1, <4>2, <4>3, Zenon
    <3> QED
        BY <2>1, <3>1, <3>2, Zenon DEF BeaconInv, Typical
  <2>4. InOrder'
    <3>1. \A i \in 1 .. Len(contacts) : contacts[i] \in Nat /\ contacts[i] <= instant
        BY Clock DEF BeaconInv, InOrder
    <3>2. \A i \in 1 .. Len(contacts) : contacts[i] <= instant + 1
        BY <2>2, <3>1
    <3> QED
        BY <2>1, <3>2, Zenon DEF BeaconInv, InOrder
  <2>5. Opened'
    <3> SUFFICES ASSUME started["out"] # Absent
                 PROVE  /\ FlushDue' => started["out"] >= instant' - FlushPeriod
                        /\ ~FlushDue' => started["out"] >= instant' - (instant' % FlushPeriod)
        BY <2>1, Zenon DEF Opened
    <3>1. PICK q : q = instant % FlushPeriod
        OBVIOUS
    <3>2. PICK s : s = instant' % FlushPeriod
        OBVIOUS
    <3>3. q \in Nat /\ q < FlushPeriod /\ FlushPeriod \in Nat /\ FlushPeriod > 0
        BY <3>1, Clock
    <3>4. s = IF q = FlushPeriod - 1 THEN 0 ELSE q + 1
      <4>1. FlushPeriod \in Nat \ {0} /\ instant \in Int
          BY <2>2, <3>3
      <4>2. (instant + 1) % FlushPeriod = IF instant % FlushPeriod = FlushPeriod - 1 THEN 0 ELSE (instant % FlushPeriod) + 1
          BY <4>1, ModStep, Zenon
      <4> QED
          BY <2>1, <3>1, <3>2, <4>2, Zenon
    <3>5. started["out"] \in Nat
        BY <1>Entry DEF Directions
    <3>6. started["out"] >= instant - q
        BY <2>1, <3>1 DEF BeaconInv, Opened
    <3>7. FlushDue' <=> s = 0
        BY <2>1, <3>2 DEF FlushDue
    <3>8. CASE s = 0
      <4>1. q = FlushPeriod - 1
          BY <3>3, <3>4, <3>8
      <4>2. started["out"] >= instant' - FlushPeriod
          BY <2>1, <2>2, <3>3, <3>5, <3>6, <4>1
      <4> QED
          BY <3>7, <3>8, <4>2
    <3>9. CASE s # 0
      <4>1. s = q + 1
          BY <3>4, <3>9
      <4>2. started["out"] >= instant' - s
          BY <2>1, <2>2, <3>3, <3>5, <3>6, <4>1
      <4> QED
          BY <3>2, <3>7, <3>9, <4>2
    <3> QED
        BY <3>8, <3>9
  <2>6. OneRowEach'
    <3>1. Written' = Written /\ Len(contacts') = Len(contacts) /\ (Sparse' <=> Sparse)
        BY <2>1, Zenon DEF Written, Sparse
    <3>2. ASSUME Sparse, ~answered, NEW i \in 1 .. Written, contacts[i] >= instant' - BeaconingWindow
          PROVE  \E r \in starts : r.first_seen = contacts[i]
      <4>1. contacts[i] \in Nat
        <5>1. i \in 1 .. Len(contacts)
            BY Clock DEF Written
        <5> QED
            BY <5>1, Clock
      <4>2. contacts[i] >= instant - BeaconingWindow
          BY <2>1, <2>2, <3>2, <4>1
      <4> QED
          BY <3>2, <4>2, Zenon DEF BeaconInv, OneRowEach
    <3> QED
        BY <2>1, <3>1, <3>2, Zenon DEF BeaconInv, OneRowEach
  <2>7. Judged'
      BY <2>1 DEF Judged
  <2> QED
      BY <2>3, <2>4, <2>5, <2>6, <2>7 DEF BeaconInv
(* A contact that comes more than a flush period after the last finds no   *)
(* entry, and makes one.                                                   *)
<1>ExchangeKeeps.
    ASSUME BeaconInv, NEW answers \in BOOLEAN, Exchange(answers)
    PROVE  BeaconInv'
  <2> USE <1>ExchangeKeeps
  <2>1. PICK seen : seen = IF answers THEN Directions ELSE {"out"}
      OBVIOUS
  <2>2. /\ contacts' = Append(contacts, instant) /\ verdict' = "none"
        /\ answered' = (answered \/ answers)
        /\ started' = [e \in Directions |-> IF e \in seen THEN FirstSeen(e) ELSE started[e]]
        /\ latest' = [e \in Directions |-> IF e \in seen THEN instant ELSE latest[e]]
        /\ instant' = instant /\ stored' = stored /\ starts' = starts
      BY <2>1, Zenon DEF Exchange
  <2>3. instant \in Nat /\ LastInstant \in Nat /\ instant \in Moments /\ contacts \in Seq(Moments)
      BY BeaconingAssumption DEF BeaconInv, Typical, Moments
  <2>4. /\ DOMAIN started' = Directions /\ DOMAIN latest' = Directions
        /\ \A d \in Directions : started'[d] = IF d \in seen THEN FirstSeen(d) ELSE started[d]
        /\ \A d \in Directions : latest'[d] = IF d \in seen THEN instant ELSE latest[d]
      BY <2>2, Zenon
  <2>5. /\ started'["out"] = FirstSeen("out") /\ latest'["out"] = instant
        /\ ~answers => started'["in"] = started["in"]
      BY <2>1, <2>4 DEF Directions
  <2>6. PICK n \in Nat : n = Len(contacts)
      BY <2>3
  <2>7. /\ contacts' \in Seq(Moments) /\ Len(contacts') = n + 1 /\ contacts'[n + 1] = instant
        /\ \A i \in 1 .. n : contacts'[i] = contacts[i]
      BY <2>2, <2>3, <2>6
  <2>8. \A i \in 1 .. n : contacts[i] \in Nat /\ contacts[i] <= instant
      BY <2>6, Clock DEF BeaconInv, InOrder
  <2>9. Typical'
    <3>1. ASSUME NEW d \in Directions
          PROVE  /\ started'[d] \in Nat \cup {Absent} /\ started'[d] <= instant
                 /\ started'[d] # Absent => latest'[d] \in Nat /\ latest'[d] <= instant
      <4>1. /\ started[d] \in Nat \cup {Absent} /\ started[d] <= instant
            /\ started[d] # Absent => latest[d] \in Nat /\ latest[d] <= instant
          BY DEF BeaconInv, Typical
      <4>2. instant <= instant
          BY <2>3
      <4> QED
          BY <2>3, <2>4, <4>1, <4>2, Zenon DEF FirstSeen
    <3> QED
        BY <2>2, <2>3, <2>4, <2>7, <3>1, Zenon DEF BeaconInv, Typical
  <2>10. InOrder'
    <3>1. ASSUME NEW i \in 1 .. n + 1, NEW j \in 1 .. n + 1, i <= j
          PROVE  contacts'[i] <= contacts'[j]
      <4>1. CASE j \in 1 .. n
        <5>1. i \in 1 .. n
            BY <3>1, <4>1
        <5> QED
            BY <2>6, <2>7, <3>1, <4>1, <5>1 DEF BeaconInv, InOrder
      <4>2. CASE j = n + 1
        <5>1. contacts'[j] = instant
            BY <2>7, <4>2
        <5>2. i \in 1 .. n \/ i = n + 1
            OBVIOUS
        <5> QED
            BY <2>3, <2>7, <2>8, <5>1, <5>2
      <4> QED
          BY <4>1, <4>2
    <3>2. ASSUME NEW i \in 1 .. n + 1
          PROVE  contacts'[i] <= instant'
      <4>1. i \in 1 .. n \/ i = n + 1
          OBVIOUS
      <4> QED
          BY <2>2, <2>3, <2>7, <2>8, <4>1
    <3> QED
        BY <2>7, <3>1, <3>2, Zenon DEF InOrder
  <2>11. Opened'
    <3>1. CASE started["out"] = Absent
      <4>1. started'["out"] = instant
          BY <2>5, <3>1 DEF FirstSeen
      <4>2. PICK q : q = instant % FlushPeriod
          OBVIOUS
      <4>3. q \in Nat /\ FlushPeriod \in Nat
          BY <4>2, Clock
      <4>4. instant >= instant - q /\ instant >= instant - FlushPeriod
          BY <2>3, <4>3
      <4> QED
          BY <2>2, <4>1, <4>2, <4>4 DEF Opened, FlushDue
    <3>2. CASE started["out"] # Absent
      <4>1. started'["out"] = started["out"]
          BY <2>5, <3>2 DEF FirstSeen
      <4> QED
          BY <2>2, <3>2, <4>1 DEF BeaconInv, Opened, FlushDue
    <3> QED
        BY <3>1, <3>2
  <2>12. OneRowEach'
    <3> SUFFICES ASSUME Sparse', ~answered'
                 PROVE  /\ started'["in"] = Absent
                        /\ started'["out"] # Absent =>
                              /\ Len(contacts') > 0 /\ started'["out"] = contacts'[Len(contacts')]
                              /\ latest'["out"] = contacts'[Len(contacts')]
                        /\ \A r \in starts' :
                              r.last_seen = r.first_seen /\ \E i \in 1 .. Written' : r.first_seen = contacts'[i]
                        /\ \A i \in 1 .. Written' : contacts'[i] >= instant' - BeaconingWindow =>
                              \E r \in starts' : r.first_seen = contacts'[i]
                        /\ \A r, s \in starts' : r.first_seen = s.first_seen => r = s
        BY Zenon DEF OneRowEach
    <3>1. Sparse
      <4>1. ASSUME NEW i \in 1 .. n - 1 PROVE contacts[i + 1] - contacts[i] > FlushPeriod
        <5>1. i \in 1 .. n /\ i + 1 \in 1 .. n
            BY <2>6
        <5>2. contacts'[i + 1] - contacts'[i] > FlushPeriod
            BY <2>7, <5>1 DEF Sparse
        <5> QED
            BY <2>7, <5>1, <5>2
      <4> QED
          BY <2>6, <4>1 DEF Sparse
    <3>2. ~answered /\ ~answers
        BY <2>2
    <3>3. started["out"] = Absent
      <4> SUFFICES ASSUME started["out"] # Absent PROVE FALSE
          OBVIOUS
      <4>1. n > 0 /\ started["out"] = contacts[n]
          BY <2>6, <3>1, <3>2, Zenon DEF BeaconInv, OneRowEach
      <4>2. started["out"] \in Nat /\ instant - started["out"] <= FlushPeriod
          BY <1>OpenedRecently
      <4>3. n \in 1 .. n /\ n \in 1 .. Len(contacts') - 1
          BY <2>7, <4>1
      <4>4. contacts'[n + 1] - contacts'[n] > FlushPeriod
          BY <4>3 DEF Sparse
      <4>5. instant - started["out"] > FlushPeriod
          BY <2>7, <4>1, <4>3, <4>4
      <4>6. FlushPeriod \in Nat
          BY Clock
      <4> QED
          BY <2>3, <4>2, <4>5, <4>6
    <3>4. started'["out"] = instant /\ started'["out"] # Absent
        BY <2>3, <2>5, <3>3 DEF FirstSeen, Absent
    <3>5. Written' = n /\ Written = n
        BY <2>6, <2>7, <3>3, <3>4 DEF Written
    <3>6. /\ started["in"] = Absent
          /\ \A r \in starts : r.last_seen = r.first_seen /\ \E i \in 1 .. n : r.first_seen = contacts[i]
          /\ \A i \in 1 .. n : contacts[i] >= instant - BeaconingWindow =>
                \E r \in starts : r.first_seen = contacts[i]
          /\ \A r, s \in starts : r.first_seen = s.first_seen => r = s
        BY <3>1, <3>2, <3>5, Zenon DEF BeaconInv, OneRowEach
    <3>7. \A i \in 1 .. n : contacts'[i] = contacts[i]
        BY <2>7, Zenon
    <3>8. ASSUME NEW r \in starts
          PROVE  r.last_seen = r.first_seen /\ \E i \in 1 .. n : r.first_seen = contacts'[i]
      <4>1. PICK i \in 1 .. n : r.first_seen = contacts[i]
          BY <3>6, Zenon
      <4> QED
          BY <3>6, <3>7, <4>1, Zenon
    <3>9. ASSUME NEW i \in 1 .. n, contacts'[i] >= instant - BeaconingWindow
          PROVE  \E r \in starts : r.first_seen = contacts'[i]
      <4>1. PICK r \in starts : r.first_seen = contacts[i]
          BY <3>6, <3>7, <3>9, Zenon
      <4> QED
          BY <3>7, <4>1, Zenon
    <3>10. Len(contacts') > 0 /\ contacts'[Len(contacts')] = instant
        BY <2>7
    <3>11. /\ \A r \in starts' :
                 r.last_seen = r.first_seen /\ \E i \in 1 .. Written' : r.first_seen = contacts'[i]
           /\ \A i \in 1 .. Written' : contacts'[i] >= instant' - BeaconingWindow =>
                 \E r \in starts' : r.first_seen = contacts'[i]
        BY <2>2, <3>5, <3>8, <3>9, Zenon
    <3>12. \A r, s \in starts' : r.first_seen = s.first_seen => r = s
        BY <2>2, <3>6, Zenon
    <3>13. started'["in"] = Absent
        BY <2>5, <3>2, <3>6, Zenon
    <3> QED
        BY <2>5, <3>4, <3>10, <3>11, <3>12, <3>13, Zenon
  <2>13. Judged'
      BY <2>2 DEF Judged
  <2> QED
      BY <2>9, <2>10, <2>11, <2>12, <2>13 DEF BeaconInv
(* A flush makes the entry a row, of another time than all others.         *)
<1>StoreFlowsKeeps.
    ASSUME BeaconInv, StoreFlows
    PROVE  BeaconInv'
  <2> USE <1>StoreFlowsKeeps
  <2>1. /\ FlushDue /\ verdict' = "none"
        /\ instant' = instant /\ contacts' = contacts /\ answered' = answered
        /\ starts' = starts \cup {StartRow(e) : e \in {e \in Directions : started[e] # Absent}}
        /\ started' = [e \in Directions |-> Absent] /\ latest' = [e \in Directions |-> Absent]
      BY DEF StoreFlows
  <2>2. /\ \A d \in Directions : started'[d] = Absent
        /\ DOMAIN started' = Directions /\ DOMAIN latest' = Directions
        /\ started'["out"] = Absent /\ started'["in"] = Absent
      BY <2>1 DEF Directions
  <2>3. instant \in Nat /\ LastInstant \in Nat /\ instant <= LastInstant /\ contacts \in Seq(Moments) /\ starts \subseteq StartRows
      BY BeaconingAssumption DEF BeaconInv, Typical
  <2>4. Typical'
    <3>1. ASSUME NEW d \in Directions, started[d] # Absent PROVE StartRow(d) \in StartRows
      <4>1. started[d] \in Nat /\ started[d] <= instant /\ latest[d] \in Nat /\ latest[d] <= instant
          BY <1>Entry, <3>1
      <4>2. started[d] \in Moments /\ latest[d] \in Moments /\ instant \in Moments
          BY <2>3, <4>1 DEF Moments
      <4> QED
          BY <4>2, Zenon DEF StartRows, StartRow
    <3>2. starts' \subseteq StartRows
        BY <2>1, <2>3, <3>1
    <3>3. Absent <= instant
        BY <2>3 DEF Absent
    <3> QED
        BY <2>1, <2>2, <2>3, <3>2, <3>3, Zenon DEF Typical
  <2>5. InOrder'
      BY <2>1, Zenon DEF BeaconInv, InOrder
  <2>6. Opened'
      BY <2>2 DEF Opened
  <2>7. OneRowEach'
    <3> SUFFICES ASSUME Sparse, ~answered
                 PROVE  /\ \A r \in starts' :
                              r.last_seen = r.first_seen /\ \E i \in 1 .. Len(contacts) : r.first_seen = contacts[i]
                        /\ \A i \in 1 .. Len(contacts) : contacts[i] >= instant - BeaconingWindow =>
                              \E r \in starts' : r.first_seen = contacts[i]
                        /\ \A r, s \in starts' : r.first_seen = s.first_seen => r = s
      <4>1. Written' = Len(contacts)
          BY <2>1, <2>2, Zenon DEF Written
      <4>2. Sparse' => Sparse
          BY <2>1 DEF Sparse
      <4> QED
          BY <2>1, <2>2, <4>1, <4>2, Zenon DEF OneRowEach
    <3>1. started["in"] = Absent
        BY Zenon DEF BeaconInv, OneRowEach
    <3>2. CASE started["out"] = Absent
      <4>1. Written = Len(contacts)
          BY <3>2 DEF Written
      <4>2. starts' = starts
          BY <2>1, <3>1, <3>2 DEF Directions
      <4> QED
          BY <4>1, <4>2, Zenon DEF BeaconInv, OneRowEach
    <3>3. CASE started["out"] # Absent
      <4>1. PICK n \in Nat : n = Len(contacts)
          BY Clock
      <4>2. n > 0 /\ started["out"] = contacts[n] /\ latest["out"] = contacts[n]
          BY <3>3, <4>1, Zenon DEF BeaconInv, OneRowEach
      <4>3. Written = n - 1
          BY <3>3, <4>1 DEF Written
      <4>4. /\ \A r \in starts : r.last_seen = r.first_seen /\ \E i \in 1 .. n - 1 : r.first_seen = contacts[i]
            /\ \A i \in 1 .. n - 1 : contacts[i] >= instant - BeaconingWindow =>
                  \E r \in starts : r.first_seen = contacts[i]
            /\ \A r, s \in starts : r.first_seen = s.first_seen => r = s
          BY <4>3, Zenon DEF BeaconInv, OneRowEach
      <4>5. 1 .. n = (1 .. n - 1) \cup {n}
          BY <4>1, <4>2
      <4>6. PICK row : row = StartRow("out")
          OBVIOUS
      <4>7. row.first_seen = contacts[n] /\ row.last_seen = contacts[n]
          BY <4>2, <4>6 DEF StartRow
      <4>8. starts' = starts \cup {row}
        <5>1. {e \in Directions : started[e] # Absent} = {"out"}
            BY <3>1, <3>3 DEF Directions
        <5> QED
            BY <2>1, <4>6, <5>1
      <4>9. ASSUME NEW r \in starts PROVE r.first_seen # contacts[n]
        <5>1. PICK i \in 1 .. n - 1 : r.first_seen = contacts[i]
            BY <4>4
        <5>2. i \in 1 .. n /\ n \in 1 .. n /\ i < n
            BY <4>1, <4>2
        <5>3. contacts[i] < contacts[n] /\ contacts[i] \in Nat /\ contacts[n] \in Nat
            BY <4>1, <5>2, StrictlyLater, Clock
        <5> QED
            BY <5>1, <5>3
      <4>10. \A r \in starts' : r.last_seen = r.first_seen /\ \E i \in 1 .. n : r.first_seen = contacts[i]
          BY <4>4, <4>5, <4>7, <4>8, Zenon
      <4>11. \A i \in 1 .. n : contacts[i] >= instant - BeaconingWindow =>
                \E r \in starts' : r.first_seen = contacts[i]
          BY <4>4, <4>5, <4>7, <4>8, Zenon
      <4>12. \A r, s \in starts' : r.first_seen = s.first_seen => r = s
          BY <4>4, <4>7, <4>8, <4>9, Zenon
      <4> QED
          BY <4>1, <4>10, <4>11, <4>12, Zenon
    <3> QED
        BY <3>2, <3>3, Zenon
  <2>8. Judged'
      BY <2>1 DEF Judged
  <2> QED
      BY <2>4, <2>5, <2>6, <2>7, <2>8 DEF BeaconInv
(* A prune deletes no row of the window.                                   *)
<1>PruneKeeps.
    ASSUME BeaconInv, PruneFlowsRecent
    PROVE  BeaconInv'
  <2> USE <1>PruneKeeps
  <2>1. /\ starts' = {r \in starts : r.last_seen >= instant - FlowsRecentWindow}
        /\ verdict' = "none" /\ instant' = instant /\ stored' = stored /\ contacts' = contacts
        /\ answered' = answered /\ started' = started /\ latest' = latest
      BY DEF PruneFlowsRecent
  <2>2. starts' \subseteq starts
      BY <2>1
  <2>3. Typical' /\ InOrder'
    <3>1. starts' \subseteq StartRows
        BY <2>2 DEF BeaconInv, Typical
    <3> QED
        BY <2>1, <3>1, Zenon DEF BeaconInv, Typical, InOrder
  <2>4. Opened'
    <3>1. FlushDue' <=> FlushDue
        BY <2>1, Zenon DEF FlushDue
    <3> QED
        BY <2>1, <3>1, Zenon DEF BeaconInv, Opened
  <2>5. OneRowEach'
    <3>1. Written' = Written /\ Len(contacts') = Len(contacts) /\ (Sparse' <=> Sparse)
        BY <2>1, Zenon DEF Written, Sparse
    <3>2. ASSUME Sparse, ~answered, NEW i \in 1 .. Written, contacts[i] >= instant - BeaconingWindow
          PROVE  \E r \in starts' : r.first_seen = contacts[i]
      <4>1. PICK r \in starts : r.first_seen = contacts[i]
          BY <3>2, Zenon DEF BeaconInv, OneRowEach
      <4>2. r.last_seen = contacts[i]
          BY <3>2, <4>1, Zenon DEF BeaconInv, OneRowEach
      <4>3. contacts[i] \in Nat
        <5>1. i \in 1 .. Len(contacts)
            BY Clock DEF Written
        <5> QED
            BY <5>1, Clock
      <4>4. contacts[i] >= instant - FlowsRecentWindow
          BY <3>2, <4>3, BeaconingAssumption, Clock
      <4>5. r \in starts'
          BY <2>1, <4>2, <4>4
      <4> QED
          BY <4>1, <4>5, Zenon
    <3>3. \A r \in starts' : r \in starts
        BY <2>2
    <3> QED
        BY <2>1, <3>1, <3>2, <3>3, Zenon DEF BeaconInv, OneRowEach
  <2>6. Judged'
      BY <2>1 DEF Judged
  <2> QED
      BY <2>3, <2>4, <2>5, <2>6 DEF BeaconInv
<1> SUFFICES ASSUME BeaconInv, [BeaconNext]_beaconVars PROVE BeaconInv'
    OBVIOUS
<1>1. CASE Elapse
    BY <1>1, <1>ElapseKeeps
<1>2. ASSUME NEW answers \in BOOLEAN, Exchange(answers) PROVE BeaconInv'
    BY <1>2, <1>ExchangeKeeps
<1>3. CASE StoreFlows
    BY <1>3, <1>StoreFlowsKeeps
<1>4. CASE PruneFlowsRecent
    BY <1>4, <1>PruneKeeps
<1>5. ASSUME UNCHANGED <<instant, stored, contacts, answered, started, latest, starts>>
      PROVE  /\ Typical' /\ InOrder' /\ Opened' /\ OneRowEach'
             /\ Flags' <=> Flags
  <2>1. /\ instant' = instant /\ stored' = stored /\ contacts' = contacts /\ answered' = answered
        /\ started' = started /\ latest' = latest /\ starts' = starts
      BY <1>5
  <2>2. Typical' /\ InOrder'
      BY <2>1, Zenon DEF BeaconInv, Typical, InOrder
  <2>3. FlushDue' <=> FlushDue
      BY <2>1, Zenon DEF FlushDue
  <2>4. Opened'
      BY <2>1, <2>3, Zenon DEF BeaconInv, Opened
  <2>5. OneRowEach'
      BY <2>1, Zenon DEF BeaconInv, OneRowEach, Written, Sparse
  <2>6. Timestamps' = Timestamps
      BY <2>1, Zenon DEF Timestamps, PeerFlowTimestamps, RowsBetween, StartedBy
  <2>7. Flags' <=> Flags
      BY <2>6, Zenon DEF Flags
  <2> QED
      BY <2>2, <2>4, <2>5, <2>7
<1>6. CASE Scan
  <2>1. /\ verdict' = IF Flags THEN "flagged" ELSE "ignored"
        /\ UNCHANGED <<instant, stored, contacts, answered, started, latest, starts>>
      BY <1>6, Zenon DEF Scan, Flags, Timestamps
  <2>2. Judged'
      BY <1>5, <2>1 DEF Judged
  <2> QED
      BY <1>5, <2>1, <2>2 DEF BeaconInv
<1>7. CASE UNCHANGED beaconVars
  <2>1. verdict' = verdict /\ UNCHANGED <<instant, stored, contacts, answered, started, latest, starts>>
      BY <1>7 DEF beaconVars
  <2>2. Judged'
      BY <1>5, <2>1 DEF BeaconInv, Judged
  <2> QED
      BY <1>5, <2>1, <2>2 DEF BeaconInv
<1> QED
    BY <1>1, <1>2, <1>3, <1>4, <1>6, <1>7 DEF BeaconNext

(* The rows start at the moments cs[1] < ... < cs[n], one at each.         *)
OneAtEach(rows, cs, n) ==
    /\ \A i \in 1 .. n : cs[i] \in Moments
    /\ \A i, j \in 1 .. n : i < j => cs[i] < cs[j]
    /\ \A r \in rows : \E i \in 1 .. n : r.first_seen = cs[i]
    /\ \A i \in 1 .. n : \E r \in rows : r.first_seen = cs[i]
    /\ \A r, s \in rows : r.first_seen = s.first_seen => r = s

(* The query returns these moments.                                        *)
ReturnedAs(rows, cs, n) ==
    /\ Cardinality(rows) = n
    /\ \A i \in 1 .. n : Min({t \in Moments : StartedBy(rows, t) >= i}) = cs[i]

(* So a scan flags the pair.                                               *)
LEMMA BeaconMeans == BeaconInv => BeaconIsFlagged
(* Rows that started at different moments are returned in their order.     *)
<1>TimestampsInOrder.
    ASSUME NEW n \in Nat, NEW cs, NEW rows, OneAtEach(rows, cs, n)
    PROVE  ReturnedAs(rows, cs, n)
  <2>1. n \in Nat /\ \A i \in 1 .. n : cs[i] \in Moments
      BY <1>TimestampsInOrder DEF OneAtEach
  <2>2. Moments \subseteq Nat
      BY BeaconingAssumption DEF Moments
  <2>3. /\ \A i, j \in 1 .. n : i < j => cs[i] < cs[j]
        /\ \A r \in rows : \E i \in 1 .. n : r.first_seen = cs[i]
        /\ \A i \in 1 .. n : \E r \in rows : r.first_seen = cs[i]
        /\ \A r, s \in rows : r.first_seen = s.first_seen => r = s
      BY <1>TimestampsInOrder DEF OneAtEach
  <2>4. PICK row : row = [i \in 1 .. n |-> CHOOSE r \in rows : r.first_seen = cs[i]]
      BY Zenon
  <2>5. ASSUME NEW i \in 1 .. n PROVE row[i] \in rows /\ row[i].first_seen = cs[i]
    <3>1. row[i] = CHOOSE r \in rows : r.first_seen = cs[i]
        BY <2>4
    <3> QED
        BY <2>3, <3>1, Zenon
  <2>6. ASSUME NEW i \in 1 .. n, NEW j \in 1 .. n, i < j PROVE cs[i] < cs[j]
      BY <2>3, <2>6
  <2>7. \A i \in 1 .. n : cs[i] \in Nat
      BY <2>1, <2>2, Zenon
  <2>8. ASSUME NEW i \in 1 .. n, NEW j \in 1 .. n, row[i] = row[j] PROVE i = j
    <3>1. cs[i] = cs[j]
        BY <2>5, <2>8, Zenon
    <3>2. i < j \/ j < i \/ i = j
        BY <2>1
    <3> QED
        BY <2>6, <2>7, <3>1, <3>2
  <2>9. ASSUME NEW r \in rows PROVE \E i \in 1 .. n : r = row[i]
    <3>1. PICK i \in 1 .. n : r.first_seen = cs[i]
        BY <2>3
    <3>2. row[i] \in rows /\ row[i].first_seen = r.first_seen
        BY <2>5, <3>1
    <3>3. r = row[i]
        BY <2>3, <3>2
    <3> QED
        BY <3>3
  <2>10. ASSUME NEW m \in 0 .. n
         PROVE  IsFiniteSet({row[j] : j \in 1 .. m}) /\ Cardinality({row[j] : j \in 1 .. m}) = m
    <3>1. m \in Nat /\ 1 .. m \subseteq 1 .. n
        BY <2>1
    <3>2. IsFiniteSet(1 .. m) /\ Cardinality(1 .. m) = m
      <4>1. 1 \in Int /\ m \in Int /\ (1 > m => m = 0) /\ (1 <= m => m - 1 + 1 = m)
          BY <3>1
      <4> QED
          BY <4>1, FS_Interval
    <3>3. \A i, j \in 1 .. m : row[i] = row[j] => i = j
        BY <2>8, <3>1, Zenon
    <3>4. PICK T : T = {row[j] : j \in 1 .. m}
        BY Zenon
    <3>5. IsFiniteSet(T) /\ Cardinality(T) = Cardinality(1 .. m)
      <4>1. PICK J : J = 1 .. m
          BY Zenon
      <4>2. /\ IsFiniteSet(J) /\ \A i, j \in J : row[i] = row[j] => i = j
            /\ (\A i \in J : row[i] \in T) /\ \A r \in T : \E i \in J : r = row[i]
          BY <3>2, <3>3, <3>4, <4>1, Zenon
      <4>3. IsFiniteSet(T) /\ Cardinality(T) = Cardinality(J)
          BY <4>2, SameSize, Zenon
      <4> QED
          BY <4>1, <4>3, Zenon
    <3> QED
        BY <3>2, <3>4, <3>5, Zenon
  <2>11. rows = {row[j] : j \in 1 .. n}
      BY <2>5, <2>9, Zenon
  <2>12. Cardinality(rows) = n /\ IsFiniteSet(rows)
    <3>1. n \in 0 .. n
        BY <2>1
    <3> QED
        BY <2>10, <2>11, <3>1, Zenon
  <2>13. ASSUME NEW i \in 1 .. n PROVE StartedBy(rows, cs[i]) >= i
    <3>1. PICK T : T = {r \in rows : r.first_seen <= cs[i]}
        BY Zenon
    <3>2. ASSUME NEW j \in 1 .. i PROVE row[j] \in T
      <4>1. j \in 1 .. n /\ (j < i \/ j = i)
          BY <2>1
      <4>2. cs[j] <= cs[i]
          BY <2>6, <2>7, <4>1
      <4> QED
          BY <2>5, <3>1, <4>1, <4>2
    <3>3. {row[j] : j \in 1 .. i} \subseteq T
        BY <3>2, Zenon
    <3>4. T \subseteq rows
        BY <3>1
    <3>5. IsFiniteSet(T)
        BY <2>12, <3>4, FS_Subset, Zenon
    <3>6. i \in 0 .. n
        BY <2>1
    <3>7. Cardinality({row[j] : j \in 1 .. i}) <= Cardinality(T) /\ Cardinality({row[j] : j \in 1 .. i}) = i
        BY <2>10, <3>3, <3>5, <3>6, FS_Subset, Zenon
    <3>8. Cardinality(T) \in Nat
        BY <3>5, FS_CardinalityType, Zenon
    <3>9. StartedBy(rows, cs[i]) = Cardinality(T)
        BY <3>1, Zenon DEF StartedBy
    <3> QED
        BY <3>7, <3>8, <3>9
  <2>14. ASSUME NEW i \in 1 .. n, NEW t \in Moments, StartedBy(rows, t) >= i PROVE cs[i] <= t
    <3> SUFFICES ASSUME ~(cs[i] <= t) PROVE FALSE
        OBVIOUS
    <3>1. t \in Nat
        BY BeaconingAssumption DEF Moments
    <3>2. t < cs[i]
        BY <2>7, <3>1
    <3>3. PICK T : T = {r \in rows : r.first_seen <= t}
        BY Zenon
    <3>4. PICK m \in 0 .. n : m = i - 1
        BY <2>1
    <3>5. ASSUME NEW r \in T PROVE r \in {row[j] : j \in 1 .. m}
      <4>1. r \in rows /\ r.first_seen <= t
          BY <3>3
      <4>2. PICK j \in 1 .. n : r = row[j]
          BY <2>9, <4>1
      <4>3. cs[j] <= t
          BY <2>5, <4>1, <4>2, Zenon
      <4>4. j < i
        <5>1. cs[j] < cs[i]
            BY <2>7, <3>1, <3>2, <4>3
        <5>2. j < i \/ i < j \/ i = j
            BY <2>1
        <5> QED
            BY <2>6, <2>7, <5>1, <5>2
      <4>5. j \in 1 .. m
          BY <3>4, <4>4
      <4> QED
          BY <4>2, <4>5, Zenon
    <3>6. T \subseteq {row[j] : j \in 1 .. m}
        BY <3>5, Zenon
    <3>7. Cardinality(T) <= m
      <4>1. IsFiniteSet({row[j] : j \in 1 .. m}) /\ Cardinality({row[j] : j \in 1 .. m}) = m
          BY <2>10
      <4>2. Cardinality(T) <= Cardinality({row[j] : j \in 1 .. m})
          BY <3>6, <4>1, FS_Subset, Zenon
      <4> QED
          BY <4>1, <4>2
    <3>8. IsFiniteSet(T)
        BY <2>10, <3>6, FS_Subset, Zenon
    <3>9. Cardinality(T) \in Nat /\ Cardinality(T) >= i
        BY <2>14, <3>3, <3>8, FS_CardinalityType, Zenon DEF StartedBy
    <3> QED
        BY <3>4, <3>7, <3>9
  <2>15. ASSUME NEW i \in 1 .. n PROVE Min({t \in Moments : StartedBy(rows, t) >= i}) = cs[i]
    <3>1. PICK S : S = {t \in Moments : StartedBy(rows, t) >= i}
        BY Zenon
    <3>2. cs[i] \in S /\ \A t \in S : cs[i] <= t
      <4>1. cs[i] \in Moments
          BY <2>1
      <4> QED
          BY <2>13, <2>14, <3>1, <4>1
    <3>3. Min(S) \in S /\ \A t \in S : Min(S) <= t
        BY <3>2, Zenon DEF Min
    <3>4. S \subseteq Nat
        BY <3>1, BeaconingAssumption DEF Moments
    <3>5. Min(S) <= cs[i] /\ cs[i] <= Min(S) /\ Min(S) \in Nat /\ cs[i] \in Nat
        BY <3>2, <3>3, <3>4, Zenon
    <3>6. Min(S) = cs[i]
        BY <3>5
    <3> QED
        BY <3>1, <3>6
  <2> QED
      BY <2>12, <2>15, Zenon DEF ReturnedAs
(* The contacts of the window are the last ones.                           *)
<1>RecentIsLast.
    ASSUME BeaconInv
    PROVE  \E m \in 0 .. Len(contacts) :
              RecentContacts = m + 1 .. Len(contacts) /\ Cardinality(RecentContacts) = Len(contacts) - m
  <2> USE <1>RecentIsLast
  <2>1. PICK n \in Nat : n = Len(contacts)
      BY Clock
  <2>2. RecentContacts \subseteq 1 .. n
      BY <2>1 DEF RecentContacts
  <2>3. PICK since : since = instant - BeaconingWindow
      OBVIOUS
  <2>4. since \in Int /\ \A i \in 1 .. n : contacts[i] \in Nat
      BY <2>1, <2>3, Clock, BeaconingAssumption
  <2>5. \E m \in 0 .. n : RecentContacts = m + 1 .. n
    <3>1. CASE RecentContacts = {}
      <4>1. n \in 0 .. n /\ n + 1 .. n = {}
          BY <2>1
      <4> QED
          BY <3>1, <4>1
    <3>2. CASE RecentContacts # {}
      <4>1. RecentContacts \in SUBSET Nat
          BY <2>2
      <4>2. PICK x \in RecentContacts : \A y \in RecentContacts : x <= y
          BY <3>2, <4>1, Least, Zenon
      <4>3. x \in 1 .. n /\ contacts[x] >= since
          BY <2>1, <2>3 DEF RecentContacts
      <4>4. ASSUME NEW i \in x .. n PROVE i \in RecentContacts
        <5>1. i \in 1 .. n /\ x <= i
            BY <2>1, <4>3
        <5>2. contacts[x] <= contacts[i]
            BY <2>1, <4>3, <5>1 DEF BeaconInv, InOrder
        <5>3. contacts[i] >= since
            BY <2>4, <4>3, <5>1, <5>2
        <5> QED
            BY <2>1, <2>3, <5>1, <5>3 DEF RecentContacts
      <4>5. RecentContacts = x .. n
        <5>1. \A y \in RecentContacts : y \in x .. n
            BY <2>1, <2>2, <4>2, <4>3
        <5> QED
            BY <4>4, <5>1
      <4>6. x - 1 \in 0 .. n /\ (x - 1) + 1 = x
          BY <2>1, <4>3
      <4> QED
          BY <4>5, <4>6
    <3> QED
        BY <3>1, <3>2, Zenon
  <2>6. PICK m \in 0 .. n : RecentContacts = m + 1 .. n
      BY <2>5
  <2>7. Cardinality(m + 1 .. n) = n - m
    <3>1. PICK a \in Int : a = m + 1
        BY <2>1, <2>6
    <3>2. n \in Int /\ (a > n => n - m = 0) /\ (~(a > n) => n - a + 1 = n - m)
        BY <2>1, <2>6, <3>1
    <3>3. Cardinality(a .. n) = IF a > n THEN 0 ELSE n - a + 1
        BY <3>1, <3>2, FS_Interval, Zenon
    <3> QED
        BY <3>1, <3>2, <3>3, Zenon
  <2> QED
      BY <2>1, <2>6, <2>7, Zenon
(* The query returns the times of these contacts, in their order.          *)
<1>TimestampsAreContacts.
    ASSUME BeaconInv, Sparse, ~answered, started["out"] = Absent,
           NEW m \in 0 .. Len(contacts), RecentContacts = m + 1 .. Len(contacts),
           NEW k \in Nat, k = Len(contacts) - m
    PROVE  Timestamps = [i \in 1 .. k |-> contacts[m + i]]
  <2> USE <1>TimestampsAreContacts
  <2>1. PICK n \in Nat : n = Len(contacts)
      BY Clock
  <2>2. PICK since : since = instant - BeaconingWindow
      OBVIOUS
  <2>3. /\ since \in Int /\ instant \in Nat
        /\ \A i \in 1 .. n : contacts[i] \in Nat /\ contacts[i] \in Moments /\ contacts[i] <= instant
    <3>1. \A i \in 1 .. n : contacts[i] \in Moments /\ contacts[i] <= instant
        BY <2>1 DEF BeaconInv, Typical, InOrder
    <3> QED
        BY <2>1, <2>2, <3>1, Clock, BeaconingAssumption
  <2>4. PICK rows : rows = RowsBetween(since, instant)
      OBVIOUS
  <2>5. PICK cs : cs = [i \in 1 .. k |-> contacts[m + i]]
      BY Zenon
  <2>6. \A i \in 1 .. k : m + i \in 1 .. n /\ m + i \in RecentContacts /\ cs[i] = contacts[m + i]
      BY <2>1, <2>5
  <2>7. \A i \in RecentContacts : i \in 1 .. n /\ contacts[i] >= since /\ i - m \in 1 .. k /\ m + (i - m) = i
    <3>1. \A i \in RecentContacts : contacts[i] >= since
        BY <2>2 DEF RecentContacts
    <3>2. \A i \in m + 1 .. n : i \in 1 .. n /\ i - m \in 1 .. k /\ m + (i - m) = i
        BY <2>1
    <3> QED
        BY <2>1, <3>1, <3>2, Zenon
  <2>8. Written = n
      BY <2>1 DEF Written
  <2>9. /\ \A r \in starts : r.last_seen = r.first_seen /\ \E i \in 1 .. n : r.first_seen = contacts[i]
        /\ \A i \in 1 .. n : contacts[i] >= since => \E r \in starts : r.first_seen = contacts[i]
        /\ \A r, s \in starts : r.first_seen = s.first_seen => r = s
      BY <2>2, <2>8, Zenon DEF BeaconInv, OneRowEach
  <2>10. \A r \in rows : r \in starts /\ r.last_seen >= since
      BY <2>4 DEF RowsBetween
  <2>11. \A i \in 1 .. k : cs[i] \in Moments
      BY <2>3, <2>6, Zenon
  <2>12. ASSUME NEW i \in 1 .. k, NEW j \in 1 .. k, i < j PROVE cs[i] < cs[j]
    <3>1. m + i < m + j
        BY <2>1, <2>12
    <3> QED
        BY <2>1, <2>6, <3>1, StrictlyLater
  <2>13. ASSUME NEW r \in rows PROVE \E i \in 1 .. k : r.first_seen = cs[i]
    <3>1. PICK i \in 1 .. n : r.first_seen = contacts[i]
        BY <2>9, <2>10, Zenon
    <3>2. contacts[i] >= since
        BY <2>9, <2>10, <3>1, Zenon
    <3>3. i \in RecentContacts
        BY <2>1, <2>2, <3>2 DEF RecentContacts
    <3>4. i - m \in 1 .. k /\ cs[i - m] = contacts[i]
      <4>1. i - m \in 1 .. k /\ m + (i - m) = i
          BY <2>7, <3>3, Zenon
      <4>2. cs[i - m] = contacts[m + (i - m)]
          BY <2>6, <4>1, Zenon
      <4> QED
          BY <4>1, <4>2, Zenon
    <3> QED
        BY <3>1, <3>4, Zenon
  <2>14. ASSUME NEW i \in 1 .. k PROVE \E r \in rows : r.first_seen = cs[i]
    <3>1. m + i \in 1 .. n /\ contacts[m + i] >= since
        BY <2>6, <2>7, Zenon
    <3>2. PICK r \in starts : r.first_seen = contacts[m + i]
        BY <2>9, <3>1, Zenon
    <3>3. r.last_seen = contacts[m + i]
        BY <2>9, <3>2, Zenon
    <3>4. r.last_seen >= since /\ r.last_seen <= instant
        BY <2>3, <3>1, <3>3, Zenon
    <3>5. r \in rows
        BY <2>4, <3>4, Zenon DEF RowsBetween
    <3> QED
        BY <2>6, <3>2, <3>5, Zenon
  <2>15. \A r, s \in rows : r.first_seen = s.first_seen => r = s
      BY <2>9, <2>10, Zenon
  <2>16. OneAtEach(rows, cs, k)
      BY <2>11, <2>12, <2>13, <2>14, <2>15, Zenon DEF OneAtEach
  <2>17. /\ Cardinality(rows) = k
         /\ \A i \in 1 .. k : Min({t \in Moments : StartedBy(rows, t) >= i}) = cs[i]
    <3>1. ReturnedAs(rows, cs, k)
        BY <2>16, <1>TimestampsInOrder, Zenon
    <3> QED
        BY <3>1, Zenon DEF ReturnedAs
  <2>18. Timestamps = [i \in 1 .. Cardinality(rows) |-> Min({t \in Moments : StartedBy(rows, t) >= i})]
      BY <2>2, <2>4, Zenon DEF Timestamps, PeerFlowTimestamps
  <2>19. Timestamps = [i \in 1 .. k |-> Min({t \in Moments : StartedBy(rows, t) >= i})]
      BY <2>17, <2>18, Zenon
  <2> QED
      BY <2>6, <2>17, <2>19
(* Equal gaps between the bounds pass the three tests on mean and          *)
(* deviation.                                                              *)
<1>EvenGapsAreRegular.
    ASSUME NEW k \in Nat \ {0}, NEW g \in Nat \ {0}, g >= MinInterval, g <= MaxInterval,
           NEW gaps, gaps = [i \in 1 .. k |-> g]
    PROVE  Regular(gaps)
  <2> USE <1>EvenGapsAreRegular
  <2>1. DOMAIN gaps = 1 .. k /\ Len(gaps) = k /\ \A i \in 1 .. k : gaps[i] = g
      OBVIOUS
  <2>2. IsFiniteSet(1 .. k) /\ Cardinality(1 .. k) = k
    <3>1. 1 \in Int /\ k \in Int /\ 1 <= k /\ k - 1 + 1 = k
        OBVIOUS
    <3> QED
        BY <3>1, FS_Interval
  <2>3. SumOf(gaps) = k * g
    <3>1. SumOver(gaps, 1 .. k) = Cardinality(1 .. k) * g
        BY <2>1, <2>2, SumConstant
    <3> QED
        BY <2>1, <2>2, <3>1, Zenon DEF SumOf
  <2>4. PICK sum \in Nat : sum = k * g
      OBVIOUS
  <2>5. PICK devs : devs = [i \in DOMAIN gaps |-> (k * gaps[i] - sum) * (k * gaps[i] - sum)]
      BY Zenon
  <2>6. DOMAIN devs = 1 .. k /\ \A i \in 1 .. k : devs[i] = 0
    <3>1. sum - sum = 0 /\ 0 * 0 = 0
        BY <2>4
    <3>2. ASSUME NEW i \in 1 .. k PROVE devs[i] = 0
      <4>1. devs[i] = (k * gaps[i] - sum) * (k * gaps[i] - sum)
          BY <2>1, <2>5
      <4>2. k * gaps[i] = sum
          BY <2>1, <2>4, Zenon
      <4> QED
          BY <3>1, <4>1, <4>2, Zenon
    <3> QED
        BY <2>1, <2>5, <3>2
  <2>7. SumOf(devs) = 0
    <3>1. SumOver(devs, 1 .. k) = 0
        BY <2>2, <2>6, SumZero
    <3> QED
        BY <2>6, <3>1, Zenon DEF SumOf
  <2>8. sum > 0 /\ sum >= MinInterval * k /\ sum <= MaxInterval * k
    <3>1. MinInterval \in Nat /\ MaxInterval \in Nat
        BY BeaconingAssumption
    <3>2. ASSUME NEW a \in Nat, NEW b \in Nat, a <= b PROVE k * a <= k * b
      <4>1. CASE a = b
          BY <4>1
      <4>2. CASE a < b
        <5>1. k * a + k <= k * b
            BY <4>2, Scale
        <5>2. k * a \in Nat /\ k * b \in Nat
            OBVIOUS
        <5> QED
            BY <5>1, <5>2
      <4> QED
          BY <3>2, <4>1, <4>2
    <3>3. k * MinInterval <= k * g /\ k * g <= k * MaxInterval /\ k * 1 <= k * g
        BY <3>1, <3>2
    <3>4. k * MinInterval = MinInterval * k /\ k * MaxInterval = MaxInterval * k /\ k * 1 = k
        BY <3>1
    <3>5. MinInterval * k \in Nat /\ MaxInterval * k \in Nat
        BY <3>1
    <3> QED
        BY <2>4, <3>3, <3>4, <3>5
  <2>9. 25 * 0 <= k * sum * sum
    <3>1. k * sum \in Nat
        BY <2>4
    <3>2. (k * sum) * sum \in Nat
        BY <2>4, <3>1
    <3> QED
        BY <3>2
  <2> QED
      BY <2>1, <2>3, <2>4, <2>5, <2>7, <2>8, <2>9, Zenon DEF Regular
<1> SUFFICES ASSUME BeaconInv, NEW g \in FlushPeriod + 1 .. MaxInterval, g >= MinInterval, SentEvery(g),
                    Cardinality(RecentContacts) >= MinObservations, Settled, ~answered
             PROVE  verdict # "ignored"
    BY Zenon DEF BeaconIsFlagged
<1>1. FlushPeriod \in Nat \ {0} /\ MinObservations \in Nat \ {0, 1} /\ MaxInterval \in Nat
    BY BeaconingAssumption
<1>2. g \in Nat \ {0} /\ g > FlushPeriod /\ g <= MaxInterval
    BY <1>1
<1>3. Sparse
    BY <1>2 DEF Sparse, SentEvery
<1>4. started["out"] = Absent
    BY DEF Settled, Directions
<1>5. PICK n \in Nat : n = Len(contacts)
    BY Clock
<1>6. PICK m \in 0 .. n : RecentContacts = m + 1 .. n /\ Cardinality(RecentContacts) = n - m
    BY <1>5, <1>RecentIsLast
<1>7. PICK k \in Nat : k = n - m
    BY <1>5, <1>6
<1>8. k >= MinObservations /\ k - 1 \in Nat \ {0}
    BY <1>1, <1>6, <1>7
<1>9. Timestamps = [i \in 1 .. k |-> contacts[m + i]]
    BY <1>3, <1>4, <1>5, <1>6, <1>7, <1>TimestampsAreContacts, Zenon
<1>10. Len(Timestamps) = k
    BY <1>9
<1>11. Gaps(Timestamps) = [i \in 1 .. k - 1 |-> g]
  <2>1. Gaps(Timestamps) = [i \in 1 .. k - 1 |-> Timestamps[i + 1] - Timestamps[i]]
      BY <1>10, Zenon DEF Gaps
  <2>2. ASSUME NEW i \in 1 .. k - 1 PROVE Timestamps[i + 1] - Timestamps[i] = g
    <3>1. i \in 1 .. k /\ i + 1 \in 1 .. k /\ m + (i + 1) = (m + i) + 1 /\ m + i \in 1 .. n - 1
        BY <1>5, <1>6, <1>7
    <3>2. Timestamps[i] = contacts[m + i] /\ Timestamps[i + 1] = contacts[(m + i) + 1]
        BY <1>9, <3>1
    <3>3. contacts[(m + i) + 1] - contacts[m + i] = g
        BY <1>5, <3>1, Zenon DEF SentEvery
    <3> QED
        BY <3>2, <3>3, Zenon
  <2> QED
      BY <2>1, <2>2
<1>12. Regular(Gaps(Timestamps))
    BY <1>2, <1>8, <1>11, <1>EvenGapsAreRegular
<1>13. Flags
    BY <1>8, <1>10, <1>12, Zenon DEF Flags
<1> QED
    BY <1>13, Zenon DEF BeaconInv, Judged

(* A peer contacted at one interval that is longer than the flush period   *)
(* and within the bounds of the detector, often enough within the window   *)
(* and without an answer, is flagged by a scan of the stored rows, for any *)
(* of these parameters, wherever flushes and prunes fall.  Answers are     *)
(* rows of their own, and TLC refutes the property for them.               *)
THEOREM BeaconsAreFlagged == BeaconSpec => []BeaconIsFlagged
BY BeaconInitial, BeaconStep, BeaconMeans, PTL DEF BeaconSpec

(***************************************************************************)
(* Rollup: aligned instants.                                               *)
(***************************************************************************)

(* Truncation to a multiple of w subtracts the remainder.                  *)
LEMMA TruncIs ==
    ASSUME NEW t \in Int, NEW w \in Nat \ {0}
    PROVE  (t \div w) * w = t - (t % w)
BY DivMod

(* Adding w keeps the remainder.                                           *)
LEMMA ModAdd ==
    ASSUME NEW t \in Int, NEW w \in Nat \ {0}
    PROVE  (t + w) % w = t % w /\ (t - w) % w = t % w
<1>1. PICK q \in Int, r \in 0 .. w - 1 : t = w * q + r /\ r = t % w
    BY DivMod, Zenon
<1>2. t + w = w * (q + 1) + r /\ t - w = w * (q - 1) + r
    BY <1>1
<1>3. (w * (q + 1) + r) % w = r /\ (w * (q - 1) + r) % w = r
    BY ModUnique
<1> QED
    BY <1>1, <1>2, <1>3

(* The numbers without remainder are the multiples.                        *)
LEMMA ModZero ==
    ASSUME NEW t \in Int, NEW w \in Nat \ {0}
    PROVE  t % w = 0 <=> \E q \in Int : t = w * q
<1>1. PICK q \in Int, r \in 0 .. w - 1 : t = w * q + r /\ r = t % w
    BY DivMod, Zenon
<1>2. ASSUME NEW p \in Int, t = w * p PROVE t % w = 0
  <2>1. (w * p + 0) % w = 0
      BY ModUnique
  <2> QED
      BY <1>2, <2>1
<1>3. ASSUME t % w = 0 PROVE \E p \in Int : t = w * p
  <2>1. t = w * q
      BY <1>1, <1>3
  <2> QED
      BY <2>1, Zenon
<1> QED
    BY <1>2, <1>3, Zenon

(* What truncation leaves is a multiple.                                   *)
LEMMA ModFloor ==
    ASSUME NEW t \in Int, NEW w \in Nat \ {0}
    PROVE  (t - (t % w)) % w = 0
<1>1. PICK q \in Int, r \in 0 .. w - 1 : t = w * q + r /\ r = t % w
    BY DivMod, Zenon
<1>2. t - (t % w) = w * q /\ t - (t % w) \in Int
    BY <1>1
<1> QED
    BY <1>2, ModZero

(* Numbers a multiple apart have the same remainder.                       *)
LEMMA ModShift ==
    ASSUME NEW s \in Int, NEW t \in Int, NEW w \in Nat \ {0}, (t - s) % w = 0
    PROVE  t % w = s % w
<1>1. PICK q \in Int, r \in 0 .. w - 1 : s = w * q + r /\ r = s % w
    BY DivMod, Zenon
<1>2. PICK p \in Int : t - s = w * p
  <2>1. t - s \in Int
      OBVIOUS
  <2> QED
      BY <2>1, ModZero, Zenon
<1>3. t = w * (p + q) + r
    BY <1>1, <1>2
<1>4. (w * (p + q) + r) % w = r
    BY ModUnique
<1> QED
    BY <1>1, <1>3, <1>4

(* Two different bucket starts are at least a bucket apart.                *)
LEMMA AlignedGap ==
    ASSUME NEW s \in Int, NEW t \in Int, NEW w \in Nat \ {0}, s % w = 0, t % w = 0, s < t
    PROVE  s + w <= t
<1>1. PICK p \in Int : s = w * p
    BY ModZero, Zenon
<1>2. PICK q \in Int : t = w * q
    BY ModZero, Zenon
<1>3. p < q
  <2>1. q < p => w * q + w <= w * p
      BY Scale
  <2>2. w * p \in Int /\ w * q \in Int
      OBVIOUS
  <2>3. p = q => s = t
      BY <1>1, <1>2
  <2> QED
      BY <1>1, <1>2, <2>1, <2>2, <2>3
<1> QED
    BY <1>1, <1>2, <1>3, Scale

(* No bucket starts between a time and its truncation.                     *)
LEMMA AlignedFloor ==
    ASSUME NEW s \in Int, NEW t \in Int, NEW w \in Nat \ {0}, s % w = 0, s <= t
    PROVE  s <= t - (t % w)
<1>1. (t - (t % w)) % w = 0 /\ t % w \in 0 .. w - 1
    BY ModFloor, DivMod, Zenon
<1>2. PICK u \in Int : u = t - (t % w)
    BY <1>1
<1>3. u < s => u + w <= s
    BY <1>1, <1>2, AlignedGap
<1> QED
    BY <1>1, <1>2, <1>3

(* A start of the wider bucket is one of the narrower.                     *)
LEMMA ModMultiple ==
    ASSUME NEW t \in Int, NEW v \in Nat \ {0}, NEW w \in Nat \ {0}, v % w = 0, t % v = 0
    PROVE  t % w = 0
<1>1. PICK p \in Int : v = w * p
    BY ModZero
<1>2. PICK q \in Int : t = v * q
    BY ModZero
<1>3. t = w * (p * q) /\ p * q \in Int
    BY <1>1, <1>2
<1> QED
    BY <1>3, ModZero

(* The bucket before one that is not the first.                            *)
LEMMA PreviousBucket ==
    ASSUME NEW lo \in Nat, NEW n \in Nat, NEW w \in Nat \ {0}, lo % w = 0, n % w = 0, lo < n
    PROVE  n - w \in Nat /\ lo <= n - w /\ (n - w) % w = 0
<1>1. lo \in Int /\ n \in Int
    OBVIOUS
<1>2. lo + w <= n
    BY <1>1, AlignedGap, Zenon
<1>3. (n - w) % w = n % w
    BY <1>1, ModAdd, Zenon
<1> QED
    BY <1>2, <1>3

(***************************************************************************)
(* Rollup: the statements.                                                 *)
(***************************************************************************)

(* The instants a statement sums over.                                     *)
Window(from, to) == {t \in Instants : from <= t /\ t < to}

(* They are finitely many.                                                 *)
LEMMA WindowFinite ==
    ASSUME NEW from \in Int, NEW to \in Int
    PROVE  IsFiniteSet(Window(from, to)) /\ Window(from, to) \subseteq Instants
<1>1. MaxTime \in Int /\ 0 \in Int
    BY WidthAssumption
<1>2. IsFiniteSet(Instants)
    BY <1>1, FS_Interval, Zenon DEF Instants
<1>3. Window(from, to) \subseteq Instants
    BY DEF Window
<1> QED
    BY <1>2, <1>3, FS_Subset, Zenon

(* BytesIn is a sum over them.                                             *)
LEMMA BytesInIs ==
    ASSUME NEW f, NEW from, NEW to
    PROVE  BytesIn(f, from, to) = SumOver(f, Window(from, to))
BY Zenon DEF BytesIn, Window

(* Bytes are natural numbers.                                              *)
LEMMA BytesInType ==
    ASSUME NEW f \in [Instants -> Nat], NEW from \in Int, NEW to \in Int
    PROVE  BytesIn(f, from, to) \in Nat
<1>1. \A t \in Window(from, to) : f[t] \in Nat
    BY WindowFinite
<1> QED
    BY <1>1, WindowFinite, BytesInIs, SumType

(* An empty window has no bytes.                                           *)
LEMMA BytesInEmpty ==
    ASSUME NEW f, NEW from \in Int
    PROVE  BytesIn(f, from, from) = 0
<1>1. Window(from, from) = {}
    BY WidthAssumption DEF Window, Instants
<1> QED
    BY <1>1, BytesInIs, SumEmpty, Zenon

(* Adjoining windows add up.                                               *)
LEMMA BytesInSplit ==
    ASSUME NEW f \in [Instants -> Nat], NEW from \in Int, NEW mid \in Int, NEW to \in Int,
           from <= mid, mid <= to
    PROVE  BytesIn(f, from, to) = BytesIn(f, from, mid) + BytesIn(f, mid, to)
<1>1. Window(from, to) = Window(from, mid) \cup Window(mid, to)
    BY WidthAssumption DEF Window, Instants
<1>2. Window(from, mid) \cap Window(mid, to) = {}
    BY WidthAssumption DEF Window, Instants
<1>3. \A t \in Window(from, mid) \cup Window(mid, to) : f[t] \in Nat
    BY WindowFinite
<1>4. SumOver(f, Window(from, mid) \cup Window(mid, to))
        = SumOver(f, Window(from, mid)) + SumOver(f, Window(mid, to))
    BY <1>2, <1>3, WindowFinite, SumUnion
<1> QED
    BY <1>1, <1>4, BytesInIs, Zenon

(* A window has at least the bytes of its first instant, and no others     *)
(* when the rest is empty.                                                 *)
LEMMA BytesInFirst ==
    ASSUME NEW f \in [Instants -> Nat], NEW from \in Instants, NEW to \in Int, from < to
    PROVE  /\ f[from] <= BytesIn(f, from, to)
           /\ (\A t \in Instants : from < t /\ t < to => f[t] = 0) => BytesIn(f, from, to) = f[from]
<1>1. from \in Int /\ from + 1 \in Int /\ from + 1 <= to /\ from <= from + 1
    BY WidthAssumption DEF Instants
<1>2. Window(from, from + 1) = {from}
    BY WidthAssumption DEF Window, Instants
<1>3. f[from] \in Nat
    OBVIOUS
<1>4. BytesIn(f, from, from + 1) = f[from]
    BY <1>2, <1>3, BytesInIs, SumSingleton, Zenon
<1>5. BytesIn(f, from, to) = BytesIn(f, from, from + 1) + BytesIn(f, from + 1, to)
    BY <1>1, BytesInSplit
<1>6. BytesIn(f, from + 1, to) \in Nat
    BY <1>1, BytesInType
<1>7. ASSUME \A t \in Instants : from < t /\ t < to => f[t] = 0
      PROVE  BytesIn(f, from + 1, to) = 0
  <2>1. \A t \in Window(from + 1, to) : f[t] = 0
      BY <1>1, <1>7, WidthAssumption DEF Window, Instants
  <2> QED
      BY <1>1, <2>1, WindowFinite, BytesInIs, SumZero
<1> QED
    BY <1>3, <1>4, <1>5, <1>6, <1>7

(***************************************************************************)
(* A tier whose buckets are each at least (at most) what the source has    *)
(* for them is so over any stretch of whole buckets.                       *)
(***************************************************************************)

(* How long ago a ticker ticked; the last tick whose work is done; the end *)
(* of the last bucket it has filled.                                       *)
Since(k) == (clock - start) % Period[k]
Handled(k) == IF k \in due THEN clock - Period[k] ELSE clock - Since(k)
Frontier(k) == Handled(k) - (start % Period[k])

(* The inductive invariant of the rollups. Types, and the tickers are not  *)
(* of the future.                                                          *)
Placed == RollupTypeOK /\ start <= clock

(* A waiting tick is due now.                                              *)
Ticks == \A k \in due : clock - start >= Period[k] /\ Since(k) = 0

(* What waits for a flush came after the last.                             *)
Recent == buffered.bytes > 0 => buffered.last >= Handled("flush")

(* A tier has nothing beyond its frontier, and nothing between the         *)
(* buckets.                                                                *)
Below(tier, k) ==
    \A b \in Instants : tier[b] # 0 => b % Period[k] = 0 /\ b + Period[k] <= Frontier(k)

(* Up to its frontier a tier has all the bytes.                            *)
Above(tier, k) ==
    \A b \in Instants : b % Period[k] = 0 /\ b + Period[k] <= Frontier(k) =>
        BytesIn(flows, b, b + Period[k]) <= tier[b]

(* No bucket has more than its bytes.                                      *)
Within(tier, w) == \A b \in Instants : b % w = 0 => tier[b] <= BytesIn(flows, b, b + w)

(* What holds while no tick has waited.                                    *)
Punctual ==
    "late" \notin faults =>
        /\ Ticks /\ Recent
        /\ Below(rollup1m, "rollup1m") /\ Below(rollup5m, "rollup5m")
        /\ Within(rollup1m, Width1) /\ Within(rollup5m, Width5)

(* What holds if in addition nothing failed or restarted, and the process  *)
(* was started late in its bucket.                                         *)
Timely ==
    faults = {} /\ restarts = 0 /\ LatePhase => Above(rollup1m, "rollup1m") /\ Above(rollup5m, "rollup5m")

(* Together.                                                               *)
RollupInv == Placed /\ Punctual /\ Timely

(* The periods of the tickers.                                             *)
LEMMA Periods ==
    /\ \A k \in Tickers : Period[k] \in Nat \ {0}
    /\ Period["flush"] = FlushEvery /\ Period["rollup1m"] = Width1 /\ Period["rollup5m"] = Width5
    /\ Width1 \in Nat \ {0} /\ Width5 \in Nat \ {0} /\ FlushEvery \in Nat \ {0}
    /\ Width5 % Width1 = 0 /\ MaxTime \in Nat
BY WidthAssumption DEF Period, Tickers

(* The types, one by one.                                                  *)
LEMMA PlacedFacts ==
    ASSUME Placed
    PROVE  /\ clock \in Nat /\ start \in Nat /\ start <= clock /\ clock <= MaxTime /\ MaxTime \in Nat
           /\ clock \in Instants /\ due \subseteq Tickers
           /\ flows \in [Instants -> Nat] /\ rollup1m \in [Instants -> Nat] /\ rollup5m \in [Instants -> Nat]
           /\ buffered.bytes \in Nat /\ buffered.last \in Instants /\ buffered.last \in Nat
<1>1. MaxTime \in Nat
    BY WidthAssumption
<1>2. clock \in Nat /\ start \in Nat /\ start <= clock /\ clock <= MaxTime /\ clock \in Instants
    BY <1>1 DEF Placed, RollupTypeOK, Instants
<1>3. buffered.bytes \in Nat /\ buffered.last \in Instants
    BY DEF Placed, RollupTypeOK
<1>4. buffered.last \in Nat
    BY <1>1, <1>3 DEF Instants
<1> QED
    BY <1>1, <1>2, <1>3, <1>4 DEF Placed, RollupTypeOK

(* The last tick done is less than a period ago, and the frontier is the   *)
(* start of its bucket.                                                    *)
LEMMA HandledFacts ==
    ASSUME Placed, Ticks, NEW k \in Tickers
    PROVE  /\ Handled(k) \in Int /\ Frontier(k) \in Int
           /\ clock - Period[k] <= Handled(k) /\ Handled(k) <= clock
           /\ Handled(k) % Period[k] = start % Period[k]
           /\ Frontier(k) = Handled(k) - (Handled(k) % Period[k])
           /\ Frontier(k) % Period[k] = 0
           /\ start % Period[k] \in 0 .. Period[k] - 1
<1>1. PICK w \in Nat \ {0} : w = Period[k]
    BY Periods
<1>2. clock \in Int /\ start \in Int /\ clock - start \in Int
    BY PlacedFacts
<1>3. Since(k) \in 0 .. w - 1 /\ start % w \in 0 .. w - 1
    BY <1>1, <1>2, DivMod, Zenon DEF Since
<1>4. Handled(k) \in Int /\ clock - w <= Handled(k) /\ Handled(k) <= clock
    BY <1>1, <1>2, <1>3 DEF Handled
<1>5. Handled(k) % w = start % w
  <2>1. CASE k \in due
    <3>1. (clock - start) % w = 0
        BY <1>1, <2>1 DEF Ticks, Since
    <3>2. clock % w = start % w
        BY <1>2, <3>1, ModShift, Zenon
    <3>3. (clock - w) % w = clock % w
        BY <1>2, ModAdd, Zenon
    <3> QED
        BY <1>1, <2>1, <3>2, <3>3 DEF Handled
  <2>2. CASE k \notin due
    <3>1. PICK h \in Int : h = Handled(k) /\ h = clock - ((clock - start) % w)
        BY <1>1, <1>2, <1>4, <2>2 DEF Handled, Since
    <3>2. ((clock - start) - ((clock - start) % w)) % w = 0
        BY <1>2, ModFloor, Zenon
    <3>3. h - start = (clock - start) - ((clock - start) % w)
        BY <1>1, <1>2, <1>3, <3>1 DEF Since
    <3>4. (h - start) % w = 0
        BY <3>2, <3>3
    <3>5. h % w = start % w
        BY <1>2, <3>4, ModShift, Zenon
    <3> QED
        BY <3>1, <3>5
  <2> QED
      BY <2>1, <2>2
<1>6. Frontier(k) \in Int /\ Frontier(k) = Handled(k) - (Handled(k) % w)
    BY <1>1, <1>3, <1>4, <1>5 DEF Frontier
<1>7. Frontier(k) % w = 0
    BY <1>4, <1>6, ModFloor
<1> QED
    BY <1>1, <1>3, <1>4, <1>5, <1>6, <1>7

(* The statement of a tick fills the bucket at the frontier.               *)
LEMMA TickFacts ==
    ASSUME Placed, Ticks, NEW k \in due
    PROVE  /\ Truncate(clock, Period[k]) = Frontier(k) + Period[k]
           /\ Frontier(k) \in Instants /\ Frontier(k) + Period[k] \in Instants
           /\ Frontier(k) + Period[k] = clock - (start % Period[k])
           /\ (Frontier(k) + Period[k]) % Period[k] = 0
<1>0. k \in Tickers
    BY PlacedFacts
<1>1. PICK w \in Nat \ {0} : w = Period[k]
    BY <1>0, Periods
<1>2. clock \in Int /\ start \in Int /\ start \in Nat /\ clock <= MaxTime /\ clock - start >= w /\ MaxTime \in Nat
    BY <1>1, PlacedFacts DEF Ticks
<1>3. Handled(k) = clock - w /\ start % w \in 0 .. w - 1
    BY <1>0, <1>1, <1>2, DivMod, Zenon DEF Handled
<1>4. clock % w = start % w
  <2>1. (clock - start) % w = 0
      BY <1>1 DEF Ticks, Since
  <2> QED
      BY <1>2, <2>1, ModShift, Zenon
<1>5. Frontier(k) = clock - w - (start % w) /\ Frontier(k) + w = clock - (clock % w)
    BY <1>1, <1>2, <1>3, <1>4 DEF Frontier
<1>6. Truncate(clock, w) = clock - (clock % w)
    BY <1>2, TruncIs DEF Truncate
<1>7. start % w <= start
  <2>1. 0 % w = 0
      BY ModZero
  <2>2. 0 <= start - (start % w)
      BY <1>2, <2>1, AlignedFloor
  <2> QED
      BY <1>2, <1>3, <2>2
<1>8. Frontier(k) \in Instants /\ Frontier(k) + w \in Instants
    BY <1>2, <1>3, <1>4, <1>5, <1>7 DEF Instants
<1>9. (Frontier(k) + w) % w = 0
    BY <1>2, <1>5, ModFloor, Zenon
<1> QED
    BY <1>1, <1>2, <1>3, <1>4, <1>5, <1>6, <1>8, <1>9

-----------------------------------------------------------------------------

(* The process has just started, and nothing is stored.                    *)
LEMMA RollupInitial == RollupInit => RollupInv
<1> SUFFICES ASSUME RollupInit PROVE RollupInv
    OBVIOUS
<1>1. Placed
    BY WidthAssumption DEF RollupInit, Placed, RollupTypeOK, Instants, Tickers
<1>2. due = {} /\ faults = {} /\ restarts = 0 /\ buffered.bytes = 0
    BY DEF RollupInit
<1>3. \A b \in Instants : flows[b] = 0 /\ rollup1m[b] = 0 /\ rollup5m[b] = 0
    BY DEF RollupInit
<1>4. ASSUME NEW from \in Instants, NEW w \in Nat \ {0} PROVE BytesIn(flows, from, from + w) = 0
  <2>1. from \in Int /\ from + w \in Int
      BY WidthAssumption DEF Instants
  <2>2. \A t \in Window(from, from + w) : flows[t] = 0
      BY <1>3 DEF Window
  <2> QED
      BY <2>1, <2>2, WindowFinite, BytesInIs, SumZero
<1>5. Ticks /\ Recent
    BY <1>2 DEF Ticks, Recent
<1>6. Below(rollup1m, "rollup1m") /\ Below(rollup5m, "rollup5m")
    BY <1>3 DEF Below
<1>7. Within(rollup1m, Width1) /\ Within(rollup5m, Width5)
    BY <1>3, <1>4, Periods DEF Within
<1>8. Above(rollup1m, "rollup1m") /\ Above(rollup5m, "rollup5m")
    BY <1>3, <1>4, Periods DEF Above
<1> QED
    BY <1>1, <1>5, <1>6, <1>7, <1>8 DEF RollupInv, Punctual, Timely

(* Every step keeps the types.                                             *)
LEMMA PlacedStep ==
    ASSUME Placed, [RollupNext]_rollupVars
    PROVE  Placed'
<1> USE DEF Placed, RollupTypeOK
<1>0. MaxTime \in Nat /\ MaxLag \in Nat /\ MaxRestarts \in Nat /\ MaxArrivals \in Nat
    BY WidthAssumption
<1>1. CASE Arrive
    BY <1>0, <1>1 DEF Arrive
<1>2. CASE Advance
  <2>1. clock' \in Instants /\ start' <= clock'
      BY <1>0, <1>2 DEF Advance, Instants
  <2>2. age' \in [Tickers -> 0 .. MaxLag]
    <3>1. \A k \in Tickers : k \in due => age[k] < MaxLag /\ age[k] \in 0 .. MaxLag
        BY <1>2 DEF Advance
    <3> QED
        BY <1>0, <1>2, <3>1 DEF Advance
  <2>3. due' \subseteq Tickers /\ faults' \subseteq {"late", "failed"}
      BY <1>2 DEF Advance
  <2> QED
      BY <1>2, <2>1, <2>2, <2>3 DEF Advance
<1>3. CASE FlushBuffered
  <2>1. flows' \in [Instants -> Nat]
      BY <1>3 DEF FlushBuffered, FlushEntry
  <2>2. buffered' \in [bytes : Nat, last : Instants]
      BY <1>0, <1>3 DEF FlushBuffered, Instants
  <2>3. age' \in [Tickers -> 0 .. MaxLag]
      BY <1>0, <1>3 DEF FlushBuffered, Receive
  <2> QED
      BY <1>3, <2>1, <2>2, <2>3 DEF FlushBuffered, Receive
<1>4. ASSUME NEW dst \in [Instants -> Nat], NEW src \in [Instants -> Nat], NEW w \in Nat \ {0}
      PROVE  Upsert(dst, src, w) \in [Instants -> Nat]
  <2>1. Truncate(clock, w) \in Int
    <3>1. clock \in Int
        BY <1>0 DEF Instants
    <3>2. clock % w \in Int
        BY <3>1, DivMod
    <3> QED
        BY <3>1, <3>2, TruncIs DEF Truncate
  <2>2. BytesIn(src, Truncate(clock, w) - w, Truncate(clock, w)) \in Nat
    <3>1. Truncate(clock, w) - w \in Int
        BY <2>1
    <3> QED
        BY <2>1, <3>1, BytesInType
  <2> QED
      BY <2>2 DEF Upsert
<1>5. CASE Rollup1m
  <2>1. age' \in [Tickers -> 0 .. MaxLag]
      BY <1>0, <1>5 DEF Rollup1m, Receive
  <2>2. rollup1m' \in [Instants -> Nat]
      BY <1>4, <1>5, Periods DEF Rollup1m
  <2> QED
      BY <1>5, <2>1, <2>2, Zenon DEF Rollup1m, Receive
<1>6. CASE Rollup5m
  <2>1. age' \in [Tickers -> 0 .. MaxLag]
      BY <1>0, <1>6 DEF Rollup5m, Receive
  <2>2. rollup5m' \in [Instants -> Nat]
      BY <1>4, <1>6, Periods DEF Rollup5m
  <2> QED
      BY <1>6, <2>1, <2>2, Zenon DEF Rollup5m, Receive
<1>7. CASE Restart
  <2>1. flows' \in [Instants -> Nat]
      BY <1>7 DEF Restart, FlushEntry
  <2>2. buffered' \in [bytes : Nat, last : Instants]
      BY <1>0, <1>7 DEF Restart, Instants
  <2>3. age' \in [Tickers -> 0 .. MaxLag] /\ start' <= clock' /\ restarts' \in 0 .. MaxRestarts
      BY <1>0, <1>7 DEF Restart, Instants
  <2> QED
      BY <1>7, <2>1, <2>2, <2>3 DEF Restart
<1>8. CASE UNCHANGED rollupVars
    BY <1>8 DEF rollupVars
<1> QED
    BY <1>1, <1>2, <1>3, <1>5, <1>6, <1>7, <1>8, Zenon DEF RollupNext

(* Time passing without a tick waiting moves no frontier.                  *)
LEMMA AdvanceFrontier ==
    ASSUME Placed, Advance, due = {}
    PROVE  Ticks' /\ \A k \in Tickers : Handled(k)' = Handled(k) /\ Frontier(k)' = Frontier(k)
<1>1. ASSUME NEW k \in Tickers
      PROVE  /\ Handled(k)' = Handled(k)
             /\ k \in due' => clock' - start' >= Period[k] /\ Since(k)' = 0
  <2>1. PICK w \in Nat \ {0} : w = Period[k]
      BY Periods
  <2>2. clock \in Int /\ start \in Int /\ clock - start \in Int /\ start <= clock
      BY PlacedFacts
  <2>3. clock' = clock + 1 /\ start' = start /\ (k \in due' <=> (clock + 1 - start) % w = 0)
      BY <2>1 DEF Advance
  <2>4. PICK d \in Int : d = clock - start
      BY <2>2
  <2>5. d + 1 = clock + 1 - start /\ d + 1 \in Int /\ d + 1 > 0
      BY <2>2, <2>4
  <2>6. (d + 1) % w = IF d % w = w - 1 THEN 0 ELSE (d % w) + 1
      BY ModStep, Zenon
  <2>7. d % w \in 0 .. w - 1
      BY DivMod
  <2>8. Since(k) = d % w /\ Since(k)' = (d + 1) % w
    <3>1. clock' - start' = d + 1
      <4>1. clock' = clock + 1 /\ start' = start
          BY <2>3
      <4>2. clock' - start' = clock + 1 - start
          BY <2>2, <4>1
      <4> QED
          BY <2>5, <4>2, Zenon
    <3>2. Since(k)' = (clock' - start') % w
        BY <2>1 DEF Since
    <3>3. Since(k) = d % w
        BY <2>1, <2>4 DEF Since
    <3> QED
        BY <3>1, <3>2, <3>3, Zenon
  <2>9. k \in due' <=> (d + 1) % w = 0
      BY <2>3, <2>5
  <2>10. k \in due' => d % w = w - 1
      BY <2>6, <2>7, <2>9
  <2>11. Handled(k)' = Handled(k)
      BY <2>1, <2>2, <2>3, <2>6, <2>7, <2>8, <2>9, <2>10 DEF Handled
  <2>12. ASSUME k \in due' PROVE d + 1 >= w
    <3>1. 0 % w = 0
        BY ModZero
    <3>2. 0 + w <= d + 1
        BY <2>5, <2>9, <2>12, <3>1, AlignedGap
    <3> QED
        BY <2>5, <3>2
  <2> QED
      BY <2>1, <2>2, <2>3, <2>5, <2>8, <2>9, <2>11, <2>12
<1>2. start' = start /\ due' \subseteq Tickers
    BY DEF Advance
<1> QED
    BY <1>1, <1>2 DEF Ticks, Frontier

(* A tick received moves the frontier of its ticker by one bucket, and no  *)
(* other.                                                                  *)
LEMMA ReceiveFrontier ==
    ASSUME Placed, Ticks, NEW j \in Tickers, Receive(j)
    PROVE  /\ Ticks' /\ Handled(j)' = clock /\ Frontier(j)' = Frontier(j) + Period[j]
           /\ \A k \in Tickers \ {j} : Handled(k)' = Handled(k) /\ Frontier(k)' = Frontier(k)
<1>1. clock' = clock /\ start' = start /\ due' = due \ {j} /\ j \in due
    BY DEF Receive
<1>2. \A k \in Tickers : Since(k)' = Since(k)
    BY <1>1 DEF Since
<1>3. Ticks'
    BY <1>1, PlacedFacts DEF Ticks, Since
<1>4. \A k \in Tickers \ {j} : Handled(k)' = Handled(k) /\ Frontier(k)' = Frontier(k)
    BY <1>1, <1>2 DEF Handled, Frontier
<1>5. PICK w \in Nat \ {0} : w = Period[j]
    BY Periods
<1>6. clock \in Int /\ start \in Int /\ start % w \in Int
    BY PlacedFacts, DivMod
<1>7. Since(j) = 0
    BY <1>1 DEF Ticks
<1>8. Handled(j) = clock - w /\ Handled(j)' = clock
    BY <1>1, <1>2, <1>5, <1>6, <1>7 DEF Handled
<1>9. Frontier(j)' = Frontier(j) + w
    BY <1>1, <1>5, <1>6, <1>8 DEF Frontier
<1> QED
    BY <1>3, <1>4, <1>5, <1>8, <1>9

(* The statement of a tick sums into the empty bucket at the frontier, and *)
(* changes no other.                                                       *)
LEMMA UpsertFills ==
    ASSUME Placed, Ticks, NEW k \in due, NEW dst \in [Instants -> Nat], NEW src \in [Instants -> Nat]
    PROVE  /\ Frontier(k) \in Instants
           /\ BytesIn(src, Frontier(k), Frontier(k) + Period[k]) \in Nat
           /\ Upsert(dst, src, Period[k]) \in [Instants -> Nat]
           /\ Below(dst, k) => dst[Frontier(k)] = 0
           /\ Upsert(dst, src, Period[k])[Frontier(k)]
                = dst[Frontier(k)] + BytesIn(src, Frontier(k), Frontier(k) + Period[k])
           /\ \A b \in Instants \ {Frontier(k)} : Upsert(dst, src, Period[k])[b] = dst[b]
<1>0. k \in Tickers
    BY PlacedFacts
<1>1. PICK w \in Nat \ {0} : w = Period[k]
    BY <1>0, Periods
<1>2. PICK from : from = Frontier(k)
    OBVIOUS
<1>3. from \in Instants /\ from \in Int /\ from + w \in Int /\ Truncate(clock, w) = from + w /\ from + w - w = from
    BY <1>1, <1>2, TickFacts, WidthAssumption DEF Instants
<1>4. BytesIn(src, from, from + w) \in Nat
    BY <1>3, BytesInType
<1>5. Upsert(dst, src, w)
        = [b \in Instants |-> IF b = from THEN dst[b] + BytesIn(src, from, from + w) ELSE dst[b]]
    BY <1>3 DEF Upsert
<1>6. Below(dst, k) => dst[from] = 0
  <2>1. ~(from + w <= from)
      BY <1>3
  <2> QED
      BY <1>1, <1>2, <1>3, <2>1 DEF Below
<1>7. /\ Upsert(dst, src, w) \in [Instants -> Nat]
      /\ Upsert(dst, src, w)[from] = dst[from] + BytesIn(src, from, from + w)
      /\ \A b \in Instants \ {from} : Upsert(dst, src, w)[b] = dst[b]
    BY <1>3, <1>4, <1>5
<1> QED
    BY <1>1, <1>2, <1>3, <1>4, <1>6, <1>7

(* Every step keeps Punctual: a bucket is filled once, as each tick has a  *)
(* bucket of its own even across restarts.                                 *)
LEMMA PunctualStep ==
    RollupInv /\ [RollupNext]_rollupVars =>
        Punctual'
(* A table with more in it has more in each window.                        *)
<1>BytesInMonotone.
    ASSUME NEW f \in [Instants -> Nat], NEW g \in [Instants -> Nat], NEW from \in Int, NEW to \in Int,
           \A t \in Instants : f[t] <= g[t]
    PROVE  BytesIn(f, from, to) <= BytesIn(g, from, to)
  <2> USE <1>BytesInMonotone
  <2>1. \A t \in Window(from, to) : f[t] \in Nat /\ g[t] \in Nat /\ f[t] <= g[t]
      BY DEF Window
  <2>2. SumOver(f, Window(from, to)) <= SumOver(g, Window(from, to))
      BY <2>1, WindowFinite, SumMonotone
  <2> QED
      BY <2>2, BytesInIs
(* A flush only adds bytes.                                                *)
<1>FlowsGrow.
    ASSUME Placed, Placed', FlushEntry \/ UNCHANGED flows
    PROVE  \A b \in Instants, w \in Nat \ {0} : BytesIn(flows, b, b + w) <= BytesIn(flows, b, b + w)'
  <2> USE <1>FlowsGrow
  <2> SUFFICES ASSUME NEW b \in Instants, NEW w \in Nat \ {0}
               PROVE  BytesIn(flows, b, b + w) <= BytesIn(flows, b, b + w)'
      OBVIOUS
  <2>1. flows \in [Instants -> Nat] /\ flows' \in [Instants -> Nat] /\ buffered.bytes \in Nat
      BY PlacedFacts DEF Placed, RollupTypeOK
  <2>2. \A t \in Instants : flows[t] <= flows'[t]
      BY <2>1 DEF FlushEntry
  <2>3. b \in Int /\ b + w \in Int
      BY WidthAssumption DEF Instants
  <2>4. BytesIn(flows, b, b + w)' = BytesIn(flows', b, b + w)
      BY DEF BytesIn
  <2> QED
      BY <2>1, <2>2, <2>3, <2>4, <1>BytesInMonotone
(* So no bucket comes to have too many.                                    *)
<1>WithinGrows.
    ASSUME Placed, Placed', FlushEntry \/ UNCHANGED flows, NEW w \in Nat \ {0}
    PROVE  /\ UNCHANGED rollup1m /\ Within(rollup1m, w) => Within(rollup1m, w)'
           /\ UNCHANGED rollup5m /\ Within(rollup5m, w) => Within(rollup5m, w)'
  <2> USE <1>WithinGrows
  <2>1. \A b \in Instants : BytesIn(flows, b, b + w) <= BytesIn(flows, b, b + w)'
      BY <1>FlowsGrow
  <2>2. \A b \in Instants : /\ BytesIn(flows, b, b + w) \in Nat /\ BytesIn(flows, b, b + w)' \in Nat
                            /\ rollup1m[b] \in Nat /\ rollup5m[b] \in Nat
    <3> TAKE b \in Instants
    <3>1. b \in Int /\ b + w \in Int
        BY WidthAssumption DEF Instants
    <3>2. flows \in [Instants -> Nat] /\ flows' \in [Instants -> Nat]
        BY PlacedFacts DEF Placed, RollupTypeOK
    <3>3. BytesIn(flows, b, b + w)' = BytesIn(flows', b, b + w)
        BY DEF BytesIn
    <3> QED
        BY <3>1, <3>2, <3>3, BytesInType, PlacedFacts
  <2>3. UNCHANGED rollup1m /\ Within(rollup1m, w) => Within(rollup1m, w)'
      BY <2>1, <2>2 DEF Within
  <2>4. UNCHANGED rollup5m /\ Within(rollup5m, w) => Within(rollup5m, w)'
      BY <2>1, <2>2 DEF Within
  <2> QED
      BY <2>3, <2>4
(* A frontier that moves on leaves the tier below it.                      *)
<1>BelowGrows.
    ASSUME Placed, NEW k \in Tickers, Frontier(k) \in Int, Frontier(k)' \in Int, Frontier(k) <= Frontier(k)'
    PROVE  /\ UNCHANGED rollup1m /\ Below(rollup1m, k) => Below(rollup1m, k)'
           /\ UNCHANGED rollup5m /\ Below(rollup5m, k) => Below(rollup5m, k)'
  <2> USE <1>BelowGrows
  <2>1. PICK w \in Nat \ {0} : w = Period[k]
      BY Periods
  <2>2. \A b \in Instants : b \in Nat
      BY WidthAssumption DEF Instants
  <2>3. \A b \in Instants : b + w <= Frontier(k) => b + w <= Frontier(k)'
      BY <2>2
  <2> QED
      BY <2>1, <2>3 DEF Below
(* A restart, with new tickers, moves no frontier back.                    *)
<1>RestartFrontier.
    ASSUME Placed, Ticks, Restart
    PROVE  Ticks' /\ \A k \in Tickers : Frontier(k) <= Frontier(k)'
  <2> USE <1>RestartFrontier
  <2>1. clock' = clock /\ start' = clock /\ due' = {}
      BY DEF Restart
  <2>2. ASSUME NEW k \in Tickers PROVE Frontier(k) <= Frontier(k)'
    <3>1. PICK w \in Nat \ {0} : w = Period[k]
        BY Periods
    <3>2. clock \in Int /\ clock % w \in 0 .. w - 1 /\ 0 % w = 0 /\ start \in Int /\ start % w \in 0 .. w - 1
      <4>1. clock \in Int /\ start \in Int
          BY PlacedFacts
      <4>2. 0 % w = 0
          BY ModZero
      <4> QED
          BY <4>1, <4>2, DivMod
    <3>3. Since(k)' = 0
      <4>1. clock - clock = 0
          BY <3>2
      <4> QED
          BY <2>1, <3>1, <3>2, <4>1 DEF Since
    <3>4. Handled(k)' = clock
        BY <2>1, <3>2, <3>3 DEF Handled
    <3>5. Frontier(k)' = clock - (clock % w)
        BY <2>1, <3>1, <3>4 DEF Frontier
    <3>6. Frontier(k) \in Int /\ Frontier(k) <= clock /\ Frontier(k) % w = 0
        BY <3>1, <3>2, HandledFacts DEF Frontier
    <3> QED
        BY <3>2, <3>5, <3>6, AlignedFloor
  <2> QED
      BY <2>1, <2>2 DEF Ticks
(* If each bucket has at most its bytes, and nothing is stored but in      *)
(* buckets, so has every window made of buckets.                           *)
<1>TierBelow.
    ASSUME NEW src \in [Instants -> Nat], NEW tier \in [Instants -> Nat], NEW w \in Nat \ {0},
           NEW lo \in Nat, NEW hi \in Instants, lo <= hi, lo % w = 0, hi % w = 0,
           \A b \in Instants : tier[b] # 0 => b % w = 0,
           \A b \in Instants : b % w = 0 => tier[b] <= BytesIn(src, b, b + w)
    PROVE  BytesIn(tier, lo, hi) <= BytesIn(src, lo, hi)
  <2> USE <1>TierBelow
  <2> DEFINE Bad == {n \in Nat : n % w = 0 /\ lo <= n /\ n <= hi
                                 /\ ~(BytesIn(tier, lo, n) <= BytesIn(src, lo, n))}
  <2>0. hi \in Nat /\ hi <= MaxTime /\ MaxTime \in Nat
      BY WidthAssumption DEF Instants
  <2>1. ASSUME NEW n \in Bad, \A m \in Bad : n <= m PROVE FALSE
    <3>1. n # lo
      <4>1. BytesIn(src, lo, lo) = 0 /\ BytesIn(tier, lo, lo) = 0
          BY BytesInEmpty
      <4> QED
          BY <4>1
    <3>2. PICK m \in Int : m = n - w
        OBVIOUS
    <3>3. m \in Nat /\ lo <= m /\ m % w = 0
      <4>1. n \in Nat /\ n % w = 0 /\ lo < n
          BY <3>1
      <4> QED
          BY <3>2, <4>1, PreviousBucket
    <3>4. m <= hi /\ m < n /\ m \in Instants
        BY <2>0, <3>2, <3>3 DEF Instants
    <3>5. BytesIn(tier, lo, m) <= BytesIn(src, lo, m)
        BY <2>1, <3>3, <3>4
    <3>6. tier[m] <= BytesIn(src, m, n)
        BY <3>2, <3>3, <3>4
    <3>7. BytesIn(tier, m, n) = tier[m]
      <4>1. ASSUME NEW t \in Instants, m < t, t < n PROVE tier[t] = 0
        <5>1. t \in Int
            BY WidthAssumption DEF Instants
        <5>2. ASSUME t % w = 0 PROVE m + w <= t
            BY <3>3, <4>1, <5>1, <5>2, AlignedGap, Zenon
        <5>3. ~(m + w <= t)
            BY <3>2, <4>1, <5>1
        <5> QED
            BY <5>2, <5>3
      <4> QED
          BY <3>4, <4>1, BytesInFirst
    <3>8. BytesIn(src, lo, n) = BytesIn(src, lo, m) + BytesIn(src, m, n)
        BY <3>3, <3>4, BytesInSplit
    <3>9. BytesIn(tier, lo, n) = BytesIn(tier, lo, m) + BytesIn(tier, m, n)
        BY <3>3, <3>4, BytesInSplit
    <3>10. /\ BytesIn(src, lo, m) \in Nat /\ BytesIn(src, m, n) \in Nat
           /\ BytesIn(tier, lo, m) \in Nat /\ BytesIn(tier, m, n) \in Nat /\ tier[m] \in Nat
        BY <3>4, BytesInType
    <3>11. BytesIn(tier, lo, n) <= BytesIn(src, lo, n)
      <4>1. BytesIn(tier, lo, n) = BytesIn(tier, lo, m) + tier[m]
          BY <3>7, <3>9, Zenon
      <4> QED
          BY <4>1, <3>5, <3>6, <3>8, <3>10
    <3> QED
        BY <3>11
  <2>2. Bad = {}
    <3> HIDE DEF Bad
    <3>1. Bad \in SUBSET Nat
        BY DEF Bad
    <3> QED
        BY <2>1, <3>1, Least
  <2> QED
      BY <2>0, <2>2
(* Afterwards the tier is below the next frontier.                         *)
<1>BelowFilled.
    ASSUME Placed, Ticks, NEW k \in due, Receive(k), NEW dst \in [Instants -> Nat], NEW new,
           \A b \in Instants \ {Frontier(k)} : new[b] = dst[b], Below(dst, k)
    PROVE  \A b \in Instants : new[b] # 0 => b % Period[k] = 0 /\ b + Period[k] <= Frontier(k)'
  <2> USE <1>BelowFilled
  <2>0. k \in Tickers
      BY PlacedFacts
  <2>1. PICK w \in Nat \ {0} : w = Period[k]
      BY <2>0, Periods
  <2>2. Frontier(k)' = Frontier(k) + w /\ Frontier(k) \in Int /\ Frontier(k) % w = 0
      BY <2>0, <2>1, ReceiveFrontier, HandledFacts, Zenon
  <2>3. \A b \in Instants : b \in Nat
      BY WidthAssumption DEF Instants
  <2>4. \A b \in Instants \ {Frontier(k)} : new[b] # 0 => b % w = 0 /\ b + w <= Frontier(k)
      BY <2>1 DEF Below
  <2> QED
    <3> SUFFICES ASSUME NEW b \in Instants, new[b] # 0
                 PROVE  b % w = 0 /\ b + w <= Frontier(k) + w
        BY <2>1, <2>2, Zenon
    <3>1. CASE b = Frontier(k)
        BY <2>2, <2>3, <3>1
    <3>2. CASE b # Frontier(k)
      <4>1. b % w = 0 /\ b + w <= Frontier(k)
          BY <2>4, <3>2, Zenon
      <4> QED
          BY <2>1, <2>2, <2>3, <4>1
    <3> QED
        BY <3>1, <3>2, Zenon
<1>PunctualStep.
    ASSUME RollupInv, [RollupNext]_rollupVars
    PROVE  Punctual'
  <2> USE <1>PunctualStep
  <2> SUFFICES ASSUME "late" \notin faults'
               PROVE  /\ Ticks' /\ Recent'
                      /\ Below(rollup1m, "rollup1m")' /\ Below(rollup5m, "rollup5m")'
                      /\ Within(rollup1m, Width1)' /\ Within(rollup5m, Width5)'
      BY DEF Punctual
  <2>1. Placed /\ Placed'
      BY PlacedStep DEF RollupInv
  <2>2. "late" \notin faults
    <3>1. faults \subseteq faults'
        BY Zenon DEF RollupNext, Arrive, Advance, FlushBuffered, Rollup1m, Rollup5m, Restart, rollupVars
    <3> QED
        BY <3>1
  <2>3. /\ Ticks /\ Recent /\ Below(rollup1m, "rollup1m") /\ Below(rollup5m, "rollup5m")
        /\ Within(rollup1m, Width1) /\ Within(rollup5m, Width5)
      BY <2>2 DEF RollupInv, Punctual
  <2>4. "flush" \in Tickers /\ "rollup1m" \in Tickers /\ "rollup5m" \in Tickers
      BY DEF Tickers
  <2>5. \A k \in Tickers : Frontier(k) \in Int /\ Handled(k) \in Int /\ Handled(k) <= clock
      BY <2>1, <2>3, HandledFacts
  <2>6. ASSUME UNCHANGED <<clock, start, due, rollup1m, rollup5m, flows>>
        PROVE  /\ Ticks' /\ Handled("flush")' = Handled("flush")
               /\ Below(rollup1m, "rollup1m")' /\ Below(rollup5m, "rollup5m")'
               /\ Within(rollup1m, Width1)' /\ Within(rollup5m, Width5)'
    <3>1. \A k \in Tickers : Handled(k)' = Handled(k) /\ Frontier(k)' = Frontier(k)
        BY <2>6 DEF Handled, Frontier, Since
    <3>2. Ticks'
        BY <2>3, <2>6 DEF Ticks, Since
    <3>3. Below(rollup1m, "rollup1m")' /\ Below(rollup5m, "rollup5m")'
        BY <2>3, <2>4, <2>6, <3>1 DEF Below
    <3>4. Within(rollup1m, Width1)' /\ Within(rollup5m, Width5)'
        BY <2>3, <2>6 DEF Within, BytesIn
    <3> QED
        BY <2>4, <3>1, <3>2, <3>3, <3>4
  <2>7. CASE Arrive
    <3>1. buffered'.last = clock /\ clock \in Int
        BY <2>1, <2>7, PlacedFacts DEF Arrive
    <3>2. UNCHANGED <<clock, start, due, rollup1m, rollup5m, flows>>
        BY <2>7 DEF Arrive
    <3>3. Handled("flush")' = Handled("flush")
        BY <2>6, <3>2
    <3>4. Recent'
        BY <2>4, <2>5, <3>1, <3>3 DEF Recent
    <3> QED
        BY <2>6, <3>2, <3>4
  <2>8. CASE Advance
    <3>1. due = {}
        BY <2>8 DEF Advance
    <3>2. Ticks' /\ \A k \in Tickers : Handled(k)' = Handled(k) /\ Frontier(k)' = Frontier(k)
        BY <2>1, <2>8, <3>1, AdvanceFrontier
    <3>3. UNCHANGED <<rollup1m, rollup5m, flows, buffered>>
        BY <2>8 DEF Advance
    <3>4. Recent'
        BY <2>3, <2>4, <3>2, <3>3 DEF Recent
    <3>5. Below(rollup1m, "rollup1m")' /\ Below(rollup5m, "rollup5m")'
        BY <2>3, <2>4, <3>2, <3>3 DEF Below
    <3>6. Within(rollup1m, Width1)' /\ Within(rollup5m, Width5)'
        BY <2>3, <3>3 DEF Within, BytesIn
    <3> QED
        BY <3>2, <3>4, <3>5, <3>6
  <2>9. CASE FlushBuffered
    <3>1. Receive("flush") /\ UNCHANGED <<rollup1m, rollup5m>> /\ FlushEntry
        BY <2>9 DEF FlushBuffered
    <3>2. Ticks' /\ Frontier("rollup1m")' = Frontier("rollup1m") /\ Frontier("rollup5m")' = Frontier("rollup5m")
        BY <2>1, <2>3, <2>4, <3>1, ReceiveFrontier
    <3>3. Recent'
        BY <2>9 DEF FlushBuffered, Recent
    <3>4. Below(rollup1m, "rollup1m")' /\ Below(rollup5m, "rollup5m")'
        BY <2>3, <3>1, <3>2 DEF Below
    <3>5. Within(rollup1m, Width1)' /\ Within(rollup5m, Width5)'
        BY <2>1, <2>3, <3>1, <1>WithinGrows, Periods
    <3> QED
        BY <3>2, <3>3, <3>4, <3>5
  <2>10. CASE Rollup1m
    <3>1. Receive("rollup1m") /\ UNCHANGED <<rollup5m, flows, buffered>>
        BY <2>10 DEF Rollup1m
    <3>2. "rollup1m" \in due
        BY <3>1 DEF Receive
    <3>3. /\ Ticks' /\ Handled("flush")' = Handled("flush")
          /\ Frontier("rollup1m")' = Frontier("rollup1m") + Width1
          /\ Frontier("rollup5m")' = Frontier("rollup5m")
        BY <2>1, <2>3, <2>4, <3>1, ReceiveFrontier, Periods
    <3>4. Recent'
        BY <2>3, <3>1, <3>3 DEF Recent
    <3>5. Below(rollup5m, "rollup5m")'
        BY <2>3, <3>1, <3>3 DEF Below
    <3>6. Within(rollup5m, Width5)'
        BY <2>3, <3>1 DEF Within, BytesIn
    <3>7. CASE UNCHANGED rollup1m
      <4>1. Frontier("rollup1m") <= Frontier("rollup1m")' /\ Frontier("rollup1m")' \in Int
          BY <2>4, <2>5, <3>3, Periods
      <4>2. Below(rollup1m, "rollup1m")'
          BY <2>1, <2>3, <2>4, <2>5, <3>7, <4>1, <1>BelowGrows
      <4>3. Within(rollup1m, Width1)'
          BY <2>3, <3>1, <3>7 DEF Within, BytesIn
      <4> QED
          BY <3>3, <3>4, <3>5, <3>6, <4>2, <4>3
    <3>8. CASE rollup1m' = Upsert(rollup1m, flows, Width1)
      <4>1. PICK from : from = Frontier("rollup1m")
          OBVIOUS
      <4>2. rollup1m \in [Instants -> Nat] /\ flows \in [Instants -> Nat]
          BY <2>1, PlacedFacts
      <4>3. /\ from \in Instants /\ rollup1m[from] = 0 /\ BytesIn(flows, from, from + Width1) \in Nat
            /\ rollup1m'[from] = rollup1m[from] + BytesIn(flows, from, from + Width1)
            /\ \A b \in Instants \ {from} : rollup1m'[b] = rollup1m[b]
        <5>1. /\ Frontier("rollup1m") \in Instants /\ rollup1m[Frontier("rollup1m")] = 0
              /\ BytesIn(flows, Frontier("rollup1m"), Frontier("rollup1m") + Period["rollup1m"]) \in Nat
              /\ Upsert(rollup1m, flows, Period["rollup1m"])[Frontier("rollup1m")]
                  = rollup1m[Frontier("rollup1m")]
                      + BytesIn(flows, Frontier("rollup1m"), Frontier("rollup1m") + Period["rollup1m"])
              /\ \A b \in Instants \ {Frontier("rollup1m")} : Upsert(rollup1m, flows, Period["rollup1m"])[b] = rollup1m[b]
            BY <2>1, <2>3, <3>2, <4>2, UpsertFills, ZenonT(60)
        <5> QED
            BY <3>8, <4>1, <5>1, Periods, Zenon
      <4>4. Below(rollup1m, "rollup1m")'
        <5>1. \A b \in Instants : rollup1m'[b] # 0 => b % Period["rollup1m"] = 0 /\ b + Period["rollup1m"] <= Frontier("rollup1m")'
            BY <2>1, <2>3, <3>1, <3>2, <4>1, <4>2, <4>3, <1>BelowFilled, Zenon
        <5> QED
            BY <5>1 DEF Below
      <4>5. Within(rollup1m, Width1)'
        <5>1. rollup1m'[from] <= BytesIn(flows, from, from + Width1)
            BY <4>3
        <5>2. \A b \in Instants : b % Width1 = 0 => rollup1m'[b] <= BytesIn(flows, b, b + Width1)
            BY <2>3, <4>3, <5>1 DEF Within
        <5> QED
            BY <3>1, <5>2 DEF Within, BytesIn
      <4> QED
          BY <3>3, <3>4, <3>5, <3>6, <4>4, <4>5
    <3> QED
        BY <2>10, <3>7, <3>8 DEF Rollup1m
  <2>11. CASE Rollup5m
    <3>1. Receive("rollup5m") /\ UNCHANGED <<rollup1m, flows, buffered>>
        BY <2>11 DEF Rollup5m
    <3>2. "rollup5m" \in due
        BY <3>1 DEF Receive
    <3>3. /\ Ticks' /\ Handled("flush")' = Handled("flush")
          /\ Frontier("rollup5m")' = Frontier("rollup5m") + Width5
          /\ Frontier("rollup1m")' = Frontier("rollup1m")
        BY <2>1, <2>3, <2>4, <3>1, ReceiveFrontier, Periods
    <3>4. Recent'
        BY <2>3, <3>1, <3>3 DEF Recent
    <3>5. Below(rollup1m, "rollup1m")'
        BY <2>3, <3>1, <3>3 DEF Below
    <3>6. Within(rollup1m, Width1)'
        BY <2>3, <3>1 DEF Within, BytesIn
    <3>7. CASE UNCHANGED rollup5m
      <4>1. Frontier("rollup5m") <= Frontier("rollup5m")' /\ Frontier("rollup5m")' \in Int
          BY <2>4, <2>5, <3>3, Periods
      <4>2. Below(rollup5m, "rollup5m")'
          BY <2>1, <2>3, <2>4, <2>5, <3>7, <4>1, <1>BelowGrows
      <4>3. Within(rollup5m, Width5)'
          BY <2>3, <3>1, <3>7 DEF Within, BytesIn
      <4> QED
          BY <3>3, <3>4, <3>5, <3>6, <4>2, <4>3
    <3>8. CASE rollup5m' = Upsert(rollup5m, rollup1m, Width5)
      <4>1. PICK from : from = Frontier("rollup5m")
          OBVIOUS
      <4>2. rollup5m \in [Instants -> Nat] /\ rollup1m \in [Instants -> Nat] /\ flows \in [Instants -> Nat]
          BY <2>1, PlacedFacts
      <4>3. /\ from \in Instants /\ rollup5m[from] = 0 /\ BytesIn(rollup1m, from, from + Width5) \in Nat
            /\ rollup5m'[from] = rollup5m[from] + BytesIn(rollup1m, from, from + Width5)
            /\ \A b \in Instants \ {from} : rollup5m'[b] = rollup5m[b]
        <5>1. /\ Frontier("rollup5m") \in Instants /\ rollup5m[Frontier("rollup5m")] = 0
              /\ BytesIn(rollup1m, Frontier("rollup5m"), Frontier("rollup5m") + Period["rollup5m"]) \in Nat
              /\ Upsert(rollup5m, rollup1m, Period["rollup5m"])[Frontier("rollup5m")]
                  = rollup5m[Frontier("rollup5m")]
                      + BytesIn(rollup1m, Frontier("rollup5m"), Frontier("rollup5m") + Period["rollup5m"])
              /\ \A b \in Instants \ {Frontier("rollup5m")} : Upsert(rollup5m, rollup1m, Period["rollup5m"])[b] = rollup5m[b]
            BY <2>1, <2>3, <3>2, <4>2, UpsertFills, ZenonT(60)
        <5> QED
            BY <3>8, <4>1, <5>1, Periods, Zenon
      <4>4. Below(rollup5m, "rollup5m")'
        <5>1. \A b \in Instants : rollup5m'[b] # 0 => b % Period["rollup5m"] = 0 /\ b + Period["rollup5m"] <= Frontier("rollup5m")'
            BY <2>1, <2>3, <3>1, <3>2, <4>1, <4>2, <4>3, <1>BelowFilled
        <5> QED
            BY <5>1 DEF Below
      <4>5. BytesIn(rollup1m, from, from + Width5) <= BytesIn(flows, from, from + Width5)
        <5>1. from % Width5 = 0 /\ (from + Width5) % Width5 = 0 /\ from + Width5 \in Instants /\ from \in Int
            BY <2>1, <2>3, <2>4, <2>5, <3>2, <4>1, HandledFacts, TickFacts, Periods, Zenon
        <5>2. from + Width5 \in Int /\ from \in Nat /\ from <= from + Width5
            BY <4>3, <5>1, Periods DEF Instants
        <5>3. from % Width1 = 0 /\ (from + Width5) % Width1 = 0
            BY <5>1, <5>2, Periods, ModMultiple, Zenon
        <5>4. \A b \in Instants : rollup1m[b] # 0 => b % Width1 = 0
            BY <2>3, Periods DEF Below
        <5>5. \A b \in Instants : b % Width1 = 0 => rollup1m[b] <= BytesIn(flows, b, b + Width1)
            BY <2>3 DEF Within
        <5> QED
            BY <4>2, <5>1, <5>2, <5>3, <5>4, <5>5, Periods, <1>TierBelow, Zenon
      <4>6. Within(rollup5m, Width5)'
        <5>1. rollup5m'[from] <= BytesIn(flows, from, from + Width5)
            BY <4>3, <4>5
        <5>2. \A b \in Instants : b % Width5 = 0 => rollup5m'[b] <= BytesIn(flows, b, b + Width5)
            BY <2>3, <4>3, <5>1 DEF Within
        <5> QED
            BY <3>1, <5>2 DEF Within, BytesIn
      <4> QED
          BY <3>3, <3>4, <3>5, <3>6, <4>4, <4>6
    <3> QED
        BY <2>11, <3>7, <3>8 DEF Rollup5m
  <2>12. CASE Restart
    <3>1. /\ UNCHANGED <<rollup1m, rollup5m>> /\ (FlushEntry \/ UNCHANGED flows)
        BY <2>12 DEF Restart
    <3>2. Ticks' /\ \A k \in Tickers : Frontier(k) <= Frontier(k)'
        BY <2>1, <2>3, <2>12, <1>RestartFrontier
    <3>3. \A k \in Tickers : Frontier(k)' \in Int
      <4>1. start' \in Int /\ clock' \in Int /\ due' = {} /\ clock' - start' = 0
        <5>1. start' = clock /\ clock' = clock /\ due' = {}
            BY <2>12, Zenon DEF Restart
        <5>2. clock \in Int /\ clock - clock = 0
            BY <2>1, PlacedFacts
        <5> QED
            BY <5>1, <5>2, Zenon
      <4>2. ASSUME NEW k \in Tickers PROVE Frontier(k)' \in Int
        <5>1. PICK w \in Nat \ {0} : w = Period[k]
            BY Periods
        <5>2. start' % w \in Int /\ (clock' - start') % w \in Int
            BY <4>1, DivMod
        <5> QED
            BY <4>1, <5>1, <5>2 DEF Frontier, Handled, Since
      <4> QED
          BY <4>2
    <3>4. Recent'
        BY <2>12 DEF Restart, Recent
    <3>5. Below(rollup1m, "rollup1m")' /\ Below(rollup5m, "rollup5m")'
        BY <2>1, <2>3, <2>4, <2>5, <3>1, <3>2, <3>3, <1>BelowGrows
    <3>6. Within(rollup1m, Width1)' /\ Within(rollup5m, Width5)'
        BY <2>1, <2>3, <3>1, <1>WithinGrows, Periods
    <3> QED
        BY <3>2, <3>4, <3>5, <3>6
  <2>13. CASE UNCHANGED rollupVars
    <3>1. UNCHANGED <<clock, start, due, rollup1m, rollup5m, flows, buffered>>
        BY <2>13 DEF rollupVars
    <3>2. Recent'
        BY <2>3, <2>6, <3>1 DEF Recent
    <3> QED
        BY <2>6, <3>1, <3>2
  <2> QED
      BY <2>7, <2>8, <2>9, <2>10, <2>11, <2>12, <2>13 DEF RollupNext
<1> QED
    BY <1>PunctualStep

-----------------------------------------------------------------------------

(* Sums of no greater numbers are no greater.                              *)
LEMMA SumsOrdered ==
    \A a, b, c, d \in Nat : a <= c /\ b <= d => a + b <= c + d
OBVIOUS

(* Every step keeps Timely: when a bucket is filled, the flush that        *)
(* completes it is done, and so are its minutes.                           *)
LEMMA TimelyStep ==
    RollupInv /\ [RollupNext]_rollupVars =>
        Timely'
(* Only the rows of the window count.                                      *)
<1>BytesInAgree.
    ASSUME NEW f \in [Instants -> Nat], NEW g \in [Instants -> Nat], NEW from \in Int, NEW to \in Int,
           \A t \in Instants : from <= t /\ t < to => f[t] = g[t]
    PROVE  BytesIn(f, from, to) = BytesIn(g, from, to)
  <2> USE <1>BytesInAgree
  <2>1. \A t \in Window(from, to) : f[t] \in Nat /\ f[t] = g[t]
      BY DEF Window
  <2> QED
      BY <2>1, WindowFinite, BytesInIs, SumAgree
(* If each bucket has at least its bytes, so has every window made of      *)
(* buckets. By the least window that has not.                              *)
<1>TierAbove.
    ASSUME NEW src \in [Instants -> Nat], NEW tier \in [Instants -> Nat], NEW w \in Nat \ {0},
           NEW lo \in Nat, NEW hi \in Instants, lo <= hi, lo % w = 0, hi % w = 0,
           \A b \in Instants : b % w = 0 /\ b + w <= hi => BytesIn(src, b, b + w) <= tier[b]
    PROVE  BytesIn(src, lo, hi) <= BytesIn(tier, lo, hi)
  <2> USE <1>TierAbove
  <2> DEFINE Bad == {n \in Nat : n % w = 0 /\ lo <= n /\ n <= hi
                                 /\ ~(BytesIn(src, lo, n) <= BytesIn(tier, lo, n))}
  <2>0. hi \in Nat /\ hi <= MaxTime /\ MaxTime \in Nat
      BY WidthAssumption DEF Instants
  <2>1. ASSUME NEW n \in Bad, \A m \in Bad : n <= m PROVE FALSE
    <3>1. n # lo
      <4>1. BytesIn(src, lo, lo) = 0 /\ BytesIn(tier, lo, lo) = 0
          BY BytesInEmpty
      <4> QED
          BY <4>1
    <3>2. PICK m \in Int : m = n - w
        OBVIOUS
    <3>3. m \in Nat /\ lo <= m /\ m % w = 0
      <4>1. n \in Nat /\ n % w = 0 /\ lo < n
          BY <3>1
      <4> QED
          BY <3>2, <4>1, PreviousBucket
    <3>4. m <= hi /\ m < n /\ m \in Instants
        BY <2>0, <3>2, <3>3 DEF Instants
    <3>5. BytesIn(src, lo, m) <= BytesIn(tier, lo, m)
        BY <2>1, <3>3, <3>4
    <3>6. BytesIn(src, m, n) <= tier[m]
        BY <3>2, <3>3, <3>4
    <3>7. tier[m] <= BytesIn(tier, m, n)
        BY <3>4, BytesInFirst
    <3>8. BytesIn(src, lo, n) = BytesIn(src, lo, m) + BytesIn(src, m, n)
        BY <3>3, <3>4, BytesInSplit
    <3>9. BytesIn(tier, lo, n) = BytesIn(tier, lo, m) + BytesIn(tier, m, n)
        BY <3>3, <3>4, BytesInSplit
    <3>10. /\ BytesIn(src, lo, m) \in Nat /\ BytesIn(src, m, n) \in Nat
           /\ BytesIn(tier, lo, m) \in Nat /\ BytesIn(tier, m, n) \in Nat /\ tier[m] \in Nat
        BY <3>4, BytesInType
    <3>11. BytesIn(src, lo, n) <= BytesIn(tier, lo, n)
      <4>1. BytesIn(src, m, n) <= BytesIn(tier, m, n)
          BY <3>6, <3>7, <3>10
      <4>2. BytesIn(src, lo, m) + BytesIn(src, m, n) <= BytesIn(tier, lo, m) + BytesIn(tier, m, n)
          BY <4>1, <3>5, <3>10, SumsOrdered, Zenon
      <4> QED
          BY <4>2, <3>8, <3>9, Zenon
    <3>12. ~(BytesIn(src, lo, n) <= BytesIn(tier, lo, n))
        BY Zenon
    <3> QED
        BY <3>11, <3>12, Zenon
  <2>2. Bad = {}
    <3> HIDE DEF Bad
    <3>1. Bad \in SUBSET Nat
        BY DEF Bad
    <3> QED
        BY <2>1, <3>1, Least
  <2> QED
      BY <2>0, <2>2
<1>TimelyStep.
    ASSUME RollupInv, [RollupNext]_rollupVars
    PROVE  Timely'
  <2> USE <1>TimelyStep
  <2> SUFFICES ASSUME faults' = {}, restarts' = 0, LatePhase'
               PROVE  Above(rollup1m, "rollup1m")' /\ Above(rollup5m, "rollup5m")'
      BY DEF Timely
  <2>1. Placed /\ Placed' /\ restarts \in Nat
    <3>1. restarts \in Nat
        BY WidthAssumption DEF RollupInv, Placed, RollupTypeOK
    <3> QED
        BY <3>1, PlacedStep DEF RollupInv
  <2>2. ~Restart
      BY <2>1 DEF Restart
  <2>3. faults = {} /\ restarts = 0 /\ start' = start /\ "late" \notin faults'
    <3>1. faults \subseteq faults' /\ restarts' = restarts /\ start' = start
        BY <2>2, Zenon DEF RollupNext, Arrive, Advance, FlushBuffered, Rollup1m, Rollup5m, Receive, rollupVars
    <3> QED
        BY <3>1
  <2>4. LatePhase
      BY <2>3 DEF LatePhase
  <2>5. Ticks /\ Recent /\ Above(rollup1m, "rollup1m") /\ Above(rollup5m, "rollup5m")
      BY <2>3, <2>4 DEF RollupInv, Punctual, Timely
  <2>6. "flush" \in Tickers /\ "rollup1m" \in Tickers /\ "rollup5m" \in Tickers
      BY DEF Tickers
  <2>7. ASSUME UNCHANGED <<rollup1m, rollup5m, flows>>,
               \A k \in {"rollup1m", "rollup5m"} : Frontier(k)' = Frontier(k)
        PROVE  Above(rollup1m, "rollup1m")' /\ Above(rollup5m, "rollup5m")'
      BY <2>5, <2>7, Zenon DEF Above, BytesIn
  <2>8. CASE Arrive \/ UNCHANGED rollupVars
    <3>1. UNCHANGED <<clock, start, due, rollup1m, rollup5m, flows>>
        BY <2>8 DEF Arrive, rollupVars
    <3>2. \A k \in {"rollup1m", "rollup5m"} : Frontier(k)' = Frontier(k)
        BY <3>1 DEF Frontier, Handled, Since
    <3> QED
        BY <2>7, <3>1, <3>2
  <2>9. CASE Advance
    <3>1. due = {} /\ UNCHANGED <<rollup1m, rollup5m, flows>>
        BY <2>9, Zenon DEF Advance
    <3>2. \A k \in {"rollup1m", "rollup5m"} : Frontier(k)' = Frontier(k)
        BY <2>1, <2>6, <2>9, <3>1, AdvanceFrontier
    <3> QED
        BY <2>7, <3>1, <3>2
  <2>10. CASE FlushBuffered
    <3>1. Receive("flush") /\ UNCHANGED <<rollup1m, rollup5m>> /\ FlushEntry
        BY <2>10 DEF FlushBuffered
    <3>2. \A k \in {"rollup1m", "rollup5m"} : Frontier(k)' = Frontier(k)
        BY <2>1, <2>5, <2>6, <3>1, ReceiveFrontier
    <3>3. /\ flows \in [Instants -> Nat] /\ flows' \in [Instants -> Nat]
          /\ buffered.bytes \in Nat /\ buffered.last \in Instants /\ buffered.last \in Nat /\ clock \in Nat
        BY <2>1, PlacedFacts, Zenon DEF Placed, RollupTypeOK
    <3>4. ASSUME NEW k \in {"rollup1m", "rollup5m"}, buffered.bytes > 0
          PROVE  Frontier(k) <= buffered.last
      <4>1. PICK w \in Nat \ {0} : w = Period[k]
          BY <2>6, Periods
      <4>2. buffered.last >= Handled("flush") /\ Handled("flush") >= clock - FlushEvery /\ Handled("flush") \in Int
          BY <2>1, <2>5, <2>6, <3>4, HandledFacts, Periods, Zenon DEF Recent
      <4>3. Handled(k) \in Int /\ Handled(k) <= clock /\ Frontier(k) = Handled(k) - (start % w) /\ start % w \in 0 .. w - 1
          BY <2>1, <2>5, <2>6, <4>1, HandledFacts, Zenon DEF Frontier
      <4>4. start % w >= FlushEvery
        <5>1. start % Width1 >= FlushEvery /\ start % Width5 >= Width1 + FlushEvery
            BY <2>4 DEF LatePhase
        <5>2. start % Width5 >= FlushEvery
          <6>1. start % Width5 \in Int
              BY <2>1, PlacedFacts, Periods, DivMod
          <6> QED
              BY <5>1, <6>1, Periods
        <5> QED
            BY <3>4, <4>1, <5>1, <5>2, Periods
      <4> QED
        <5>1. Handled(k) - (start % w) <= clock - FlushEvery
            BY <3>3, <4>3, <4>4, Periods
        <5>2. clock - FlushEvery <= buffered.last
            BY <3>3, <4>2, Periods
        <5>3. Frontier(k) <= clock - FlushEvery /\ Frontier(k) \in Int /\ clock - FlushEvery \in Int
            BY <3>3, <4>3, <5>1, Periods
        <5> QED
            BY <3>3, <5>2, <5>3
    <3>5. ASSUME NEW k \in {"rollup1m", "rollup5m"}, NEW b \in Instants, b + Period[k] <= Frontier(k)
          PROVE  BytesIn(flows', b, b + Period[k]) = BytesIn(flows, b, b + Period[k])
      <4>1. PICK w \in Nat \ {0} : w = Period[k]
          BY <2>6, Periods
      <4>2. b \in Int /\ b + w \in Int
          BY WidthAssumption DEF Instants
      <4>3. Frontier(k) \in Int
          BY <2>1, <2>5, <2>6, HandledFacts
      <4>4. ASSUME NEW t \in Instants, b <= t, t < b + w PROVE flows'[t] = flows[t]
        <5>1. CASE buffered.bytes > 0
          <6>1. t # buffered.last
            <7>1. Frontier(k) <= buffered.last
                BY <3>4, <5>1
            <7>2. t \in Int
                BY WidthAssumption DEF Instants
            <7> QED
                BY <3>3, <3>5, <4>1, <4>2, <4>3, <4>4, <7>1, <7>2
          <6> QED
              BY <3>1, <3>3, <6>1 DEF FlushEntry
        <5>2. CASE buffered.bytes = 0
            BY <3>1, <3>3, <5>2 DEF FlushEntry
        <5> QED
            BY <3>3, <5>1, <5>2
      <4>5. BytesIn(flows', b, b + w) = BytesIn(flows, b, b + w)
          BY <3>3, <4>2, <4>4, <1>BytesInAgree
      <4> QED
          BY <4>1, <4>5
    <3>6. ASSUME NEW k \in {"rollup1m", "rollup5m"}, NEW b \in Instants
          PROVE  BytesIn(flows, b, b + Period[k])' = BytesIn(flows', b, b + Period[k])
        BY DEF BytesIn
    <3>7. Above(rollup1m, "rollup1m")'
        BY <2>5, <3>1, <3>2, <3>5, <3>6, Zenon DEF Above
    <3>8. Above(rollup5m, "rollup5m")'
        BY <2>5, <3>1, <3>2, <3>5, <3>6, Zenon DEF Above
    <3> QED
        BY <3>7, <3>8
  <2>11. ASSUME NEW k \in {"rollup1m", "rollup5m"}, Receive(k), UNCHANGED flows,
                NEW dst \in [Instants -> Nat], NEW src \in [Instants -> Nat],
                BytesIn(flows, Frontier(k), Frontier(k) + Period[k]) <= BytesIn(src, Frontier(k), Frontier(k) + Period[k]),
                Above(dst, k)
         PROVE  \A b \in Instants : b % Period[k] = 0 /\ b + Period[k] <= Frontier(k)' =>
                  BytesIn(flows, b, b + Period[k]) <= Upsert(dst, src, Period[k])[b]
    <3>0. k \in due /\ k \in Tickers
        BY <2>6, <2>11 DEF Receive
    <3>1. PICK w \in Nat \ {0} : w = Period[k]
        BY <3>0, Periods
    <3>2. PICK from : from = Frontier(k)
        OBVIOUS
    <3>3. Frontier(k)' = from + w /\ from \in Int /\ from % w = 0
        BY <2>1, <2>5, <2>11, <3>0, <3>1, <3>2, ReceiveFrontier, HandledFacts, Zenon
    <3>4. /\ from \in Instants /\ BytesIn(src, from, from + w) \in Nat
          /\ Upsert(dst, src, w)[from] = dst[from] + BytesIn(src, from, from + w)
          /\ \A b \in Instants \ {from} : Upsert(dst, src, w)[b] = dst[b]
      <4>1. /\ Frontier(k) \in Instants /\ BytesIn(src, Frontier(k), Frontier(k) + Period[k]) \in Nat
            /\ Upsert(dst, src, Period[k])[Frontier(k)]
                 = dst[Frontier(k)] + BytesIn(src, Frontier(k), Frontier(k) + Period[k])
            /\ \A b \in Instants \ {Frontier(k)} : Upsert(dst, src, Period[k])[b] = dst[b]
          BY <2>1, <2>5, <3>0, UpsertFills, ZenonT(60)
      <4> QED
          BY <3>1, <3>2, <4>1, Zenon
    <3>5. BytesIn(flows, from, from + w) \in Nat /\ BytesIn(flows, from, from + w) <= BytesIn(src, from, from + w)
      <4>1. flows \in [Instants -> Nat] /\ from + w \in Int
          BY <2>1, <3>3, PlacedFacts
      <4> QED
          BY <2>11, <3>1, <3>2, <3>3, <4>1, BytesInType, Zenon
    <3>6. ASSUME NEW b \in Instants, b % w = 0, b + w <= from + w
          PROVE  BytesIn(flows, b, b + w) <= Upsert(dst, src, w)[b]
      <4>1. CASE b = from
        <5>1. dst[from] \in Nat
            BY <3>4
        <5> QED
            BY <3>4, <3>5, <4>1, <5>1
      <4>2. CASE b # from
        <5>1. b \in Int
            BY WidthAssumption DEF Instants
        <5>2. b < from
            BY <3>3, <3>6, <4>2, <5>1
        <5>3. b + w <= from
            BY <3>3, <3>6, <5>1, <5>2, AlignedGap, Zenon
        <5> QED
            BY <2>11, <3>1, <3>2, <3>4, <3>6, <4>2, <5>3, Zenon DEF Above
      <4> QED
          BY <4>1, <4>2
    <3> QED
        BY <3>1, <3>2, <3>3, <3>6
  <2>12. CASE Rollup1m
    <3>1. Receive("rollup1m") /\ rollup1m' = Upsert(rollup1m, flows, Width1) /\ UNCHANGED <<rollup5m, flows>>
        BY <2>3, <2>12 DEF Rollup1m
    <3>2. Frontier("rollup5m")' = Frontier("rollup5m")
        BY <2>1, <2>5, <2>6, <3>1, ReceiveFrontier
    <3>3. Above(rollup5m, "rollup5m")'
        BY <2>5, <3>1, <3>2 DEF Above, BytesIn
    <3>4. BytesIn(flows, Frontier("rollup1m"), Frontier("rollup1m") + Period["rollup1m"])
            <= BytesIn(flows, Frontier("rollup1m"), Frontier("rollup1m") + Period["rollup1m"])
      <4>1. Frontier("rollup1m") \in Int /\ Frontier("rollup1m") + Period["rollup1m"] \in Int
          BY <2>1, <2>5, <2>6, HandledFacts, Periods
      <4>2. BytesIn(flows, Frontier("rollup1m"), Frontier("rollup1m") + Period["rollup1m"]) \in Nat
          BY <2>1, <4>1, PlacedFacts, BytesInType
      <4> QED
          BY <4>2
    <3>5. \A b \in Instants : b % Period["rollup1m"] = 0 /\ b + Period["rollup1m"] <= Frontier("rollup1m")' =>
                  BytesIn(flows, b, b + Period["rollup1m"]) <= Upsert(rollup1m, flows, Period["rollup1m"])[b]
      <4>1. rollup1m \in [Instants -> Nat] /\ flows \in [Instants -> Nat]
          BY <2>1, PlacedFacts
      <4> QED
          BY <2>5, <2>11, <3>1, <3>4, <4>1, Zenon
    <3>6. Above(rollup1m, "rollup1m")'
        BY <3>1, <3>5, Periods DEF Above, BytesIn
    <3> QED
        BY <3>3, <3>6
  <2>13. CASE Rollup5m
    <3>1. Receive("rollup5m") /\ rollup5m' = Upsert(rollup5m, rollup1m, Width5) /\ UNCHANGED <<rollup1m, flows>>
        BY <2>3, <2>13 DEF Rollup5m
    <3>2. Frontier("rollup1m")' = Frontier("rollup1m") /\ "rollup5m" \in due
        BY <2>1, <2>5, <2>6, <3>1, ReceiveFrontier, Zenon DEF Receive
    <3>3. Above(rollup1m, "rollup1m")'
        BY <2>5, <3>1, <3>2, Zenon DEF Above, BytesIn
    <3>4. PICK from : from = Frontier("rollup5m")
        OBVIOUS
    <3>5. /\ from \in Int /\ from \in Nat /\ from % Width5 = 0 /\ from + Width5 \in Instants
          /\ from + Width5 = clock - (start % Width5) /\ (from + Width5) % Width5 = 0
      <4>1. Frontier("rollup5m") \in Int /\ Frontier("rollup5m") % Period["rollup5m"] = 0
          BY <2>1, <2>5, <2>6, HandledFacts, Zenon
      <4>2. /\ Frontier("rollup5m") \in Instants /\ Frontier("rollup5m") + Period["rollup5m"] \in Instants
            /\ Frontier("rollup5m") + Period["rollup5m"] = clock - (start % Period["rollup5m"])
            /\ (Frontier("rollup5m") + Period["rollup5m"]) % Period["rollup5m"] = 0
          BY <2>1, <2>5, <3>2, TickFacts, Zenon
      <4>3. \A t \in Instants : t \in Nat
          BY WidthAssumption DEF Instants
      <4> QED
          BY <3>4, <4>1, <4>2, <4>3, Periods, Zenon
    <3>6. from + Width5 \in Int /\ from <= from + Width5
        BY <3>5, Periods
    <3>7. from % Width1 = 0 /\ (from + Width5) % Width1 = 0
        BY <3>5, <3>6, Periods, ModMultiple, Zenon
    <3>8. from + Width5 <= Frontier("rollup1m")
      <4>1. /\ Handled("rollup1m") \in Int /\ clock - Width1 <= Handled("rollup1m")
            /\ Frontier("rollup1m") = Handled("rollup1m") - (Handled("rollup1m") % Width1)
          BY <2>1, <2>5, <2>6, HandledFacts, Periods, Zenon
      <4>2. from + Width5 <= Handled("rollup1m")
        <5>1. start % Width5 >= Width1 + FlushEvery /\ start % Width5 \in Int /\ clock \in Int
          <6>1. clock \in Int /\ start \in Int
              BY <2>1, PlacedFacts
          <6>2. start % Width5 \in Int
              BY <6>1, Periods, DivMod
          <6> QED
              BY <2>4, <6>1, <6>2, Zenon DEF LatePhase
        <5> QED
            BY <3>5, <4>1, <5>1, Periods
      <4> QED
          BY <3>6, <3>7, <4>1, <4>2, AlignedFloor, Periods
    <3>9. /\ flows \in [Instants -> Nat] /\ rollup1m \in [Instants -> Nat] /\ rollup5m \in [Instants -> Nat]
          /\ Frontier("rollup1m") \in Int
        BY <2>1, <2>5, <2>6, PlacedFacts, HandledFacts, Zenon
    <3>10. \A b \in Instants : b % Width1 = 0 /\ b + Width1 <= from + Width5 => BytesIn(flows, b, b + Width1) <= rollup1m[b]
      <4>1. \A b \in Instants : b + Width1 <= from + Width5 => b + Width1 <= Frontier("rollup1m")
        <5>1. \A b \in Instants : b + Width1 \in Int
            BY Periods DEF Instants
        <5> QED
            BY <3>6, <3>8, <3>9, <5>1
      <4> QED
          BY <2>5, <4>1, Periods, Zenon DEF Above
    <3>11. BytesIn(flows, from, from + Width5) <= BytesIn(rollup1m, from, from + Width5)
        BY <3>5, <3>6, <3>7, <3>9, <3>10, Periods, <1>TierAbove, Zenon
    <3>12. \A b \in Instants : b % Period["rollup5m"] = 0 /\ b + Period["rollup5m"] <= Frontier("rollup5m")' =>
                  BytesIn(flows, b, b + Period["rollup5m"]) <= Upsert(rollup5m, rollup1m, Period["rollup5m"])[b]
      <4>1. BytesIn(flows, Frontier("rollup5m"), Frontier("rollup5m") + Period["rollup5m"])
              <= BytesIn(rollup1m, Frontier("rollup5m"), Frontier("rollup5m") + Period["rollup5m"])
          BY <3>4, <3>11, Periods, Zenon
      <4> QED
          BY <2>5, <2>11, <3>1, <3>9, <4>1, Zenon
    <3>13. Above(rollup5m, "rollup5m")'
        BY <3>1, <3>12, Periods, Zenon DEF Above, BytesIn
    <3> QED
        BY <3>3, <3>13
  <2> QED
      BY <2>2, <2>8, <2>9, <2>10, <2>12, <2>13 DEF RollupNext
<1> QED
    BY <1>TimelyStep

-----------------------------------------------------------------------------

(* The invariant always holds.                                             *)
LEMMA RollupInvariant == RollupSpec => []RollupInv
<1>1. RollupInit => RollupInv
    BY RollupInitial
<1>2. RollupInv /\ [RollupNext]_rollupVars => RollupInv'
    BY PlacedStep, PunctualStep, TimelyStep DEF RollupInv
<1> QED
    BY <1>1, <1>2, PTL DEF RollupSpec

(* While no tick waits, no bucket of either tier holds more bytes than     *)
(* flows_recent has for it, for any periods with five minutes a multiple   *)
(* of the minute, any phase, and whatever fails or restarts.               *)
THEOREM RollupCountsOnce == RollupSpec => []NothingCountedTwice
<1>1. RollupInv => NothingCountedTwice
    BY DEF RollupInv, Punctual, Within, NothingCountedTwice
<1> QED
    BY <1>1, RollupInvariant, PTL

(* A process that started late in its bucket, was not restarted and had no *)
(* late tick and no failed statement leaves no bytes out of either tier,   *)
(* for any such periods.                                                   *)
THEOREM RollupIsComplete == RollupSpec => []RollupsComplete
<1>1. ASSUME RollupInv, faults = {}, restarts = 0, LatePhase
      PROVE  Covered(rollup1m, Width1) /\ Covered(rollup5m, Width5)
  <2>1. Placed /\ Ticks /\ Above(rollup1m, "rollup1m") /\ Above(rollup5m, "rollup5m")
      BY <1>1 DEF RollupInv, Punctual, Timely
  <2>2. ASSUME NEW k \in Tickers, NEW b \in Instants, b % Period[k] = 0, b + 2 * Period[k] <= clock
        PROVE  b + Period[k] <= Frontier(k)
    <3>1. PICK w \in Nat \ {0} : w = Period[k]
        BY Periods
    <3>2. b \in Int /\ b + w \in Int /\ clock \in Int
        BY <2>1, PlacedFacts, WidthAssumption DEF Instants
    <3>3. (b + w) % w = 0
        BY <2>2, <3>1, <3>2, ModAdd
    <3>4. /\ Handled(k) \in Int /\ clock - w <= Handled(k)
          /\ Frontier(k) = Handled(k) - (Handled(k) % w)
        BY <2>1, <3>1, HandledFacts, Zenon
    <3>5. b + w <= Handled(k)
        BY <2>2, <3>1, <3>2, <3>4
    <3> QED
        BY <3>1, <3>2, <3>3, <3>4, <3>5, AlignedFloor
  <2>3. \A b \in Instants : /\ rollup1m[b] \in Nat /\ rollup5m[b] \in Nat
                            /\ BytesIn(flows, b, b + Width1) \in Nat /\ BytesIn(flows, b, b + Width5) \in Nat
    <3> TAKE b \in Instants
    <3>1. b \in Int /\ b + Width1 \in Int /\ b + Width5 \in Int
        BY Periods DEF Instants
    <3> QED
        BY <2>1, <3>1, PlacedFacts, BytesInType
  <2>4. "rollup1m" \in Tickers /\ "rollup5m" \in Tickers
      BY DEF Tickers
  <2>5. Covered(rollup1m, Width1)
      BY <2>1, <2>2, <2>3, <2>4, Periods, Zenon DEF Covered, Above
  <2>6. Covered(rollup5m, Width5)
      BY <2>1, <2>2, <2>3, <2>4, Periods, Zenon DEF Covered, Above
  <2> QED
      BY <2>5, <2>6
<1>2. RollupInv => RollupsComplete
    BY <1>1 DEF RollupsComplete
<1> QED
    BY <1>2, RollupInvariant, PTL
=============================================================================
