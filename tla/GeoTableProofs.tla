-------------------------- MODULE GeoTableProofs --------------------------
(***************************************************************************)
(* Proofs about GeoTable, for every address width, every set of countries  *)
(* and every list of records, wrapped around or not: at every round of the *)
(* loop the table is sorted and minimal, and a lookup in it gives no other *)
(* country than that of the first record that contains the address.  It    *)
(* gives that country when no record wraps around.                         *)
(***************************************************************************)
EXTENDS GeoTable, TLAPS, WellFoundedInduction

Covers(r, t) == r.start <= t /\ t <= r.end

(* The runs made so far.                                                   *)
Runs == {out[k] : k \in 1 .. Len(out)} \cup {cur}

(* Record i is the first that contains t.                                  *)
Claims(i, t) == Covers(all[i], t) /\ \A j \in 1 .. i - 1 : ~Covers(all[j], t)

(* The records are sorted by start; the closed runs are strictly sorted    *)
(* and end before the open one.  An open run that wraps around is the last *)
(* record as it was read, and there is none if no record does.             *)
Inv ==
    /\ all \in Seq(Record) /\ done \in 0 .. Len(all) /\ out \in Seq(Run)
    /\ \A i \in 1 .. Len(all) - 1 : all[i].start <= all[i + 1].start
    /\ done = 0 => out = <<>>
    /\ done > 0 => cur \in Run /\ (cur.start <= cur.end \/ cur = all[done])
    /\ \A i, j \in 1 .. Len(out) : i < j => out[i].end < out[j].start
    /\ \A i \in 1 .. Len(out) : out[i].end < cur.start
    /\ NoneWraps => /\ done > 0 => cur.start <= cur.end
                    /\ \A i \in 1 .. Len(out) : out[i].start <= out[i].end

(* Nor does a run touch the next when they are of one country.             *)
Apart ==
    /\ \A i \in 1 .. Len(out) - 1 :
          out[i].cc = out[i + 1].cc => out[i].end + 1 < out[i + 1].start
    /\ Len(out) > 0 /\ out[Len(out)].cc = cur.cc => out[Len(out)].end + 1 < cur.start

(* Once a record has been read: none reaches to an address behind the open *)
(* run, unless it is one before that run; an address in a run has the      *)
(* country of its first claim; one in a record is in a run; and so is      *)
(* every address from the start of the last record read to the end of the  *)
(* open run, whose start may lie after that record.                        *)
ClaimInv ==
    done > 0 =>
        /\ \A i \in 1 .. done : all[i].end <= cur.end \/ all[i].end < cur.start
        /\ \A c \in Runs, t \in Address : Covers(c, t) =>
              \E i \in 1 .. done : Claims(i, t) /\ all[i].cc = c.cc
        /\ \A i \in 1 .. done, t \in Address : Covers(all[i], t) =>
              \E c \in Runs : Covers(c, t)
        /\ \A t \in Address : all[done].start <= t /\ t <= cur.end =>
              \E c \in Runs : Covers(c, t)

(***************************************************************************)
(* Arithmetic.                                                             *)
(***************************************************************************)

(* An addition that stays within the address space does not wrap.          *)
LEMMA NoWrap ==
    ASSUME NEW n \in Nat \ {0}, NEW x \in 0 .. n - 1
    PROVE  x % n = x
OBVIOUS

(* Nor does the address behind the open run when there is one beyond it.   *)
LEMMA NextAddress ==
    ASSUME cur \in Run, NEW t \in Address, t > cur.end
    PROVE  (cur.end + 1) % Size = cur.end + 1
<1>1. cur.end + 1 \in 0 .. Size - 1
    BY GeoAssumption DEF Run, Address
<1> QED
    BY <1>1, GeoAssumption, NoWrap

(* A set of positions has a least one, which Min returns.                  *)
LEMMA LeastPosition ==
    ASSUME NEW S \in SUBSET Nat, S # {}
    PROVE  Min(S) \in S /\ \A y \in S : Min(S) <= y
<1> DEFINE Less == {ss \in Nat \X Nat : ss[1] < ss[2]}
<1>1. IsWellFoundedOn(Less, Nat)
    BY NatLessThanWellFounded DEF OpToRel
<1>2. \E x \in S : \A y \in S : <<y, x>> \notin Less
    BY <1>1, WFMin, Zenon
<1>3. PICK x \in S : \A y \in S : <<y, x>> \notin Less
    BY <1>2
<1>4. \A y \in S : ~(y < x)
  <2> TAKE y \in S
  <2>1. <<y, x>> \in Nat \X Nat /\ <<y, x>>[1] = y /\ <<y, x>>[2] = x
      OBVIOUS
  <2> QED
      BY <2>1, <1>3
<1>5. \A y \in S : x <= y
    BY <1>4
<1> QED
    BY <1>5, Zenon DEF Min

(* What is known of a run.                                                 *)
LEMMA RunType ==
    ASSUME NEW r \in Run
    PROVE  /\ r.start \in Address /\ r.end \in Address /\ r.start \in Int /\ r.end \in Int
           /\ r.cc \in Countries
BY GeoAssumption DEF Run, Address

(* A record is a run, and does not end just before it starts: its count is *)
(* less than the number of addresses.                                      *)
LEMMA RecordType ==
    ASSUME NEW r \in Record
    PROVE  r \in Run /\ r.end + 1 # r.start
<1>1. PICK s \in Address, count \in 1 .. Size - 1, c \in Countries :
          r = [start |-> s, end |-> (s + count - 1) % Size, cc |-> c]
    BY DEF Record
<1>2. Size \in Nat \ {0} /\ s \in 0 .. Size - 1
    BY GeoAssumption DEF Address
<1>3. PICK e : e = (s + count - 1) % Size
    OBVIOUS
<1>4. e \in 0 .. Size - 1 /\ e + 1 # s
  <2>1. CASE s + count - 1 < Size
    <3>1. s + count - 1 \in 0 .. Size - 1
        BY <1>2, <2>1
    <3>2. e = s + count - 1
        BY <1>2, <1>3, <3>1, NoWrap
    <3> QED
        BY <1>2, <2>1, <3>2
  <2>2. CASE s + count - 1 >= Size
    <3>1. e = s + count - 1 - Size
        BY <1>2, <1>3, <2>2
    <3> QED
        BY <1>2, <2>2, <3>1
  <2> QED
      BY <1>2, <2>1, <2>2
<1>5. r.start = s /\ r.end = e /\ r = [start |-> s, end |-> e, cc |-> c]
    BY <1>1, <1>3
<1> QED
    BY <1>4, <1>5 DEF Run, Address

(***************************************************************************)
(* The runs are sorted.                                                    *)
(***************************************************************************)

(* Before the loop there are no runs.                                      *)
LEMMA InitInv == Init => Inv /\ Apart /\ ClaimInv
<1> SUFFICES ASSUME Init PROVE Inv /\ Apart /\ ClaimInv
    OBVIOUS
<1>1. done = 0 /\ out = <<>>
    BY DEF Init
<1>2. PICK n \in 0 .. MaxRecords : all \in [1 .. n -> Record]
    BY DEF Init
<1>3. all \in Seq(Record) /\ Len(all) = n
    BY <1>2, GeoAssumption
<1>4. \A i \in 1 .. Len(all) - 1 : all[i].start <= all[i + 1].start
    BY DEF Init
<1>5. Inv
    BY <1>1, <1>3, <1>4 DEF Inv
<1>6. Apart /\ ClaimInv
    BY <1>1 DEF Apart, ClaimInv
<1> QED
    BY <1>5, <1>6

(* Closing the open run adds it behind the closed ones.                    *)
LEMMA Closed ==
    ASSUME Inv, done > 0, out' = Append(out, cur)
    PROVE  /\ out' \in Seq(Run) /\ Len(out) \in Nat /\ Len(out') = Len(out) + 1
           /\ \A i \in 1 .. Len(out) : out'[i] = out[i] /\ out[i] \in Run
           /\ out'[Len(out) + 1] = cur /\ cur \in Run
           /\ \A i \in 1 .. Len(out') : i \in 1 .. Len(out) \/ i = Len(out) + 1
<1>1. cur \in Run /\ out \in Seq(Run) /\ Len(out) \in Nat
    BY DEF Inv
<1> QED
    BY <1>1

(* Closing the run before another that starts neither before it nor within *)
(* it keeps the runs sorted.                                               *)
LEMMA CloseKeepsSorted ==
    ASSUME Inv, done > 0, out' = Append(out, cur), NEW r \in Run, cur' = r,
           cur.end < r.start, cur.start <= r.start
    PROVE  /\ out' \in Seq(Run)
           /\ \A i, j \in 1 .. Len(out') : i < j => out'[i].end < out'[j].start
           /\ \A i \in 1 .. Len(out') : out'[i].end < cur'.start
<1>1. /\ out' \in Seq(Run) /\ Len(out) \in Nat /\ Len(out') = Len(out) + 1
      /\ \A i \in 1 .. Len(out) : out'[i] = out[i] /\ out[i] \in Run
      /\ out'[Len(out) + 1] = cur /\ cur \in Run
      /\ \A i \in 1 .. Len(out') : i \in 1 .. Len(out) \/ i = Len(out) + 1
    BY Closed
<1>2. \A i \in 1 .. Len(out) : out[i].end < cur.start
    BY DEF Inv
<1>3. ASSUME NEW i \in 1 .. Len(out'), NEW j \in 1 .. Len(out'), i < j
      PROVE  out'[i].end < out'[j].start
  <2>1. i \in 1 .. Len(out)
      BY <1>1, <1>3
  <2>2. CASE j \in 1 .. Len(out)
      BY <1>1, <1>3, <2>1, <2>2 DEF Inv
  <2>3. CASE j = Len(out) + 1
      BY <1>1, <1>2, <2>1, <2>3
  <2> QED
      BY <1>1, <2>2, <2>3
<1>4. ASSUME NEW i \in 1 .. Len(out') PROVE out'[i].end < cur'.start
  <2>1. cur.start \in Int /\ cur.end \in Int /\ r.start \in Int
      BY <1>1, RunType
  <2>2. CASE i \in 1 .. Len(out)
    <3>1. out[i].end < cur.start /\ out[i].end \in Int /\ out'[i] = out[i]
        BY <1>1, <1>2, <2>2, RunType
    <3> QED
        BY <3>1, <2>1
  <2>3. CASE i = Len(out) + 1
      BY <1>1, <2>1, <2>3
  <2> QED
      BY <1>1, <2>2, <2>3
<1> QED
    BY <1>1, <1>3, <1>4

(* What is left of a conflicting claim starts behind the open run.         *)
LEMMA RemainderBehind ==
    ASSUME cur \in Run, NEW r \in Run, r.end > cur.end
    PROVE  /\ Remainder(r) \in Run /\ Remainder(r).start = cur.end + 1
           /\ Remainder(r).end = r.end /\ Remainder(r).cc = r.cc
           /\ cur.end < Remainder(r).start /\ Remainder(r).start <= Remainder(r).end
<1>1. (cur.end + 1) % Size = cur.end + 1
    BY NextAddress, RunType
<1>2. Remainder(r) = [start |-> cur.end + 1, end |-> r.end, cc |-> r.cc]
    BY <1>1 DEF Remainder
<1>3. cur.end + 1 \in Address /\ cur.end + 1 <= r.end /\ cur.end < cur.end + 1
    BY RunType, GeoAssumption DEF Address
<1>4. Remainder(r) \in Run
    BY <1>2, <1>3, RunType DEF Run
<1> QED
    BY <1>2, <1>3, <1>4

(* A run that is extended keeps its start and its country.                 *)
LEMMA Extended ==
    ASSUME cur \in Run, NEW r \in Run
    PROVE  /\ Extend(r) \in Run /\ Extend(r).start = cur.start /\ Extend(r).cc = cur.cc
           /\ Extend(r).end = IF r.end > cur.end THEN r.end ELSE cur.end
           /\ Extend(r).end >= cur.end
<1>1. cur.end \in Address /\ r.end \in Address
    BY RunType
<1>2. (IF r.end > cur.end THEN r.end ELSE cur.end) \in Address
    BY <1>1
<1>3. (IF r.end > cur.end THEN r.end ELSE cur.end) >= cur.end
    BY <1>1, GeoAssumption DEF Address
<1> QED
    BY <1>2, <1>3, RunType DEF Extend, Run

(* The three ways a round goes.                                            *)
LEMMA MergeCases ==
    ASSUME Inv, Merge
    PROVE  LET r == all[done + 1]
           IN  /\ r \in Record /\ r \in Run /\ done \in Nat /\ done > 0 /\ cur \in Run
               /\ all' = all /\ done' = done + 1 /\ done' \in 0 .. Len(all)
               /\ all[done] \in Run /\ all[done].start <= r.start
               /\ \/ Extends(r) /\ cur' = Extend(r) /\ UNCHANGED out
                  \/ /\ ~Extends(r) /\ out' = Append(out, cur)
                     /\ \/ ~Overlaps(r) /\ cur' = r
                        \/ Overlaps(r) /\ r.end > cur.end /\ cur' = Remainder(r)
                  \/ ~Extends(r) /\ Overlaps(r) /\ r.end <= cur.end /\ UNCHANGED <<cur, out>>
<1> DEFINE r == all[done + 1]
<1>1. /\ all \in Seq(Record) /\ done \in 1 .. Len(all) - 1 /\ Len(all) \in Nat
      /\ cur \in Run /\ all' = all /\ done' = done + 1
    BY DEF Merge, Inv
<1>2. done \in 1 .. Len(all) /\ done + 1 \in 1 .. Len(all) /\ done \in Nat /\ done > 0
    BY <1>1
<1>3. r \in Record /\ all[done] \in Record
    BY <1>1, <1>2
<1>4. r \in Run /\ all[done] \in Run
    BY <1>3, RecordType, Zenon
<1>5. all[done].start <= r.start
    BY <1>1 DEF Inv
<1> HIDE DEF r
<1>6. \/ Extends(r) /\ cur' = Extend(r) /\ UNCHANGED out
      \/ /\ ~Extends(r) /\ out' = Append(out, cur)
         /\ \/ ~Overlaps(r) /\ cur' = r
            \/ Overlaps(r) /\ r.end > cur.end /\ cur' = Remainder(r)
      \/ ~Extends(r) /\ Overlaps(r) /\ r.end <= cur.end /\ UNCHANGED <<cur, out>>
    BY Zenon DEF Merge, r
<1> QED
    BY <1>1, <1>2, <1>3, <1>4, <1>5, <1>6 DEF r

(* An open run that wraps around starts no later than the next record,     *)
(* which then neither extends nor overlaps it.                             *)
LEMMA WrappedIsClosed ==
    ASSUME Inv, Merge, NEW r, r = all[done + 1]
    PROVE  /\ cur.start <= cur.end \/ cur.start <= r.start
           /\ Extends(r) \/ Overlaps(r) => cur.start <= cur.end
<1>1. /\ r \in Run /\ cur \in Run /\ all[done].start <= r.start /\ done > 0 /\ done \in Nat
      /\ all \in Seq(Record) /\ done \in 1 .. Len(all)
    BY MergeCases DEF Inv, Merge
<1>2. /\ cur.start \in Int /\ cur.end \in Int /\ r.start \in Int
      /\ cur.start \in Address /\ r.start \in Address
    BY <1>1, RunType
<1>3. CASE cur.start <= cur.end
    BY <1>3
<1>4. CASE ~(cur.start <= cur.end)
  <2>1. cur = all[done]
      BY <1>1, <1>4 DEF Inv
  <2>2. cur \in Record /\ cur.start <= r.start
      BY <1>1, <2>1
  <2>3. cur.end + 1 # cur.start
      BY <2>2, RecordType
  <2>4. cur.end + 1 < r.start /\ cur.end < cur.start
      BY <1>2, <1>4, <2>2, <2>3
  <2>5. (cur.end + 1) % Size = cur.end + 1
      BY <1>1, <1>2, <2>4, NextAddress
  <2>6. ~Extends(r) /\ ~Overlaps(r)
      BY <1>2, <2>4, <2>5 DEF Extends, Overlaps
  <2> QED
      BY <2>2, <2>6
<1> QED
    BY <1>3, <1>4

(* Every round keeps the closed runs sorted and before the open one, and   *)
(* makes no run that wraps around.                                         *)
LEMMA NextInv == Inv /\ [Next]_vars => Inv'
<1> SUFFICES ASSUME Inv, [Next]_vars PROVE Inv'
    OBVIOUS
<1>1. CASE First
  <2>1. all[1] \in Record /\ all[1] \in Run /\ all \in Seq(Record) /\ 1 \in 0 .. Len(all)
    <3>1. all[1] \in Record /\ all \in Seq(Record) /\ 1 \in 0 .. Len(all)
        BY <1>1 DEF First, Inv
    <3> QED
        BY <3>1, RecordType
  <2>2. out = <<>> /\ Len(out) = 0 /\ out' = out /\ all' = all /\ done' = 1 /\ cur' = all[1]
      BY <1>1 DEF First, Inv
  <2>3. NoneWraps' => cur'.start <= cur'.end
      BY <2>2 DEF NoneWraps
  <2>4. \A i \in 1 .. Len(all) - 1 : all[i].start <= all[i + 1].start
      BY DEF Inv
  <2> QED
      BY <2>1, <2>2, <2>3, <2>4 DEF Inv
<1>2. CASE Merge
  <2>1. PICK r : r = all[done + 1]
      OBVIOUS
  <2>2. /\ r \in Run /\ done \in Nat /\ done > 0 /\ cur \in Run
        /\ all' = all /\ done' = done + 1 /\ done' \in 0 .. Len(all)
      BY <1>2, <2>1, MergeCases
  <2>3. \/ Extends(r) /\ cur' = Extend(r) /\ UNCHANGED out
        \/ ~Overlaps(r) /\ out' = Append(out, cur) /\ cur' = r
        \/ Overlaps(r) /\ r.end > cur.end /\ out' = Append(out, cur) /\ cur' = Remainder(r)
        \/ Overlaps(r) /\ UNCHANGED <<cur, out>>
      BY <1>2, <2>1, MergeCases
  <2>4. /\ cur.start <= cur.end \/ cur.start <= r.start
        /\ Extends(r) \/ Overlaps(r) => cur.start <= cur.end
      BY <1>2, <2>1, WrappedIsClosed
  <2>5. /\ cur.start \in Int /\ cur.end \in Int /\ r.start \in Int /\ r.end \in Int
      BY <2>2, RunType
  <2>6. NoneWraps' => NoneWraps /\ r.start <= r.end
    <3>1. done + 1 \in 1 .. done' /\ \A i \in 1 .. done : i \in 1 .. done'
        BY <2>2
    <3> QED
        BY <2>1, <2>2, <3>1 DEF NoneWraps
  <2>7. /\ all \in Seq(Record) /\ out \in Seq(Run)
        /\ \A i \in 1 .. Len(all) - 1 : all[i].start <= all[i + 1].start
        /\ \A i, j \in 1 .. Len(out) : i < j => out[i].end < out[j].start
        /\ \A i \in 1 .. Len(out) : out[i].end < cur.start
        /\ NoneWraps => /\ cur.start <= cur.end
                        /\ \A i \in 1 .. Len(out) : out[i].start <= out[i].end
      BY <2>2 DEF Inv
  <2>8. CASE cur' \in Run /\ cur'.start = cur.start /\ cur'.start <= cur'.end /\ UNCHANGED out
      BY <2>2, <2>6, <2>7, <2>8 DEF Inv
  <2>9. CASE /\ cur' \in Run /\ cur.end < cur'.start /\ cur.start <= cur'.start
             /\ cur' = r \/ cur'.start <= cur'.end
             /\ out' = Append(out, cur)
    <3>1. /\ out' \in Seq(Run)
          /\ \A i, j \in 1 .. Len(out') : i < j => out'[i].end < out'[j].start
          /\ \A i \in 1 .. Len(out') : out'[i].end < cur'.start
      <4>1. PICK c \in Run : c = cur'
          BY <2>9
      <4> QED
          BY <2>2, <2>9, <4>1, CloseKeepsSorted
    <3>2. /\ \A i \in 1 .. Len(out) : out'[i] = out[i]
          /\ out'[Len(out) + 1] = cur
          /\ \A i \in 1 .. Len(out') : i \in 1 .. Len(out) \/ i = Len(out) + 1
        BY <2>2, <2>9, Closed
    <3>3. NoneWraps' => /\ cur'.start <= cur'.end
                        /\ \A i \in 1 .. Len(out') : out'[i].start <= out'[i].end
        BY <2>6, <2>7, <2>9, <3>2
    <3>4. cur'.start <= cur'.end \/ cur' = all'[done']
        BY <2>1, <2>2, <2>9
    <3> QED
        BY <2>2, <2>7, <2>9, <3>1, <3>3, <3>4 DEF Inv
  <2>10. CASE Extends(r) /\ cur' = Extend(r) /\ UNCHANGED out
    <3>1. /\ Extend(r) \in Run /\ Extend(r).start = cur.start /\ Extend(r).end >= cur.end
          /\ Extend(r).end \in Int
        BY <2>2, Extended, RunType
    <3>2. Extend(r).start <= Extend(r).end
        BY <2>4, <2>5, <2>10, <3>1
    <3> QED
        BY <2>8, <2>10, <3>1, <3>2
  <2>11. CASE ~Overlaps(r) /\ out' = Append(out, cur) /\ cur' = r
    <3>1. cur.end < r.start /\ cur.start <= r.start
        BY <2>4, <2>5, <2>11 DEF Overlaps
    <3> QED
        BY <2>2, <2>9, <2>11, <3>1
  <2>12. CASE Overlaps(r) /\ r.end > cur.end /\ out' = Append(out, cur) /\ cur' = Remainder(r)
    <3>1. /\ Remainder(r) \in Run /\ Remainder(r).start = cur.end + 1
          /\ cur.end < Remainder(r).start /\ Remainder(r).start <= Remainder(r).end
        BY <2>2, <2>12, RemainderBehind
    <3>2. cur.start <= Remainder(r).start
        BY <2>4, <2>5, <2>12, <3>1
    <3> QED
        BY <2>9, <2>12, <3>1, <3>2
  <2>13. CASE Overlaps(r) /\ UNCHANGED <<cur, out>>
      BY <2>2, <2>4, <2>8, <2>13
  <2> QED
      BY <2>3, <2>10, <2>11, <2>12, <2>13
<1>3. CASE UNCHANGED vars
  <2>1. UNCHANGED <<all, done, cur, out>>
      BY <1>3 DEF vars
  <2>2. NoneWraps' = NoneWraps
      BY <2>1 DEF NoneWraps
  <2> QED
      BY <2>1, <2>2 DEF Inv
<1> QED
    BY <1>1, <1>2, <1>3 DEF Next

(* The table is the closed runs with the open one at their end.            *)
LEMMA TableIs ==
    ASSUME Inv, done # 0
    PROVE  /\ cur \in Run /\ out \in Seq(Run) /\ Len(out) \in Nat
           /\ Table \in Seq(Run) /\ Len(Table) = Len(out) + 1
           /\ \A i \in 1 .. Len(out) : Table[i] = out[i] /\ out[i] \in Run
           /\ Table[Len(out) + 1] = cur
           /\ \A i \in 1 .. Len(Table) : i \in 1 .. Len(out) \/ i = Len(out) + 1
<1>1. cur \in Run /\ out \in Seq(Run) /\ Len(out) \in Nat
    BY DEF Inv
<1>2. Table = Append(out, cur)
    BY DEF Table
<1> QED
    BY <1>1, <1>2

(* Any two runs of the table are in order, and none wraps around unless a  *)
(* record does.                                                            *)
LEMMA TableOrder ==
    ASSUME Inv
    PROVE  /\ \A i \in 1 .. Len(Table) : Table[i] \in Run
           /\ \A i, j \in 1 .. Len(Table) : i < j => Table[i].end < Table[j].start
           /\ NoneWraps => \A i \in 1 .. Len(Table) : Table[i].start <= Table[i].end
           /\ Len(Table) \in Nat
<1>1. CASE done = 0
  <2>1. 1 .. Len(Table) = {} /\ Len(Table) \in Nat
      BY <1>1 DEF Table
  <2> QED
      BY <2>1
<1>2. CASE done # 0
  <2>1. /\ cur \in Run /\ out \in Seq(Run) /\ Len(out) \in Nat
        /\ Table \in Seq(Run) /\ Len(Table) = Len(out) + 1
        /\ \A i \in 1 .. Len(out) : Table[i] = out[i] /\ out[i] \in Run
        /\ Table[Len(out) + 1] = cur
        /\ \A i \in 1 .. Len(Table) : i \in 1 .. Len(out) \/ i = Len(out) + 1
      BY <1>2, TableIs
  <2>2. ASSUME NEW i \in 1 .. Len(Table), NEW j \in 1 .. Len(Table), i < j
        PROVE  Table[i].end < Table[j].start
    <3>1. i \in 1 .. Len(out)
        BY <2>1, <2>2
    <3>2. CASE j \in 1 .. Len(out)
        BY <2>1, <2>2, <3>1, <3>2 DEF Inv
    <3>3. CASE j = Len(out) + 1
        BY <2>1, <3>1, <3>3 DEF Inv
    <3> QED
        BY <2>1, <3>2, <3>3
  <2>3. ASSUME NoneWraps, NEW i \in 1 .. Len(Table) PROVE Table[i].start <= Table[i].end
    <3>1. /\ cur.start <= cur.end
          /\ \A k \in 1 .. Len(out) : out[k].start <= out[k].end
        BY <1>2, <2>3 DEF Inv
    <3> QED
        BY <2>1, <3>1
  <2> QED
      BY <2>1, <2>2, <2>3
<1> QED
    BY <1>1, <1>2

(* So the table is strictly sorted.                                        *)
LEMMA InvSorted == Inv => StrictlySorted
BY TableOrder DEF StrictlySorted

(***************************************************************************)
(* The table is minimal.                                                   *)
(***************************************************************************)

(* A record of the country of the open run that does not extend it starts  *)
(* after a gap.                                                            *)
LEMMA GapBehind ==
    ASSUME cur \in Run, NEW r \in Run, ~Extends(r), r.cc = cur.cc,
           NEW t \in Address, t > cur.end
    PROVE  cur.end + 1 < r.start
<1>1. (cur.end + 1) % Size = cur.end + 1
    BY NextAddress
<1>2. ~(r.start <= cur.end + 1)
    BY <1>1 DEF Extends
<1> QED
    BY <1>2, RunType

(* Closing the run before another that does not continue it keeps them     *)
(* apart.                                                                  *)
LEMMA CloseKeepsApart ==
    ASSUME Inv, Apart, done > 0, out' = Append(out, cur), NEW r \in Run, cur' = r,
           cur.cc = r.cc => cur.end + 1 < r.start
    PROVE  Apart'
<1>1. /\ Len(out) \in Nat /\ Len(out') = Len(out) + 1
      /\ \A i \in 1 .. Len(out) : out'[i] = out[i]
      /\ out'[Len(out) + 1] = cur
    BY Closed
<1>2. ASSUME NEW i \in 1 .. Len(out') - 1, out'[i].cc = out'[i + 1].cc
      PROVE  out'[i].end + 1 < out'[i + 1].start
  <2>1. i \in 1 .. Len(out)
      BY <1>1
  <2>2. CASE i = Len(out)
      BY <1>1, <1>2, <2>1, <2>2 DEF Apart
  <2>3. CASE i # Len(out)
    <3>1. i \in 1 .. Len(out) - 1 /\ i + 1 \in 1 .. Len(out)
        BY <1>1, <2>1, <2>3
    <3> QED
        BY <1>1, <1>2, <2>1, <3>1 DEF Apart
  <2> QED
      BY <2>2, <2>3
<1>3. out'[Len(out')] = cur
    BY <1>1
<1> QED
    BY <1>2, <1>3 DEF Apart

(* Every round keeps runs of one country apart.                            *)
LEMMA NextApart == Inv /\ Apart /\ [Next]_vars => Apart'
<1> SUFFICES ASSUME Inv, Apart, [Next]_vars PROVE Apart'
    OBVIOUS
<1>1. CASE First
  <2>1. out' = <<>> /\ Len(out') = 0
      BY <1>1 DEF First, Inv
  <2> QED
      BY <2>1 DEF Apart
<1>2. CASE Merge
  <2> DEFINE r == all[done + 1]
  <2>1. r \in Run /\ done > 0 /\ cur \in Run
      BY <1>2, MergeCases
  <2>2. \/ cur' = Extend(r) /\ UNCHANGED out
        \/ ~Extends(r) /\ ~Overlaps(r) /\ out' = Append(out, cur) /\ cur' = r
        \/ /\ ~Extends(r) /\ Overlaps(r) /\ r.end > cur.end
           /\ out' = Append(out, cur) /\ cur' = Remainder(r)
        \/ UNCHANGED <<cur, out>>
      BY <1>2, MergeCases
  <2> HIDE DEF r
  <2>3. CASE cur' = Extend(r) /\ UNCHANGED out
      BY <2>1, <2>3, Extended DEF Apart
  <2>4. CASE ~Extends(r) /\ ~Overlaps(r) /\ out' = Append(out, cur) /\ cur' = r
    <3>1. r.start > cur.end /\ r.start \in Address
        BY <2>1, <2>4, RunType DEF Overlaps
    <3>2. cur.cc = r.cc => cur.end + 1 < r.start
        BY <2>1, <2>4, <3>1, GapBehind
    <3> QED
        BY <2>1, <2>4, <3>2, CloseKeepsApart
  <2>5. CASE /\ ~Extends(r) /\ Overlaps(r) /\ r.end > cur.end
             /\ out' = Append(out, cur) /\ cur' = Remainder(r)
    <3>1. cur.cc # r.cc
      <4>1. r.start <= cur.end
          BY <2>5 DEF Overlaps
      <4>2. ~(cur.end + 1 < r.start)
          BY <4>1, <2>1, RunType
      <4>3. r.end > cur.end /\ r.end \in Address
          BY <2>1, <2>5, RunType
      <4> QED
          BY <4>2, <4>3, <2>1, <2>5, GapBehind
    <3>2. Remainder(r) \in Run /\ Remainder(r).cc = r.cc
        BY <2>1, <2>5, RemainderBehind
    <3> QED
        BY <2>1, <2>5, <3>1, <3>2, CloseKeepsApart
  <2>6. CASE UNCHANGED <<cur, out>>
      BY <2>6 DEF Apart
  <2> QED
      BY <2>2, <2>3, <2>4, <2>5, <2>6
<1>3. CASE UNCHANGED vars
    BY <1>3 DEF vars, Apart
<1> QED
    BY <1>1, <1>2, <1>3 DEF Next

(* So no two ranges of the table could be one.                             *)
LEMMA InvMinimal == Inv /\ Apart => Minimal
<1> SUFFICES ASSUME Inv, Apart, NEW i \in 1 .. Len(Table) - 1, Table[i].cc = Table[i + 1].cc
             PROVE  Table[i].end + 1 < Table[i + 1].start
    BY DEF Minimal
<1>1. done # 0
    BY DEF Table
<1>2. /\ Len(out) \in Nat /\ Len(Table) = Len(out) + 1
      /\ \A k \in 1 .. Len(out) : Table[k] = out[k]
      /\ Table[Len(out) + 1] = cur
    BY <1>1, TableIs
<1>3. CASE i = Len(out)
    BY <1>2, <1>3 DEF Apart
<1>4. CASE i # Len(out)
  <2>1. i \in 1 .. Len(out) - 1 /\ i \in 1 .. Len(out) /\ i + 1 \in 1 .. Len(out)
      BY <1>2, <1>4
  <2> QED
      BY <1>2, <2>1 DEF Apart
<1> QED
    BY <1>3, <1>4

(***************************************************************************)
(* A lookup finds the first claim.                                         *)
(***************************************************************************)

(* A round in which the runs keep what they cover, gain what the record    *)
(* adds beyond the open run, and gain nothing else.                        *)
LEMMA ClaimsKept ==
    ASSUME Inv, ClaimInv, done \in Nat, done > 0, NEW r, r = all[done + 1], r \in Run,
           cur \in Run, cur' \in Run, all[done] \in Run, all[done].start <= r.start,
           all' = all, done' = done + 1, \A i \in 1 .. done : all[i] \in Run,
           \A c \in Runs', t \in Address : Covers(c, t) =>
              \/ \E d \in Runs : Covers(d, t) /\ d.cc = c.cc
              \/ Covers(r, t) /\ t > cur.end /\ c.cc = r.cc,
           \A d \in Runs, t \in Address : Covers(d, t) => \E c \in Runs' : Covers(c, t),
           \A t \in Address : Covers(r, t) /\ t > cur.end => \E c \in Runs' : Covers(c, t),
           cur'.end = cur.end \/ cur'.end = r.end, cur.start <= cur.end \/ cur.start <= r.start,
           \A x \in Int : x <= cur.end \/ x < cur.start => x <= cur'.end \/ x < cur'.start,
           r.end <= cur'.end
    PROVE  ClaimInv'
<1>1. /\ \A i \in 1 .. done : all[i].end <= cur.end \/ all[i].end < cur.start
      /\ \A c \in Runs, t \in Address : Covers(c, t) =>
            \E i \in 1 .. done : Claims(i, t) /\ all[i].cc = c.cc
      /\ \A i \in 1 .. done, t \in Address : Covers(all[i], t) => \E c \in Runs : Covers(c, t)
      /\ \A t \in Address : all[done].start <= t /\ t <= cur.end => \E c \in Runs : Covers(c, t)
    BY DEF ClaimInv
<1>2. /\ \A i \in 1 .. done' : i \in 1 .. done \/ i = done + 1
      /\ \A i \in 1 .. done : i \in 1 .. done'
      /\ done + 1 \in 1 .. done' /\ (done + 1) - 1 = done
    OBVIOUS
<1>3. \A t \in Address : t \in Int
    BY DEF Address
<1>4. /\ cur.start \in Int /\ cur.end \in Int /\ cur'.end \in Int /\ r.start \in Int /\ r.end \in Int
      /\ all[done].start \in Int /\ \A i \in 1 .. done : all[i].end \in Int
    BY RunType
<1>5. \A i \in 1 .. done' : all'[i].end <= cur'.end \/ all'[i].end < cur'.start
  <2> TAKE i \in 1 .. done'
  <2>1. CASE i \in 1 .. done
      BY <2>1, <1>1, <1>4
  <2>2. CASE i = done + 1
      BY <2>2
  <2> QED
      BY <2>1, <2>2, <1>2
<1>6. \A i, t : Claims(i, t)' <=> Claims(i, t)
    BY DEF Claims, Covers
<1>7. ASSUME NEW t \in Address, Covers(r, t), t > cur.end
      PROVE  Claims(done + 1, t)
  <2>1. t \in Int /\ r.start <= t /\ cur.end < t /\ cur.start <= t
      BY <1>3, <1>4, <1>7 DEF Covers
  <2>2. \A j \in 1 .. done : ~(t <= all[j].end)
      BY <1>1, <1>4, <2>1
  <2> QED
      BY <2>2, <1>2, <1>7 DEF Claims, Covers
<1>8. ASSUME NEW c \in Runs', NEW t \in Address, Covers(c, t)
      PROVE  \E i \in 1 .. done' : Claims(i, t) /\ all[i].cc = c.cc
  <2>1. CASE \E d \in Runs : Covers(d, t) /\ d.cc = c.cc
    <3>1. PICK d \in Runs : Covers(d, t) /\ d.cc = c.cc
        BY <2>1
    <3>2. PICK i \in 1 .. done : Claims(i, t) /\ all[i].cc = d.cc
        BY <3>1, <1>1
    <3> QED
        BY <3>1, <3>2, <1>2
  <2>2. CASE Covers(r, t) /\ t > cur.end /\ c.cc = r.cc
      BY <2>2, <1>2, <1>7, Zenon
  <2> QED
      BY <1>8, <2>1, <2>2
<1>9. ASSUME NEW t \in Address, r.start <= t, t <= cur'.end
      PROVE  \E c \in Runs' : Covers(c, t)
  <2>1. CASE t <= cur.end
    <3>1. all[done].start <= t
        BY <1>3, <1>4, <1>9
    <3>2. \E d \in Runs : Covers(d, t)
        BY <3>1, <2>1, <1>1
    <3> QED
        BY <3>2
  <2>2. CASE t > cur.end
    <3>1. Covers(r, t)
        BY <2>2, <1>3, <1>4, <1>9 DEF Covers
    <3> QED
        BY <3>1, <2>2
  <2> QED
      BY <2>1, <2>2, <1>3, <1>4
<1>10. ASSUME NEW i \in 1 .. done', NEW t \in Address, Covers(all[i], t)
       PROVE  \E c \in Runs' : Covers(c, t)
  <2>1. CASE i \in 1 .. done
    <3>1. \E d \in Runs : Covers(d, t)
        BY <2>1, <1>1, <1>10
    <3> QED
        BY <3>1
  <2>2. CASE i = done + 1
    <3>1. r.start <= t /\ t <= cur'.end
        BY <2>2, <1>3, <1>4, <1>10 DEF Covers
    <3> QED
        BY <3>1, <1>9
  <2> QED
      BY <2>1, <2>2, <1>2
<1>11. all'[done'] = r
    OBVIOUS
<1> QED
    BY SMTT(30), <1>5, <1>6, <1>8, <1>9, <1>10, <1>11 DEF ClaimInv

(* Extending the open run.                                                 *)
LEMMA ExtendKeepsClaims ==
    ASSUME Inv, ClaimInv, Merge, NEW r, r = all[done + 1], Extends(r),
           cur' = Extend(r), UNCHANGED out
    PROVE  ClaimInv'
<1>1. /\ r \in Run /\ done \in Nat /\ done > 0 /\ cur \in Run
      /\ all' = all /\ done' = done + 1
      /\ all[done] \in Run /\ all[done].start <= r.start
      /\ \A i \in 1 .. done : all[i] \in Run
  <2>1. \A i \in 1 .. done : all[i] \in Record
      BY DEF Inv
  <2>2. \A i \in 1 .. done : all[i] \in Run
      BY <2>1, RecordType, Zenon
  <2> QED
      BY <2>2, MergeCases
<1>2. /\ Extend(r) \in Run /\ Extend(r).start = cur.start /\ Extend(r).cc = cur.cc
      /\ Extend(r).end = IF r.end > cur.end THEN r.end ELSE cur.end
    BY <1>1, Extended
<1>3. /\ cur.start \in Int /\ cur.end \in Int /\ r.start \in Int /\ r.end \in Int
      /\ cur.start <= cur.end
    BY <1>1, RunType, WrappedIsClosed
<1>4. r.cc = cur.cc /\ r.start <= (cur.end + 1) % Size
    BY DEF Extends
<1>5. \A c \in Runs' : c \in Runs \/ c = Extend(r)
    BY DEF Runs
<1>6. \A d \in Runs : d \in Runs' \/ d = cur
    BY DEF Runs
<1>7. Extend(r) \in Runs' /\ cur \in Runs
    BY DEF Runs
<1>8. ASSUME NEW t \in Address, Covers(Extend(r), t)
      PROVE  Covers(cur, t) \/ (Covers(r, t) /\ t > cur.end)
  <2>1. t \in Int
      BY DEF Address
  <2>2. CASE t <= cur.end
      BY <2>1, <2>2, <1>2, <1>8 DEF Covers
  <2>3. CASE t > cur.end
    <3>1. (cur.end + 1) % Size = cur.end + 1
        BY <2>3, <1>1, NextAddress
    <3>2. r.start <= t /\ t <= r.end
        BY <3>1, <2>1, <2>3, <1>2, <1>3, <1>4, <1>8 DEF Covers
    <3> QED
        BY <3>2, <2>3 DEF Covers
  <2> QED
      BY <2>1, <2>2, <2>3, <1>3
<1>9. ASSUME NEW t \in Address, Covers(cur, t) \/ (Covers(r, t) /\ t > cur.end)
      PROVE  Covers(Extend(r), t)
  <2>1. t \in Int
      BY DEF Address
  <2> QED
      BY <2>1, <1>2, <1>3, <1>9 DEF Covers
<1>10. \A c \in Runs', t \in Address : Covers(c, t) =>
          \/ \E d \in Runs : Covers(d, t) /\ d.cc = c.cc
          \/ Covers(r, t) /\ t > cur.end /\ c.cc = r.cc
    BY <1>2, <1>4, <1>5, <1>7, <1>8
<1>11. \A d \in Runs, t \in Address : Covers(d, t) => \E c \in Runs' : Covers(c, t)
    BY <1>6, <1>7, <1>9
<1>12. \A t \in Address : Covers(r, t) /\ t > cur.end => \E c \in Runs' : Covers(c, t)
    BY <1>7, <1>9
<1>13. /\ cur'.end = cur.end \/ cur'.end = r.end
       /\ \A x \in Int : x <= cur.end \/ x < cur.start => x <= cur'.end \/ x < cur'.start
       /\ r.end <= cur'.end
    BY <1>2, <1>3
<1> QED
    BY SMTT(30), <1>1, <1>2, <1>3, <1>10, <1>11, <1>12, <1>13, ClaimsKept

(* Closing it before a run that covers what the record adds.               *)
LEMMA CloseKeepsClaims ==
    ASSUME Inv, ClaimInv, Merge, NEW r, r = all[done + 1], out' = Append(out, cur),
           cur' \in Run, cur'.end = r.end, cur'.cc = r.cc,
           cur.end < cur'.start, cur.start <= cur'.start,
           \A t \in Address : Covers(cur', t) <=> Covers(r, t) /\ t > cur.end
    PROVE  ClaimInv'
<1>1. /\ r \in Run /\ done \in Nat /\ done > 0 /\ cur \in Run
      /\ all' = all /\ done' = done + 1
      /\ all[done] \in Run /\ all[done].start <= r.start
      /\ \A i \in 1 .. done : all[i] \in Run
  <2>1. \A i \in 1 .. done : all[i] \in Record
      BY DEF Inv
  <2>2. \A i \in 1 .. done : all[i] \in Run
      BY <2>1, RecordType, Zenon
  <2> QED
      BY <2>2, MergeCases
<1>2. /\ Len(out) \in Nat /\ Len(out') = Len(out) + 1
      /\ \A i \in 1 .. Len(out) : out'[i] = out[i]
      /\ out'[Len(out) + 1] = cur
    BY <1>1, Closed
<1>3. Runs' = Runs \cup {cur'}
  <2>1. 1 .. Len(out') = (1 .. Len(out)) \cup {Len(out) + 1}
      BY <1>2
  <2>2. {out'[k] : k \in 1 .. Len(out')} = {out[k] : k \in 1 .. Len(out)} \cup {cur}
      BY <1>2, <2>1
  <2> QED
      BY <2>2 DEF Runs
<1>4. \A c \in Runs', t \in Address : Covers(c, t) =>
          \/ \E d \in Runs : Covers(d, t) /\ d.cc = c.cc
          \/ Covers(r, t) /\ t > cur.end /\ c.cc = r.cc
    BY <1>3
<1>5. \A d \in Runs, t \in Address : Covers(d, t) => \E c \in Runs' : Covers(c, t)
    BY <1>3
<1>6. \A t \in Address : Covers(r, t) /\ t > cur.end => \E c \in Runs' : Covers(c, t)
    BY <1>3
<1>7. /\ cur.start \in Int /\ cur.end \in Int /\ cur'.start \in Int /\ r.end \in Int
    BY <1>1, RunType
<1>8. /\ \A x \in Int : x <= cur.end \/ x < cur.start => x <= cur'.end \/ x < cur'.start
      /\ r.end <= cur'.end
    BY <1>7
<1>9. cur.start <= cur.end \/ cur.start <= r.start
    BY WrappedIsClosed
<1> QED
    BY SMTT(30), <1>1, <1>4, <1>5, <1>6, <1>8, <1>9, ClaimsKept

(* Every round keeps the runs true to the first claims.                    *)
LEMMA NextClaimInv == Inv /\ ClaimInv /\ [Next]_vars => ClaimInv'
<1> SUFFICES ASSUME Inv, ClaimInv, [Next]_vars PROVE ClaimInv'
    OBVIOUS
<1>1. CASE First
  <2>1. all' = all /\ done' = 1 /\ cur' = all[1] /\ all[1] \in Run
    <3>1. all[1] \in Record
        BY <1>1 DEF First, Inv
    <3> QED
        BY <1>1, <3>1, RecordType DEF First
  <2>2. Runs' = {all[1]}
      BY <1>1 DEF First, Inv, Runs
  <2>3. \A t : Claims(1, t)' <=> Covers(all[1], t)
      BY <2>1 DEF Claims, Covers
  <2>4. 1 .. done' = {1}
      BY <2>1
  <2>5. all'[1] = all[1] /\ all'[done'] = all[1] /\ all[1].end <= all[1].end
      BY <2>1, RunType
  <2> QED
      BY <2>1, <2>2, <2>3, <2>4, <2>5 DEF ClaimInv, Covers
<1>2. CASE Merge
  <2>1. PICK r : r = all[done + 1]
      OBVIOUS
  <2>2. /\ r \in Run /\ done \in Nat /\ done > 0 /\ cur \in Run
        /\ all' = all /\ done' = done + 1
        /\ all[done] \in Run /\ all[done].start <= r.start
        /\ \A i \in 1 .. done : all[i] \in Run
    <3>1. \A i \in 1 .. done : all[i] \in Record
        BY DEF Inv
    <3>2. \A i \in 1 .. done : all[i] \in Run
        BY <3>1, RecordType, Zenon
    <3> QED
        BY <1>2, <2>1, <3>2, MergeCases
  <2>3. \/ Extends(r) /\ cur' = Extend(r) /\ UNCHANGED out
        \/ ~Overlaps(r) /\ out' = Append(out, cur) /\ cur' = r
        \/ Overlaps(r) /\ r.end > cur.end /\ out' = Append(out, cur) /\ cur' = Remainder(r)
        \/ r.end <= cur.end /\ UNCHANGED <<cur, out>>
      BY <1>2, <2>1, MergeCases
  <2>4. /\ cur.start \in Int /\ cur.end \in Int /\ r.start \in Int /\ r.end \in Int
        /\ \A t \in Address : t \in Int
      BY <2>2, RunType, GeoAssumption DEF Address
  <2>5. /\ cur.start <= cur.end \/ cur.start <= r.start
        /\ Extends(r) \/ Overlaps(r) => cur.start <= cur.end
      BY <1>2, <2>1, WrappedIsClosed
  <2>6. CASE Extends(r) /\ cur' = Extend(r) /\ UNCHANGED out
      BY <1>2, <2>1, <2>6, ExtendKeepsClaims
  <2>7. CASE ~Overlaps(r) /\ out' = Append(out, cur) /\ cur' = r
    <3>1. r.start > cur.end /\ cur.start <= r.start
        BY <2>4, <2>5, <2>7 DEF Overlaps
    <3>2. \A t \in Address : Covers(cur', t) <=> Covers(r, t) /\ t > cur.end
        BY <2>4, <2>7, <3>1 DEF Covers
    <3> QED
        BY <1>2, <2>1, <2>2, <2>4, <2>7, <3>1, <3>2, CloseKeepsClaims
  <2>8. CASE Overlaps(r) /\ r.end > cur.end /\ out' = Append(out, cur) /\ cur' = Remainder(r)
    <3>1. /\ cur' \in Run /\ cur'.start = cur.end + 1 /\ cur.end < cur'.start
          /\ cur'.end = r.end /\ cur'.cc = r.cc
        BY <2>2, <2>8, RemainderBehind
    <3>2. r.start <= cur.end /\ cur.start <= cur'.start
        BY <2>4, <2>5, <2>8, <3>1 DEF Overlaps
    <3>3. \A t \in Address : Covers(cur', t) <=> Covers(r, t) /\ t > cur.end
        BY <2>4, <3>1, <3>2 DEF Covers
    <3> QED
        BY <1>2, <2>1, <2>8, <3>1, <3>2, <3>3, CloseKeepsClaims
  <2>9. CASE r.end <= cur.end /\ UNCHANGED <<cur, out>>
    <3>1. Runs' = Runs /\ cur' = cur
        BY <2>9 DEF Runs
    <3>2. \A t \in Address : ~(Covers(r, t) /\ t > cur.end)
        BY <2>4, <2>9 DEF Covers
    <3>3. /\ cur'.end = cur.end /\ r.end <= cur'.end
          /\ \A x \in Int : x <= cur.end \/ x < cur.start => x <= cur'.end \/ x < cur'.start
        BY <3>1, <2>9
    <3> QED
        BY SMTT(30), <2>1, <2>2, <2>5, <3>1, <3>2, <3>3, ClaimsKept
  <2> QED
      BY <2>3, <2>6, <2>7, <2>8, <2>9
<1>3. CASE UNCHANGED vars
    BY SMTT(30), <1>3 DEF vars, ClaimInv, Runs, Claims, Covers
<1> QED
    BY <1>1, <1>2, <1>3 DEF Next

(* A range the search ends with contains the address, unless it starts     *)
(* behind it.  When none wraps around, no other range contains it: those   *)
(* before end before the address, those behind start after it.             *)
LEMMA SearchFinds ==
    ASSUME Inv, NEW t \in Address, NEW i \in Search(t)
    PROVE  /\ i <= Len(Table) => i \in 1 .. Len(Table) /\ t <= Table[i].end
           /\ NoneWraps => \A k \in 1 .. Len(Table) : Covers(Table[k], t) => k = i
<1>1. /\ \A k \in 1 .. Len(Table) : Table[k] \in Run
      /\ \A k, j \in 1 .. Len(Table) : k < j => Table[k].end < Table[j].start
      /\ NoneWraps => \A k \in 1 .. Len(Table) : Table[k].start <= Table[k].end
      /\ Len(Table) \in Nat
    BY TableOrder
<1>2. t \in Int /\ \A k \in 1 .. Len(Table) : Table[k].start \in Int /\ Table[k].end \in Int
    BY <1>1, RunType, GeoAssumption DEF Address
<1>3. /\ i \in 1 .. Len(Table) + 1
      /\ i <= Len(Table) => Table[i].end >= t
      /\ i > 1 => Table[i - 1].end < t
    BY DEF Search
<1>4. i <= Len(Table) => i \in 1 .. Len(Table) /\ t <= Table[i].end
    BY <1>1, <1>2, <1>3
<1>5. ASSUME NoneWraps, NEW k \in 1 .. Len(Table), Covers(Table[k], t)
      PROVE  k = i
  <2>1. Table[k].start <= t /\ t <= Table[k].end
      BY <1>5 DEF Covers
  <2>2. CASE k > i
    <3>1. i \in 1 .. Len(Table) /\ i < k
        BY <1>1, <1>3, <2>2
    <3>2. Table[i].end < Table[k].start /\ t <= Table[i].end
        BY <1>1, <1>4, <3>1
    <3> QED
        BY <1>2, <2>1, <3>1, <3>2
  <2>3. CASE k < i
    <3>1. PICK j \in 1 .. Len(Table) : j = i - 1 /\ k <= j
        BY <1>1, <1>3, <2>3
    <3>2. Table[j].end < t
        BY <1>1, <1>3, <2>3, <3>1
    <3>3. Table[k].end <= Table[j].end
      <4>1. CASE k = j
          BY <1>2, <4>1
      <4>2. CASE k < j
        <5>1. Table[k].end < Table[j].start /\ Table[j].start <= Table[j].end
            BY <1>1, <1>5, <4>2
        <5> QED
            BY <1>2, <5>1
      <4> QED
          BY <3>1, <4>1, <4>2
    <3> QED
        BY <1>2, <2>1, <3>2, <3>3
  <2> QED
      BY <1>1, <1>3, <2>2, <2>3
<1> QED
    BY <1>4, <1>5

(* The reference finds the first claim.                                    *)
LEMMA FirstClaimFinds ==
    ASSUME Inv, NEW t \in Address, NEW k \in 1 .. done, Claims(k, t)
    PROVE  FirstClaim(t) = all[k].cc
<1> DEFINE s == SubSeq(all, 1, done)
           I == {i \in 1 .. Len(s) : s[i].start <= t /\ t <= s[i].end}
<1>1. all \in Seq(Record) /\ done \in 0 .. Len(all)
    BY DEF Inv
<1>2. Len(s) = done /\ \A i \in 1 .. done : s[i] = all[i]
    BY <1>1
<1>3. k \in I
    BY <1>2, Zenon DEF Claims, Covers
<1>4. \A i \in I : i \in 1 .. done /\ Covers(all[i], t)
    BY <1>2, Zenon DEF Covers
<1>5. \A i \in I : ~(i < k)
    BY <1>1, <1>4 DEF Claims
<1>6. I # {} /\ Min(I) > 0 => FirstClaim(t) = all[Min(I)].cc
    BY Zenon DEF FirstClaim, SelectInSeq
<1>7. I \in SUBSET Nat
    OBVIOUS
<1> HIDE DEF I
<1>8. Min(I) \in I /\ \A y \in I : Min(I) <= y
    BY <1>3, <1>7, LeastPosition
<1>9. Min(I) = k
  <2>1. Min(I) \in Nat /\ k \in Nat
      BY <1>3, <1>7, <1>8, Zenon
  <2>2. Min(I) <= k /\ ~(Min(I) < k)
      BY <1>3, <1>5, <1>8, Zenon
  <2> QED
      BY <2>1, <2>2
<1>10. I # {} /\ k > 0
    BY <1>1, <1>3
<1> QED
    BY <1>6, <1>9, <1>10

(* Or nothing, when no record contains the address.                        *)
LEMMA FirstClaimMisses ==
    ASSUME Inv, NEW t \in Address, \A k \in 1 .. done : ~Covers(all[k], t)
    PROVE  FirstClaim(t) = ""
<1> DEFINE s == SubSeq(all, 1, done)
           I == {i \in 1 .. Len(s) : s[i].start <= t /\ t <= s[i].end}
<1>1. all \in Seq(Record) /\ done \in 0 .. Len(all)
    BY DEF Inv
<1>2. Len(s) = done /\ \A i \in 1 .. done : s[i] = all[i]
    BY <1>1
<1>3. I = {}
    BY <1>2, Zenon DEF Covers
<1>4. PICK f : f = SelectInSeq(s, LAMBDA r : r.start <= t /\ t <= r.end)
    BY Zenon
<1>5. ~(f > 0) => FirstClaim(t) = ""
    BY <1>4 DEF FirstClaim
<1>6. f = 0
    BY <1>3, <1>4, Zenon DEF SelectInSeq
<1>7. ~(f > 0)
    BY <1>6
<1> QED
    BY <1>5, <1>7, Zenon

(* So the two agree.                                                       *)
LEMMA InvLookup == Inv /\ ClaimInv => LookupIsFirstClaim
<1> SUFFICES ASSUME Inv, ClaimInv, NEW t \in Address, NEW i \in Search(t)
             PROVE  /\ CountryForIP(t, i) \in {FirstClaim(t), ""}
                    /\ NoneWraps => CountryForIP(t, i) = FirstClaim(t)
    BY DEF LookupIsFirstClaim
<1>1. CASE done = 0
  <2>1. Len(Table) = 0 /\ 1 .. done = {}
      BY <1>1 DEF Table
  <2>2. FirstClaim(t) = ""
      BY <2>1, FirstClaimMisses, Zenon
  <2>3. CountryForIP(t, i) = ""
      BY <2>1 DEF CountryForIP, Search
  <2> QED
      BY <2>2, <2>3, Zenon
<1>2. CASE done # 0
  <2>1. /\ Len(out) \in Nat /\ Len(Table) = Len(out) + 1
        /\ \A k \in 1 .. Len(out) : Table[k] = out[k]
        /\ Table[Len(out) + 1] = cur
      BY <1>2, TableIs
  <2>2. \A c \in Runs : \E k \in 1 .. Len(Table) : c = Table[k]
      BY <2>1 DEF Runs
  <2>3. \A k \in 1 .. Len(Table) : Table[k] \in Runs
    <3> TAKE k \in 1 .. Len(Table)
    <3>1. k \in 1 .. Len(out) \/ k = Len(out) + 1
        BY <2>1
    <3> QED
        BY <2>1, <3>1 DEF Runs
  <2>4. /\ \A c \in Runs : Covers(c, t) => \E k \in 1 .. done : Claims(k, t) /\ all[k].cc = c.cc
        /\ \A k \in 1 .. done : Covers(all[k], t) => \E c \in Runs : Covers(c, t)
      BY SMTT(30), <1>2 DEF ClaimInv, Inv
  <2>5. /\ i <= Len(Table) => i \in 1 .. Len(Table) /\ t <= Table[i].end
        /\ NoneWraps => \A k \in 1 .. Len(Table) : Covers(Table[k], t) => k = i
      BY SearchFinds
  <2>6. CASE i <= Len(Table) /\ Table[i].start <= t
    <3>1. i \in 1 .. Len(Table) /\ Covers(Table[i], t)
        BY <2>5, <2>6, Zenon DEF Covers
    <3>2. PICK k \in 1 .. done : Claims(k, t) /\ all[k].cc = Table[i].cc
        BY <2>3, <2>4, <3>1, Zenon
    <3>3. FirstClaim(t) = Table[i].cc
        BY <3>2, FirstClaimFinds, Zenon
    <3>4. CountryForIP(t, i) = Table[i].cc
        BY <2>6, Zenon DEF CountryForIP
    <3> QED
        BY <3>3, <3>4, Zenon
  <2>7. CASE ~(i <= Len(Table) /\ Table[i].start <= t)
    <3>1. CountryForIP(t, i) = ""
        BY <2>7, Zenon DEF CountryForIP
    <3>2. ASSUME NoneWraps PROVE FirstClaim(t) = ""
      <4>1. i \in 1 .. Len(Table) => i <= Len(Table)
          BY <2>1
      <4>2. \A k \in 1 .. Len(Table) : ~Covers(Table[k], t)
          BY <2>5, <2>7, <3>2, <4>1, Zenon DEF Covers
      <4>3. \A k \in 1 .. done : ~Covers(all[k], t)
          BY <2>2, <2>4, <4>2, Zenon
      <4> QED
          BY <4>3, FirstClaimMisses, Zenon
    <3> QED
        BY <3>1, <3>2, Zenon
  <2> QED
      BY <2>6, <2>7, Zenon
<1> QED
    BY <1>1, <1>2

(***************************************************************************)
(* The theorems.                                                           *)
(***************************************************************************)

(* The three parts of the invariant hold throughout the loop.              *)
LEMMA Invariance == Spec => [](Inv /\ Apart /\ ClaimInv)
<1>1. Init => Inv /\ Apart /\ ClaimInv
    BY InitInv
<1>2. Inv /\ Apart /\ ClaimInv /\ [Next]_vars => (Inv /\ Apart /\ ClaimInv)'
    BY NextInv, NextApart, NextClaimInv
<1> QED
    BY <1>1, <1>2, PTL DEF Spec

(* At every round of resolveOverlapsAndMergeAdjacent every range of the    *)
(* table ends before each later one starts, whatever the records; and when *)
(* no record wraps around no range is empty, so that the binary search of  *)
(* CountryForIP is sound.                                                  *)
THEOREM TableIsSorted == Spec => []StrictlySorted
BY Invariance, InvSorted, PTL

(* At every round consecutive ranges of one country have a gap between     *)
(* them: what the loop returns cannot be made shorter.                     *)
THEOREM TableIsMinimal == Spec => []Minimal
BY Invariance, InvMinimal, PTL

(* At every round, whatever the records, CountryForIP gives no other       *)
(* country than that of the first record, in the order of the stable sort, *)
(* that contains the address; when no record wraps around, it gives that   *)
(* country, and nothing for an address in no record.                       *)
THEOREM LookupsAreRight == Spec => []LookupIsFirstClaim
BY Invariance, InvLookup, PTL
=============================================================================
