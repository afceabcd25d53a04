----------------------------- MODULE GeoTable -----------------------------
(***************************************************************************)
(* The country table: tools/geoip-gen builds it from the registries'       *)
(* allocation records (main, parseDelegatedExtended,                       *)
(* resolveOverlapsAndMergeAdjacent), internal/geoip/geoip.go searches it.  *)
(*                                                                         *)
(* Addresses are unsigned integers below Size, and additions wrap around.  *)
(* A state is one round of the merge loop.                                 *)
(***************************************************************************)
EXTENDS Integers, Sequences, SequencesExt

CONSTANTS
    Size,           \* the number of addresses, 2^32 in the code
    Countries,      \* country codes
    MaxRecords      \* bound: records of all registries

ASSUME GeoAssumption == Size \in Nat \ {0} /\ MaxRecords \in Nat

Address == 0 .. Size - 1

Run == [start : Address, end : Address, cc : Countries]

(* A record as parseDelegatedExtended builds it, from a start and a count  *)
(* of at least 1.  Nothing keeps the two within the address space: the end *)
(* may wrap around and lie before the start.                               *)
Record ==
    {[start |-> s, end |-> (s + count - 1) % Size, cc |-> c] :
        s \in Address, count \in 1 .. Size - 1, c \in Countries}

None == [start |-> 0, end |-> 0, cc |-> ""]

VARIABLES
    all,        \* the records of all registries, sorted stably by start
    done,       \* how many of them the loop has merged
    cur,        \* the run being extended
    out         \* the runs already closed

vars == <<all, done, cur, out>>

TypeOK ==
    /\ all \in Seq(Record) /\ Len(all) <= MaxRecords
    /\ done \in 0 .. Len(all)
    /\ cur \in Run \cup {None}
    /\ out \in Seq(Run)

(* sort.SliceStable leaves the records in some order that is sorted by     *)
(* start; records with one start keep the order of their registries, which *)
(* may be any.                                                             *)
Init ==
    /\ \E n \in 0 .. MaxRecords : all \in [1 .. n -> Record]
    /\ \A i \in 1 .. Len(all) - 1 : all[i].start <= all[i + 1].start
    /\ done = 0 /\ cur = None /\ out = <<>>

-----------------------------------------------------------------------------
First ==
    /\ done = 0 /\ Len(all) > 0
    /\ done' = 1
    /\ cur' = all[1]
    /\ UNCHANGED <<all, out>>

(* Mutant: ranges that only touch are not merged.                          *)
ExtendsOverlapping(r) == r.cc = cur.cc /\ r.start <= cur.end

(* The case r.cc == cur.cc && r.start <= cur.end+1.                        *)
Extends(r) == r.cc = cur.cc /\ r.start <= (cur.end + 1) % Size

Overlaps(r) == r.start <= cur.end

(* Mutant: the later claim is kept whole.                                  *)
RemainderWhole(r) == r

(* What a conflicting claim keeps.                                         *)
Remainder(r) == [start |-> (cur.end + 1) % Size, end |-> r.end, cc |-> r.cc]

(* Mutant: the run takes the end of the last record.                       *)
ExtendToLast(r) == [cur EXCEPT !.end = r.end]

Extend(r) == [cur EXCEPT !.end = IF r.end > @ THEN r.end ELSE @]

(* One round of the loop.                                                  *)
Merge ==
    /\ done \in 1 .. Len(all) - 1
    /\ done' = done + 1
    /\ LET r == all[done + 1] IN
          \/ Extends(r) /\ cur' = Extend(r) /\ UNCHANGED out
          \/ ~Extends(r) /\ ~Overlaps(r) /\ out' = Append(out, cur) /\ cur' = r
          \/ /\ ~Extends(r) /\ Overlaps(r)
             /\ \/ r.end > cur.end /\ out' = Append(out, cur) /\ cur' = Remainder(r)
                \/ r.end <= cur.end /\ UNCHANGED <<cur, out>>
    /\ UNCHANGED all

Next == First \/ Merge

Spec == Init /\ [][Next]_vars

-----------------------------------------------------------------------------
(* What the loop would return now.                                         *)
Table == IF done = 0 THEN <<>> ELSE Append(out, cur)

(* sort.Search for a range that ends at the target or later: the indices   *)
(* the binary search may end with, whether or not the table is ordered by  *)
(* end.  The range before it, if any, ends before the target; the one      *)
(* behind the last stands for none.                                        *)
Search(target) ==
    {i \in 1 .. Len(Table) + 1 :
        /\ i <= Len(Table) => Table[i].end >= target
        /\ i > 1 => Table[i - 1].end < target}

(* CountryForIP of the table, when the search ends with i; "" stands for   *)
(* not ok.                                                                 *)
CountryForIP(target, i) ==
    IF i <= Len(Table) /\ Table[i].start <= target THEN Table[i].cc ELSE ""

(* The reference: the first of the records read so far that contains the   *)
(* address decides.  One that wraps around contains none.                  *)
FirstClaim(target) ==
    LET i == SelectInSeq(SubSeq(all, 1, done), LAMBDA r : r.start <= target /\ target <= r.end)
    IN  IF i > 0 THEN all[i].cc ELSE ""

(* No record read so far wraps around.                                     *)
NoneWraps == \A i \in 1 .. done : all[i].start <= all[i].end

(* At every round every range of the table ends before each later one      *)
(* starts, whatever the records; and when none wraps around, no range is   *)
(* empty either, so that the table is strictly sorted by start and by end  *)
(* and its ranges share no address, which the binary search relies on.     *)
StrictlySorted ==
    /\ \A i, j \in 1 .. Len(Table) : i < j => Table[i].end < Table[j].start
    /\ NoneWraps => \A i \in 1 .. Len(Table) : Table[i].start <= Table[i].end

(* Whatever the records, a lookup gives no other country than that of the  *)
(* first record, in the order of the stable sort, that contains the        *)
(* address; and when none wraps around it gives that country, and none for *)
(* an address in no record.                                                *)
LookupIsFirstClaim ==
    \A t \in Address : \A i \in Search(t) :
        /\ CountryForIP(t, i) \in {FirstClaim(t), ""}
        /\ NoneWraps => CountryForIP(t, i) = FirstClaim(t)

(* Consecutive ranges of one country never touch: they could not be one.   *)
Minimal ==
    \A i \in 1 .. Len(Table) - 1 :
        Table[i].cc = Table[i + 1].cc => Table[i].end + 1 < Table[i + 1].start
=============================================================================
