------------------------------ MODULE Rollup ------------------------------
(***************************************************************************)
(* The rollup scheduler (internal/rollupjob/scheduler.go, Run, rollup1m    *)
(* and rollupFiner) beside the flush loop of the capture pipeline, and the *)
(* statements of internal/store/rollup.go: flows_recent is summed into     *)
(* rollup_1m, rollup_1m into rollup_5m.  The tiers 1h and 1d are fed by    *)
(* the same rollupFiner and repeat the relation between 1m and 5m.         *)
(*                                                                         *)
(* One host and one direction; traffic is counted in bytes.  Time is       *)
(* discrete, and what happens at one instant happens in any order.         *)
(***************************************************************************)
EXTENDS Integers, FiniteSets, Sums

CONSTANTS
    FlushEvery,     \* the flush period
    Width1,         \* a minute
    Width5,         \* five minutes
    Starts,         \* when the process may first start
    MaxLag,         \* how long a tick may wait for its goroutine
    MaxRestarts,    \* bound: restarts of the process
    MaxArrivals,    \* bound: packets
    MaxTime         \* bound: the clock

ASSUME WidthAssumption ==
    /\ FlushEvery \in Nat \ {0} /\ Width1 \in Nat \ {0} /\ Width5 \in Nat \ {0}
    /\ Width5 % Width1 = 0 /\ MaxTime \in Nat /\ Starts \subseteq 0 .. MaxTime
    /\ MaxLag \in Nat /\ MaxRestarts \in Nat /\ MaxArrivals \in Nat

Instants == 0 .. MaxTime

VARIABLES
    clock,      \* time.Now()
    start,      \* when the tickers of this process were created
    due,        \* the tickers whose channel holds a tick
    age,        \* how long each such tick has been waiting
    arrivals,   \* packets so far
    buffered,   \* the aggregator's entry: its bytes and its LastSeen
    flows,      \* flows_recent: the bytes of the rows with each last_seen
    rollup1m,   \* rollup_1m: the bytes of each bucket_ts
    rollup5m,   \* rollup_5m
    restarts,   \* restarts so far
    faults      \* history: "late" (a tick has waited) and "failed" (a statement has)

rollupVars == <<clock, start, due, age, arrivals, buffered, flows, rollup1m, rollup5m, restarts, faults>>

Tickers == {"flush", "rollup1m", "rollup5m"}
Period == [flush |-> FlushEvery, rollup1m |-> Width1, rollup5m |-> Width5]

RollupTypeOK ==
    /\ clock \in Instants /\ start \in Instants /\ restarts \in 0 .. MaxRestarts
    /\ due \subseteq Tickers /\ age \in [Tickers -> 0 .. MaxLag] /\ arrivals \in 0 .. MaxArrivals
    /\ buffered \in [bytes : Nat, last : Instants] /\ faults \subseteq {"late", "failed"}
    /\ flows \in [Instants -> Nat] /\ rollup1m \in [Instants -> Nat] /\ rollup5m \in [Instants -> Nat]

RollupInit ==
    /\ clock \in Starts /\ start = clock /\ restarts = 0 /\ faults = {}
    /\ due = {} /\ age = [k \in Tickers |-> 0] /\ arrivals = 0
    /\ buffered = [bytes |-> 0, last |-> 0]
    /\ flows = [t \in Instants |-> 0]
    /\ rollup1m = [t \in Instants |-> 0] /\ rollup5m = [t \in Instants |-> 0]

(* A packet is added to the aggregator's entry.                            *)
Arrive ==
    /\ arrivals < MaxArrivals
    /\ arrivals' = arrivals + 1
    /\ buffered' = [bytes |-> buffered.bytes + 1, last |-> clock]
    /\ UNCHANGED <<clock, start, due, age, restarts, faults, flows, rollup1m, rollup5m>>

(* Time passes; a ticker drops a tick when its channel still holds one.    *)
Advance ==
    /\ clock < MaxTime
    /\ \A k \in due : age[k] < MaxLag
    /\ clock' = clock + 1
    /\ due' = due \cup {k \in Tickers : (clock + 1 - start) % Period[k] = 0}
    /\ age' = [k \in Tickers |-> IF k \in due THEN age[k] + 1 ELSE 0]
    /\ faults' = IF due = {} THEN faults ELSE faults \cup {"late"}
    /\ UNCHANGED <<start, arrivals, restarts, buffered, flows, rollup1m, rollup5m>>

Receive(k) ==
    /\ k \in due
    /\ due' = due \ {k}
    /\ age' = [age EXCEPT ![k] = 0]
    /\ UNCHANGED <<clock, start, arrivals, restarts>>

(* A flush writes the entry as a row of flows_recent.                      *)
FlushEntry == flows' = [flows EXCEPT ![buffered.last] = @ + buffered.bytes]

FlushBuffered ==
    /\ Receive("flush")
    /\ FlushEntry
    /\ buffered' = [bytes |-> 0, last |-> 0]
    /\ UNCHANGED <<rollup1m, rollup5m, faults>>

Truncate(t, width) == (t \div width) * width

BytesIn(table, from, to) == SumOver(table, {t \in Instants : from <= t /\ t < to})

(* Mutant: the window begins a bucket early.                               *)
UpsertTwoBuckets(dst, src, width) ==
    LET to == Truncate(clock, width)
        from == to - 2 * width
    IN  [b \in Instants |-> IF b % width = 0 /\ from <= b /\ b < to
                         THEN dst[b] + BytesIn(src, b, b + width) ELSE dst[b]]

(* Mutant: the window is taken as (from, to).                              *)
UpsertOpenWindow(dst, src, width) ==
    LET to == Truncate(clock, width)
        from == to - width
    IN  [b \in Instants |-> IF b = from THEN dst[b] + BytesIn(src, from + 1, to) ELSE dst[b]]

(* INSERT ... SELECT of the rows of src in [to - width, to), where to is   *)
(* the time truncated to the width, summing on conflict.                   *)
Upsert(dst, src, width) ==
    LET to == Truncate(clock, width)
        from == to - width
    IN  [b \in Instants |-> IF b = from THEN dst[b] + BytesIn(src, from, to) ELSE dst[b]]

(* rollup1m: an error is only logged.                                      *)
Rollup1m ==
    /\ Receive("rollup1m")
    /\ \/ rollup1m' = Upsert(rollup1m, flows, Width1) /\ UNCHANGED faults
       \/ faults' = faults \cup {"failed"} /\ UNCHANGED rollup1m
    /\ UNCHANGED <<buffered, flows, rollup5m>>

(* rollupFiner("1m", "5m", 5 minutes).                                     *)
Rollup5m ==
    /\ Receive("rollup5m")
    /\ \/ rollup5m' = Upsert(rollup5m, rollup1m, Width5) /\ UNCHANGED faults
       \/ faults' = faults \cup {"failed"} /\ UNCHANGED rollup5m
    /\ UNCHANGED <<buffered, flows, rollup1m>>

(* The process is stopped, which flushes, or dies, which does not, and     *)
(* starts again with new tickers.                                          *)
Restart ==
    /\ restarts < MaxRestarts
    /\ restarts' = restarts + 1
    /\ start' = clock /\ due' = {} /\ age' = [k \in Tickers |-> 0]
    /\ FlushEntry \/ UNCHANGED flows
    /\ buffered' = [bytes |-> 0, last |-> 0]
    /\ UNCHANGED <<clock, arrivals, rollup1m, rollup5m, faults>>

RollupNext == Arrive \/ Advance \/ FlushBuffered \/ Rollup1m \/ Rollup5m \/ Restart
RollupSpec == RollupInit /\ [][RollupNext]_rollupVars

-----------------------------------------------------------------------------
(* The tickers tick late enough in their buckets: a minute after the flush *)
(* that completes it, five minutes after the rollup of their last minute.  *)
LatePhase ==
    /\ start % Width1 >= FlushEvery
    /\ start % Width5 >= Width1 + FlushEvery

Covered(tier, width) ==
    \A b \in Instants : b % width = 0 /\ b + 2 * width <= clock => tier[b] >= BytesIn(flows, b, b + width)

(* A bucket whose tick has passed holds all bytes that flows_recent has    *)
(* for it, in both tiers: nothing is left out for ever.  This needs that   *)
(* no statement failed, no tick waited, the process was not restarted and  *)
(* was started late in its bucket.                                         *)
RollupsComplete ==
    faults = {} /\ restarts = 0 /\ LatePhase => Covered(rollup1m, Width1) /\ Covered(rollup5m, Width5)

(* While no tick waits, no bucket of either tier ever holds more bytes     *)
(* than flows_recent has for it: nothing is summed twice, whatever phase   *)
(* the tickers have and whatever fails or restarts.                        *)
NothingCountedTwice ==
    "late" \notin faults =>
        \A b \in Instants :
            /\ b % Width1 = 0 => rollup1m[b] <= BytesIn(flows, b, b + Width1)
            /\ b % Width5 = 0 => rollup5m[b] <= BytesIn(flows, b, b + Width5)
=============================================================================
