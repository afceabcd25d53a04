------------------------------ MODULE Series ------------------------------
(***************************************************************************)
(* Retention against the graphs: the prune step of the rollup scheduler    *)
(* (internal/rollupjob/scheduler.go) decides how far back each tier        *)
(* reaches, and hostSeries (internal/web/handlers_api.go) decides which    *)
(* tier answers a range.                                                   *)
(*                                                                         *)
(* A tier is the stretch of time it still holds: everything since its      *)
(* cutoff.  What a tier lacks because of the way it was filled is the      *)
(* subject of module Rollup.                                               *)
(***************************************************************************)
EXTENDS Integers

CONSTANTS
    Keep,       \* the retention of each tier
    MaxSpan,    \* the longest range each tier is asked for
    MaxNow      \* bound: the clock

Tiers == {"raw", "m1", "m5", "h1", "d1"}

(* Of the fixed retentions that of the raw flows is the shortest, a day,   *)
(* and no longer than the ranges the hours are asked for.  That of the     *)
(* days is a setting, which is any number.                                 *)
ASSUME KeepAssumption ==
    /\ Keep \in [Tiers -> Int] /\ MaxSpan \in [Tiers \ {"d1"} -> Nat]
    /\ \A k \in {"m1", "m5", "h1"} : Keep["raw"] <= Keep[k]
    /\ Keep["raw"] \in 0 .. MaxSpan["h1"]

VARIABLES
    now,        \* time.Now()
    cutoff,     \* rows of a tier older than this have been deleted
    range,      \* the range of the last request to hostSeries
    tier        \* the tier that answered it

seriesVars == <<now, cutoff, range, tier>>

Ranges == {r \in (0 .. MaxNow) \X (0 .. MaxNow) : r[1] < r[2]}

SeriesTypeOK ==
    /\ now \in 0 .. MaxNow
    /\ cutoff \in [Tiers -> Nat]
    /\ range \in Ranges \cup {<<0, 0>>}
    /\ tier \in Tiers

(* The first rows are stored at time 0.                                    *)
SeriesInit ==
    /\ now = 0
    /\ cutoff = [k \in Tiers |-> 0]
    /\ range = <<0, 0>> /\ tier = "raw"

(* An answer is looked at before time moves on.                            *)
Advance ==
    /\ now < MaxNow
    /\ now' = now + 1
    /\ range' = <<0, 0>> /\ tier' = "raw"
    /\ UNCHANGED cutoff

Later(a, b) == IF a > b THEN a ELSE b

(* Mutant: flows_recent is pruned with the hour that has just passed.      *)
PruneHourEarly(failed) ==
    /\ cutoff' = [k \in Tiers |->
          IF k \in failed THEN cutoff[k] ELSE Later(cutoff[k], now + 1 - Keep[k])]
    /\ UNCHANGED <<now, range, tier>>

(* prune, hourly: one DELETE for each tier; an error is logged and the     *)
(* others go on.                                                           *)
Prune(failed) ==
    /\ cutoff' = [k \in Tiers |->
          IF k \in failed THEN cutoff[k] ELSE Later(cutoff[k], now - Keep[k])]
    /\ UNCHANGED <<now, range, tier>>

(* The switch of hostSeries.                                               *)
ChooseTier(from, to) ==
    IF to - from <= MaxSpan["raw"] /\ to >= now - MaxSpan["raw"] THEN "raw"
    ELSE IF to - from <= MaxSpan["m1"] THEN "m1"
    ELSE IF to - from <= MaxSpan["m5"] THEN "m5"
    ELSE IF to - from <= MaxSpan["h1"] THEN "h1"
    ELSE "d1"

(* hostSeries; parseRange refuses an empty or reversed range.              *)
HostSeries(from, to) ==
    /\ from < to
    /\ range' = <<from, to>>
    /\ tier' = ChooseTier(from, to)
    /\ UNCHANGED <<now, cutoff>>

SeriesNext ==
    \/ Advance
    \/ \E failed \in SUBSET Tiers : Prune(failed)
    \/ \E from, to \in 0 .. now : HostSeries(from, to)

SeriesSpec == SeriesInit /\ [][SeriesNext]_seriesVars

-----------------------------------------------------------------------------
Held(k, t) == t >= cutoff[k]

(* What the answer lacks although another tier still has it.               *)
Holes == {t \in range[1] .. range[2] : ~Held(tier, t) /\ \E k \in Tiers : Held(k, t)}

(* A graph of any part of the last day has no holes, however prunes fail   *)
(* or run late.                                                            *)
LastDayComplete == range[1] >= now - Keep["raw"] => Holes = {}

(* Keeping the minutes, five minutes or hours longer would only waste      *)
(* space: no range is served from one of these tiers when the tier has     *)
(* deleted part of it and a coarser tier still has that part.              *)
CoarserTierInTime ==
    tier \in {"m1", "m5", "h1"} => Holes = {}
=============================================================================
