----------------------------- MODULE MCRollup -----------------------------
(***************************************************************************)
(* The instance of Rollup for TLC.  The unit of time is half a minute and  *)
(* five minutes are two: the start of the process, modulo four units, is   *)
(* the phase of its ticks within the buckets.                              *)
(***************************************************************************)
EXTENDS Rollup

AnyPhase == 0 .. Width5 - 1
=============================================================================
