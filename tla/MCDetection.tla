---------------------------- MODULE MCDetection ----------------------------
(***************************************************************************)
(* The instance of Detection for TLC.  The order of the code's durations   *)
(* is kept: the flush period is shorter than the scan window, the cooldown *)
(* shorter than the novelty window.                                        *)
(***************************************************************************)
EXTENDS Detection

CONSTANTS w1, l1

MCCooldown == [new_destination |-> 2, ongoing |-> 1]
Outside == {w1}
Inside == {l1}
NoPeers == {}
=============================================================================
