--------------------------- MODULE MCAlgorithms ---------------------------
(***************************************************************************)
(* The two computations over bounded inputs for TLC: the merging of the    *)
(* registries' records (GeoTable) and the test for regular contacts        *)
(* (Beaconing).  Neither uses the state of the other, so a behaviour is    *)
(* one of either: the clock starts when there are no records to merge.     *)
(*                                                                         *)
(* GeoTable: every list of up to three records of two countries over six   *)
(* addresses, with records that end at the last address or wrap around it. *)
(* Beaconing: as in the code, the shortest interval the detector accepts   *)
(* is the flush period, and the rows are kept for just one window; three   *)
(* observations stand for five, and the clock goes beyond the first window *)
(* so that contacts leave it and rows are pruned.                          *)
(***************************************************************************)
EXTENDS GeoTable, Beaconing

MCInit == Init /\ BeaconInit /\ (all # <<>> => instant = 0)
MCNext ==
    \/ all # <<>> /\ Next /\ UNCHANGED beaconVars
    \/ all = <<>> /\ BeaconNext /\ UNCHANGED vars
MCSpec == MCInit /\ [][MCNext]_<<vars, beaconVars>>
=============================================================================
