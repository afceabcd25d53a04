-------------------------- MODULE MCServiceInstall --------------------------
(***************************************************************************)
(* The instance of ServiceInstall for TLC: one batch besides the setup, so *)
(* that a log or one of the directories can hold what the others lack, and *)
(* a setup that may be completed and then cleared.                         *)
(***************************************************************************)
EXTENDS ServiceInstall

MCOverrides == {"dev"}
=============================================================================
