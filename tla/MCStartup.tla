----------------------------- MODULE MCStartup -----------------------------
(***************************************************************************)
(* The instance of Startup for TLC.  There are more names than stops: an   *)
(* interrupted wizard uses up a name.                                      *)
(***************************************************************************)
EXTENDS Startup

CONSTANTS n1, n2, n3

MCNames == {n1, n2, n3}
MCOpeners == {"run", "other"}
=============================================================================
