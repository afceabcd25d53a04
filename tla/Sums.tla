-------------------------------- MODULE Sums --------------------------------
(***************************************************************************)
(* SUM(f) over the rows S of a query.                                      *)
(***************************************************************************)
EXTENDS FiniteSetsExt

SumOver(f, S) == MapThenSumSet(LAMBDA x : f[x], S)
=============================================================================
