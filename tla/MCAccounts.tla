---------------------------- MODULE MCAccounts ----------------------------
(***************************************************************************)
(* Instances of Accounts for TLC; requests and names are interchangeable.  *)
(***************************************************************************)
EXTENDS Accounts, TLC

CONSTANTS r1, r2, alice, bob, carol

TwoRequests == {r1, r2}
MCNames == {alice, bob, carol}
MCSymmetry == Permutations(TwoRequests) \cup Permutations(MCNames)
=============================================================================
