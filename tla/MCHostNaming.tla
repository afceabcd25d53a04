--------------------------- MODULE MCHostNaming ---------------------------
(***************************************************************************)
(* The instance of HostNaming for TLC: an address used in turn by two      *)
(* devices, each of which may announce itself under two names, twice       *)
(* between two flushes.  Members of each set are interchangeable.          *)
(***************************************************************************)
EXTENDS HostNaming, TLC

CONSTANTS ip1, mac1, mac2, name1, name2

OneIP == {ip1}
MCMACs == {mac1, mac2}
MCNames == {name1, name2}
MCSymmetry == Permutations(MCMACs) \cup Permutations(MCNames)
=============================================================================
