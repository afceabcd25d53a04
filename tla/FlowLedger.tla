----------------------------- MODULE FlowLedger -----------------------------
(***************************************************************************)
(* What the capture pipeline promises for every decoded event: it is       *)
(* dropped before it enters, or it enters once and is then settled once,   *)
(* as part of one stored row or as lost.  Nothing leaves a settled state.  *)
(***************************************************************************)
CONSTANT Items

VARIABLE status  \* status[i]

Status == {"unseen", "dropped", "pending", "stored", "lost"}

Init == status = [i \in Items |-> "unseen"]

(* The items S change from one status to another, all together.            *)
Move(S, from, to) ==
    /\ \A i \in S : status[i] = from
    /\ status' = [i \in Items |-> IF i \in S THEN to ELSE status[i]]

Drop == \E S \in SUBSET Items : Move(S, "unseen", "dropped")
Accept == \E S \in SUBSET Items : Move(S, "unseen", "pending")
Store == \E S \in SUBSET Items : Move(S, "pending", "stored")
Lose == \E S \in SUBSET Items : Move(S, "pending", "lost")

Next == Drop \/ Accept \/ Store \/ Lose

Spec == Init /\ [][Next]_status
=============================================================================
