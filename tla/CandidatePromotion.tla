-------------------------- MODULE CandidatePromotion --------------------------
(***************************************************************************)
(* What the review promises for one candidate, whatever requests race for  *)
(* it (candidate_promotion.rs, store.rs:2898-3037): its approval and its   *)
(* one record come into being together, out of a pending candidate; the    *)
(* record may be deleted and erased and is never made again; a rejection   *)
(* is final, and may overtake an approval.                                 *)
(***************************************************************************)

VARIABLES
    decision,   \* "absent", "pending", "approved", "rejected" or "withdrawn"
    memory      \* the record: "none", "active", "deleted" or "gone"

vars == <<decision, memory>>

Init ==
    /\ decision = "absent"
    /\ memory = "none"

Propose ==
    /\ decision = "absent"
    /\ decision' = "pending"
    /\ UNCHANGED memory

Withdraw ==
    /\ decision = "pending"
    /\ decision' = "withdrawn"
    /\ UNCHANGED memory

Approve ==
    /\ decision = "pending"
    /\ memory = "none"
    /\ decision' = "approved"
    /\ memory' = "active"

Reject ==
    /\ decision \in {"pending", "approved"}
    /\ decision' = "rejected"
    /\ UNCHANGED memory

Delete ==
    /\ memory = "active"
    /\ memory' = "deleted"
    /\ UNCHANGED decision

Erase ==
    /\ memory \in {"active", "deleted"}
    /\ memory' = "gone"
    /\ UNCHANGED decision

Next == Propose \/ Withdraw \/ Approve \/ Reject \/ Delete \/ Erase

Spec == Init /\ [][Next]_vars

===============================================================================
