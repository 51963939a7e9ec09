----------------------------- MODULE EventDelivery -----------------------------
(***************************************************************************)
(* What the outbox promises for one event, whatever the number of          *)
(* publishers, crashes and lost leases (ADR-20260721, RUNBOOK-outbox-      *)
(* backlog): the consumer receives it at least once before it counts as    *)
(* published, it is tried at most Budget times, and it is given up only    *)
(* after exactly Budget tries.  A request of an abandoned try may reach    *)
(* the consumer at any later time.                                         *)
(***************************************************************************)
EXTENDS Naturals

CONSTANT Budget

VARIABLES
    status,     \* "none", "open", "published", "dead" or "removed"
    tries,      \* delivery attempts started
    received    \* the consumer has received the event

vars == <<status, tries, received>>

TypeOK ==
    /\ status \in {"none", "open", "published", "dead", "removed"}
    /\ tries \in 0..Budget
    /\ received \in BOOLEAN

Init ==
    /\ status = "none"
    /\ tries = 0
    /\ received = FALSE

\* The event commits together with the change it reports.
Record ==
    /\ status = "none"
    /\ status' = "open"
    /\ UNCHANGED <<tries, received>>

Try ==
    /\ status = "open"
    /\ tries < Budget
    /\ tries' = tries + 1
    /\ UNCHANGED <<status, received>>

\* Also late: after the verdict, and more than once.
Receive ==
    /\ tries > 0
    /\ received' = TRUE
    /\ UNCHANGED <<status, tries>>

Publish ==
    /\ status = "open"
    /\ received
    /\ status' = "published"
    /\ UNCHANGED <<tries, received>>

GiveUp ==
    /\ status = "open"
    /\ tries = Budget
    /\ status' = "dead"
    /\ UNCHANGED <<tries, received>>

Remove ==
    /\ status \in {"published", "dead"}
    /\ status' = "removed"
    /\ UNCHANGED <<tries, received>>

Next == Record \/ Try \/ Receive \/ Publish \/ GiveUp \/ Remove

Spec == Init /\ [][Next]_vars

===============================================================================
