----------------------------- MODULE JobExecution -----------------------------
(***************************************************************************)
(* What the background queues promise for one job, whatever the number of  *)
(* workers, crashes, lost leases and sweeps (learning_jobs.rs:211-221,     *)
(* job_worker.rs): seen from the table, one execution at a time.  The      *)
(* verdict is the outcome of the execution started last; an execution may  *)
(* be lost, and is then repeated within the budget; the job is given up    *)
(* only after exactly Budget + 1 starts.                                   *)
(***************************************************************************)
EXTENDS Naturals

CONSTANT Budget     \* repetitions after the first start

VARIABLES
    status,     \* "none", "queued", "running", a verdict or "removed"
    starts,     \* executions started
    outcome     \* of the running execution, once it has returned

vars == <<status, starts, outcome>>

Verdicts == {"succeeded", "failed", "dead"}

TypeOK ==
    /\ status \in {"none", "queued", "running", "removed"} \union Verdicts
    /\ starts \in 0..Budget + 1
    /\ outcome \in {"none", "ok", "err"}

Init ==
    /\ status = "none"
    /\ starts = 0
    /\ outcome = "none"

Submit ==
    /\ status = "none"
    /\ status' = "queued"
    /\ UNCHANGED <<starts, outcome>>

Start ==
    /\ status = "queued"
    /\ starts <= Budget
    /\ status' = "running"
    /\ starts' = starts + 1
    /\ outcome' = "none"

Return ==
    /\ status = "running"
    /\ outcome = "none"
    /\ outcome' \in {"ok", "err"}
    /\ UNCHANGED <<status, starts>>

\* A crash, or a lease that ran out before the outcome was recorded.
LoseOutcome ==
    /\ status = "running"
    /\ outcome' = "none"
    /\ UNCHANGED <<status, starts>>

Succeed ==
    /\ status = "running"
    /\ outcome = "ok"
    /\ status' = "succeeded"
    /\ outcome' = "none"
    /\ UNCHANGED starts

Fail ==
    /\ status = "running"
    /\ outcome = "err"
    /\ status' = "failed"
    /\ outcome' = "none"
    /\ UNCHANGED starts

\* A failure with budget left, or an execution taken for lost.
Repeat ==
    /\ status = "running"
    /\ starts <= Budget
    /\ status' = "queued"
    /\ outcome' = "none"
    /\ UNCHANGED starts

GiveUp ==
    /\ status = "running"
    /\ starts = Budget + 1
    /\ status' = "dead"
    /\ outcome' = "none"
    /\ UNCHANGED starts

Remove ==
    /\ status \in Verdicts
    /\ status' = "removed"
    /\ UNCHANGED <<starts, outcome>>

Next ==
    \/ Submit \/ Start \/ Return \/ LoseOutcome
    \/ Succeed \/ Fail \/ Repeat \/ GiveUp \/ Remove

Spec == Init /\ [][Next]_vars

===============================================================================
