------------------------------ MODULE Extraction ------------------------------
(***************************************************************************)
(* What the tasks of the learning job queue do: a claimed extraction       *)
(* removes the pending candidates of the job, reads its events, asks the   *)
(* model and stores one candidate per accepted text (open_api.rs,          *)
(* execute_extraction_work), while reviewers decide on candidates.         *)
(*                                                                         *)
(* The queue is JobQueue with its step Execute taken apart.  The removal   *)
(* and every insertion are statements of their own that do not look at the *)
(* lease of the job, so a worker that has lost it goes on storing until    *)
(* its next renewal.                                                       *)
(***************************************************************************)
EXTENDS JobQueue

CONSTANT Texts      \* what an extraction of any job may propose

VARIABLES
    candidates, \* rows of ai_candidate with a learning_job_uuid
    work,       \* [Workers -> [Jobs -> progress of the running task]]
    late        \* history: jobs touched by a worker without a live lease

extraction == <<candidates, work, late>>

\* claim is the token of the attempt that stored the candidate.
Candidate == [job : Jobs, text : Texts, claim : Nat, decision_state : {"pending", "decided"}]
Progress  == [cleaned : BOOLEAN, todo : SUBSET Texts]

NotStarted == [cleaned |-> FALSE, todo |-> {}]

PendingOf(j) == {c \in candidates : c.job = j /\ c.decision_state = "pending"}

\* A statement of the task, at the lease it has at that moment.
NoteLease(w, j) == late' = IF OwnsLiveLease(w, j) THEN late ELSE late \union {j}

-------------------------------------------------------------------------------
\* Defect: a requeued run leaves what its predecessor stored.
CleanUpNothing(w, j) ==
    /\ task[w][j] = "running"
    /\ ~work[w][j].cleaned
    /\ \E T \in SUBSET Texts : work' = [work EXCEPT ![w][j] = [cleaned |-> TRUE, todo |-> T]]
    /\ NoteLease(w, j)
    /\ UNCHANGED <<candidates, vars>>

\* Defect: the removal is by job alone, whatever the decision.
CleanUpAll(w, j) ==
    /\ task[w][j] = "running"
    /\ ~work[w][j].cleaned
    /\ candidates' = {c \in candidates : c.job # j}
    /\ \E T \in SUBSET Texts : work' = [work EXCEPT ![w][j] = [cleaned |-> TRUE, todo |-> T]]
    /\ NoteLease(w, j)
    /\ UNCHANGED vars

\* delete_pending_candidates_for_learning_job.  What the run is going to
\* propose is settled by the events that still exist and by the model's answer.
CleanUp(w, j) ==
    /\ task[w][j] = "running"
    /\ ~work[w][j].cleaned
    /\ candidates' = candidates \ PendingOf(j)
    /\ \E T \in SUBSET Texts : work' = [work EXCEPT ![w][j] = [cleaned |-> TRUE, todo |-> T]]
    /\ NoteLease(w, j)
    /\ UNCHANGED vars

\* create_candidate, once per text.
Propose(w, j) ==
    /\ task[w][j] = "running"
    /\ \E t \in work[w][j].todo :
          /\ candidates' = candidates \union
                {[job |-> j, text |-> t, claim |-> token[w], decision_state |-> "pending"]}
          /\ work' = [work EXCEPT ![w][j].todo = @ \ {t}]
    /\ NoteLease(w, j)
    /\ UNCHANGED vars

\* Defect: a new execution goes on where the last one of the worker ended.
ReturnKeepsProgress(w, j) ==
    /\ task[w][j] = "running"
    /\ \/ work[w][j].cleaned /\ work[w][j].todo = {} /\ SetTask(w, j, "ok")
       \/ SetTask(w, j, "err")
    /\ UNCHANGED <<store, loop, stale, picked, token, faults, queue, candidates, work, late>>

\* The execution returns: with every text stored, or with an error of the
\* access check, the input validation, the model call or a statement.
Return(w, j) ==
    /\ task[w][j] = "running"
    /\ \/ work[w][j].cleaned /\ work[w][j].todo = {} /\ SetTask(w, j, "ok")
       \/ SetTask(w, j, "err")
    /\ work' = [work EXCEPT ![w][j] = NotStarted]
    /\ UNCHANGED <<store, loop, stale, picked, token, faults, queue, candidates, late>>

\* A reviewer or a privacy request decides on a candidate: CandidateReview.
Decide ==
    /\ \E c \in candidates :
          /\ c.decision_state = "pending"
          /\ candidates' = (candidates \ {c}) \union {[c EXCEPT !.decision_state = "decided"]}
    /\ UNCHANGED <<vars, work, late>>

\* A step of the queue.  The progress of a task ends with it.
QueueStep ==
    /\ \/ \E j \in Jobs : Enqueue(j) \/ Purge(j)
       \/ \E w \in Workers : Loop(w) \/ Fault(w)
       \/ \E w \in Workers, j \in Jobs : Settle(w, j)
       \/ Tick
    /\ work' = [w \in Workers |-> [j \in Jobs |->
                  IF task[w][j] = "running" /\ task'[w][j] = "running"
                  THEN work[w][j] ELSE NotStarted]]
    /\ UNCHANGED <<candidates, late>>

ExtractionInit ==
    /\ Init
    /\ candidates = {}
    /\ work = [w \in Workers |-> [j \in Jobs |-> NotStarted]]
    /\ late = {}

ExtractionNext ==
    \/ QueueStep
    \/ \E w \in Workers, j \in Jobs : CleanUp(w, j) \/ Propose(w, j) \/ Return(w, j)
    \/ Decide

ExtractionSpec == ExtractionInit /\ [][ExtractionNext]_<<vars, extraction>>

-------------------------------------------------------------------------------
(* Properties.                                                             *)

\* Types, that only a running task has progress, and that every candidate was
\* stored under a claim of its job.
ExtractionTypeOK ==
    /\ candidates \in SUBSET Candidate
    /\ work \in [Workers -> [Jobs -> Progress]]
    /\ \A w \in Workers, j \in Jobs : task[w][j] # "running" => work[w][j] = NotStarted
    /\ late \in SUBSET Jobs
    /\ \A c \in candidates : c.claim \in 1..lastClaim[c.job]

\* A retry replaces the proposals of its predecessors: as long as no worker
\* has worked on a job past its lease, all pending candidates of the job come
\* from one attempt, the latest one that has begun to store, whatever failures,
\* crashes, sweeps and decisions came before.
RetryReplacesProposals ==
    \A j \in Jobs \ late : \A c, d \in PendingOf(j) : c.claim = d.claim

\* A job that succeeded without late work has nothing left to review that an
\* attempt other than the successful one stored.
SucceededIsLatest ==
    \A j \in Jobs \ late :
        job[j].state = "succeeded" => \A c \in PendingOf(j) : c.claim = verdictBy[j]

\* A candidate that was decided stays, through every retry of its job.
DecidedIsKept ==
    [][\A c \in candidates : c.decision_state = "decided" => c \in candidates']_<<vars, extraction>>

\* "Removes the pending candidates a previous extraction attempt created"
\* (store.rs:4228): no attempt removes what a later one has stored.
RemovesPreviousOnly ==
    [][\A w \in Workers, j \in Jobs :
          CleanUp(w, j) => \A c \in PendingOf(j) : c.claim < token[w]]_<<vars, extraction>>

===============================================================================
