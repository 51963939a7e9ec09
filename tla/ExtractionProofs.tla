---------------------------- MODULE ExtractionProofs ----------------------------
(***************************************************************************)
(* Proofs about Extraction, for any jobs, workers, texts and limits: it    *)
(* refines the job queue, what a reviewer decided is never lost, and the   *)
(* pending candidates of a job that no expired worker touched are those of *)
(* one attempt.                                                            *)
(***************************************************************************)
EXTENDS Extraction, JobQueueProofs

\* Taking the execution of a job apart changes nothing for the queue: removing,
\* storing and deciding candidates are stutterings of it, the return of an
\* execution is its step Execute, and so every property of the queue carries
\* over to the extraction.
THEOREM ImplementsQueue == ExtractionSpec => Spec
  <1>1. ExtractionInit => Init
    BY DEF ExtractionInit
  <1>2. ASSUME [ExtractionNext]_<<vars, extraction>>
        PROVE  [Next]_vars
    <2>1. CASE QueueStep
      BY <2>1 DEF QueueStep, Next
    <2>2. ASSUME NEW w \in Workers, NEW j \in Jobs, CleanUp(w, j) \/ Propose(w, j)
          PROVE  UNCHANGED vars
      BY <2>2 DEF CleanUp, Propose
    <2>3. ASSUME NEW w \in Workers, NEW j \in Jobs, Return(w, j)
          PROVE  Execute(w, j)
      BY <2>3 DEF Return, Execute
    <2>4. CASE Decide
      BY <2>4 DEF Decide
    <2>5. CASE UNCHANGED <<vars, extraction>>
      BY <2>5
    <2>. QED  BY <1>2, <2>1, <2>2, <2>3, <2>4, <2>5 DEF ExtractionNext, Next
  <1>. QED  BY <1>1, <1>2, PTL DEF ExtractionSpec, Spec

\* "reviewed candidates are never reachable through this path" (store.rs:4231):
\* no retry, on time or late, removes a candidate that was decided.
THEOREM ReviewKept == ExtractionSpec => DecidedIsKept
  <1>1. ASSUME [ExtractionNext]_<<vars, extraction>>,
               NEW c \in candidates, c.decision_state = "decided"
        PROVE  c \in candidates'
    <2>1. CASE UNCHANGED candidates
      BY <2>1
    <2>2. ASSUME NEW w \in Workers, NEW j \in Jobs, CleanUp(w, j)
          PROVE  c \in candidates'
      BY <1>1, <2>2 DEF CleanUp, PendingOf
    <2>3. ASSUME NEW w \in Workers, NEW j \in Jobs, Propose(w, j)
          PROVE  c \in candidates'
      BY <2>3 DEF Propose
    <2>4. CASE Decide
      BY <1>1, <2>4 DEF Decide
    <2>. QED
      BY <1>1, <2>1, <2>2, <2>3, <2>4 DEF ExtractionNext, QueueStep, Return, extraction
  <1>2. [ExtractionNext]_<<vars, extraction>> =>
           \A c \in candidates : c.decision_state = "decided" => c \in candidates'
    BY <1>1
  <1>. QED  BY <1>2, PTL DEF ExtractionSpec, DecidedIsKept

-------------------------------------------------------------------------------
(* The proposals of a job come from one attempt.                           *)

WorkOK ==
    /\ candidates \in SUBSET Candidate
    /\ work \in [Workers -> [Jobs -> Progress]]
    /\ \A w \in Workers, j \in Jobs :
          /\ task[w][j] # "running" => work[w][j] = NotStarted
          /\ ~work[w][j].cleaned => work[w][j].todo = {}
    /\ late \in SUBSET Jobs
    /\ \A c \in candidates : c.claim \in 1..lastClaim[c.job]

\* The worker has removed what its predecessors proposed.
HasCleaned(w, j) == work[w][j].cleaned \/ task[w][j] = "ok"

\* Unless a worker acted past its lease, the pending candidates of a job are of
\* one claim; it is the claim of whoever holds the job and has cleaned up, and
\* in the end the claim that succeeded.
OneAttempt(j) ==
    /\ \A c, d \in PendingOf(j) : c.claim = d.claim
    /\ \A w \in Workers : HasCleaned(w, j) /\ token[w] = lastClaim[j] =>
          \A c \in PendingOf(j) : c.claim = token[w]
    /\ job[j].state = "succeeded" => \A c \in PendingOf(j) : c.claim = verdictBy[j]

EInv == IInv /\ TaskInv /\ WorkOK /\ \A j \in Jobs \ late : OneAttempt(j)

LEMMA InitEInv == ExtractionInit => EInv
<1> SUFFICES ASSUME ExtractionInit PROVE EInv
  OBVIOUS
<1>1. IInv /\ TaskInv
  BY InitIInv, TaskInvInit DEF ExtractionInit
<1>2. WorkOK
  BY DEF ExtractionInit, WorkOK, NotStarted, Progress
<1>3. \A j \in Jobs : OneAttempt(j)
  BY DEF ExtractionInit, OneAttempt, PendingOf
<1> QED
  BY <1>1, <1>2, <1>3 DEF EInv

\* What does not touch the queue keeps its invariants.
LEMMA QueueStutters ==
    ASSUME IInv, TaskInv, UNCHANGED vars
    PROVE  IInv' /\ TaskInv'
BY StepIInv, TaskMoves, TaskInvStep

\* A step of the queue neither adds a candidate nor lets a task begin that has
\* already cleaned up.
LEMMA QueueStepEInv ==
    ASSUME EInv, QueueStep
    PROVE  EInv'
<1>1. TaskStep /\ TaskInv'
  BY TaskMoves, TaskInvStep DEF EInv, QueueStep
<1>2. [Next]_vars
  BY DEF QueueStep, Next
<1>3. Step /\ IInv'
  BY <1>2, NextIsStep, StepIInv DEF EInv
<1>4. /\ candidates' = candidates /\ late' = late
      /\ work' = [w \in Workers |-> [j \in Jobs |->
                    IF task[w][j] = "running" /\ task'[w][j] = "running"
                    THEN work[w][j] ELSE NotStarted]]
  BY DEF QueueStep
<1>5. /\ issued \in Nat
      /\ \A j \in Jobs : /\ lastClaim[j] \in Nat /\ lastClaim'[j] \in Nat
                         /\ lastClaim[j] <= lastClaim'[j]
  <2>1. issued \in Nat /\ \A j \in Jobs : lastClaim[j] \in Nat
    BY DEF EInv, IInv, Frame, RowInv, RowShape
  <2>2. \A j \in Jobs : lastClaim'[j] \in Nat
    BY <1>3 DEF IInv, RowInv, RowShape
  <2>3. \A j \in Jobs : lastClaim[j] <= lastClaim'[j]
    BY <1>1, <2>1, <2>2 DEF TaskStep, Tokens, EInv, TaskInv
  <2> QED
    BY <2>1, <2>2, <2>3
<1>6. WorkOK'
  <2>1. work' \in [Workers -> [Jobs -> Progress]]
    BY <1>4 DEF EInv, WorkOK, NotStarted, Progress
  <2>2. \A w \in Workers, j \in Jobs :
          /\ task'[w][j] # "running" => work'[w][j] = NotStarted
          /\ ~work'[w][j].cleaned => work'[w][j].todo = {}
    BY <1>4 DEF EInv, WorkOK, NotStarted
  <2>3. \A c \in candidates : c.job \in Jobs /\ c.claim \in Nat
    BY DEF EInv, WorkOK, Candidate
  <2>4. \A c \in candidates : c.claim \in 1..lastClaim'[c.job]
    BY <1>5, <2>3 DEF EInv, WorkOK
  <2> QED
    BY <1>4, <2>1, <2>2, <2>4 DEF EInv, WorkOK
<1>7. ASSUME NEW j \in Jobs \ late PROVE OneAttempt(j)'
  <2>1. PendingOf(j)' = PendingOf(j) /\ OneAttempt(j)
    BY <1>4 DEF PendingOf, EInv
  <2>2. ASSUME NEW w \in Workers, HasCleaned(w, j)', token'[w] = lastClaim'[j],
               NEW c \in PendingOf(j)
        PROVE  c.claim = token'[w]
    <3>1. TaskMove(w, j)
      BY <1>1 DEF TaskStep
    <3>2. HasCleaned(w, j) /\ task'[w][j] \in {"running", "ok"} /\ task[w][j] = task'[w][j]
      <4>1. work'[w][j] = IF task[w][j] = "running" /\ task'[w][j] = "running"
                          THEN work[w][j] ELSE NotStarted
        BY <1>4
      <4>2. CASE task'[w][j] = "ok"
        BY <3>1, <4>2 DEF HasCleaned, TaskMove
      <4>3. CASE task'[w][j] # "ok"
        BY <2>2, <4>1, <4>3 DEF HasCleaned, NotStarted
      <4> QED
        BY <4>2, <4>3
    <3>3. token'[w] = token[w]
      BY <3>1, <3>2 DEF TaskMove
    <3>4. lastClaim'[j] = token[w] /\ token[w] <= issued /\ token[w] \in Nat
      BY <2>2, <3>3 DEF EInv, TaskInv, IInv, Frame
    <3>5. lastClaim'[j] = lastClaim[j]
      <4>1. CASE issued' = issued
        BY <1>1, <4>1 DEF TaskStep, Tokens
      <4>2. CASE issued' = issued + 1
        BY <1>1, <1>5, <3>4, <4>2 DEF TaskStep, Tokens
      <4> QED
        BY <1>1, <4>1, <4>2 DEF TaskStep, Tokens
    <3> QED
      BY <2>1, <2>2, <3>2, <3>3, <3>5 DEF OneAttempt
  <2>3. ASSUME job'[j].state = "succeeded", NEW c \in PendingOf(j)
        PROVE  c.claim = verdictBy'[j]
    <3>1. RowMove(j) /\ job[j] \in Row
      BY <1>3 DEF Step, EInv, IInv, RowInv, RowShape
    <3>2. CASE MoveConcluded(j)
      <4>1. PICK w \in Workers :
              /\ HoldsOutcome(w, j)
              /\ verdictBy'[j] = token[w]
              /\ \E state \in {"succeeded", "failed"} :
                    /\ state = "succeeded" => task[w][j] = "ok"
                    /\ job'[j] = Released(job[j], state, 0, job[j].wait)
        BY <3>2 DEF MoveConcluded
      <4>2. task[w][j] = "ok"
        BY <2>3, <4>1 DEF Released
      <4>3. token[w] = lastClaim[j]
        BY <4>1 DEF HoldsOutcome, OwnsLiveLease, EInv, IInv, RowInv, RowVerdict
      <4> QED
        BY <2>1, <2>3, <4>1, <4>2, <4>3 DEF OneAttempt, HasCleaned
    <3>3. CASE ~MoveConcluded(j)
      <4>1. job[j].state = "succeeded" /\ verdictBy'[j] = verdictBy[j]
        BY <2>3, <3>1, <3>3
        DEF RowMove, MoveNone, MoveEnqueued, MovePurged, MoveClaimed, MoveDead, MoveRequeued,
            MoveRenewed, MoveCharged, MoveAged, SameHistory, Claimed, Released, Aged, Row
      <4> QED
        BY <2>1, <2>3, <4>1 DEF OneAttempt
    <3> QED
      BY <3>2, <3>3
  <2> QED
    BY <2>1, <2>2, <2>3 DEF OneAttempt
<1> QED
  BY <1>1, <1>3, <1>4, <1>6, <1>7 DEF EInv
\* A statement of a task: only a holder of the live lease leaves the job out of
\* late, and what it stores is of its own claim, after it has cleaned up.
LEMMA WorkEInv ==
    ASSUME EInv, NEW w \in Workers, NEW j \in Jobs,
           CleanUp(w, j) \/ Propose(w, j)
    PROVE  EInv'
<1>1. UNCHANGED vars /\ task[w][j] = "running" /\ NoteLease(w, j)
  BY DEF CleanUp, Propose
<1>2. IInv' /\ TaskInv'
  BY <1>1, QueueStutters DEF EInv, extraction
<1>3. late' \in SUBSET Jobs /\ late \subseteq late'
  BY <1>1 DEF NoteLease, EInv, WorkOK
<1>4. token[w] \in Nat /\ 1 <= token[w] /\ token[w] <= lastClaim[j] /\ lastClaim[j] \in Nat
  BY <1>1 DEF EInv, TaskInv, IInv, Frame, RowInv, RowShape
<1>5. WorkOK' /\ \A v \in Workers, i \in Jobs \ {j} : work'[v][i] = work[v][i]
  <2>1. CASE CleanUp(w, j)
    <3>1. PICK T \in SUBSET Texts :
            work' = [work EXCEPT ![w][j] = [cleaned |-> TRUE, todo |-> T]]
      BY <2>1 DEF CleanUp
    <3>2. [cleaned |-> TRUE, todo |-> T] \in Progress
      BY DEF Progress
    <3>3. work' \in [Workers -> [Jobs -> Progress]]
      BY <3>1, <3>2 DEF EInv, WorkOK
    <3>4. \A v \in Workers, i \in Jobs :
            work'[v][i] = IF v = w /\ i = j THEN [cleaned |-> TRUE, todo |-> T] ELSE work[v][i]
      BY <3>1 DEF EInv, WorkOK
    <3>5. candidates' \subseteq candidates
      BY <2>1 DEF CleanUp
    <3> QED
      BY <1>1, <1>3, <3>3, <3>4, <3>5 DEF EInv, WorkOK, vars, process, store
  <2>2. CASE Propose(w, j)
    <3>1. PICK t \in work[w][j].todo :
            /\ candidates' = candidates \union
                 {[job |-> j, text |-> t, claim |-> token[w], decision_state |-> "pending"]}
            /\ work' = [work EXCEPT ![w][j].todo = @ \ {t}]
      BY <2>2 DEF Propose
    <3>2. work[w][j] \in Progress
      BY DEF EInv, WorkOK
    <3>3. [work[w][j] EXCEPT !.todo = @ \ {t}] \in Progress /\ t \in Texts
      BY <3>2 DEF Progress
    <3>4. work' \in [Workers -> [Jobs -> Progress]]
      BY <3>1, <3>3 DEF EInv, WorkOK
    <3>5. \A v \in Workers, i \in Jobs :
            work'[v][i] = IF v = w /\ i = j THEN [work[w][j] EXCEPT !.todo = @ \ {t}]
                          ELSE work[v][i]
      BY <3>1 DEF EInv, WorkOK
    <3>6. [job |-> j, text |-> t, claim |-> token[w], decision_state |-> "pending"] \in Candidate
      BY <1>4, <3>3 DEF Candidate
    <3>7. work[w][j].cleaned
      BY <3>1 DEF EInv, WorkOK
    <3>8. \A v \in Workers, i \in Jobs :
            /\ task[v][i] # "running" => work'[v][i] = NotStarted
            /\ ~work'[v][i].cleaned => work'[v][i].todo = {}
      BY <1>1, <3>2, <3>5, <3>7 DEF EInv, WorkOK, Progress
    <3>9. candidates' \in SUBSET Candidate /\ \A c \in candidates' : c.claim \in 1..lastClaim[c.job]
      BY <1>4, <3>1, <3>6 DEF EInv, WorkOK
    <3> QED
      BY <1>1, <1>3, <3>4, <3>5, <3>8, <3>9 DEF WorkOK, vars, process, store
  <2> QED
    BY <2>1, <2>2
<1>6. ASSUME NEW i \in Jobs \ late', i # j PROVE OneAttempt(i)'
  <2>1. OneAttempt(i) /\ PendingOf(i)' = PendingOf(i)
    BY <1>3, <1>6 DEF EInv, CleanUp, Propose, PendingOf
  <2>2. UNCHANGED <<job, token, task, lastClaim, verdictBy>>
    BY <1>1 DEF vars, store, process
  <2>3. \A v \in Workers : work'[v][i] = work[v][i]
    BY <1>5, <1>6
  <2> QED
    BY <2>1, <2>2, <2>3 DEF OneAttempt, HasCleaned
<1>7. ASSUME j \notin late' PROVE OneAttempt(j)'
  <2>1. UNCHANGED <<job, token, task, lastClaim, verdictBy>>
    BY <1>1 DEF vars, store, process
  <2>2. OwnsLiveLease(w, j)
    BY <1>1, <1>7 DEF NoteLease
  <2>3. token[w] = lastClaim[j] /\ job[j].state # "succeeded"
    BY <2>2 DEF OwnsLiveLease, EInv, IInv, RowInv, RowVerdict
  <2>4. CASE CleanUp(w, j)
    <3>1. PendingOf(j)' = {}
      BY <2>4 DEF CleanUp, PendingOf
    <3> QED
      BY <3>1 DEF OneAttempt
  <2>5. CASE Propose(w, j)
    <3>1. PICK t \in work[w][j].todo :
            candidates' = candidates \union
               {[job |-> j, text |-> t, claim |-> token[w], decision_state |-> "pending"]}
      BY <2>5 DEF Propose
    <3>2. work[w][j].cleaned
      BY <3>1 DEF EInv, WorkOK
    <3>3. \A c \in PendingOf(j) : c.claim = token[w]
      BY <1>3, <1>7, <2>3, <3>2 DEF EInv, OneAttempt, HasCleaned
    <3>4. \A c \in PendingOf(j)' : c.claim = token[w]
      BY <3>1, <3>3 DEF PendingOf
    <3> QED
      BY <2>1, <2>3, <3>4 DEF OneAttempt
  <2> QED
    BY <2>4, <2>5
<1> QED
  BY <1>2, <1>5, <1>6, <1>7 DEF EInv

\* The execution returns; it has succeeded only if everything is stored.
LEMMA ReturnEInv ==
    ASSUME EInv, NEW w \in Workers, NEW j \in Jobs, Return(w, j)
    PROVE  EInv'
<1>1. Execute(w, j)
  BY DEF Return, Execute
<1>2. IInv' /\ TaskInv'
  <2>1. [Next]_vars
    BY <1>1 DEF Next
  <2> QED
    BY <1>1, <2>1, StepIInv, ExecuteMoves DEF EInv
<1>3. /\ UNCHANGED <<candidates, late, job, token, lastClaim, verdictBy>>
      /\ work' = [work EXCEPT ![w][j] = NotStarted]
      /\ \/ work[w][j].cleaned /\ task' = [task EXCEPT ![w][j] = "ok"]
         \/ task' = [task EXCEPT ![w][j] = "err"]
  BY DEF Return, SetTask, store
<1>4. WorkOK'
  <2>1. NotStarted \in Progress
    BY DEF NotStarted, Progress
  <2>2. work' \in [Workers -> [Jobs -> Progress]]
    BY <1>3, <2>1 DEF EInv, WorkOK
  <2>3. \A v \in Workers, i \in Jobs :
          /\ task'[v][i] # "running" => work'[v][i] = NotStarted
          /\ ~work'[v][i].cleaned => work'[v][i].todo = {}
    BY <1>3 DEF EInv, WorkOK, NotStarted, IInv, Frame
  <2> QED
    BY <1>3, <2>2, <2>3 DEF EInv, WorkOK
<1>5. ASSUME NEW i \in Jobs \ late' PROVE OneAttempt(i)'
  <2>1. OneAttempt(i) /\ PendingOf(i)' = PendingOf(i)
    BY <1>3, <1>5 DEF EInv, PendingOf
  <2>2. ASSUME NEW v \in Workers, HasCleaned(v, i)'
        PROVE  HasCleaned(v, i)
    <3>1. CASE v = w /\ i = j
      BY <1>3, <2>2, <3>1 DEF HasCleaned, NotStarted, EInv, WorkOK, IInv, Frame
    <3>2. CASE ~(v = w /\ i = j)
      BY <1>3, <2>2, <3>2 DEF HasCleaned, EInv, WorkOK, IInv, Frame
    <3> QED
      BY <3>1, <3>2
  <2> QED
    BY <1>3, <2>1, <2>2 DEF OneAttempt
<1> QED
  BY <1>2, <1>4, <1>5 DEF EInv

\* A decision only takes a candidate out of the pending ones.
LEMMA DecideEInv ==
    ASSUME EInv, Decide
    PROVE  EInv'
<1>1. UNCHANGED vars /\ work' = work /\ late' = late
  BY DEF Decide
<1>2. IInv' /\ TaskInv'
  BY <1>1, QueueStutters DEF EInv, extraction
<1>3. PICK c \in candidates :
        candidates' = (candidates \ {c}) \union {[c EXCEPT !.decision_state = "decided"]}
  BY DEF Decide
<1>4. c \in Candidate /\ [c EXCEPT !.decision_state = "decided"] \in Candidate
  BY DEF EInv, WorkOK, Candidate
<1>5. /\ [c EXCEPT !.decision_state = "decided"].job = c.job
      /\ [c EXCEPT !.decision_state = "decided"].claim = c.claim
      /\ [c EXCEPT !.decision_state = "decided"].decision_state = "decided"
  BY <1>4 DEF Candidate
<1>6. WorkOK'
  BY <1>1, <1>3, <1>4, <1>5 DEF EInv, WorkOK, vars, store, process
<1>7. \A j \in Jobs : PendingOf(j)' \subseteq PendingOf(j)
  BY <1>3, <1>5 DEF PendingOf
<1>8. ASSUME NEW j \in Jobs \ late' PROVE OneAttempt(j)'
  <2>1. OneAttempt(j) /\ PendingOf(j)' \subseteq PendingOf(j)
    BY <1>1, <1>7 DEF EInv
  <2>2. \A w \in Workers : HasCleaned(w, j)' <=> HasCleaned(w, j)
    BY <1>1 DEF HasCleaned, vars, process
  <2>3. UNCHANGED <<token, lastClaim, job, verdictBy>>
    BY <1>1 DEF vars, store, process
  <2> QED
    BY <2>1, <2>2, <2>3 DEF OneAttempt
<1> QED
  BY <1>2, <1>6, <1>8 DEF EInv

LEMMA StepEInv == EInv /\ [ExtractionNext]_<<vars, extraction>> => EInv'
<1> SUFFICES ASSUME EInv, [ExtractionNext]_<<vars, extraction>> PROVE EInv'
  OBVIOUS
<1>1. CASE UNCHANGED <<vars, extraction>>
  <2>1. IInv' /\ TaskInv'
    BY <1>1, QueueStutters DEF EInv, extraction
  <2>2. WorkOK'
    BY <1>1 DEF EInv, WorkOK, extraction, vars, store, process
  <2>3. \A j \in Jobs : OneAttempt(j) => OneAttempt(j)'
    BY <1>1 DEF OneAttempt, HasCleaned, PendingOf, extraction, vars, store, process
  <2> QED
    BY <1>1, <2>1, <2>2, <2>3 DEF EInv, extraction
<1>2. CASE ExtractionNext
  BY <1>2, QueueStepEInv, WorkEInv, ReturnEInv, DecideEInv DEF ExtractionNext
<1> QED
  BY <1>1, <1>2

\* The inductive invariant of the extraction.
THEOREM ExtractionInvariant == ExtractionSpec => []EInv
BY InitEInv, StepEInv, PTL DEF ExtractionSpec

\* Types, and that every candidate was stored under a claim of its job.
THEOREM ExtractionTyped == ExtractionSpec => []ExtractionTypeOK
<1>1. EInv => ExtractionTypeOK
  BY DEF EInv, WorkOK, ExtractionTypeOK
<1> QED
  BY <1>1, ExtractionInvariant, PTL

\* Unless a worker acted past its lease, all pending candidates of a job come
\* from one attempt, through any sequence of retries, crashes and takeovers.
THEOREM RetriesReplace == ExtractionSpec => []RetryReplacesProposals
<1>1. EInv => RetryReplacesProposals
  BY DEF EInv, OneAttempt, RetryReplacesProposals
<1> QED
  BY <1>1, ExtractionInvariant, PTL

\* What a job that succeeded leaves to review is what the successful attempt
\* stored.
THEOREM SuccessIsLatest == ExtractionSpec => []SucceededIsLatest
<1>1. EInv => SucceededIsLatest
  BY DEF EInv, OneAttempt, SucceededIsLatest
<1> QED
  BY <1>1, ExtractionInvariant, PTL

-------------------------------------------------------------------------------
(* Only a worker past its lease removes what a later attempt has stored.   *)

\* Before its clean-up, a task has stored nothing under its own claim.
Untouched ==
    \A w \in Workers, j \in Jobs :
        task[w][j] = "running" /\ ~work[w][j].cleaned =>
            \A c \in candidates : c.job = j => c.claim # token[w]

LEMMA UntouchedStep ==
    ASSUME EInv, SoleHolder, Untouched, [ExtractionNext]_<<vars, extraction>>
    PROVE  Untouched'
<1> SUFFICES ASSUME NEW w \in Workers, NEW j \in Jobs, NEW c \in candidates',
                    task'[w][j] = "running", ~work'[w][j].cleaned, c.job = j
             PROVE  c.claim # token'[w]
  BY DEF Untouched
<1>1. ASSUME UNCHANGED vars, work'[w][j] = work[w][j],
             \E d \in candidates : d.job = c.job /\ d.claim = c.claim
      PROVE  c.claim # token'[w]
  BY <1>1 DEF Untouched, vars, process
<1>2. CASE UNCHANGED <<vars, extraction>>
  BY <1>1, <1>2 DEF extraction
<1>3. CASE QueueStep
  <2>1. /\ c \in candidates
        /\ work'[w][j] = IF task[w][j] = "running" THEN work[w][j] ELSE NotStarted
    BY <1>3 DEF QueueStep
  <2>2. TaskMove(w, j)
    BY <1>3, TaskMoves DEF EInv, QueueStep, TaskStep
  <2>3. CASE token'[w] = token[w] /\ task[w][j] = "running"
    BY <2>1, <2>3 DEF Untouched
  <2>4. CASE token'[w] = issued + 1
    <3>1. c.claim \in Nat /\ c.claim <= lastClaim[j] /\ lastClaim[j] <= issued /\ issued \in Nat
          /\ lastClaim[j] \in Nat
      BY <2>1 DEF EInv, WorkOK, Candidate, TaskInv, IInv, Frame, RowInv, RowShape
    <3> QED
      BY <2>4, <3>1
  <2> QED
    BY <2>2, <2>3, <2>4 DEF TaskMove
<1>4. ASSUME NEW v \in Workers, NEW i \in Jobs, CleanUp(v, i)
      PROVE  c.claim # token'[w]
  <2>1. /\ UNCHANGED vars /\ c \in candidates
        /\ \E T \in SUBSET Texts : work' = [work EXCEPT ![v][i] = [cleaned |-> TRUE, todo |-> T]]
    BY <1>4 DEF CleanUp
  <2>2. ~(v = w /\ i = j) /\ work'[w][j] = work[w][j]
    BY <2>1 DEF EInv, WorkOK
  <2> QED
    BY <1>1, <2>1, <2>2
<1>5. ASSUME NEW v \in Workers, NEW i \in Jobs, Propose(v, i)
      PROVE  c.claim # token'[w]
  <2>1. PICK t \in work[v][i].todo :
          /\ candidates' = candidates \union
               {[job |-> i, text |-> t, claim |-> token[v], decision_state |-> "pending"]}
          /\ work' = [work EXCEPT ![v][i].todo = @ \ {t}]
    BY <1>5 DEF Propose
  <2>2. UNCHANGED vars /\ task[v][i] = "running" /\ work[v][i].cleaned
    BY <1>5, <2>1 DEF Propose, EInv, WorkOK
  <2>3. work[w][j].cleaned = work'[w][j].cleaned
    BY <2>1 DEF EInv, WorkOK, Progress
  <2>4. v # w \/ i # j
    BY <2>2, <2>3
  <2>5. CASE c \in candidates
    BY <2>2, <2>3, <2>5 DEF Untouched, vars, process
  <2>6. CASE c \notin candidates
    <3>1. c.job = i /\ c.claim = token[v] /\ token'[w] = token[w]
      BY <2>1, <2>2, <2>6 DEF vars, process
    <3>2. token[v] # 0
      BY <2>2 DEF EInv, TaskInv
    <3> QED
      BY <2>4, <3>1, <3>2 DEF SoleHolder
  <2> QED
    BY <2>5, <2>6
<1>6. ASSUME NEW v \in Workers, NEW i \in Jobs, Return(v, i)
      PROVE  c.claim # token'[w]
  <2>1. /\ UNCHANGED <<token, candidates>>
        /\ SetTask(v, i, "ok") \/ SetTask(v, i, "err")
        /\ work' = [work EXCEPT ![v][i] = NotStarted]
    BY <1>6 DEF Return
  <2>2. ~(v = w /\ i = j) /\ task[w][j] = "running" /\ work'[w][j] = work[w][j]
    BY <2>1 DEF SetTask, EInv, WorkOK, IInv, Frame
  <2> QED
    BY <2>1, <2>2 DEF Untouched
<1>7. CASE Decide
  <2>1. UNCHANGED vars /\ work' = work
    BY <1>7 DEF Decide
  <2>2. \E d \in candidates : d.job = c.job /\ d.claim = c.claim
    <3>1. PICK d \in candidates : candidates' = (candidates \ {d}) \union {[d EXCEPT !.decision_state = "decided"]}
      BY <1>7 DEF Decide
    <3>2. d \in Candidate
      BY DEF EInv, WorkOK
    <3> QED
      BY <3>1, <3>2 DEF Candidate
  <2> QED
    BY <1>1, <2>1, <2>2
<1> QED
  BY <1>2, <1>3, <1>4, <1>5, <1>6, <1>7 DEF ExtractionNext

\* RemovesPreviousOnly, for a worker whose lease is live when it cleans up.
LiveCleanUpRemovesPrevious ==
    [][\A w \in Workers, j \in Jobs :
          CleanUp(w, j) /\ OwnsLiveLease(w, j) =>
              \A c \in PendingOf(j) : c.claim < token[w]]_<<vars, extraction>>

\* "Removes the pending candidates a previous extraction attempt created"
\* (store.rs:4228) fails only past the lease: every removal by the holder of
\* the live lease takes the candidates of earlier attempts and no others.
THEOREM OnlyLateCleanUpsErr == ExtractionSpec => LiveCleanUpRemovesPrevious
<1>1. ExtractionInit => Untouched
  BY DEF ExtractionInit, Untouched
<1>2. ExtractionSpec => []SoleHolder
  BY ImplementsQueue, TaskInvariant, PTL
<1>3. ExtractionSpec => []Untouched
  BY <1>1, <1>2, UntouchedStep, ExtractionInvariant, PTL DEF ExtractionSpec
<1>4. ASSUME EInv, Untouched, NEW w \in Workers, NEW j \in Jobs,
             CleanUp(w, j), OwnsLiveLease(w, j), NEW c \in PendingOf(j)
      PROVE  c.claim < token[w]
  <2>1. c \in candidates /\ c.job = j
    BY DEF PendingOf
  <2>2. c.claim # token[w]
    BY <1>4, <2>1 DEF CleanUp, Untouched
  <2>3. token[w] = lastClaim[j] /\ lastClaim[j] \in Nat
    BY <1>4 DEF OwnsLiveLease, EInv, IInv, RowInv, RowShape, RowVerdict
  <2>4. c.claim \in 1..lastClaim[j]
    BY <1>4, <2>1 DEF EInv, WorkOK
  <2> QED
    BY <2>2, <2>3, <2>4
<1>5. EInv /\ Untouched =>
        [\A w \in Workers, j \in Jobs :
            CleanUp(w, j) /\ OwnsLiveLease(w, j) =>
                \A c \in PendingOf(j) : c.claim < token[w]]_<<vars, extraction>>
  BY <1>4
<1> QED
  BY <1>3, <1>5, ExtractionInvariant, PTL DEF ExtractionSpec, LiveCleanUpRemovesPrevious

\* The extraction keeps the promise of JobExecution for every job: taking the
\* execution apart, with late workers that store candidates, changes no verdict.
THEOREM ExtractionExecutes == ExtractionSpec => ExecutesOneAtATime
BY ImplementsQueue, ImplementsExecution

===============================================================================
