---------------------------- MODULE JobQueueProofs ----------------------------
(***************************************************************************)
(* Proofs about JobQueue, for every set of jobs and workers, every budget, *)
(* batch size and lease length, and both queues on both databases.         *)
(*                                                                         *)
(* Every statement of the queue touches a row in one of nine ways.  RowMove*)
(* names them; Moves shows that a step of the specification does nothing   *)
(* else; and what is claimed of a row, RowInv, is preserved by each of     *)
(* them.  The one fact about the workers that the rows need is             *)
(* StaleIsExpired: a sweep's old view never covers a live lease.           *)
(***************************************************************************)
EXTENDS JobQueue, FiniteSetTheorems, TLAPS

-------------------------------------------------------------------------------
(* The inductive invariant.                                                *)

\* The part of the type invariant that is not about rows.
Frame ==
    /\ queue \in [kind : Kinds, dialect : Dialects]
    /\ issued \in Nat
    /\ loop \in [Workers -> LoopState]
    /\ stale \in [Workers -> SUBSET Jobs]
    /\ picked \in [Workers -> [dead : SUBSET Jobs, requeue : SUBSET Jobs, claim : SUBSET Jobs]]
    /\ token \in [Workers -> Nat]
    /\ task \in [Workers -> [Jobs -> Stage]]
    /\ faults \in Nat

\* The table and the histories are functions on the jobs.
Tables ==
    /\ job = [j \in Jobs |-> job[j]]
    /\ runs = [j \in Jobs |-> runs[j]]
    /\ lastClaim = [j \in Jobs |-> lastClaim[j]]
    /\ verdictBy = [j \in Jobs |-> verdictBy[j]]

RowShape(j) ==
    /\ job[j] \in Row
    /\ runs[j] \in Nat
    /\ lastClaim[j] \in Nat
    /\ verdictBy[j] \in Nat
    /\ job[j].lease_token # 0 <=> job[j].state = "running"
    /\ job[j].lease > 0 => job[j].state = "running"
    /\ job[j].wait > 0 => job[j].attempt_count > 0

RowCharged(j) ==
    /\ runs[j] - job[j].attempt_count \in {0, 1}
    /\ job[j].state \in {"absent", "queued"} => runs[j] = job[j].attempt_count
    /\ job[j].state \in {"running", "succeeded", "dead"} => runs[j] = job[j].attempt_count + 1

\* A row that still may start has its last attempt ahead of it.
RowBudget(j) ==
    /\ runs[j] <= MaxAttempts + 1
    /\ job[j].state \in {"absent", "queued", "running", "dead"}
         => job[j].attempt_count <= MaxAttempts
    /\ job[j].state = "dead" => job[j].attempt_count = MaxAttempts

RowVerdict(j) ==
    /\ job[j].state = "running" => job[j].lease_token = lastClaim[j]
    /\ job[j].state \in {"absent", "queued", "running", "dead"} => verdictBy[j] = 0
    /\ verdictBy[j] # 0 => verdictBy[j] = lastClaim[j]

RowInv(j) == RowShape(j) /\ RowCharged(j) /\ RowBudget(j) /\ RowVerdict(j)

StaleIsExpired ==
    \A w \in Workers : \A j \in stale[w] : job[j].state = "running" => job[j].lease = 0

IInv == Frame /\ Tables /\ StaleIsExpired /\ \A j \in Jobs : RowInv(j)

-------------------------------------------------------------------------------
(* What a step does to a row.                                              *)

SameHistory(j) ==
    runs'[j] = runs[j] /\ lastClaim'[j] = lastClaim[j] /\ verdictBy'[j] = verdictBy[j]

MoveNone(j) == job'[j] = job[j] /\ SameHistory(j)

MoveEnqueued(j) ==
    /\ job[j].state = "absent"
    /\ job'[j] = [job[j] EXCEPT !.state = "queued"]
    /\ SameHistory(j)

MovePurged(j) ==
    /\ job[j].state \in Terminal
    /\ job'[j] = [job[j] EXCEPT !.state = "purged"]
    /\ SameHistory(j)

MoveClaimed(j) ==
    /\ job[j].state = "queued"
    /\ job'[j] = Claimed(job[j], issued + 1)
    /\ runs'[j] = runs[j] + 1 /\ lastClaim'[j] = issued + 1 /\ verdictBy'[j] = verdictBy[j]
    /\ \A w \in Workers : j \notin stale'[w]

\* A sweep statement covers the row and the database accepts it.
Swept(j) ==
    /\ \E w \in Workers : StaleAt(w, j)
    /\ \E ids \in SUBSET Jobs : j \in ids /\ BindAccepted(ids)

MoveDead(j) ==
    /\ Swept(j)
    /\ Exhausted(j)
    /\ job'[j] = Released(job[j], "dead", 0, job[j].wait)
    /\ SameHistory(j)

MoveRequeued(j) ==
    /\ Swept(j)
    /\ ~Exhausted(j)
    /\ job'[j] = Released(job[j], "queued", 1, job[j].wait)
    /\ SameHistory(j)

MoveRenewed(j) ==
    /\ job[j].state = "running" /\ job[j].lease > 0
    /\ job'[j] = [job[j] EXCEPT !.lease = LeaseDuration]
    /\ SameHistory(j)
    /\ \A w \in Workers : j \notin stale'[w]

HoldsOutcome(w, j) == OwnsLiveLease(w, j) /\ task[w][j] \in {"ok", "err", "fallback"}

MoveConcluded(j) ==
    \E w \in Workers :
        /\ HoldsOutcome(w, j)
        /\ \E state \in {"succeeded", "failed"} :
              /\ state = "succeeded" <=> task[w][j] = "ok"
              /\ job'[j] = Released(job[j], state, 0, job[j].wait)
        /\ runs'[j] = runs[j] /\ lastClaim'[j] = lastClaim[j] /\ verdictBy'[j] = token[w]

MoveCharged(j) ==
    \E w \in Workers :
        /\ HoldsOutcome(w, j) /\ task[w][j] = "err"
        /\ runs'[j] = runs[j] /\ lastClaim'[j] = lastClaim[j]
        /\ \/ /\ job[j].attempt_count + 1 >= MaxAttempts
              /\ job'[j] = Released(job[j], "failed", 1, 0)
              /\ verdictBy'[j] = token[w]
           \/ /\ job[j].attempt_count + 1 < MaxAttempts
              /\ job'[j] = Released(job[j], "queued", 1, Larger(RetryBackoff, 1))
              /\ verdictBy'[j] = verdictBy[j]

MoveAged(j) == job'[j] = Aged(job[j]) /\ SameHistory(j)

RowMove(j) ==
    \/ MoveNone(j) \/ MoveEnqueued(j) \/ MovePurged(j) \/ MoveClaimed(j)
    \/ MoveDead(j) \/ MoveRequeued(j) \/ MoveRenewed(j)
    \/ MoveConcluded(j) \/ MoveCharged(j) \/ MoveAged(j)

-------------------------------------------------------------------------------
(* A row keeps its invariant through every move.                           *)

\* Every way in which a statement of the queue touches a row preserves what is
\* claimed of rows: the charge, the budget and the verdict's author.
LEMMA RowPreserved ==
    ASSUME NEW j \in Jobs, RowInv(j), RowMove(j), issued \in Nat, token \in [Workers -> Nat],
           \A w \in Workers : StaleAt(w, j) => job[j].lease = 0
    PROVE  RowInv(j)'
<1> USE JobQueueAssumption
<1> DEFINE r == job[j]
<1>0. /\ r.state \in JobState /\ r.attempt_count \in Nat /\ r.lease_token \in Nat
      /\ r.lease \in Nat /\ r.wait \in Nat
      /\ r = [state |-> r.state, attempt_count |-> r.attempt_count,
              lease_token |-> r.lease_token, lease |-> r.lease, wait |-> r.wait]
      /\ r \in Row
      /\ runs[j] \in Nat /\ lastClaim[j] \in Nat /\ verdictBy[j] \in Nat
  BY DEF RowInv, RowShape, Row
<1>1. CASE MoveNone(j)
  BY <1>1 DEF MoveNone, SameHistory, RowInv, RowShape, RowCharged, RowBudget, RowVerdict
<1>2. CASE MoveEnqueued(j)
  BY <1>0, <1>2
  DEF MoveEnqueued, SameHistory, RowInv, RowShape, RowCharged, RowBudget, RowVerdict, Row,
      JobState
<1>3. CASE MovePurged(j)
  BY <1>0, <1>3
  DEF MovePurged, SameHistory, RowInv, RowShape, RowCharged, RowBudget, RowVerdict, Row,
      JobState, Terminal
<1>4. CASE MoveClaimed(j)
  BY <1>0, <1>4
  DEF MoveClaimed, Claimed, RowInv, RowShape, RowCharged, RowBudget, RowVerdict, Row, JobState
<1>5. CASE MoveDead(j)
  BY <1>0, <1>5
  DEF MoveDead, Swept, Released, Exhausted, StaleAt, SameHistory, RowInv, RowShape, RowCharged,
      RowBudget, RowVerdict, Row, JobState, Terminal
<1>6. CASE MoveRequeued(j)
  BY <1>0, <1>6
  DEF MoveRequeued, Swept, Released, Exhausted, StaleAt, SameHistory, RowInv, RowShape, RowCharged,
      RowBudget, RowVerdict, Row, JobState, Terminal
<1>7. CASE MoveRenewed(j)
  BY <1>0, <1>7
  DEF MoveRenewed, SameHistory, RowInv, RowShape, RowCharged, RowBudget, RowVerdict, Row,
      JobState
<1>8. CASE MoveConcluded(j)
  BY <1>0, <1>8
  DEF MoveConcluded, HoldsOutcome, OwnsLiveLease, Released, RowInv, RowShape, RowCharged,
      RowBudget, RowVerdict, Row, JobState, Terminal
<1>9. CASE MoveCharged(j)
  BY <1>0, <1>9
  DEF MoveCharged, HoldsOutcome, OwnsLiveLease, Released, Larger, RowInv, RowShape,
      RowCharged, RowBudget, RowVerdict, Row, JobState, Terminal
<1>10. CASE MoveAged(j)
  BY <1>0, <1>10
  DEF MoveAged, Aged, Larger, SameHistory, RowInv, RowShape, RowCharged, RowBudget,
      RowVerdict, Row, JobState
<1> QED
  BY <1>1, <1>2, <1>3, <1>4, <1>5, <1>6, <1>7, <1>8, <1>9, <1>10 DEF RowMove

-------------------------------------------------------------------------------
(* A step is one of those moves on every row.                              *)

\* The limits of a SELECT never add a row to it.
LEMMA LimitedWithin ==
    ASSUME NEW S, NEW n, NEW T \in Limited(S, n)
    PROVE  T \subseteq S
BY DEF Limited

\* What a step establishes beside the row invariant.
Step ==
    /\ \A j \in Jobs : RowMove(j)
    /\ Tables'
    /\ Frame'
    /\ StaleIsExpired'

\* The rows a request or retention touches.
LEMMA RequestSteps ==
    ASSUME IInv, NEW j \in Jobs, Enqueue(j) \/ Purge(j)
    PROVE  Step
<1> DEFINE new == IF Enqueue(j) THEN "queued" ELSE "purged"
<1>1. /\ job' = [job EXCEPT ![j].state = "queued"] \/ job' = [job EXCEPT ![j].state = "purged"]
      /\ UNCHANGED <<issued, lastClaim, runs, verdictBy, process, faults, queue>>
  BY DEF Enqueue, Purge
<1>2. Frame' /\ Tables'
  BY <1>1 DEF IInv, Frame, Tables, process
<1>3. \A i \in Jobs : RowMove(i)
  BY DEF IInv, Enqueue, Purge, Tables, RowMove, MoveNone, MoveEnqueued, MovePurged, SameHistory
<1>4. \A i \in Jobs : job'[i] = job[i] \/ job'[i].state # "running"
  <2> TAKE i \in Jobs
  <2>1. CASE i = j
    BY <1>1, <2>1 DEF IInv, Tables, RowInv, RowShape, Row
  <2>2. CASE i # j
    BY <1>1, <2>2 DEF IInv, Tables
  <2> QED
    BY <2>1, <2>2
<1>5. StaleIsExpired'
  BY <1>1, <1>4 DEF IInv, Frame, StaleIsExpired, process
<1> QED
  BY <1>2, <1>3, <1>5 DEF Step

\* The SELECTs of the sweep change no row, and take none with a live lease
\* into view.
LEMMA SweepSelectStep ==
    ASSUME IInv, NEW w \in Workers, SweepSelect(w)
    PROVE  Step
<1> DEFINE old  == IF loop[w] = "sleep" THEN {j \in Jobs : Expired(j)}
                   ELSE {j \in stale[w] : job[j].state = "running"}
           dead == {j \in old : Exhausted(j)}
<1>1. PICK d \in Limited(dead, SweepBatch), r \in Limited(old \ dead, SweepBatch) :
        picked' = [picked EXCEPT ![w] = [dead |-> d, requeue |-> r, claim |-> {}]]
  BY DEF SweepSelect
<1>2. old \subseteq Jobs
  BY DEF IInv, Frame
<1>3. d \subseteq Jobs /\ r \subseteq Jobs
  BY <1>2, LimitedWithin
<1>4. /\ stale' = [stale EXCEPT ![w] = old]
      /\ loop' = [loop EXCEPT ![w] = IF old = {} THEN "claim" ELSE "dead"]
      /\ UNCHANGED <<store, token, task, faults, queue>>
  BY DEF SweepSelect
<1>5. Frame'
  BY <1>1, <1>2, <1>3, <1>4 DEF IInv, Frame, store, LoopState
<1>6. Tables' /\ \A j \in Jobs : RowMove(j)
  BY <1>4 DEF IInv, Tables, store, RowMove, MoveNone, SameHistory
<1>7. \A j \in old : job[j].state = "running" => job[j].lease = 0
  BY DEF Expired, IInv, StaleIsExpired
<1>8. StaleIsExpired'
  BY <1>4, <1>7 DEF IInv, Frame, StaleIsExpired, store
<1> QED
  BY <1>5, <1>6, <1>8 DEF Step

\* A statement of the sweep, or its failure, releases only rows of its view.
LEMMA SweepSteps ==
    ASSUME IInv, NEW w \in Workers, SweepDead(w) \/ SweepRequeue(w)
    PROVE  Step
<1>1. /\ loop' \in [Workers -> LoopState]
      /\ picked' \in [Workers -> [dead : SUBSET Jobs, requeue : SUBSET Jobs, claim : SUBSET Jobs]]
      /\ stale' \in [Workers -> SUBSET Jobs]
      /\ \A v \in Workers : stale'[v] \subseteq stale[v]
      /\ UNCHANGED <<issued, lastClaim, runs, verdictBy, token, task, faults, queue>>
  <2>1. PICK failed \in BOOLEAN, next \in {"requeue", "sweep"} : AfterSweep(w, failed, next)
    <3>1. CASE SweepDead(w)
      BY <3>1 DEF SweepDead
    <3>2. CASE SweepRequeue(w)
      BY <3>2 DEF SweepRequeue
    <3> QED
      BY <3>1, <3>2
  <2>2. loop' \in [Workers -> LoopState]
    BY <2>1 DEF AfterSweep, IInv, Frame, LoopState
  <2>3. picked' \in [Workers -> [dead : SUBSET Jobs, requeue : SUBSET Jobs, claim : SUBSET Jobs]]
    <3>1. NoIds \in [dead : SUBSET Jobs, requeue : SUBSET Jobs, claim : SUBSET Jobs]
      BY DEF NoIds
    <3> QED
      BY <2>1, <3>1 DEF AfterSweep, IInv, Frame
  <2>4. stale' \in [Workers -> SUBSET Jobs] /\ \A v \in Workers : stale'[v] \subseteq stale[v]
    BY <2>1 DEF AfterSweep, IInv, Frame
  <2> QED
    BY <2>1, <2>2, <2>3, <2>4 DEF AfterSweep
<1>2. Frame'
  BY <1>1 DEF IInv, Frame
<1>3. ASSUME SweepDead(w)
      PROVE  Tables' /\ \A j \in Jobs : RowMove(j)
  <2> DEFINE ids == picked[w].dead
  <2>1. /\ \/ job' = job
           \/ /\ job' = SweptRows({j \in ids : Exhausted(j)}, w, "dead", 0)
              /\ ids = {} \/ BindAccepted(ids)
        /\ UNCHANGED <<runs, lastClaim, verdictBy>>
    BY <1>1, <1>3 DEF SweepDead
  <2>0. ids \in SUBSET Jobs
    BY DEF IInv, Frame
  <2>2. \A j \in Jobs : MoveNone(j) \/ MoveDead(j)
    <3> SUFFICES ASSUME NEW j \in Jobs, ~MoveNone(j) PROVE MoveDead(j)
      OBVIOUS
    <3>1. j \in ids /\ StaleAt(w, j) /\ Exhausted(j) /\ BindAccepted(ids)
      BY <2>1 DEF SweptRows, MoveNone, SameHistory
    <3>2. job'[j] = Released(job[j], "dead", 0, job[j].wait) /\ SameHistory(j)
      BY <2>1, <3>1 DEF SweptRows, MoveNone, SameHistory
    <3> QED
      BY <2>0, <3>1, <3>2 DEF MoveDead, Swept
  <2>3. Tables'
    BY <2>1 DEF SweptRows, IInv, Tables
  <2> QED
    BY <2>2, <2>3 DEF RowMove
<1>4. ASSUME SweepRequeue(w)
      PROVE  Tables' /\ \A j \in Jobs : RowMove(j)
  <2> DEFINE ids == picked[w].requeue
  <2>1. /\ \/ job' = job
           \/ /\ job' = SweptRows({j \in ids : ~Exhausted(j)}, w, "queued", 1)
              /\ ids = {} \/ BindAccepted(ids)
        /\ UNCHANGED <<runs, lastClaim, verdictBy>>
    BY <1>1, <1>4 DEF SweepRequeue
  <2>0. ids \in SUBSET Jobs
    BY DEF IInv, Frame
  <2>2. \A j \in Jobs : MoveNone(j) \/ MoveRequeued(j)
    <3> SUFFICES ASSUME NEW j \in Jobs, ~MoveNone(j) PROVE MoveRequeued(j)
      OBVIOUS
    <3>1. j \in ids /\ StaleAt(w, j) /\ ~Exhausted(j) /\ BindAccepted(ids)
      BY <2>1 DEF SweptRows, MoveNone, SameHistory
    <3>2. job'[j] = Released(job[j], "queued", 1, job[j].wait) /\ SameHistory(j)
      BY <2>1, <3>1 DEF SweptRows, MoveNone, SameHistory
    <3> QED
      BY <2>0, <3>1, <3>2 DEF MoveRequeued, Swept
  <2>3. Tables'
    BY <2>1 DEF SweptRows, IInv, Tables
  <2> QED
    BY <2>2, <2>3 DEF RowMove
<1>5. \A j \in Jobs : job'[j] = job[j] \/ job'[j].state # "running"
  <2>1. CASE SweepDead(w)
    BY <2>1 DEF SweepDead, SweptRows, Released
  <2>2. CASE SweepRequeue(w)
    BY <2>2 DEF SweepRequeue, SweptRows, Released
  <2> QED
    BY <2>1, <2>2
<1>6. StaleIsExpired'
  BY <1>1, <1>5 DEF IInv, Frame, StaleIsExpired
<1>7. Tables' /\ \A j \in Jobs : RowMove(j)
  BY <1>3, <1>4
<1> QED
  BY <1>2, <1>6, <1>7 DEF Step

\* A claim touches queued rows only, and takes them out of every sweep's view.
LEMMA ClaimRowsStep ==
    ASSUME IInv, NEW w \in Workers, NEW S, ClaimRows(w, S),
           \A j \in S : j \in Jobs /\ job[j].state = "queued"
    PROVE  /\ \A j \in Jobs : RowMove(j)
           /\ Tables' /\ StaleIsExpired'
           /\ issued' \in Nat /\ token' \in [Workers -> Nat]
           /\ stale' \in [Workers -> SUBSET Jobs]
<1>1. \A j \in Jobs : MoveNone(j) \/ MoveClaimed(j)
  BY DEF ClaimRows, MoveNone, MoveClaimed, SameHistory
<1>2. Tables'
  BY DEF ClaimRows, IInv, Tables
<1>3. issued' \in Nat /\ token' \in [Workers -> Nat] /\ stale' \in [Workers -> SUBSET Jobs]
  BY DEF ClaimRows, IInv, Frame
<1>4. \A v \in Workers : \A j \in stale'[v] : j \in stale[v] /\ job'[j] = job[j]
  BY DEF ClaimRows, IInv, Frame
<1>5. StaleIsExpired'
  BY <1>4 DEF IInv, StaleIsExpired
<1> QED
  BY <1>1, <1>2, <1>3, <1>5 DEF RowMove

\* The frame of a step that leaves the store and the views alone.
LEMMA IdleStep ==
    ASSUME IInv, UNCHANGED <<store, stale, queue>>,
           loop' \in [Workers -> LoopState],
           picked' \in [Workers -> [dead : SUBSET Jobs, requeue : SUBSET Jobs, claim : SUBSET Jobs]],
           token' \in [Workers -> Nat],
           task' \in [Workers -> [Jobs -> Stage]],
           faults' \in Nat
    PROVE  Step
<1>1. Frame' /\ Tables' /\ StaleIsExpired'
  BY DEF IInv, Frame, Tables, StaleIsExpired, store
<1>2. \A j \in Jobs : RowMove(j)
  BY DEF RowMove, MoveNone, SameHistory, store
<1> QED
  BY <1>1, <1>2 DEF Step

LEMMA DispatchStep ==
    ASSUME IInv, NEW w \in Workers, NEW S, Dispatch(w, S),
           \A j \in S : j \in Jobs /\ job[j].state = "queued",
           picked' \in [Workers -> [dead : SUBSET Jobs, requeue : SUBSET Jobs, claim : SUBSET Jobs]],
           UNCHANGED <<faults, queue>>
    PROVE  Step
<1>1. loop' \in [Workers -> LoopState] /\ task' \in [Workers -> [Jobs -> Stage]]
  <2>1. [j \in Jobs |-> IF j \in S THEN "running" ELSE "none"] \in [Jobs -> Stage]
    BY DEF Stage
  <2>2. /\ UNCHANGED task \/ task' = [task EXCEPT ![w] = [j \in Jobs |-> IF j \in S THEN "running" ELSE "none"]]
        /\ \E l \in {"sleep", "drain"} : loop' = [loop EXCEPT ![w] = l]
    BY DEF Dispatch
  <2>3. loop \in [Workers -> LoopState] /\ task \in [Workers -> [Jobs -> Stage]]
    BY DEF IInv, Frame
  <2>4. task' \in [Workers -> [Jobs -> Stage]]
    BY <2>1, <2>2, <2>3
  <2>5. loop' \in [Workers -> LoopState]
    BY <2>2, <2>3 DEF LoopState
  <2> QED
    BY <2>4, <2>5
<1>2. CASE S = {}
  BY <1>1, <1>2, IdleStep DEF Dispatch, IInv, Frame
<1>3. CASE S # {}
  <2>1. ClaimRows(w, S)
    BY <1>3 DEF Dispatch
  <2> QED
    BY <1>1, <2>1, ClaimRowsStep DEF Step, Frame, IInv
<1> QED
  BY <1>2, <1>3

\* The ids that a claim has picked are replaced in one field of the record.
LEMMA PickedClaim ==
    ASSUME NEW p \in [Workers -> [dead : SUBSET Jobs, requeue : SUBSET Jobs, claim : SUBSET Jobs]],
           NEW w \in Workers, NEW S \in SUBSET Jobs
    PROVE  [p EXCEPT ![w].claim = S]
             \in [Workers -> [dead : SUBSET Jobs, requeue : SUBSET Jobs, claim : SUBSET Jobs]]
OBVIOUS

LEMMA ClaimSteps ==
    ASSUME IInv, NEW w \in Workers, Claim(w) \/ ClaimSelect(w) \/ ClaimTake(w) \/ Drained(w)
    PROVE  Step
<1> DEFINE due == {j \in Jobs : Due(j)}
<1>1. CASE Claim(w)
  <2>1. PICK S \in Limited(due, Concurrency) : Dispatch(w, S)
    BY <1>1 DEF Claim
  <2>2. \A j \in S : j \in Jobs /\ job[j].state = "queued"
    BY LimitedWithin DEF Due
  <2> QED
    BY <1>1, <2>1, <2>2, DispatchStep DEF Claim, IInv, Frame
<1>2. CASE ClaimSelect(w)
  <2>1. PICK S \in Limited(due, Concurrency) : picked' = [picked EXCEPT ![w].claim = S]
    BY <1>2 DEF ClaimSelect
  <2>2. S \in SUBSET Jobs
    BY LimitedWithin
  <2>3. picked' \in [Workers -> [dead : SUBSET Jobs, requeue : SUBSET Jobs, claim : SUBSET Jobs]]
    BY <2>1, <2>2, PickedClaim DEF IInv, Frame
  <2> QED
    BY <1>2, <2>3, IdleStep DEF ClaimSelect, IInv, Frame, LoopState
<1>3. CASE ClaimTake(w)
  <2>1. picked' \in [Workers -> [dead : SUBSET Jobs, requeue : SUBSET Jobs, claim : SUBSET Jobs]]
    BY <1>3, PickedClaim DEF ClaimTake, IInv, Frame
  <2>2. \A j \in Takeable(w) : j \in Jobs /\ job[j].state = "queued"
    BY DEF Takeable, IInv, Frame
  <2> QED
    BY <1>3, <2>1, <2>2, DispatchStep DEF ClaimTake
<1>4. CASE Drained(w)
  BY <1>4, IdleStep DEF Drained, IInv, Frame, LoopState
<1> QED
  BY <1>1, <1>2, <1>3, <1>4

\* The statements of a task move only a row whose live lease they hold, with
\* an outcome in hand.
LEMMA ChargeMoves ==
    ASSUME IInv, NEW w \in Workers, NEW j \in Jobs, task[w][j] = "err",
           Charge(w, j) \/ UNCHANGED <<job, verdictBy>>, UNCHANGED <<runs, lastClaim>>
    PROVE  Tables' /\ \A i \in Jobs : MoveNone(i) \/ MoveCharged(i)
<1> USE JobQueueAssumption
<1>1. CASE UNCHANGED <<job, verdictBy>>
  BY <1>1 DEF IInv, Tables, MoveNone, SameHistory
<1>2. CASE Charge(w, j) /\ OwnsLiveLease(w, j)
  <2> DEFINE failed == job[j].attempt_count + 1 >= MaxAttempts
             row == Released(job[j], IF failed THEN "failed" ELSE "queued", 1,
                             IF failed THEN 0 ELSE Larger(RetryBackoff, 1))
  <2>1. /\ job' = [job EXCEPT ![j] = row]
        /\ verdictBy' = [verdictBy EXCEPT ![j] = IF failed THEN token[w] ELSE @]
    BY <1>2 DEF Charge
  <2>2. Tables'
    BY <2>1 DEF IInv, Tables
  <2>3. job'[j] = row /\ verdictBy'[j] = IF failed THEN token[w] ELSE verdictBy[j]
    BY <2>1 DEF IInv, Tables
  <2>4. job[j].attempt_count \in Nat
    BY DEF IInv, RowInv, RowShape, Row
  <2>5. MoveCharged(j)
    <3>1. CASE failed
      BY <1>2, <2>3, <3>1 DEF MoveCharged, HoldsOutcome
    <3>2. CASE ~failed
      BY <1>2, <2>3, <2>4, <3>2 DEF MoveCharged, HoldsOutcome
    <3> QED
      BY <3>1, <3>2
  <2>6. \A i \in Jobs \ {j} : MoveNone(i)
    BY <2>1 DEF IInv, Tables, MoveNone, SameHistory
  <2> QED
    BY <2>2, <2>5, <2>6
<1>3. CASE Charge(w, j) /\ ~OwnsLiveLease(w, j)
  BY <1>1, <1>3 DEF Charge
<1> QED
  BY <1>1, <1>2, <1>3

\* The same with the frame: a failure is charged, or its record fails.
LEMMA ChargeSteps ==
    ASSUME IInv, NEW w \in Workers, NEW j \in Jobs, task[w][j] = "err",
           NEW next \in Stage, SetTask(w, j, next),
           Charge(w, j) \/ UNCHANGED <<job, verdictBy>>, faults' \in Nat,
           UNCHANGED <<issued, lastClaim, runs, loop, stale, picked, token, queue>>
    PROVE  Step
<1>1. Tables' /\ \A i \in Jobs : MoveNone(i) \/ MoveCharged(i)
  BY ChargeMoves
<1>2. Frame'
  BY DEF IInv, Frame, SetTask
<1>3. \A i \in Jobs : job'[i] = job[i] \/ job'[i].state # "running"
  <2> TAKE i \in Jobs
  <2>1. CASE MoveNone(i)
    BY <2>1 DEF MoveNone
  <2>2. CASE MoveCharged(i)
    <3>1. \/ job'[i] = Released(job[i], "failed", 1, 0)
          \/ job'[i] = Released(job[i], "queued", 1, Larger(RetryBackoff, 1))
      BY <2>2 DEF MoveCharged
    <3> QED
      BY <3>1 DEF Released
  <2> QED
    BY <1>1, <2>1, <2>2
<1>4. StaleIsExpired'
  BY <1>3 DEF IInv, Frame, StaleIsExpired
<1> QED
  BY <1>1, <1>2, <1>4 DEF Step, RowMove

\* A task that executes, renews, finishes or requeues.
LEMMA TaskSteps ==
    ASSUME IInv, NEW w \in Workers, NEW j \in Jobs,
           Execute(w, j) \/ Settle(w, j)
    PROVE  Step
<1> USE JobQueueAssumption
<1>1. CASE Execute(w, j)
  BY <1>1, IdleStep DEF Execute, SetTask, Stage, IInv, Frame, store
<1>2. CASE Heartbeat(w, j)
  <2>1. CASE OwnsLiveLease(w, j)
    <3>1. /\ job' = [job EXCEPT ![j].lease = LeaseDuration]
          /\ stale' = [v \in Workers |-> stale[v] \ {j}]
          /\ UNCHANGED <<issued, lastClaim, runs, verdictBy, loop, picked, token, task, faults, queue>>
      BY <1>2, <2>1 DEF Heartbeat
    <3>2. Frame' /\ Tables'
      <4>1. stale' \in [Workers -> SUBSET Jobs]
        BY <3>1 DEF IInv, Frame
      <4>2. Frame'
        BY <3>1, <4>1 DEF IInv, Frame
      <4>3. Tables'
        BY <3>1 DEF IInv, Tables
      <4> QED
        BY <4>2, <4>3
    <3>3. /\ job'[j] = [job[j] EXCEPT !.lease = LeaseDuration]
          /\ \A i \in Jobs \ {j} : job'[i] = job[i]
          /\ \A v \in Workers : j \notin stale'[v] /\ stale'[v] \subseteq stale[v]
      BY <3>1 DEF IInv, Tables
    <3>4. \A i \in Jobs : RowMove(i)
      BY <2>1, <3>1, <3>3 DEF RowMove, MoveNone, MoveRenewed, SameHistory, OwnsLiveLease
    <3>5. StaleIsExpired'
      <4>1. \A v \in Workers : \A i \in stale'[v] : i \in stale[v] /\ job'[i] = job[i]
        BY <3>3 DEF IInv, Frame
      <4> QED
        BY <4>1 DEF IInv, StaleIsExpired
    <3> QED
      BY <3>2, <3>4, <3>5 DEF Step
  <2>2. CASE ~OwnsLiveLease(w, j)
    <3>1. /\ UNCHANGED <<store, stale, queue, loop, picked, token, faults>>
          /\ task' = [task EXCEPT ![w][j] = "none"]
      BY <1>2, <2>2 DEF Heartbeat, SetTask, store
    <3>2. task' \in [Workers -> [Jobs -> Stage]]
      BY <3>1 DEF Stage, IInv, Frame
    <3> QED
      BY <3>1, <3>2, IdleStep DEF IInv, Frame
  <2> QED
    BY <2>1, <2>2
<1>3. ASSUME NEW state \in {"succeeded", "failed"}, Conclude(w, j, state),
             task[w][j] \in {"ok", "err", "fallback"},
             state = "succeeded" <=> task[w][j] = "ok"
      PROVE  Step
  <2>1. /\ task' \in [Workers -> [Jobs -> Stage]]
        /\ UNCHANGED <<issued, lastClaim, runs, loop, stale, picked, token, faults, queue>>
    BY <1>3 DEF Conclude, SetTask, Stage, IInv, Frame
  <2>2. CASE OwnsLiveLease(w, j)
    <3>1. /\ job' = [job EXCEPT ![j] = Released(job[j], state, 0, job[j].wait)]
          /\ verdictBy' = [verdictBy EXCEPT ![j] = token[w]]
      BY <1>3, <2>2 DEF Conclude
    <3>2. Tables' /\ Frame'
      <4>1. Tables'
        BY <2>1, <3>1 DEF IInv, Tables
      <4>2. Frame'
        BY <2>1 DEF IInv, Frame
      <4> QED
        BY <4>1, <4>2
    <3>3. /\ job'[j] = Released(job[j], state, 0, job[j].wait) /\ verdictBy'[j] = token[w]
          /\ \A i \in Jobs \ {j} : job'[i] = job[i] /\ verdictBy'[i] = verdictBy[i]
      BY <3>1 DEF IInv, Tables
    <3>4. \A i \in Jobs : RowMove(i)
      BY <1>3, <2>1, <2>2, <3>3 DEF RowMove, MoveNone, MoveConcluded, HoldsOutcome, SameHistory
    <3>5. job'[j].state # "running"
      BY <3>3 DEF Released
    <3>6. StaleIsExpired'
      <4>1. \A v \in Workers : \A i \in stale'[v] :
              i \in stale[v] /\ (i = j \/ job'[i] = job[i])
        BY <2>1, <3>3 DEF IInv, Frame
      <4> QED
        BY <3>5, <4>1 DEF IInv, StaleIsExpired
    <3> QED
      BY <3>2, <3>4, <3>6 DEF Step
  <2>3. CASE ~OwnsLiveLease(w, j)
    BY <1>3, <2>1, <2>3, IdleStep DEF Conclude, IInv, Frame, store
  <2> QED
    BY <2>2, <2>3
<1>4. CASE Finish(w, j)
  BY <1>3, <1>4 DEF Finish
<1>5. CASE RequeueFailed(w, j)
  BY <1>5, ChargeSteps DEF RequeueFailed, Stage, IInv, Frame
<1> QED
  BY <1>1, <1>2, <1>4, <1>5 DEF Settle

\* A crash, a failed statement or a lost task: the rows stay, except those a
\* claim took before it failed and a failure that was charged.
LEMMA FaultSteps ==
    ASSUME IInv, NEW w \in Workers, Fault(w)
    PROVE  Step
<1> DEFINE P == [dead : SUBSET Jobs, requeue : SUBSET Jobs, claim : SUBSET Jobs]
<1>0. NoIds \in P /\ NoTasks \in [Jobs -> Stage]
  BY DEF NoIds, NoTasks, Stage
<1>1. ASSUME SweepError(w) \/ Crash(w)
      PROVE  Step
  <2>1. /\ loop' = [loop EXCEPT ![w] = "sleep"]
        /\ stale' = [stale EXCEPT ![w] = {}]
        /\ picked' = [picked EXCEPT ![w] = NoIds]
        /\ token' = token \/ token' = [token EXCEPT ![w] = 0]
        /\ task' = task \/ task' = [task EXCEPT ![w] = NoTasks]
        /\ faults' = faults + 1
        /\ UNCHANGED <<store, queue>>
    BY <1>1 DEF SweepError, Crash
  <2>2. Frame'
    <3>1. picked' \in [Workers -> P] /\ task' \in [Workers -> [Jobs -> Stage]]
      BY <1>0, <2>1 DEF IInv, Frame
    <3>2. token' \in [Workers -> Nat] /\ stale' \in [Workers -> SUBSET Jobs]
      BY <2>1 DEF IInv, Frame
    <3>3. loop' \in [Workers -> LoopState] /\ faults' \in Nat
      BY <2>1 DEF IInv, Frame, LoopState
    <3> QED
      BY <2>1, <3>1, <3>2, <3>3 DEF IInv, Frame, store
  <2>3. Tables' /\ \A j \in Jobs : RowMove(j)
    BY <2>1 DEF IInv, Tables, store, RowMove, MoveNone, SameHistory
  <2>4. StaleIsExpired'
    BY <2>1 DEF IInv, Frame, StaleIsExpired, store
  <2> QED
    BY <2>2, <2>3, <2>4 DEF Step
<1>2. ASSUME ClaimFails(w)
      PROVE  Step
  <2>1. /\ loop' \in [Workers -> LoopState] /\ faults' \in Nat
        /\ UNCHANGED <<task, queue>>
    BY <1>2 DEF ClaimFails, IInv, Frame, LoopState
  <2>2. picked' \in [Workers -> P]
    BY <1>2, PickedClaim DEF ClaimFails, IInv, Frame
  <2>3. CASE UNCHANGED <<store, stale, token>>
    BY <2>1, <2>2, <2>3, IdleStep DEF IInv, Frame
  <2>4. ASSUME NEW S \in SUBSET Takeable(w), ClaimRows(w, S)
        PROVE  Step
    <3>1. \A j \in S : j \in Jobs /\ job[j].state = "queued"
      BY DEF Takeable, IInv, Frame
    <3> QED
      BY <2>1, <2>2, <2>4, <3>1, ClaimRowsStep DEF Step, Frame, IInv
  <2> QED
    BY <1>2, <2>3, <2>4 DEF ClaimFails
<1>3. ASSUME NEW j \in Jobs, RequeueError(w, j)
      PROVE  Step
  BY <1>3, ChargeSteps DEF RequeueError, Stage, IInv, Frame
<1>4. ASSUME NEW j \in Jobs, LoseTask(w, j)
      PROVE  Step
  BY <1>4, IdleStep DEF LoseTask, SetTask, Stage, IInv, Frame, store
<1> QED
  BY <1>1, <1>2, <1>3, <1>4 DEF Fault

\* The clock brings every lease and every wait a second nearer.
LEMMA TickStep ==
    ASSUME IInv, Tick
    PROVE  Step
<1>1. /\ job' = [j \in Jobs |-> Aged(job[j])]
      /\ UNCHANGED <<issued, lastClaim, runs, verdictBy, process, faults, queue>>
  BY DEF Tick
<1>2. Frame' /\ Tables'
  BY <1>1 DEF IInv, Frame, Tables, process
<1>3. \A j \in Jobs : RowMove(j)
  BY <1>1 DEF RowMove, MoveAged, SameHistory
<1>4. StaleIsExpired'
  <2> SUFFICES ASSUME NEW v \in Workers, NEW j \in stale[v], job'[j].state = "running"
               PROVE  job'[j].lease = 0
    BY <1>1 DEF StaleIsExpired, process
  <2>1. j \in Jobs
    BY DEF IInv, Frame
  <2>2. job'[j] = Aged(job[j])
    BY <1>1, <2>1
  <2>3. job[j].lease = 0
    BY <2>2 DEF Aged, IInv, StaleIsExpired
  <2> QED
    BY <2>2, <2>3 DEF Aged, Larger
<1> QED
  BY <1>2, <1>3, <1>4 DEF Step

\* Every step of the queue is a move on each row.
LEMMA NextIsStep ==
    ASSUME IInv, [Next]_vars
    PROVE  Step
<1>1. CASE UNCHANGED vars
  BY <1>1, IdleStep DEF vars, process, store, IInv, Frame
<1>2. CASE Next
  <2>1. ASSUME NEW w \in Workers, Loop(w)
        PROVE  Step
    BY <2>1, SweepSelectStep, SweepSteps, ClaimSteps DEF Loop
  <2> QED
    BY <1>2, <2>1, RequestSteps, FaultSteps, TaskSteps, TickStep DEF Next
<1> QED
  BY <1>1, <1>2

-------------------------------------------------------------------------------
(* What a step does to a task: facts that a specification of the work done *)
(* by the tasks builds on.                                                 *)

\* A worker with a task in hand is draining its batch, under a token no newer
\* than the latest claim of the job.
TaskInv ==
    /\ \A w \in Workers : token[w] <= issued
    /\ \A j \in Jobs : lastClaim[j] <= issued
    /\ \A w \in Workers, j \in Jobs :
          task[w][j] # "none" => loop[w] = "drain" /\ 1 <= token[w] /\ token[w] <= lastClaim[j]

\* The batch of a task stays the same from its start to its end.
TaskMove(w, j) ==
    \/ task'[w][j] = "none"
    \/ /\ token'[w] = token[w] /\ loop'[w] = loop[w]
       /\ \/ task'[w][j] = task[w][j]
          \/ task[w][j] = "err" /\ task'[w][j] = "fallback"
    \/ /\ task[w][j] = "none" /\ task'[w][j] = "running" /\ loop'[w] = "drain"
       /\ token'[w] = issued + 1 /\ lastClaim'[j] = issued + 1

Tokens ==
    /\ issued' \in {issued, issued + 1}
    /\ \A w \in Workers : token'[w] \in {0, token[w], issued'}
    /\ \A j \in Jobs : lastClaim'[j] \in {lastClaim[j], issued'}
    /\ issued' = issued => \A j \in Jobs : lastClaim'[j] = lastClaim[j]
    /\ \A j \in Jobs : lastClaim'[j] # lastClaim[j] => job[j].state = "queued"

\* A drawn token goes to one worker.
FreshToken ==
    /\ \A w \in Workers : token'[w] \in {0, token[w], issued + 1}
    /\ \A v, w \in Workers : token'[v] = issued + 1 /\ token'[w] = issued + 1 => v = w

\* A lease token names one worker.
SoleHolder == \A v, w \in Workers : token[v] = token[w] /\ token[v] # 0 => v = w

TaskStep == Tokens /\ \A w \in Workers, j \in Jobs : TaskMove(w, j)

\* Claims start tasks only on a worker that has none.
LEMMA ClaimTasks ==
    ASSUME IInv, TaskInv, NEW w \in Workers, NEW S, loop[w] # "drain",
           \A j \in S : j \in Jobs /\ job[j].state = "queued",
           \/ Dispatch(w, S)
           \/ /\ ClaimRows(w, S) \/ UNCHANGED <<store, stale, token>>
              /\ loop' = [loop EXCEPT ![w] = "sleep"]
              /\ UNCHANGED task
    PROVE  TaskStep
<1>0. \A j \in Jobs : task[w][j] = "none"
  BY DEF TaskInv
<1>1. CASE ClaimRows(w, S) /\ UNCHANGED task /\ loop' = [loop EXCEPT ![w] = "sleep"]
  BY <1>0, <1>1 DEF ClaimRows, TaskStep, Tokens, TaskMove, IInv, Frame
<1>2. CASE UNCHANGED <<store, token, task>> /\ loop' = [loop EXCEPT ![w] = "sleep"]
  BY <1>0, <1>2 DEF store, TaskStep, Tokens, TaskMove, IInv, Frame
<1>3. CASE S # {} /\ Dispatch(w, S)
  <2>1. /\ ClaimRows(w, S)
        /\ task' = [task EXCEPT ![w] = [j \in Jobs |-> IF j \in S THEN "running" ELSE "none"]]
        /\ loop' = [loop EXCEPT ![w] = "drain"]
    BY <1>3 DEF Dispatch
  <2>2. Tokens
    BY <2>1 DEF ClaimRows, Tokens, IInv, Frame
  <2>3. \A v \in Workers, j \in Jobs : TaskMove(v, j)
    BY <1>0, <2>1 DEF ClaimRows, TaskMove, IInv, Frame
  <2> QED
    BY <2>2, <2>3 DEF TaskStep
<1>4. CASE S = {} /\ Dispatch(w, S)
  BY <1>2, <1>4 DEF Dispatch
<1> QED
  BY <1>1, <1>2, <1>3, <1>4

\* Every step but the return of an execution moves each task in one of those
\* ways.
LEMMA TaskMoves ==
    ASSUME IInv, TaskInv,
           \/ \E j \in Jobs : Enqueue(j) \/ Purge(j)
           \/ \E w \in Workers : Loop(w) \/ Fault(w)
           \/ \E w \in Workers, j \in Jobs : Settle(w, j)
           \/ Tick
           \/ UNCHANGED vars
    PROVE  TaskStep
<1>1. ASSUME UNCHANGED <<issued, lastClaim, token, task>>,
             \A w \in Workers : loop'[w] = loop[w] \/ \A j \in Jobs : task[w][j] = "none"
      PROVE  TaskStep
  BY <1>1 DEF TaskStep, Tokens, TaskMove
<1>2. ASSUME UNCHANGED <<issued, lastClaim, token, loop>>,
             NEW w \in Workers, NEW j \in Jobs, SetTask(w, j, "none")
      PROVE  TaskStep
  BY <1>2 DEF TaskStep, Tokens, TaskMove, SetTask, IInv, Frame
<1>3. ASSUME NEW j \in Jobs, Enqueue(j) \/ Purge(j)
      PROVE  TaskStep
  BY <1>1, <1>3 DEF Enqueue, Purge, process
<1>4. ASSUME NEW w \in Workers, Loop(w)
      PROVE  TaskStep
  <2>1. CASE SweepSelect(w) \/ SweepDead(w) \/ SweepRequeue(w) \/ ClaimSelect(w) \/ Drained(w)
    <3>1. UNCHANGED <<issued, lastClaim, token, task>>
      BY <2>1 DEF SweepSelect, SweepDead, SweepRequeue, AfterSweep, ClaimSelect, Drained, store
    <3>2. /\ \A j \in Jobs : task[w][j] = "none"
          /\ \A v \in Workers \ {w} : loop'[v] = loop[v]
      BY <2>1 DEF SweepSelect, SweepDead, SweepRequeue, AfterSweep, ClaimSelect, Drained,
                  TaskInv, IInv, Frame
    <3> QED
      BY <1>1, <3>1, <3>2
  <2>2. CASE Claim(w)
    <3>1. PICK S \in Limited({j \in Jobs : Due(j)}, Concurrency) : Dispatch(w, S)
      BY <2>2 DEF Claim
    <3>2. \A j \in S : j \in Jobs /\ job[j].state = "queued"
      BY LimitedWithin DEF Due
    <3> QED
      BY <2>2, <3>1, <3>2, ClaimTasks DEF Claim
  <2>3. CASE ClaimTake(w)
    <3>1. \A j \in Takeable(w) : j \in Jobs /\ job[j].state = "queued"
      BY DEF Takeable, IInv, Frame
    <3> QED
      BY <2>3, <3>1, ClaimTasks DEF ClaimTake
  <2> QED
    BY <1>4, <2>1, <2>2, <2>3 DEF Loop
<1>5. ASSUME NEW w \in Workers, Fault(w)
      PROVE  TaskStep
  <2>1. CASE SweepError(w)
    BY <1>1, <2>1 DEF SweepError, TaskInv, IInv, Frame, store
  <2>2. CASE Crash(w)
    <3>1. /\ UNCHANGED <<issued, lastClaim>> /\ token'[w] = 0
          /\ \A j \in Jobs : task'[w][j] = "none"
          /\ \A v \in Workers \ {w} : task'[v] = task[v] /\ token'[v] = token[v] /\ loop'[v] = loop[v]
      BY <2>2 DEF Crash, NoTasks, IInv, Frame, store
    <3> QED
      BY <3>1 DEF TaskStep, Tokens, TaskMove
  <2>3. CASE ClaimFails(w)
    <3>1. loop[w] # "drain" /\ loop' = [loop EXCEPT ![w] = "sleep"] /\ UNCHANGED task
      BY <2>3 DEF ClaimFails
    <3>2. CASE UNCHANGED <<store, stale, token>>
      <4> DEFINE none == {}
      <4>1. \A j \in none : j \in Jobs /\ job[j].state = "queued"
        OBVIOUS
      <4> HIDE DEF none
      <4> QED
        BY <3>1, <3>2, <4>1, ClaimTasks
    <3>3. ASSUME NEW S \in SUBSET Takeable(w), ClaimRows(w, S)
          PROVE  TaskStep
      <4>1. \A j \in S : j \in Jobs /\ job[j].state = "queued"
        BY DEF Takeable, IInv, Frame
      <4> QED
        BY <3>1, <3>3, <4>1, ClaimTasks
    <3> QED
      BY <2>3, <3>2, <3>3 DEF ClaimFails
  <2>4. ASSUME NEW j \in Jobs, LoseTask(w, j)
        PROVE  TaskStep
    BY <1>2, <2>4 DEF LoseTask, store
  <2>5. ASSUME NEW j \in Jobs, RequeueError(w, j)
        PROVE  TaskStep
    BY <2>5 DEF RequeueError, SetTask, TaskStep, Tokens, TaskMove, IInv, Frame
  <2> QED
    BY <1>5, <2>1, <2>2, <2>3, <2>4, <2>5 DEF Fault
<1>6. ASSUME NEW w \in Workers, NEW j \in Jobs, Settle(w, j)
      PROVE  TaskStep
  <2>1. UNCHANGED <<issued, lastClaim, token, loop>> /\ (UNCHANGED task \/ SetTask(w, j, "none"))
    BY <1>6 DEF Settle, Heartbeat, Finish, Conclude, RequeueFailed
  <2> QED
    BY <1>1, <1>2, <2>1
<1>7. CASE Tick \/ UNCHANGED vars
  BY <1>1, <1>7 DEF Tick, process, vars, store
<1> QED
  BY <1>3, <1>4, <1>5, <1>6, <1>7

\* The return of an execution ends nothing but the execution.
LEMMA ExecuteMoves ==
    ASSUME IInv, TaskInv, NEW w \in Workers, NEW j \in Jobs, Execute(w, j)
    PROVE  TaskInv'
BY DEF Execute, SetTask, store, TaskInv, IInv, Frame

LEMMA TaskInvInit == Init => TaskInv
BY DEF Init, TaskInv, NoTasks

LEMMA TaskInvStep ==
    ASSUME IInv, TaskInv, TaskStep
    PROVE  TaskInv'
<1>1. Tokens /\ \A w \in Workers, j \in Jobs : TaskMove(w, j)
  BY DEF TaskStep
<1>2. issued \in Nat /\ token \in [Workers -> Nat] /\ \A j \in Jobs : lastClaim[j] \in Nat
  BY DEF IInv, Frame, RowInv, RowShape
<1>3. \A w \in Workers : token'[w] <= issued'
  BY <1>1, <1>2 DEF TaskInv, Tokens
<1>4. \A j \in Jobs : lastClaim'[j] <= issued' /\ lastClaim[j] <= lastClaim'[j]
  BY <1>1, <1>2 DEF TaskInv, Tokens
<1>5. ASSUME NEW w \in Workers, NEW j \in Jobs, task'[w][j] # "none"
      PROVE  loop'[w] = "drain" /\ 1 <= token'[w] /\ token'[w] <= lastClaim'[j]
  <2>1. TaskMove(w, j) /\ token[w] \in Nat /\ lastClaim[j] \in Nat /\ lastClaim'[j] \in Nat
    BY <1>1, <1>2 DEF Tokens
  <2> QED
    BY <1>2, <1>4, <1>5, <2>1 DEF TaskMove, TaskInv
<1> QED
  BY <1>3, <1>4, <1>5 DEF TaskInv

-------------------------------------------------------------------------------
(* The theorems.                                                           *)

LEMMA InitIInv == Init => IInv
<1> SUFFICES ASSUME Init PROVE IInv
  OBVIOUS
<1> USE JobQueueAssumption
<1>1. Frame
  BY DEF Init, Frame, LoopState, NoIds, NoTasks, Stage
<1>2. Tables
  BY DEF Init, Tables
<1>3. StaleIsExpired
  BY DEF Init, StaleIsExpired
<1>4. ASSUME NEW j \in Jobs PROVE RowInv(j)
  <2>1. job[j] = NoRow /\ runs[j] = 0 /\ lastClaim[j] = 0 /\ verdictBy[j] = 0
    BY DEF Init
  <2>2. NoRow \in Row
    BY DEF NoRow, Row, JobState
  <2> QED
    BY <2>1, <2>2 DEF NoRow, RowInv, RowShape, RowCharged, RowBudget, RowVerdict
<1> QED
  BY <1>1, <1>2, <1>3, <1>4 DEF IInv

LEMMA StepIInv == IInv /\ [Next]_vars => IInv'
<1> SUFFICES ASSUME IInv, [Next]_vars PROVE IInv'
  OBVIOUS
<1>1. Step
  BY NextIsStep
<1>2. ASSUME NEW j \in Jobs PROVE RowInv(j)'
  <2>1. \A w \in Workers : StaleAt(w, j) => job[j].lease = 0
    BY DEF StaleAt, IInv, StaleIsExpired
  <2> QED
    BY <1>1, <2>1, RowPreserved DEF Step, IInv, Frame
<1> QED
  BY <1>1, <1>2 DEF Step, IInv

\* The inductive invariant of the two queues.
THEOREM QueueInvariant == Spec => []IInv
BY InitIInv, StepIInv, PTL DEF Spec

\* Types and row shapes: exactly the running rows carry a lease, and only a
\* charged row waits.
THEOREM TypeCorrect == Spec => []TypeOK
<1>1. IInv => TypeOK
  BY DEF IInv, Frame, Tables, RowInv, RowShape, TypeOK
<1> QED
  BY <1>1, QueueInvariant, PTL

\* No sequence of sweeps, takeovers, crashes and late completions charges a
\* start twice or forgets one.
THEOREM ChargesExact == Spec => []AttemptsCharged
<1>1. IInv => AttemptsCharged
  BY DEF IInv, RowInv, RowCharged, AttemptsCharged
<1> QED
  BY <1>1, QueueInvariant, PTL

\* A job is started at most once more than its budget, and a row is dead only
\* after all of those starts, with no verdict from any.
THEOREM BudgetBoundsStarts == Spec => []StartsBounded
<1>1. IInv => StartsBounded
  <2> SUFFICES ASSUME IInv, NEW j \in Jobs
               PROVE  /\ runs[j] <= MaxAttempts + 1
                      /\ job[j].state = "dead" => runs[j] = MaxAttempts + 1 /\ verdictBy[j] = 0
    BY DEF StartsBounded
  <2> QED
    BY DEF IInv, RowInv, RowCharged, RowBudget, RowVerdict
<1> QED
  BY <1>1, QueueInvariant, PTL

\* A worker that lost its lease never decides the job of its replacement.
THEOREM LatestClaimDecides == Spec => []VerdictByLatestClaim
<1>1. IInv => VerdictByLatestClaim
  BY DEF IInv, RowInv, RowVerdict, VerdictByLatestClaim
<1> QED
  BY <1>1, QueueInvariant, PTL

\* However late a sweep, a requeue or a completion arrives, a terminal job
\* stays as it is until retention removes it.
THEOREM VerdictsFinal == Spec => VerdictFinal
<1>1. ASSUME IInv, [Next]_vars, NEW j \in Jobs PROVE VerdictKept(j)
  <2> SUFFICES ASSUME job[j].state \in Terminal
               PROVE  job'[j].state \in {job[j].state, "purged"}
    BY DEF VerdictKept
  <2>1. RowMove(j) /\ job[j] \in Row
    BY <1>1, NextIsStep DEF Step, IInv, RowInv, RowShape
  <2>2. job[j].state # "running" /\ job[j].state # "queued" /\ job[j].state # "absent"
    BY DEF Terminal
  <2>3. CASE MovePurged(j)
    BY <2>1, <2>3 DEF MovePurged, Row
  <2>4. CASE MoveAged(j)
    BY <2>4 DEF MoveAged, Aged
  <2> QED
    BY <2>1, <2>2, <2>3, <2>4
    DEF RowMove, MoveNone, MoveEnqueued, MoveClaimed, MoveDead, MoveRequeued, MoveRenewed,
        MoveConcluded, MoveCharged, HoldsOutcome, OwnsLiveLease, Swept, StaleAt
<1>2. IInv /\ [Next]_vars => [\A j \in Jobs : VerdictKept(j)]_vars
  BY <1>1
<1> QED
  BY <1>2, QueueInvariant, PTL DEF Spec, VerdictFinal

\* A job with a live lease leaves running only through its holder, with an
\* outcome in hand: a sweep that works from an old view never takes it.
THEOREM LeasesKept == Spec => LiveLeaseNotStolen
<1>1. ASSUME IInv, [Next]_vars, NEW j \in Jobs PROVE LeaseRespected(j)
  <2> SUFFICES ASSUME job[j].state = "running", job[j].lease > 0, job'[j].state # "running"
               PROVE  \E w \in Workers : /\ token[w] = job[j].lease_token
                                          /\ task[w][j] \in {"ok", "err", "fallback"}
    BY DEF LeaseRespected
  <2>1. RowMove(j) /\ job[j] \in Row
    BY <1>1, NextIsStep DEF Step, IInv, RowInv, RowShape
  <2>2. \A w \in Workers : ~StaleAt(w, j)
    BY <1>1 DEF StaleAt, IInv, StaleIsExpired
  <2>3. ~MoveRenewed(j) /\ ~MoveNone(j) /\ ~MoveAged(j)
    BY <2>1 DEF MoveRenewed, MoveNone, MoveAged, Aged, Row
  <2>4. ~MoveEnqueued(j) /\ ~MovePurged(j) /\ ~MoveClaimed(j) /\ ~MoveDead(j) /\ ~MoveRequeued(j)
    BY <2>2 DEF MoveEnqueued, MovePurged, MoveClaimed, MoveDead, MoveRequeued, Swept, Terminal
  <2>5. PICK w \in Workers : HoldsOutcome(w, j)
    BY <2>1, <2>3, <2>4 DEF RowMove, MoveConcluded, MoveCharged
  <2> QED
    BY <2>5 DEF HoldsOutcome, OwnsLiveLease
<1>2. IInv /\ [Next]_vars => [\A j \in Jobs : LeaseRespected(j)]_vars
  BY <1>1
<1> QED
  BY <1>2, QueueInvariant, PTL DEF Spec, LiveLeaseNotStolen

-------------------------------------------------------------------------------
(* The queue implements JobExecution for every job.                        *)

\* Only a claim hands out a token.
LEMMA TokensFresh ==
    ASSUME IInv, TaskInv, [Next]_vars
    PROVE  FreshToken
<1>1. token \in [Workers -> Nat] /\ issued \in Nat /\ \A w \in Workers : token[w] <= issued
  BY DEF IInv, Frame, TaskInv
<1>2. \/ UNCHANGED token
      \/ \E w \in Workers : token' = [token EXCEPT ![w] = issued + 1] \/ token' = [token EXCEPT ![w] = 0]
  <2>1. CASE UNCHANGED vars \/ Tick \/ \E j \in Jobs : Enqueue(j) \/ Purge(j)
    BY <2>1 DEF vars, process, Tick, Enqueue, Purge
  <2>2. ASSUME NEW w \in Workers, Loop(w)
        PROVE  UNCHANGED token \/ token' = [token EXCEPT ![w] = issued + 1]
    BY <2>2 DEF Loop, SweepSelect, SweepDead, SweepRequeue, AfterSweep, Claim, ClaimSelect, ClaimTake,
                Drained, Dispatch, ClaimRows
  <2>3. ASSUME NEW w \in Workers, Fault(w)
        PROVE  \/ UNCHANGED token
               \/ token' = [token EXCEPT ![w] = issued + 1] \/ token' = [token EXCEPT ![w] = 0]
    BY <2>3 DEF Fault, SweepError, ClaimFails, ClaimRows, Crash, RequeueError, LoseTask
  <2>4. ASSUME NEW w \in Workers, NEW j \in Jobs, Execute(w, j) \/ Settle(w, j)
        PROVE  UNCHANGED token
    BY <2>4 DEF Execute, Settle, Heartbeat, Finish, Conclude, RequeueFailed
  <2> QED
    BY <2>1, <2>2, <2>3, <2>4 DEF Next
<1>3. CASE UNCHANGED token
  BY <1>1, <1>3 DEF FreshToken
<1>4. ASSUME NEW w \in Workers,
             token' = [token EXCEPT ![w] = issued + 1] \/ token' = [token EXCEPT ![w] = 0]
      PROVE  FreshToken
  BY <1>1, <1>4 DEF FreshToken
<1> QED
  BY <1>2, <1>3, <1>4

LEMMA SoleHolderInit == Init => SoleHolder
BY DEF Init, SoleHolder

LEMMA SoleHolderStep ==
    ASSUME SoleHolder, FreshToken
    PROVE  SoleHolder'
BY DEF SoleHolder, FreshToken

\* What a step does to the outcome that a task has in hand.
OutcomeMove(w, j) ==
    TaskMove(w, j) \/ (token'[w] = token[w] /\ task[w][j] = "running" /\ task'[w][j] \in {"ok", "err"})

\* An execution returns, or every task moves in one of the ways above.
LEMMA OutcomeMoves ==
    ASSUME IInv, TaskInv, [Next]_vars
    PROVE  TaskInv' /\ \A w \in Workers, j \in Jobs : OutcomeMove(w, j)
<1>1. CASE TaskStep
  BY <1>1, TaskInvStep DEF TaskStep, OutcomeMove
<1>2. ASSUME NEW w \in Workers, NEW j \in Jobs, Execute(w, j)
      PROVE  TaskInv' /\ \A v \in Workers, i \in Jobs : OutcomeMove(v, i)
  <2>1. UNCHANGED <<token, loop>> /\ task[w][j] = "running"
        /\ \E s \in {"ok", "err"} : task' = [task EXCEPT ![w][j] = s]
    BY <1>2 DEF Execute, SetTask
  <2>2. task \in [Workers -> [Jobs -> Stage]]
    BY DEF IInv, Frame
  <2>3. ASSUME NEW v \in Workers, NEW i \in Jobs
        PROVE  OutcomeMove(v, i)
    BY <2>1, <2>2 DEF OutcomeMove, TaskMove
  <2> QED
    BY <1>2, <2>3, ExecuteMoves
<1> QED
  BY <1>1, <1>2, TaskMoves DEF Next

LEMMA TaskInvariant == Spec => [](TaskInv /\ SoleHolder)
<1>1. Init => TaskInv /\ SoleHolder
  BY TaskInvInit, SoleHolderInit
<1>2. IInv /\ TaskInv /\ SoleHolder /\ [Next]_vars => TaskInv' /\ SoleHolder'
  BY OutcomeMoves, TokensFresh, SoleHolderStep
<1> QED
  BY <1>1, <1>2, QueueInvariant, PTL DEF Spec

\* While a row keeps its lease token, the outcome of its holder may appear and
\* may be lost, but it does not change.
LEMMA OutcomeKept ==
    ASSUME IInv, TaskInv, SoleHolder, NEW j \in Jobs, \A w \in Workers : OutcomeMove(w, j),
           job[j].state = "running", job'[j].state = "running",
           job'[j].lease_token = job[j].lease_token
    PROVE  \/ ExecutionOutcome(j) = "none"
           \/ ExecutionOutcome(j)' \in {"none", ExecutionOutcome(j)}
<1> DEFINE t == job[j].lease_token
           Outcomes == {"ok", "err", "fallback"}
<1> SUFFICES ASSUME ExecutionOutcome(j) # "none", ExecutionOutcome(j)' # "none"
             PROVE  ExecutionOutcome(j)' = ExecutionOutcome(j)
  OBVIOUS
<1>1. t \in Nat \ {0} /\ t <= issued /\ issued \in Nat
  BY DEF IInv, Frame, RowInv, RowShape, RowVerdict, TaskInv
<1>2. PICK w \in Workers : token[w] = t /\ task[w][j] \in Outcomes
  BY DEF ExecutionOutcome, HolderHas
<1>3. PICK v \in Workers : token'[v] = t /\ task'[v][j] \in Outcomes
  BY DEF ExecutionOutcome, HolderHas
<1>4. ASSUME NEW u \in Workers, token'[u] = t, task'[u][j] \in Outcomes
      PROVE  /\ token[u] = t
             /\ \/ task'[u][j] = task[u][j]
                \/ task[u][j] = "err" /\ task'[u][j] = "fallback"
                \/ task[u][j] = "running"
  BY <1>1, <1>4 DEF OutcomeMove, TaskMove
<1>5. \A u \in Workers : token[u] = t => u = w
  BY <1>1, <1>2 DEF SoleHolder
<1>6. \A u \in Workers : token'[u] = t /\ task'[u][j] \in Outcomes => u = w
  BY <1>4, <1>5
<1>7. ExecutionOutcome(j) = IF task[w][j] = "ok" THEN "ok" ELSE "err"
  BY <1>2, <1>5 DEF ExecutionOutcome, HolderHas
<1>8. ExecutionOutcome(j)' = IF task'[w][j] = "ok" THEN "ok" ELSE "err"
  BY <1>3, <1>6 DEF ExecutionOutcome, HolderHas
<1>9. \/ task'[w][j] = task[w][j]
      \/ task[w][j] = "err" /\ task'[w][j] = "fallback"
  <2>1. v = w
    BY <1>3, <1>6
  <2>2. token'[w] = t /\ task'[w][j] \in Outcomes
    BY <1>3, <2>1
  <2>3. task[w][j] # "running"
    BY <1>2
  <2> QED
    BY <1>4, <2>2, <2>3
<1> QED
  BY <1>7, <1>8, <1>9

\* A row that is not running has no outcome, and a fresh claim has none yet.
LEMMA NoOutcome ==
    ASSUME NEW j \in Jobs
    PROVE  /\ ExecutionOutcome(j) \in {"none", "ok", "err"}
           /\ job[j].state # "running" => ExecutionOutcome(j) = "none"
           /\ job'[j].state # "running" => ExecutionOutcome(j)' = "none"
           /\ ExecutionOutcome(j)' \in {"none", "ok", "err"}
BY DEF ExecutionOutcome, HolderHas

LEMMA ClaimHasNoOutcome ==
    ASSUME IInv, TaskInv, NEW j \in Jobs, MoveClaimed(j), \A w \in Workers : OutcomeMove(w, j)
    PROVE  ExecutionOutcome(j)' = "none"
<1>1. job'[j].lease_token = issued + 1 /\ issued \in Nat
  BY DEF MoveClaimed, Claimed, IInv, Frame
<1>2. \A w \in Workers : token[w] <= issued /\ token[w] \in Nat
  BY DEF TaskInv, IInv, Frame
<1>3. \A w \in Workers : token'[w] = issued + 1 => task'[w][j] \in {"none", "running"}
  BY <1>1, <1>2 DEF OutcomeMove, TaskMove
<1> QED
  BY <1>1, <1>3 DEF ExecutionOutcome, HolderHas

\* The worker that records an outcome is the one the job is leased to.
LEMMA HolderOutcome ==
    ASSUME IInv, SoleHolder, NEW j \in Jobs, NEW w \in Workers, HoldsOutcome(w, j)
    PROVE  ExecutionOutcome(j) = IF task[w][j] = "ok" THEN "ok" ELSE "err"
<1>1. job[j].state = "running" /\ token[w] = job[j].lease_token /\ token[w] # 0
  BY DEF HoldsOutcome, OwnsLiveLease, IInv, RowInv, RowShape
<1>2. \A v \in Workers : token[v] = token[w] => v = w
  BY <1>1 DEF SoleHolder
<1> QED
  BY <1>1, <1>2 DEF HoldsOutcome, ExecutionOutcome, HolderHas

LEMMA InitExecution == ASSUME Init, NEW j \in Jobs PROVE Execution(j)!Init
BY DEF Init, Execution!Init, ExecutionStatus, ExecutionOutcome, HolderHas, NoRow

\* Every move of a row is a step of the execution it stands for, or none.
LEMMA ExecutionStep ==
    ASSUME IInv, IInv', TaskInv, SoleHolder, [Next]_vars, NEW j \in Jobs
    PROVE  [Execution(j)!Next]_(Execution(j)!vars)
<1> DEFINE s == job[j].state
           n == job'[j].state
           o == ExecutionOutcome(j)
<1> USE DEF Execution!Next, Execution!vars
<1>1. RowMove(j) /\ \A w \in Workers : OutcomeMove(w, j)
  BY NextIsStep, OutcomeMoves DEF Step
<1>2. /\ MaxAttempts \in Nat \ {0}
      /\ job[j].attempt_count \in Nat /\ runs[j] \in Nat /\ runs'[j] <= MaxAttempts + 1
      /\ s \in JobState /\ n \in JobState
      /\ s \in {"running", "dead"} => runs[j] = job[j].attempt_count + 1
      /\ s \in {"absent", "queued"} => runs[j] = job[j].attempt_count
      /\ s \in {"queued", "running"} => job[j].attempt_count <= MaxAttempts
  BY JobQueueAssumption DEF IInv, RowInv, RowShape, RowCharged, RowBudget, Row
<1>3. /\ o \in {"none", "ok", "err"} /\ o' \in {"none", "ok", "err"}
      /\ s # "running" => o = "none"
      /\ n # "running" => o' = "none"
  BY NoOutcome
<1>4. ExecutionStatus(j) = IF s = "absent" THEN "none" ELSE IF s = "purged" THEN "removed" ELSE s
  BY DEF ExecutionStatus
<1>5. ExecutionStatus(j)' = IF n = "absent" THEN "none" ELSE IF n = "purged" THEN "removed" ELSE n
  BY DEF ExecutionStatus
<1> HIDE DEF o
<1>6. ASSUME n = s, runs'[j] = runs[j], s = "running" => job'[j].lease_token = job[j].lease_token
      PROVE  [Execution(j)!Next]_(Execution(j)!vars)
  <2>1. ExecutionStatus(j)' = ExecutionStatus(j)
    BY <1>4, <1>5, <1>6
  <2>2. s # "running" => o' = o
    BY <1>3, <1>6
  <2>3. s = "running" => ExecutionStatus(j) = "running" /\ (o = "none" \/ o' \in {"none", o})
    BY <1>1, <1>4, <1>6, OutcomeKept DEF o
  <2> QED
    BY <1>3, <1>6, <2>1, <2>2, <2>3 DEF Execution!Return, Execution!LoseOutcome, o
<1>7. CASE MoveNone(j)
  BY <1>6, <1>7 DEF MoveNone, SameHistory
<1>8. CASE MoveAged(j)
  BY <1>6, <1>8 DEF MoveAged, Aged, SameHistory
<1>9. CASE MoveRenewed(j)
  <2>1. job[j] \in Row
    BY DEF IInv, RowInv, RowShape
  <2>2. n = s /\ job'[j].lease_token = job[j].lease_token
    BY <1>9, <2>1 DEF MoveRenewed, Row
  <2> QED
    BY <1>6, <1>9, <2>2 DEF MoveRenewed, SameHistory
<1>10. CASE MoveEnqueued(j)
  <2>1. s = "absent" /\ n = "queued" /\ runs'[j] = runs[j]
    BY <1>10 DEF MoveEnqueued, SameHistory, IInv, RowInv, RowShape, Row
  <2>2. ExecutionStatus(j) = "none" /\ ExecutionStatus(j)' = "queued" /\ o' = o
    BY <1>3, <1>4, <1>5, <2>1
  <2> QED
    BY <2>1, <2>2 DEF Execution!Submit, o
<1>11. CASE MovePurged(j)
  <2>1. s \in {"succeeded", "failed", "dead"} /\ n = "purged" /\ runs'[j] = runs[j]
    BY <1>11 DEF MovePurged, SameHistory, Terminal, IInv, RowInv, RowShape, Row
  <2>2. ExecutionStatus(j) = s /\ ExecutionStatus(j)' = "removed" /\ o' = o
    BY <1>3, <1>4, <1>5, <2>1
  <2> QED
    BY <2>1, <2>2 DEF Execution!Remove, Execution!Verdicts, o
<1>12. CASE MoveClaimed(j)
  <2>1. s = "queued" /\ n = "running" /\ runs'[j] = runs[j] + 1
    BY <1>12 DEF MoveClaimed, Claimed
  <2>2. ExecutionStatus(j) = "queued" /\ ExecutionStatus(j)' = "running"
    BY <1>4, <1>5, <2>1
  <2>3. runs[j] <= MaxAttempts /\ o' = "none"
    BY <1>1, <1>2, <1>12, <2>1, ClaimHasNoOutcome DEF o
  <2> QED
    BY <2>1, <2>2, <2>3 DEF Execution!Start, o
<1>13. CASE MoveDead(j)
  <2>1. s = "running" /\ n = "dead" /\ runs'[j] = runs[j] /\ runs[j] = MaxAttempts + 1
    BY <1>2, <1>13 DEF MoveDead, Swept, StaleAt, Exhausted, Released, SameHistory
  <2>2. ExecutionStatus(j) = "running" /\ ExecutionStatus(j)' = "dead" /\ o' = "none"
    BY <1>3, <1>4, <1>5, <2>1
  <2> QED
    BY <2>1, <2>2 DEF Execution!GiveUp, o
<1>14. ASSUME s = "running", n = "queued", runs'[j] = runs[j], runs[j] <= MaxAttempts
       PROVE  [Execution(j)!Next]_(Execution(j)!vars)
  <2>1. ExecutionStatus(j) = "running" /\ ExecutionStatus(j)' = "queued" /\ o' = "none"
    BY <1>3, <1>4, <1>5, <1>14
  <2> QED
    BY <1>14, <2>1 DEF Execution!Repeat, o
<1>15. CASE MoveRequeued(j)
  <2>1. s = "running" /\ n = "queued" /\ runs'[j] = runs[j] /\ runs[j] <= MaxAttempts
    BY <1>2, <1>15 DEF MoveRequeued, Swept, StaleAt, Exhausted, Released, SameHistory
  <2> QED
    BY <1>14, <2>1
<1>16. ASSUME s = "running", o = "err", n = "failed", runs'[j] = runs[j]
       PROVE  [Execution(j)!Next]_(Execution(j)!vars)
  <2>1. ExecutionStatus(j) = "running" /\ ExecutionStatus(j)' = "failed" /\ o' = "none"
    BY <1>3, <1>4, <1>5, <1>16
  <2> QED
    BY <1>16, <2>1 DEF Execution!Fail, o
<1>17. CASE MoveConcluded(j)
  <2>1. PICK w \in Workers :
          /\ HoldsOutcome(w, j)
          /\ \E state \in {"succeeded", "failed"} :
                /\ state = "succeeded" <=> task[w][j] = "ok"
                /\ job'[j] = Released(job[j], state, 0, job[j].wait)
          /\ runs'[j] = runs[j]
    BY <1>17 DEF MoveConcluded
  <2>2. s = "running" /\ o = IF task[w][j] = "ok" THEN "ok" ELSE "err"
    BY <2>1, HolderOutcome DEF HoldsOutcome, OwnsLiveLease, o
  <2>3. n = IF task[w][j] = "ok" THEN "succeeded" ELSE "failed"
    BY <2>1 DEF Released
  <2>4. CASE task[w][j] = "ok"
    <3>1. ExecutionStatus(j) = "running" /\ ExecutionStatus(j)' = "succeeded" /\ o' = "none"
      BY <1>3, <1>4, <1>5, <2>2, <2>3, <2>4
    <3> QED
      BY <2>1, <2>2, <2>4, <3>1 DEF Execution!Succeed, o
  <2>5. CASE task[w][j] # "ok"
    BY <1>16, <2>1, <2>2, <2>3, <2>5
  <2> QED
    BY <2>4, <2>5
<1>18. CASE MoveCharged(j)
  <2>1. PICK w \in Workers :
          /\ HoldsOutcome(w, j) /\ task[w][j] = "err" /\ runs'[j] = runs[j]
          /\ \/ job'[j] = Released(job[j], "failed", 1, 0)
             \/ /\ job[j].attempt_count + 1 < MaxAttempts
                /\ job'[j] = Released(job[j], "queued", 1, Larger(RetryBackoff, 1))
    BY <1>18 DEF MoveCharged
  <2>2. s = "running" /\ o = "err"
    BY <2>1, HolderOutcome DEF HoldsOutcome, OwnsLiveLease, o
  <2>3. n = "failed" \/ (n = "queued" /\ runs[j] <= MaxAttempts)
    BY <1>2, <2>1, <2>2 DEF Released
  <2> QED
    BY <1>14, <1>16, <2>1, <2>2, <2>3
<1> QED
  BY <1>1, <1>7, <1>8, <1>9, <1>10, <1>11, <1>12, <1>13, <1>15, <1>17, <1>18 DEF RowMove

\* The queue keeps, for every job, the promise of JobExecution: the table looks
\* as if one execution ran at a time, its verdict is the outcome of the one
\* started last, and it is given up after exactly MaxAttempts + 1 starts.
THEOREM ImplementsExecution == Spec => ExecutesOneAtATime
<1>1. Init => \A j \in Jobs : Execution(j)!Init
  BY InitExecution
<1>2. IInv /\ IInv' /\ TaskInv /\ SoleHolder /\ [Next]_vars
      => [\A j \in Jobs : [Execution(j)!Next]_(Execution(j)!vars)]_vars
  BY ExecutionStep
<1> QED
  BY <1>1, <1>2, QueueInvariant, TaskInvariant, PTL DEF Spec, ExecutesOneAtATime

-------------------------------------------------------------------------------
(* What liveness rests on: the life of a row is finite.                    *)

\* How far a state is from the start.
Age(state) ==
    CASE state = "absent" -> 0
      [] state \in {"queued", "running"} -> 1
      [] state \in Terminal -> 2
      [] OTHER -> 3

\* Starts, charges and age: what is spent of the life of a row.
Spent(j) == runs[j] + job[j].attempt_count + Age(job[j].state)

SpentBounded == \A j \in Jobs : Spent(j) \in 0..2 * MaxAttempts + 5

\* A row that changes its state has spent more, and no step gives back.
StateChangeSpends ==
    [][\A j \in Jobs : /\ Spent(j) <= Spent(j)'
                       /\ job'[j].state # job[j].state => Spent(j) < Spent(j)']_vars

\* "a crash-looping or panicking job cannot consume the queue forever"
\* (learning_jobs.rs:214), without any assumption on faults: whatever crashes,
\* errors and takeovers happen, for ever if they like, a row changes its state
\* at most 2 * MaxAttempts + 5 times.
THEOREM LifeIsFinite == Spec => []SpentBounded /\ StateChangeSpends
<1>1. ASSUME IInv, NEW j \in Jobs
      PROVE  Spent(j) \in 0..2 * MaxAttempts + 5
  <2>1. Age(job[j].state) \in 0..3
    BY DEF Age
  <2>2. /\ runs[j] \in Nat /\ job[j].attempt_count \in Nat /\ MaxAttempts \in Nat
        /\ runs[j] <= MaxAttempts + 1 /\ job[j].attempt_count <= runs[j]
    BY <1>1, JobQueueAssumption DEF IInv, RowInv, RowShape, RowBudget, RowCharged, Row
  <2> HIDE DEF Age
  <2> QED
    BY <2>1, <2>2 DEF Spent
<1>2. ASSUME IInv, [Next]_vars, NEW j \in Jobs
      PROVE  /\ Spent(j) <= Spent(j)'
             /\ job'[j].state # job[j].state => Spent(j) < Spent(j)'
  <2>1. RowMove(j) /\ job[j] \in Row
    BY <1>2, NextIsStep DEF Step, IInv, RowInv, RowShape
  <2>2. runs[j] \in Nat /\ job[j].attempt_count \in Nat /\ job[j].state \in JobState
    BY <1>2, <2>1 DEF IInv, RowInv, RowShape, Row
  <2>3. ASSUME job'[j].state = job[j].state, runs'[j] = runs[j],
               job'[j].attempt_count = job[j].attempt_count
        PROVE  Spent(j)' = Spent(j)
    BY <2>3 DEF Spent
  <2>4. CASE MoveNone(j) \/ MoveAged(j) \/ MoveRenewed(j)
    <3>1. /\ job'[j].state = job[j].state /\ runs'[j] = runs[j]
          /\ job'[j].attempt_count = job[j].attempt_count
      BY <2>1, <2>4 DEF MoveNone, MoveAged, MoveRenewed, Aged, SameHistory, Row
    <3> QED
      BY <2>2, <2>3, <3>1 DEF Spent, Age
  <2>ages. /\ Age("absent") = 0 /\ Age("queued") = 1 /\ Age("running") = 1
           /\ Age("succeeded") = 2 /\ Age("failed") = 2 /\ Age("dead") = 2 /\ Age("purged") = 3
    BY DEF Age, Terminal
  <2> HIDE DEF Age
  <2>5. CASE MoveEnqueued(j) \/ MovePurged(j)
    <3>1. /\ runs'[j] = runs[j] /\ job'[j].attempt_count = job[j].attempt_count
          /\ \/ job[j].state = "absent" /\ job'[j].state = "queued"
             \/ job[j].state \in Terminal /\ job'[j].state = "purged"
      BY <2>1, <2>5 DEF MoveEnqueued, MovePurged, SameHistory, Row
    <3> QED
      BY <2>2, <2>ages, <3>1 DEF Spent, Terminal
  <2>6. CASE MoveClaimed(j)
    <3>1. /\ job[j].state = "queued" /\ job'[j].state = "running"
          /\ runs'[j] = runs[j] + 1 /\ job'[j].attempt_count = job[j].attempt_count
      BY <2>6 DEF MoveClaimed, Claimed
    <3> QED
      BY <2>2, <2>ages, <3>1 DEF Spent
  <2>7. CASE MoveDead(j) \/ MoveRequeued(j)
    <3>1. /\ job[j].state = "running" /\ runs'[j] = runs[j]
          /\ \/ job'[j].state = "dead" /\ job'[j].attempt_count = job[j].attempt_count
             \/ job'[j].state = "queued" /\ job'[j].attempt_count = job[j].attempt_count + 1
      BY <2>2, <2>7 DEF MoveDead, MoveRequeued, Swept, StaleAt, Released, SameHistory
    <3> QED
      BY <2>2, <2>ages, <3>1 DEF Spent
  <2>8. CASE MoveConcluded(j) \/ MoveCharged(j)
    <3>1. /\ job[j].state = "running" /\ runs'[j] = runs[j]
          /\ \/ /\ job'[j].state \in {"succeeded", "failed"}
                /\ job'[j].attempt_count \in {job[j].attempt_count, job[j].attempt_count + 1}
             \/ job'[j].state = "queued" /\ job'[j].attempt_count = job[j].attempt_count + 1
      BY <2>2, <2>8 DEF MoveConcluded, MoveCharged, HoldsOutcome, OwnsLiveLease, Released
    <3> QED
      BY <2>2, <2>ages, <3>1 DEF Spent
  <2> QED
    BY <2>1, <2>4, <2>5, <2>6, <2>7, <2>8 DEF RowMove
<1>3. IInv => SpentBounded
  BY <1>1 DEF SpentBounded
<1>4. IInv /\ [Next]_vars
      => [\A j \in Jobs : /\ Spent(j) <= Spent(j)'
                          /\ job'[j].state # job[j].state => Spent(j) < Spent(j)']_vars
  BY <1>2
<1> QED
  BY <1>3, <1>4, QueueInvariant, PTL DEF Spec, StateChangeSpends

-------------------------------------------------------------------------------
(* Why EveryJobGetsItsTurn fails on PostgreSQL, for every such queue.      *)

\* An expired row stays as it is: running, with nobody to run it.
ExpiredIsStuck ==
    [][\A j \in Jobs : queue.dialect = "postgres" /\ Expired(j) => Expired(j)']_vars

\* On PostgreSQL a sweep statement over fewer than SweepBatch ids is refused
\* (learning_jobs.rs, requeue_stale_running_on_table): a queue of fewer rows
\* never recovers a job whose worker died, however long it runs.
THEOREM SmallQueueNeverRecovers ==
    ASSUME IsFiniteSet(Jobs), Cardinality(Jobs) < SweepBatch
    PROVE  Spec => ExpiredIsStuck
<1>1. ASSUME queue.dialect = "postgres", NEW ids \in SUBSET Jobs, BindAccepted(ids)
      PROVE  FALSE
  <2>1. Cardinality(ids) <= Cardinality(Jobs)
    BY FS_Subset
  <2>2. Cardinality(ids) = SweepBatch
    BY <1>1 DEF BindAccepted
  <2>3. Cardinality(Jobs) \in Nat /\ SweepBatch \in Nat
    BY FS_CardinalityType, JobQueueAssumption
  <2> QED
    BY <2>1, <2>2, <2>3
<1>2. ASSUME IInv, [Next]_vars, NEW j \in Jobs, queue.dialect = "postgres", Expired(j)
      PROVE  Expired(j)'
  <2>1. RowMove(j) /\ job[j] \in Row
    BY <1>2, NextIsStep DEF Step, IInv, RowInv, RowShape
  <2>2. ~MoveDead(j) /\ ~MoveRequeued(j)
    BY <1>1, <1>2 DEF MoveDead, MoveRequeued, Swept
  <2>3. ~MoveEnqueued(j) /\ ~MovePurged(j) /\ ~MoveClaimed(j) /\ ~MoveRenewed(j)
    BY <1>2 DEF Expired, MoveEnqueued, MovePurged, MoveClaimed, MoveRenewed, Terminal
  <2>4. ~MoveConcluded(j) /\ ~MoveCharged(j)
    BY <1>2 DEF Expired, MoveConcluded, MoveCharged, HoldsOutcome, OwnsLiveLease
  <2>5. CASE MoveNone(j)
    BY <1>2, <2>5 DEF MoveNone, Expired
  <2>6. CASE MoveAged(j)
    BY <1>2, <2>6 DEF MoveAged, Aged, Larger, Expired
  <2> QED
    BY <2>1, <2>2, <2>3, <2>4, <2>5, <2>6 DEF RowMove
<1>3. IInv /\ [Next]_vars
      => [\A j \in Jobs : queue.dialect = "postgres" /\ Expired(j) => Expired(j)']_vars
  BY <1>2
<1> QED
  BY <1>3, QueueInvariant, PTL DEF Spec, ExpiredIsStuck

===============================================================================
