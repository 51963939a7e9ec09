------------------------------- MODULE JobQueue -------------------------------
(***************************************************************************)
(* The two background queues of the memory service: ai_learning_job        *)
(* (extraction) and ai_eval_run, which share the stale sweep of            *)
(* learning_jobs.rs and the batch loop of job_worker.rs.                   *)
(*                                                                         *)
(* Time is kept as in Outbox: lease and wait are the seconds that remain   *)
(* to lease_expires_at and next_attempt_at.  A fresh lease_token per batch *)
(* identifies the claim.                                                   *)
(***************************************************************************)
EXTENDS Integers, FiniteSets

CONSTANTS
    Jobs,           \* the rows that requests may enqueue
    Workers,        \* worker loops (one per process) on one database
    MaxAttempts,    \* SDKWORK_MEMORY_JOB_MAX_ATTEMPTS, ..._EVAL_MAX_ATTEMPTS
    LeaseDuration,  \* lease_duration_seconds
    RetryBackoff,   \* SDKWORK_MEMORY_JOB_RETRY_BACKOFF_SECS
    Concurrency,    \* rows per claim
    SweepBatch,     \* SWEEP_BATCH of the stale sweep
    Kinds,          \* the queues an instance covers: "learning", "eval" or both
    Dialects,       \* the databases it covers: "sqlite", "postgres" or both
    MaxFaults       \* bound: process crashes plus database errors

ASSUME JobQueueAssumption ==
    /\ MaxAttempts \in Nat \ {0}
    /\ LeaseDuration \in Nat \ {0}
    /\ RetryBackoff \in Nat
    /\ Concurrency \in Nat \ {0}
    /\ SweepBatch \in Nat \ {0}
    /\ Kinds \in SUBSET {"learning", "eval"}
    /\ Dialects \in SUBSET {"sqlite", "postgres"}
    /\ MaxFaults \in Nat

VARIABLES
    queue,      \* which of the queues, on which database: never changes
    job,        \* [Jobs -> Row]: the table
    issued,     \* lease tokens drawn so far (next_numeric_id never repeats)
    loop,       \* [Workers -> LoopState]
    stale,      \* [Workers -> rows whose lease_expires_at <= the sweep's timestamp]
    picked,     \* [Workers -> ids that the SELECTs of the sweep or the claim returned]
    token,      \* [Workers -> the lease_token of the batch]
    task,       \* [Workers -> [Jobs -> Stage]]: the tasks of the batch
    faults,     \* faults so far
    lastClaim,  \* history: [Jobs -> token of the latest claim]
    runs,       \* history: [Jobs -> number of claims]
    verdictBy   \* history: [Jobs -> token of the worker that finished it, or 0]

store   == <<job, issued, lastClaim, runs, verdictBy>>
process == <<loop, stale, picked, token, task>>
vars    == <<store, process, faults, queue>>

Terminal  == {"succeeded", "failed", "dead"}
JobState  == {"absent", "queued", "running", "purged"} \union Terminal
LoopState == {"sleep", "sweep", "dead", "requeue", "claim", "take", "drain"}
Stage     == {"none", "running", "ok", "err", "fallback"}

Row == [state : JobState, attempt_count : Nat, lease_token : Nat, lease : Nat, wait : Nat]

NoRow   == [state |-> "absent", attempt_count |-> 0, lease_token |-> 0, lease |-> 0, wait |-> 0]
NoIds   == [dead |-> {}, requeue |-> {}, claim |-> {}]
NoTasks == [j \in Jobs |-> "none"]
Larger(a, b)  == IF a >= b THEN a ELSE b
Smaller(a, b) == IF a <= b THEN a ELSE b

-------------------------------------------------------------------------------
(* Predicates of the SQL statements.                                       *)

\* Defect: only rows without an expiry count as expired.
ExpiredNull(j) == job[j].state = "running" /\ job[j].lease_token = 0

Expired(j) == job[j].state = "running" /\ job[j].lease = 0

\* Defect: the UPDATE trusts the id list alone.
StaleWhenPicked(w, j) == job[j].state # "absent"

\* Defect: the UPDATE trusts the id list and the state alone.
StaleAnyLease(w, j) == job[j].state = "running"

\* The sweep's WHERE clause at its own, possibly old, timestamp.
StaleAt(w, j) == job[j].state = "running" /\ j \in stale[w]

\* Defect: the sweep compares with > instead of >=.
ExhaustedLate(j) == job[j].attempt_count > MaxAttempts

Exhausted(j) == job[j].attempt_count >= MaxAttempts

Due(j) == job[j].state = "queued" /\ job[j].wait = 0

\* Defect: the fence compares no token.
OwnsAnyLiveLease(w, j) == job[j].state = "running" /\ job[j].lease > 0

\* Defect: the fence is the primary key alone.
OwnsNothing(w, j) == job[j].state # "absent"

OwnsLiveLease(w, j) ==
    /\ job[j].state = "running"
    /\ job[j].lease_token = token[w]
    /\ job[j].lease > 0

\* An UPDATE ... id IN (SweepBatch placeholders) with one value bound per id:
\* SQLite reads the unbound ones as NULL, PostgreSQL refuses the statement.
BindAccepted(ids) == queue.dialect = "sqlite" \/ Cardinality(ids) = SweepBatch

\* LIMIT n: ORDER BY is some order on the rows.
Limited(S, n) == {T \in SUBSET S : Cardinality(T) = Smaller(Cardinality(S), n)}

\* Defect: the statement forgets the lease columns.
ReleasedKeepsLease(row, state, charge, wait) ==
    [row EXCEPT !.state = state, !.attempt_count = @ + charge, !.wait = wait]

Released(row, state, charge, wait) ==
    [state |-> state, attempt_count |-> row.attempt_count + charge,
     lease_token |-> 0, lease |-> 0, wait |-> wait]

Claimed(row, new_token) ==
    [state |-> "running", attempt_count |-> row.attempt_count,
     lease_token |-> new_token, lease |-> LeaseDuration, wait |-> row.wait]

Aged(row) ==
    [state |-> row.state, attempt_count |-> row.attempt_count, lease_token |-> row.lease_token,
     lease |-> Larger(row.lease - 1, 0), wait |-> Larger(row.wait - 1, 0)]

SetTask(w, j, s) == task' = [task EXCEPT ![w][j] = s]

-------------------------------------------------------------------------------
(* Requests and retention.                                                 *)

\* enqueue_learning_job, insert_mem_eval_run.
Enqueue(j) ==
    /\ job[j].state = "absent"
    /\ job' = [job EXCEPT ![j].state = "queued"]
    /\ UNCHANGED <<issued, lastClaim, runs, verdictBy, process, faults, queue>>

\* purge_terminal_learning_jobs, purge_terminal_eval_runs: any window.
Purge(j) ==
    /\ job[j].state \in Terminal
    /\ job' = [job EXCEPT ![j].state = "purged"]
    /\ UNCHANGED <<issued, lastClaim, runs, verdictBy, process, faults, queue>>

-------------------------------------------------------------------------------
(* process_learning_job_batch, process_eval_run_batch: sweep, claim, drain. *)

\* The two SELECTs of requeue_stale_running_on_table.
SweepSelect(w) ==
    /\ loop[w] \in {"sleep", "sweep"}
    /\ LET old  == IF loop[w] = "sleep" THEN {j \in Jobs : Expired(j)}
                   ELSE {j \in stale[w] : job[j].state = "running"}
           dead == {j \in old : Exhausted(j)}
       IN  /\ stale' = [stale EXCEPT ![w] = old]
           /\ \E d \in Limited(dead, SweepBatch), r \in Limited(old \ dead, SweepBatch) :
                 picked' = [picked EXCEPT ![w] = [dead |-> d, requeue |-> r, claim |-> {}]]
           /\ loop' = [loop EXCEPT ![w] = IF old = {} THEN "claim" ELSE "dead"]
    /\ UNCHANGED <<store, token, task, faults, queue>>

\* A statement of the sweep that fails returns from the whole batch: nothing
\* is claimed until the next poll.
AfterSweep(w, failed, next) ==
    /\ loop' = [loop EXCEPT ![w] = IF failed THEN "sleep" ELSE next]
    /\ picked' = [picked EXCEPT ![w] = IF failed \/ next = "sweep" THEN NoIds ELSE @]
    /\ stale' = [stale EXCEPT ![w] = IF failed THEN {} ELSE @]
    /\ UNCHANGED <<issued, lastClaim, runs, verdictBy, token, task, faults, queue>>

SweptRows(ids, w, state, charge) ==
    [j \in Jobs |-> IF j \in ids /\ StaleAt(w, j)
                    THEN Released(job[j], state, charge, job[j].wait)
                    ELSE job[j]]

\* UPDATE ... SET state = 'dead' over the first id list.
SweepDead(w) ==
    LET ids == picked[w].dead
        bad == ids # {} /\ ~BindAccepted(ids)
    IN  /\ loop[w] = "dead"
        /\ job' = IF bad THEN job ELSE SweptRows({j \in ids : Exhausted(j)}, w, "dead", 0)
        /\ AfterSweep(w, bad, "requeue")

\* UPDATE ... SET state = 'queued', attempt_count + 1 over the second one.
SweepRequeue(w) ==
    LET ids == picked[w].requeue
        bad == ids # {} /\ ~BindAccepted(ids)
    IN  /\ loop[w] = "requeue"
        /\ job' = IF bad THEN job ELSE SweptRows({j \in ids : ~Exhausted(j)}, w, "queued", 1)
        /\ AfterSweep(w, bad, "sweep")

\* The rows of S are claimed under one new token.
ClaimRows(w, S) ==
    /\ issued' = issued + 1
    /\ token' = [token EXCEPT ![w] = issued + 1]
    /\ job' = [j \in Jobs |-> IF j \in S THEN Claimed(job[j], issued + 1) ELSE job[j]]
    /\ stale' = [v \in Workers |-> stale[v] \ S]
    /\ lastClaim' = [j \in Jobs |-> IF j \in S THEN issued + 1 ELSE lastClaim[j]]
    /\ runs' = [j \in Jobs |-> IF j \in S THEN runs[j] + 1 ELSE runs[j]]
    /\ UNCHANGED verdictBy

\* The claim has its rows: a task for each, or nothing to do.
Dispatch(w, S) ==
    IF S = {}
    THEN /\ loop' = [loop EXCEPT ![w] = "sleep"]
         /\ UNCHANGED <<store, stale, token, task>>
    ELSE /\ ClaimRows(w, S)
         /\ task' = [task EXCEPT ![w] = [j \in Jobs |-> IF j \in S THEN "running" ELSE "none"]]
         /\ loop' = [loop EXCEPT ![w] = "drain"]

\* PostgreSQL claims in one statement (FOR UPDATE SKIP LOCKED).
Claim(w) ==
    /\ loop[w] = "claim"
    /\ queue.dialect = "postgres"
    /\ \E S \in Limited({j \in Jobs : Due(j)}, Concurrency) : Dispatch(w, S)
    /\ UNCHANGED <<picked, faults, queue>>

\* SQLite reads the due rows first ...
ClaimSelect(w) ==
    /\ loop[w] = "claim"
    /\ queue.dialect = "sqlite"
    /\ \E S \in Limited({j \in Jobs : Due(j)}, Concurrency) :
          picked' = [picked EXCEPT ![w].claim = S]
    /\ loop' = [loop EXCEPT ![w] = "take"]
    /\ UNCHANGED <<store, stale, token, task, faults, queue>>

\* Those of them that are still queued, which by now may be waiting again.
Takeable(w) == {j \in picked[w].claim : job[j].state = "queued"}

\* ... and takes them by an UPDATE for each, which looks at the state alone.
ClaimTake(w) ==
    /\ loop[w] = "take"
    /\ Dispatch(w, Takeable(w))
    /\ picked' = [picked EXCEPT ![w].claim = {}]
    /\ UNCHANGED <<faults, queue>>

\* A statement of the claim fails.  The SQLite claim has no transaction: the
\* rows taken before stay running, with no task to work on them.
ClaimFails(w) ==
    /\ faults < MaxFaults
    /\ faults' = faults + 1
    /\ loop[w] \in {"claim", "take"}
    /\ loop' = [loop EXCEPT ![w] = "sleep"]
    /\ picked' = [picked EXCEPT ![w].claim = {}]
    /\ \/ UNCHANGED <<store, stale, token>>
       \/ /\ loop[w] = "take"
          /\ \E S \in SUBSET Takeable(w) :
                S # {} /\ S # picked[w].claim /\ ClaimRows(w, S)
    /\ UNCHANGED <<task, queue>>

\* JoinSet drained: the loop sleeps for its poll interval.
Drained(w) ==
    /\ loop[w] = "drain"
    /\ \A j \in Jobs : task[w][j] = "none"
    /\ loop' = [loop EXCEPT ![w] = "sleep"]
    /\ UNCHANGED <<store, stale, picked, token, task, faults, queue>>

-------------------------------------------------------------------------------
(* One task: process_claimed_learning_job, process_claimed_eval_run.       *)

\* The execution returns, in whatever way.
Execute(w, j) ==
    /\ task[w][j] = "running"
    /\ \E s \in {"ok", "err"} : SetTask(w, j, s)
    /\ UNCHANGED <<store, loop, stale, picked, token, faults, queue>>

\* renew_learning_job_lease, renew_eval_run_lease: a lost lease drops the
\* execution where it stands.
Heartbeat(w, j) ==
    /\ task[w][j] = "running"
    /\ IF OwnsLiveLease(w, j)
       THEN /\ job' = [job EXCEPT ![j].lease = LeaseDuration]
            /\ stale' = [v \in Workers |-> stale[v] \ {j}]
            /\ UNCHANGED task
       ELSE /\ SetTask(w, j, "none")
            /\ UNCHANGED <<job, stale>>
    /\ UNCHANGED <<issued, lastClaim, runs, verdictBy, loop, picked, token, faults, queue>>

\* finish_learning_job, update_eval_run_state: fenced by the live lease.
Conclude(w, j, state) ==
    /\ SetTask(w, j, "none")
    /\ IF OwnsLiveLease(w, j)
       THEN /\ job' = [job EXCEPT ![j] = Released(job[j], state, 0, job[j].wait)]
            /\ verdictBy' = [verdictBy EXCEPT ![j] = token[w]]
       ELSE UNCHANGED <<job, verdictBy>>
    /\ UNCHANGED <<issued, lastClaim, runs, loop, stale, picked, token, faults, queue>>

Finish(w, j) ==
    \/ task[w][j] = "ok" /\ Conclude(w, j, "succeeded")
    \/ task[w][j] = "err" /\ queue.kind = "eval" /\ Conclude(w, j, "failed")
    \/ task[w][j] = "fallback" /\ Conclude(w, j, "failed")

\* requeue_failed_learning_job: charge the attempt, back off or give up.
Charge(w, j) ==
    LET failed == job[j].attempt_count + 1 >= MaxAttempts
    IN  IF OwnsLiveLease(w, j)
        THEN /\ job' = [job EXCEPT ![j] =
                         Released(job[j], IF failed THEN "failed" ELSE "queued", 1,
                                  IF failed THEN 0 ELSE Larger(RetryBackoff, 1))]
             /\ verdictBy' = [verdictBy EXCEPT ![j] = IF failed THEN token[w] ELSE @]
        ELSE UNCHANGED <<job, verdictBy>>

RequeueFailed(w, j) ==
    /\ task[w][j] = "err"
    /\ queue.kind = "learning"
    /\ SetTask(w, j, "none")
    /\ Charge(w, j)
    /\ UNCHANGED <<issued, lastClaim, runs, loop, stale, picked, token, faults, queue>>

\* The UPDATE or the read after it fails: fall back to a terminal finish.
RequeueError(w, j) ==
    /\ faults < MaxFaults
    /\ faults' = faults + 1
    /\ task[w][j] = "err"
    /\ queue.kind = "learning"
    /\ SetTask(w, j, "fallback")
    /\ Charge(w, j) \/ UNCHANGED <<job, verdictBy>>
    /\ UNCHANGED <<issued, lastClaim, runs, loop, stale, picked, token, queue>>

-------------------------------------------------------------------------------
(* Faults and time.                                                        *)

\* The process dies, or is aborted past its drain budget, and starts again.
Crash(w) ==
    /\ faults < MaxFaults
    /\ faults' = faults + 1
    /\ loop' = [loop EXCEPT ![w] = "sleep"]
    /\ stale' = [stale EXCEPT ![w] = {}]
    /\ picked' = [picked EXCEPT ![w] = NoIds]
    /\ token' = [token EXCEPT ![w] = 0]
    /\ task' = [task EXCEPT ![w] = NoTasks]
    /\ UNCHANGED <<store, queue>>

\* A statement of the sweep hits a database error: the batch is over.
SweepError(w) ==
    /\ faults < MaxFaults
    /\ loop[w] \in {"sweep", "dead", "requeue"}
    /\ faults' = faults + 1
    /\ loop' = [loop EXCEPT ![w] = "sleep"]
    /\ stale' = [stale EXCEPT ![w] = {}]
    /\ picked' = [picked EXCEPT ![w] = NoIds]
    /\ UNCHANGED <<store, token, task, queue>>

\* A renewal or a final statement hits a database error, or the task panics:
\* it ends and its row is left as it is.
LoseTask(w, j) ==
    /\ faults < MaxFaults
    /\ task[w][j] # "none"
    /\ faults' = faults + 1
    /\ SetTask(w, j, "none")
    /\ UNCHANGED <<store, loop, stale, picked, token, queue>>

\* A second passes.
Tick ==
    /\ \E j \in Jobs : job[j].lease > 0 \/ job[j].wait > 0
    /\ job' = [j \in Jobs |-> Aged(job[j])]
    /\ UNCHANGED <<issued, lastClaim, runs, verdictBy, process, faults, queue>>

-------------------------------------------------------------------------------
Init ==
    /\ queue \in [kind : Kinds, dialect : Dialects]
    /\ job = [j \in Jobs |-> NoRow]
    /\ issued = 0
    /\ loop = [w \in Workers |-> "sleep"]
    /\ stale = [w \in Workers |-> {}]
    /\ picked = [w \in Workers |-> NoIds]
    /\ token = [w \in Workers |-> 0]
    /\ task = [w \in Workers |-> NoTasks]
    /\ faults = 0
    /\ lastClaim = [j \in Jobs |-> 0]
    /\ runs = [j \in Jobs |-> 0]
    /\ verdictBy = [j \in Jobs |-> 0]

Loop(w) ==
    \/ SweepSelect(w)
    \/ SweepDead(w)
    \/ SweepRequeue(w)
    \/ Claim(w)
    \/ ClaimSelect(w)
    \/ ClaimTake(w)
    \/ Drained(w)

Fault(w) ==
    \/ SweepError(w)
    \/ ClaimFails(w)
    \/ Crash(w)
    \/ \E j \in Jobs : RequeueError(w, j) \/ LoseTask(w, j)

\* What a task does besides executing the job.
Settle(w, j) == Heartbeat(w, j) \/ Finish(w, j) \/ RequeueFailed(w, j)

Next ==
    \/ \E j \in Jobs : Enqueue(j) \/ Purge(j)
    \/ \E w \in Workers : Loop(w) \/ Fault(w)
    \/ \E w \in Workers, j \in Jobs : Execute(w, j) \/ Settle(w, j)
    \/ Tick

Spec == Init /\ [][Next]_vars

\* The loop polls for ever, an execution returns (its provider calls have
\* timeouts), a task records its outcome, and time passes.
Fairness ==
    /\ \A w \in Workers : WF_vars(Loop(w))
    /\ \A w \in Workers, j \in Jobs :
          WF_vars(Execute(w, j)) /\ WF_vars(Finish(w, j)) /\ WF_vars(RequeueFailed(w, j))
    /\ WF_vars(Tick)

FairSpec == Spec /\ Fairness

-------------------------------------------------------------------------------
(* Properties.                                                             *)

\* Types, and the shape of a row: exactly the running rows carry a lease, and
\* only a row that was charged waits for a retry.
TypeOK ==
    /\ queue \in [kind : Kinds, dialect : Dialects]
    /\ job \in [Jobs -> Row]
    /\ \A j \in Jobs :
          /\ job[j].lease_token # 0 <=> job[j].state = "running"
          /\ job[j].lease > 0 => job[j].state = "running"
          /\ job[j].wait > 0 => job[j].attempt_count > 0
    /\ issued \in Nat
    /\ loop \in [Workers -> LoopState]
    /\ stale \in [Workers -> SUBSET Jobs]
    /\ picked \in [Workers -> [dead : SUBSET Jobs, requeue : SUBSET Jobs, claim : SUBSET Jobs]]
    /\ token \in [Workers -> Nat]
    /\ task \in [Workers -> [Jobs -> Stage]]
    /\ faults \in Nat
    /\ lastClaim \in [Jobs -> Nat]
    /\ runs \in [Jobs -> Nat]
    /\ verdictBy \in [Jobs -> Nat]

\* "rows past the attempt ceiling converge on the terminal dead state so a
\* crash-looping or panicking job cannot consume the queue forever": a job is
\* started at most once more than the ceiling, and it is declared dead only
\* after exactly that many starts, none of which reported an outcome.
StartsBounded ==
    \A j \in Jobs :
        /\ runs[j] <= MaxAttempts + 1
        /\ job[j].state = "dead" => runs[j] = MaxAttempts + 1 /\ verdictBy[j] = 0

\* attempt_count is the number of starts that are over without a verdict or
\* with a charged failure: sweeps and failure records never charge one twice.
AttemptsCharged ==
    \A j \in Jobs :
        /\ runs[j] - job[j].attempt_count \in {0, 1}
        /\ job[j].state \in {"absent", "queued"} => runs[j] = job[j].attempt_count
        /\ job[j].state \in {"running", "succeeded", "dead"} => runs[j] = job[j].attempt_count + 1

\* The verdict comes from the worker that claimed the job last: a worker that
\* lost its lease can not finish or requeue the job of its replacement.
VerdictByLatestClaim ==
    \A j \in Jobs : verdictBy[j] # 0 => verdictBy[j] = lastClaim[j]

\* A finished job never runs again and its verdict never changes.
VerdictKept(j) == job[j].state \in Terminal => job'[j].state \in {job[j].state, "purged"}

\* However late a sweep, a requeue or a completion arrives, a terminal job
\* stays as it is until retention removes it.
VerdictFinal == [][\A j \in Jobs : VerdictKept(j)]_vars

LeaseRespected(j) ==
    /\ job[j].state = "running"
    /\ job[j].lease > 0
    /\ job'[j].state # "running"
    => \E w \in Workers : token[w] = job[j].lease_token /\ task[w][j] \in {"ok", "err", "fallback"}

\* "a job re-claimed between the two statements keeps its fresh lease
\* untouched" (learning_jobs.rs:221): only its holder, with an outcome in
\* hand, takes a job with a live lease out of running.
LiveLeaseNotStolen == [][\A j \in Jobs : LeaseRespected(j)]_vars

\* Every job is finished in the end, once the faults stop.
EventuallyFinished ==
    \A j \in Jobs : job[j].state = "queued" ~> job[j].state \in Terminal \union {"purged"}

\* "a crash-looping or panicking job cannot consume the queue forever"
\* (learning_jobs.rs:214): every queued job gets its turn.
EveryJobGetsItsTurn == \A j \in Jobs : job[j].state = "queued" ~> job[j].state # "queued"

-------------------------------------------------------------------------------
(* Every job is an instance of JobExecution.                               *)

ExecutionStatus(j) ==
    LET state == job[j].state
    IN  IF state = "absent" THEN "none"
        ELSE IF state = "purged" THEN "removed"
        ELSE state

\* The worker that holds the job's lease token has an outcome in S in hand.
HolderHas(j, S) ==
    /\ job[j].state = "running"
    /\ \E w \in Workers : token[w] = job[j].lease_token /\ task[w][j] \in S

\* Executions that lost the lease are not seen: whatever they still do, no
\* verdict is theirs.
ExecutionOutcome(j) ==
    IF HolderHas(j, {"ok"}) THEN "ok"
    ELSE IF HolderHas(j, {"err", "fallback"}) THEN "err"
    ELSE "none"

Execution(j) == INSTANCE JobExecution
                    WITH Budget <- MaxAttempts,
                         status <- ExecutionStatus(j),
                         starts <- runs[j],
                         outcome <- ExecutionOutcome(j)

\* The queue implements the promise of JobExecution for every job: the
\* conjunction over the jobs of Execution(j)!Spec, in the form TLC checks.
ExecutesOneAtATime ==
    /\ \A j \in Jobs : Execution(j)!Init
    /\ [][\A j \in Jobs : [Execution(j)!Next]_(Execution(j)!vars)]_vars

===============================================================================
