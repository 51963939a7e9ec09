# A specification of sdkwork-memory

TLA+ models of the parts of the memory service in which several processes, requests and failures
meet, their TLC configurations, and proofs checked by TLAPS.
Paths are relative to the repository; `native-sql` stands for `src/plugins/sdkwork-memory-plugin-native-sql/src`,
`service` for `src/crates/sdkwork-intelligence-memory-service/src`.

To repeat a run: `tlc -workers 2 -config MCOutboxSafety.cfg MCOutbox.tla`; to repeat the proofs: `tlapm OutboxProofs.tla`.

## 1. The system

The service keeps an agent's memory in one SQL database (SQLite or PostgreSQL) shared by any number of
processes. Each process serves HTTP requests and runs background loops (outbox publisher, extraction worker,
evaluation worker, retention worker, provider-health worker). Processes never talk to each other: they meet
only in the tables, and the only mutual exclusion is what the SQL statements provide: row leases with a
fencing token, `SKIP LOCKED` or a state test in a claim, and two lock rows in the promotion transaction.

### Components

| component | source | state | operations | correct when |
|---|---|---|---|---|
| Outbox and publisher | `native-sql/store.rs`, `service/outbox_publisher.rs`, `service/outbox_delivery.rs` | `ai_outbox_event` (publish state, retries, lease, next attempt); per process a batch with a lease token | append, stale sweep, claim, POST, renew, acknowledge, fail, purge | every event is delivered at least once or dead-lettered after its budget; a worker that lost its lease changes nothing |
| Background queues | `service/job_worker.rs`, `native-sql/learning_jobs.rs` | `ai_learning_job`, `ai_eval_run`; per process a batch | enqueue, sweep, claim, execute, renew, finish, requeue, purge | every job ends, starts are bounded, verdicts are fenced and final |
| Extraction | `service/open_api.rs`, `native-sql/store.rs` | `ai_candidate` rows of a job | remove pending candidates, propose, return | a retry replaces the proposals of its predecessor |
| Candidate review | `service/candidate_promotion.rs`, `service/app_backend_api.rs`, `native-sql/store.rs` | `ai_candidate`, `ai_record`, requests in flight | approve (read, promote, refresh), reject (read, decide), create, delete, forget | one record per candidate, quota never exceeded, a rejection is final |
| Canonical records | `native-sql/canonical_data.rs`, `consolidation.rs`, `store.rs` | `ai_record` and its full-text rows | create, update, supersede, delete, consolidate | no two active records in one supersession chain; index agrees with rows |
| Privacy | `native-sql/privacy.rs`, `service/app_backend_api.rs` | records, candidates, events of a subject | paged hard delete, export | nothing of the subject remains when the request succeeds |
| Event log | `native-sql/store.rs` | `ai_event` with an idempotency key | idempotent append, read | one row per key, whatever retries race |
| Retention, provider health | `service/job_worker.rs`, `native-sql/retention.rs`, `admin_tables.rs` | settled rows; an advisory lease row | acquire, renew, purge in pages | one replica at a time; only settled rows are removed |
| Worker lifecycle | `service/job_worker.rs`, `outbox_publisher.rs` | watch channels, task handles | spawn, signal, drain, abort | shutdown ends within its budget and loses no claimed row |
| Scoring and ranking | `service/job_worker.rs`, `src/crates/sdkwork-memory-retrieval/src` | none | percentiles, rank fusion, BM25 | agrees with its definition |
| Tenant quota | `service/tenant_quota.rs`, `native-sql/policy_store.rs` | a 60-second cache of limits | read, refresh | a stale limit is stale for at most 60 seconds |
| Access control; graph, commercial and admin stores; vector plugin; reference profiles; routes; bootstrap | see `PROJECT.json` | row-wise or none | row-wise | not modelled, see section 8 |

### How they interact

A mutation appends its outbox row in its own transaction; the publisher sweeps, claims and posts it later.
An extraction request enqueues a job; the extraction worker claims it and stores candidates; a reviewer's
request approves or rejects a candidate and an approval creates a record under the space quota; deletion,
privacy requests and retention remove any of these rows at any time. A worker that is paused, killed
or cut off from the database is indistinguishable from a slow one until its lease expires, and the next
sweep gives its row to another worker while it may still be running.

### What is hard

The hazards are listed one by one, with their lines, in `PROJECT.json`. In short:

* a sweep reads a timestamp and an id list and updates later, when rows have been renewed, settled or claimed again;
* two publishers hold one row, one of them past its lease, and both have an answer in hand;
* one try of a row may be charged by its failure record, by the sweep, by both or by neither;
* an HTTP answer is lost after the consumer acted on the request;
* the SQLite claim of a job is a read followed by updates, without a transaction;
* a review reads a candidate, then decides in a second statement, while others decide too;
* a task's own statements (removal, insertion) carry no fence, and go on after the lease is lost;
* an SQL statement with more placeholders than values behaves differently on the two databases.

## 2. The modules

| module | models | extended by |
|---|---|---|
| `EventDelivery` | abstract: the promise of the outbox for one event | instantiated in `Outbox` |
| `Outbox` | outbox rows, publisher loops, delivery tasks, the consumer, retention, time | `MCOutbox`, `OutboxProofs` |
| `JobExecution` | abstract: the promise of a queue for one job | instantiated in `JobQueue` |
| `JobQueue` | both background queues, both databases | `Extraction`, `MCJobQueue`, `JobQueueProofs` |
| `Extraction` | `JobQueue` with its `Execute` taken apart: what the tasks do to the candidates | `MCExtraction`, `ExtractionProofs` |
| `CandidatePromotion` | abstract: the promise of the review for one candidate | instantiated in `CandidateReview` |
| `CandidateReview` | candidates, records and the requests on them | `MCCandidateReview`, `CandidateReviewProofs` |
| `Records` | records of one space with their links, evidence and SQLite index; consolidation, rebuild | `MCRecords`, `RecordsProofs` |
| `EventLog` | the idempotent append of events by several replicas | `Forget`, `EventLogProofs` |
| `Forget` | `EventLog` with the records and candidates of a space, and the privacy requests that sweep them | `MCForget`, `ForgetProofs` |
| `*Proofs` | theorems and proofs | |

The `MC` modules only define the symmetry sets. Operators marked `\* Defect:` are variants of the operator
that follows them, with a plausible error; they take no part in any specification and are there so that
each property can be shown to fail on the defect it is about.

### Conventions

* An action is one SQL statement or transaction, or one step that another process can observe.
* Time is kept as what remains: `lease` is `lease_expires_at - now` and `wait` is `next_attempt_at - now`, both
  floored at 0. `Tick` ages all rows by a second. The code compares these columns with `now` only. A statement
  reads its timestamp just before it executes, and is taken to do both at one instant; the sweep is the exception that
  matters, since it uses one timestamp for all its passes: `stale[w]` is the set of rows whose expiry is not after
  it, and renewals and claims remove rows from it.
* `lease_owner` is left out: every claim draws a fresh `lease_token` in one process.
* `issued` counts lease tokens; `next_numeric_id` never repeats.
* Variables marked *history* record what happened for the properties; no guard reads them.

### Outbox

| action | code |
|---|---|
| `Append` | `append_outbox_on_tx`, in the transaction of the change |
| `SweepSelect`, `SweepDead`, `SweepRequeue` | `requeue_stale_processing_outbox_events`: two SELECTs, UPDATE to `failed`, UPDATE to `pending`, repeated until nothing is found |
| `Claim` | `claim_global_pending_outbox_events` |
| `Arrive`, `Respond` | the POST of `deliver_outbox_event` reaches the consumer; its answer, timeout or loss |
| `Heartbeat` | `renew_outbox_delivery_lease`; a lost lease abandons the delivery |
| `Ack`, `Fail` | `ack_outbox_delivery_success`, `fail_outbox_delivery`, fenced by token and live lease |
| `Drained` | the `JoinSet` is empty, the loop sleeps |
| `Purge` | `purge_terminal_outbox_events` |
| `Crash`, `LoopError`, `LoseTask` | process death, database errors, panicking tasks |

The two SELECTs of a sweep are one action: the second list only holds ids that the UPDATE checks
again, so a row that changes between the SELECTs is treated as one that changes after them.
A request of an abandoned task may still reach the consumer; it could only set `received`, which no
guard of the service reads, and `EventDelivery!Receive` allows it at any time.
With delivery disabled the rows stay pending and nothing happens; that mode has no behaviour to model.

`EventDelivery` is the promise for one event: tried at most `Budget` times, received before it counts as published,
given up only after exactly `Budget` tries. The mapping takes `pending` and `processing` to `open`, and the
number of claims to `tries`; `DeliversAtLeastOnce` is the refinement for all events.

### JobQueue

The sweep is that of the outbox, with three differences that the model keeps: an exhausted row becomes `dead` without a charge,
the ceiling is tested before the charge (so a job starts at most `MaxAttempts + 1` times), and an error of
the sweep ends the whole batch instead of going on to the claim. `queue` is chosen once: the kind decides how
a failure ends (`RequeueFailed` with a backoff for an extraction, `Finish` with `failed` for an
evaluation) and the database decides the claim: one statement on PostgreSQL (`Claim`), a read (`ClaimSelect`)
followed by an UPDATE per row that looks at the state alone (`ClaimTake`, `ClaimFails`) on SQLite. The
UPDATEs of `ClaimTake` are one action when none fails; `ClaimFails` covers the prefix that a failing
one leaves behind. `RequeueError` is the fallback of a failed requeue, which may have committed.
`Execute` is whatever the job does.

`JobExecution` is the promise for one job: one execution at a time, a verdict only from the outcome of the execution started last,
repetition within the budget, and `dead` after exactly `Budget + 1` starts. The mapping (`ExecutionStatus`, `ExecutionOutcome`)
takes the row's state and the number of starts, and as the outcome what the worker that holds the row's *present* token has in hand. A worker
that lost its lease is invisible there: `ExecutesOneAtATime` says that nothing it still does changes what the table says of the job, although it may
really be running beside its replacement.

### Extraction

`Execute` of the learning queue becomes `CleanUp` (`delete_pending_candidates_for_learning_job`), one `Propose` per text
(`create_candidate`) and `Return`. The set of texts is chosen at the removal: it stands for the events that
still exist and for the model's answer. `Decide` stands for every review. `late` records the jobs for which
a statement ran without a live lease, because two properties hold only without such a statement.

### CandidateReview

An approval is `ApproveRead`, `Promote` (the transaction up to the count of the records), `PromoteCommit` (its inserts and its
commit) and `ApproveRefresh`; a creation is `CreateMemory` and `CreateCommit`, split likewise; a rejection is `RejectRead` and `Reject`.
An admitted transaction (`promoting`, `creating`) holds the lock of the space (`SpaceFree`), a promotion that of its candidate too
(`CandidateFree`), and whoever needs a lock waits: the other admissions and the hard delete for the space, every statement that writes the
candidate for its row. A soft delete takes neither and may run between a count and its insert. These are the row locks of
PostgreSQL; on SQLite the first statement takes the one writer lock, which allows fewer interleavings. Other requests run between them, and `Abandon` ends a request
between two steps. A request that may create a record draws a fresh memory id, so the request itself names the
record. `superseded` is merged into `active`: neither the target join nor these requests tell them apart
here. `HardDelete` and `ForgetCandidates` are the parts of a privacy request that touch these tables.

`CandidatePromotion` is the promise for one candidate: the approval and its record come into being in one step, out of `pending`, once; the record may be
deleted and erased afterwards; a rejection is final, and may overtake an approval (finding 2), so that is allowed. The mapping (`MemoryOf`)
takes the decision, and the status of whatever record was made from the candidate, by any request; `PromotesAtomically` is the refinement for all candidates.

### Records

| action | code |
|---|---|
| `CreateMemory`, `Supersede`, `UpdateMemory`, `DeleteMemory` | the transactions of `canonical_data.rs`, each with its index row |
| `PurgeExpired` | one UPDATE of `purge_expired_records_for_scope`, which leaves the index rows |
| `HardDelete` | `hard_delete_record_with_cleanup`: sources, links to the row, index row and row |
| `ConsolidateStart`, `ConsolidateBatch`, `ConsolidateFails` | recovery of the counts from the outbox, one batch, the death of the process between two |
| `PurgeJournal` | the retention of the outbox takes an event that the recovery would have counted |
| `RebuildClear`, `RebuildFill` | the two statements of `rebuild_record_search_indexes` |

A text stands for all columns that consolidation compares. Ties between winners are broken nondeterministically
(confidence, time and row id are left out). The database is SQLite, where a writing transaction excludes every other:
the index table exists only there, on PostgreSQL the search document is a column of the row. A caller repeats
an operation only after it has seen the previous attempt end, and there is one rebuild at a time. That the INSERT of a
rebuild fails on a row that a writer has put back is the behaviour of FTS5, which is external. The quota is
not limited in the run (`MaxRecords = 0`, which the code takes for no limit); `CandidateReview` checks it, and the proofs hold for every value.

### EventLog

`append_open_api_event_with_audit` is `AppendRead`, `AppendInsert` (one transaction with audit line and usage count, or the unique
violation), `AppendReread` and `AppendAudit`; `AppendFails` is an error or death in between. `Answered` lets the client lose its answer, after
which it may send the event again as another request. `payload` stands for space, payload and hash. The service draws a fresh
id per event when the caller sends none, so repetitions come from callers that keep the id.

### Forget

`EventLog` is extended by the tables of a space and the steps of `create_forget_request`. One behaviour has one `scope`; the
requests of that behaviour all ask for it. Record ids are numbers because the sweeps compare them with a cursor.

| action | code |
|---|---|
| `ForgetStart` | the "running" row of the audit log, before anything is deleted |
| `ForgetPage`, `ForgetRecord` | a page past the cursor, with a sentinel row for a space; `hard_delete_record_with_cleanup` for each row of it |
| `ForgetTarget` | the memory scope: `retrieve_record_detail`, then the hard delete |
| `CandidatePage`, `CandidateReject` | the batches of `reject_pending_candidates_batched`, for a user |
| `EventPage`, `SourceDelete`, `EventDelete` | the three statements of a batch of `delete_events_batched` |
| `ForgetReport`, `ForgetFails` | the "succeeded" row; death, time-out or error |
| `DeleteAllBatch` | one transaction of `delete_all_canonical_memory_atomic` |
| the others | writers: `CreateMemory`, `UpdateMemory`, `DeleteMemory`, `Propose`, `Approve`, `Requested` |

`superseded` is merged into `active`. The read and the delete of `ForgetTarget` are one action: a record deleted between them is
hard-deleted all the same. The references a hard delete takes out of candidates are in `CandidateReview`, those between records
in `Records`. `seen` records what was in scope when the request was accepted; an update that takes a record out of a query's
matches takes it out of `seen` too.

## 3. The runs

Sizes are distinct states.

| run | instance | states | shows |
|---|---|---|---|
| `outbox` | 2 events, 2 publishers, 2 retries, lease 2, batch 2, 2 faults | 1.3 M | type and row shape, `ClaimsChargedOnce`, `PublishedByLatestClaim`, `PublishedWasReceived`, `DeadLetterAfterBudget`, the refinement `DeliversAtLeastOnce` |
| `outbox_live` | 1 event, 2 publishers, 3 retries, lease 2, 2 faults, fair | 25 k | `SettledIsFinal`, `LiveLeaseNotStolen`, `EventuallySettled` |
| `jobs` | 2 jobs, 2 workers, 2 attempts, lease 1, both queues, SQLite, 1 fault | 2.2 M | `StartsBounded`, `AttemptsCharged`, `VerdictByLatestClaim`, `VerdictFinal`, `LiveLeaseNotStolen`, the refinement `ExecutesOneAtATime` |
| `jobs_live` | 1 job, 2 workers, both queues, both databases, 2 faults, fair | 74 k | `EventuallyFinished` |
| `review` | 2 candidates, 4 requests, quota 2 | 67 k | `QuotaHeld`, `OneRecordPerCandidate`, `ApprovalAnswersRecord`, `RejectionIsFinal`, the refinement `PromotesAtomically` |
| `extraction` | 1 job, 2 workers, 2 texts, 1 fault | 1.2 M | `RetryReplacesProposals`, `SucceededIsLatest`, `DecidedIsKept` |
| `records` | 3 records, 2 texts, 1 event, 2 operations, batch 1 | 1.3 M | `ChainsEnd`, `LinksAgree`, `ResultExact`, `SearchSeesActive`, `ForgottenNotIndexed`, `DoneMeansDistinct`, `EvidenceKept` |
| `forget` | every scope; 2 records, 1 candidate, 1 event, 2 appends, 1 request, page 1 | 3.9 M | `LedgerAgrees`, `AcceptedIsStored`, `SweepIsComplete`, `InterruptedIsTraced` |
| `jobs_postgres_sweep`, `review_reject`, `extraction_takeover`, `forget_targets` | smallest instances | | a counterexample each, section 5 |

### Bounds, and why they are enough

* *Two workers*: every conflict the code handles is between the present holder of a row and one that
  lost it, or between the holder and a sweep. A worker that lost a row two claims ago meets the same
  token test as one that lost it one claim ago. The theorems of section 6 hold for any number.
* *Two rows* make batches, an id list with a stale and a fresh row, and a claim of a part of a sweep's list.
* *Retries*: 2 gives a charge that backs off and one that settles; 3 in `outbox_live` adds a repeated backoff.
* *Lease*: 2 seconds allow a renewal before expiry; 1 is enough where the length does not matter.
* *Faults* are bounded by `MaxFaults` (crashes and errors). Delivery failures are not: they are bounded by
  the retry budget. `issued` and time need no bound: a claim is bounded by the budget, and time is what remains.
* *Four requests* on two candidates: an approval with a lost id, a second approval, a rejection, and a creation that takes
  the quota's last place between another's count and insert. Quota 2 lets it be reached and freed again. A candidate is proposed once.
* *Three records* make a chain of two links, two duplicates of one winner, and a full batch (size 1) that is not the last; two
  operations consolidate at once. *Two records* and pages of one make a cursor with a row behind it, on it and past it. One request
  suffices because the properties relate a request to the writers; `ForgetProofs` has any number of requests, rows and page sizes.
* Symmetry is used for interchangeable rows, workers and requests, and never in a run with a liveness property.
* `CHECK_DEADLOCK FALSE` stands only in the runs of review, records and forget, which end when every request has been answered
  and every id is used. The
  queues never stop: their loops poll, so there TLC does check deadlock.

## 4. Fairness

`FairSpec` asks for weak fairness of
* the loop of each worker: `tokio::time::sleep` returns and the loop has no exit but shutdown;
* the answer of a delivery: the HTTP client is built with a timeout (`service/outbox_delivery.rs:137`), so every request ends;
* the end of an execution: the provider's client has one too (`src/crates/sdkwork-memory-provider-openai/src/config.rs:118`);
* acknowledgement, failure record and final statement: the task runs on as soon as its call has returned;
* time.

Not fair: requests, arrival of a delivery, heartbeats (the result may not depend on a renewal), purges, reviews, crashes
and errors. That a delivery succeeds is never assumed: `EventuallySettled` includes the dead letter.

## 5. Findings

Each is a run that TLC refutes, with the line that says otherwise; the full text is in `PROJECT.json`.

1. **On PostgreSQL one stale job stops its whole queue** (`native-sql/learning_jobs.rs:258`). The UPDATEs of the sweep are
   formatted with 500 placeholders and bound with the ids found. SQLite reads the rest as NULL; PostgreSQL refuses
   the statement, and the error ends the batch before it claims (`EveryJobGetsItsTurn`). The sweep of the outbox has the same
   mismatch (`native-sql/store.rs:4138`); there its error is logged and the claim goes on, but expired deliveries are not requeued.
2. **A rejection overwrites an approval** (`native-sql/store.rs:4888`): `decide_candidate` tests no state, and leaves a rejected
   candidate with a live record, which the promotion transaction itself calls an invariant violation (`TargetMeansApproved`).
3. **A worker past its lease deletes its successor's candidates** (`service/open_api.rs:1056`): the removal is not
   fenced (`RemovesPreviousOnly`). `RetryReplacesProposals` and `SucceededIsLatest` say what does hold: both
   for jobs that no worker has touched past its lease.
4. **Forgetting a memory that was deleted before does nothing** (`service/app_backend_api.rs:903`): the memory scope looks for the record
   with a read that hides soft-deleted rows, skips it and reports success; row, text and sources stay (`TargetsErased`). The other scopes
   enumerate deleted rows on purpose.

Without a run of its own: a retry proposes a text again whose candidate was decided before the first attempt failed,
because the removal is limited to pending candidates. `docs/architecture/tech/TECH_ARCHITECTURE.md:94` ("a requeued run cannot duplicate
candidates") and `service/open_api.rs:1028` ("retries never duplicate proposals") claim more.

Also without a run: a superseded record can be found by its text. An update puts it back into the index
(`native-sql/canonical_data.rs:374`), which the supersession had taken it out of; on PostgreSQL, where the search document is a column of the row, it
never leaves. The queries test only `status <> 'deleted'` (`native-sql/search_index.rs:442`, and the LIKE scan that follows an empty
answer, `native-sql/store.rs:1496`). `docs/architecture/tech/TECH-2026-06-10-ai-memory-architecture-design.md:806` says "Superseded memory is
returned only if the superseding memory is included or if history is requested." `SearchSeesActive` speaks of active records alone. It also
excuses the rows that a rebuild has taken out and not put back (`wiped`): after a rebuild that fails between its two statements
active records stay unfound by the index until the next rebuild, and the LIKE scan helps only where the index returns nothing at all.

Also without a run, in code that is not modelled: `ensure_default_implementation_profile_for_tenant`
(`native-sql/admin_tables.rs:634-641`) and `ensure_default_keyword_index_for_tenant` (210-217) test
`is_none_or(is_unique_violation)` where the comment above (619-621) calls for the opposite: the loser of a seeding
race gets the unique violation as an error, and any other error of the driver is taken for success.

Finding 1 rests on how the two databases treat a statement with fewer values than placeholders; `BindAccepted` says
exactly that. The liveness run of the jobs on PostgreSQL uses `SweepBatch = 1`, where every non-empty list
fills the batch; `outbox_live` and the safety runs use SQLite, where the number does not matter.

## 6. What is proved

For every set of rows, workers, candidates, requests, every budget, batch, lease and number of faults.

**`OutboxProofs`** (from `OutboxAssumption`: the parameters are naturals, the lease, batch and sweep sizes positive).
The inductive invariant `IInv` joins eight parts. `ClaimsChargedOnce` and `PublishedByLatestClaim` are not
inductive alone: an acknowledgement is harmless only because a row in `processing` carries the
token of its latest claim (`HeldByLatestClaim`); a publication is truthful only because a task
with a success in hand has reached the consumer (`TasksTruthful`); the sweep's UPDATE charges the right rows
only because every row in an old list that is still in `processing` is expired (`StaleIsExpired`); and budgets follow from
the charge together with a bound on the retries of unsettled rows (`RetriesWithinBudget`).

| theorem | states |
|---|---|
| `TypeCorrect`, `Invariance` | `TypeOK`, `IInv` |
| `ChargedOnce` | every claim is charged exactly once |
| `Fenced` | a published row was acknowledged under its latest claim |
| `AtLeastOnce` | a published event was received |
| `BudgetKept` | dead letters come after exactly the budget, and no row is claimed more often |
| `VerdictFinal`, `LeaseKept` | the action properties `SettledIsFinal` and `LiveLeaseNotStolen` |
| `Implements` | `Spec` implements `EventDelivery` for every event |
| `DeliveryIsFinite` | a row changes its state at most `2 * Budget + 3` times |

**`CandidateReviewProofs`** (from `ReviewAssumption`: finitely many requests; the two NULLs are not requests or candidates).
`OneRecordPerCandidate` needs that a candidate some record was created for is never pending again
(`PromotedIsDecided`), that an id not yet used is unused everywhere (`FreshId`), and that the id a request carries is its own
before the transaction, unless the candidate is rejected by then, and a record of its candidate after it (`MemoryOfRequest`), and that the
locks do what they are for: one admitted transaction at a time, and its candidate still pending at the commit (`LocksHold`). Theorems: `TypeCorrect`, `PromotedOnce`, `AnswersAgree`,
`RejectedForGood`, `QuotaNeverExceeded`; the quota is proved on cardinalities, from the lock: until an
admitted request inserts, nothing else does, so there is still room for it (`RoomForAdmitted`).
`ImplementsPromotion` is the refinement of `CandidatePromotion`: by `OneRecordPerCandidate` the status of a candidate's record is
that of one row (`MemoryIs`), by `PromotedIsDecided` a pending candidate has none (`NoMemoryYet`), so that the only step that creates one is an approval
(`CommitApproves`). `AssertionBrokenByReject` locates finding 2: a step that leaves a target on a candidate that is not approved is a `Reject`.

**`JobQueueProofs`** (from the queue's assumption: naturals, positive lease, batch and sweep sizes). The argument is that of the
outbox: a row in `running` carries the token of its latest claim, a task in hand knows the token it claimed with,
and what an old list still names in `running` is expired. The SQLite claim adds the ids that were read as due and are taken by state
alone. Theorems: `TypeCorrect`, `ChargesExact`, `BudgetBoundsStarts`, `LatestClaimDecides`, `VerdictsFinal`, `LeasesKept`, for
both queues and both databases.

`ImplementsExecution` is the refinement of `JobExecution`. It needs two more invariants: a token is held by one worker (`SoleHolder`, since tokens are
fresh, `TokensFresh`), so that the outcome in hand is well defined; and a worker with a task is draining its batch under a token no newer than the row's latest claim (`TaskInv`), so a claim finds no outcome in its own worker's hands. Then
a step is a move of the row, `NextIsStep`, which maps to an action by what the holder had in hand, or leaves the row alone and changes the outcome (`OutcomeMoves`). The
budgets of the abstract steps come from `RowInv`.

`SmallQueueNeverRecovers` explains finding 1 for every such queue: on PostgreSQL, with fewer rows than the sweep's batch, no behaviour ever takes
an expired row out of `running`. Its extra hypotheses, finitely many jobs and fewer than `SweepBatch` of them, are those of the finding; 500 is the value in the code.

**`ExtractionProofs`**: `ImplementsQueue` (every behaviour of `Extraction` is one of `JobQueue`, so the theorems above hold with the tasks
taken apart), `ReviewKept` (`DecidedIsKept`), `ExtractionTyped`, `RetriesReplace`, `SuccessIsLatest`; the last two need that
of a job no worker touched late, only the worker of the latest claim has progress, and the pending candidates are its own. `ExtractionExecutes` carries the refinement of `JobExecution` over.
`OnlyLateCleanUpsErr` locates finding 3: a removal by the holder of the live lease takes what earlier attempts stored and nothing else.

**`RecordsProofs`** (from `RecordsAssumption`: finitely many ids and events). `ChainsEnd` is not inductive alone. The
invariant adds that a row which is active, forgotten or not yet created is superseded by none (`RowsInv`): a new link starts at a row that was
active and ends in one that stays or becomes active, so a set of ids closed under the new links gives one closed under the old
ones. `ResultExact` needs that the journal of an operation only holds ids it superseded, that these are never active again, and that
the count is exact in a running operation too (`CountInv`): a batch then adds ids that were not counted before. Theorems: `TypeCorrect`, `ChainsAlwaysEnd`, `LinksAlwaysAgree`, `RepetitionsReportAll`, `ActiveIsFound`,
`ForgottenIsNotFound`, and the action properties `ConsolidationFinishes` and `EvidenceIsKept`.

**`EventLogProofs`**: `LedgerAlwaysAgrees`, `AcceptedAlwaysStored`, from the invariant that a request in "audit" was held by a row of its own payload
and that the usage count is the number of rows stored plus those deleted.

**`ForgetProofs`**: `ImplementsLog` (every behaviour of `Forget` is one of `EventLog`; `LedgerKept` and `AcceptedKept` follow) and
`SweepsComplete`. The invariant is that of every cursor: what is left of the rows a request saw lies on its present page or
past its cursor, and once it is beyond the records, nothing is left (`TodoInv`), while what it saw is never brought back: ids are
drawn once and a row that is gone stays gone (`SeenInv`). `TypeCorrect` includes the foreign keys of the sources, and `DestructionTraced` follows from the order of the
"running" row and the sweep.

**The safety half of liveness.** `DeliveryIsFinite` and `LifeIsFinite` (of `JobQueueProofs`) need no fairness and no bound on faults. Each assigns to a row what it has spent: starts,
charges, and how far its state is from the first. No step gives back, a step that changes the state spends more, and the sum is bounded (`2 * Budget + 3`, `2 * MaxAttempts + 5`): a row
cannot be handed round for ever by crashes, time-outs, requeues and sweeps. What fairness adds is that it does not stay put in a state that is not final.

**Only model-checked**: that last part (`EventuallySettled`, `EventuallyFinished`), which rests on fairness and `ENABLED`. The four properties of the
violation runs are false and have no theorem; three of them have one that says when they fail, as above.

## 7. What could follow

1. `Lifecycle`: the shutdown signal, the drain budget shared by the loops, the abort; composed with `Outbox`.
2. `Retention`: the advisory lease of the retention and provider-health workers, its expiry and renewal.
3. `TenantQuota`: the 60-second cache against a change of the limit, composed with the quota of `CandidateReview`.
4. `Profiles`: the seeding of the default profile and the switch of the primary one against concurrent updates.
5. `Scoring`: percentile, rank fusion and tie-breaking as functions, checked against reference definitions.

## 8. Not modelled, and why

* *Idempotency keys of other requests* (enqueue): a repeated call finds the row and does nothing, as in `EventLog`.
* *Inline extraction*, in the request itself: no queue, lease or retry.
* *Prompts, parsing, scoring, text and vector search*: sequential computations on text and floating-point numbers.
* *Access control and routes*: stateless tests and translation; the requests of the models are those that passed.
* *Graph, commercial and administrative stores*: single-row operations, but for the seeding and the switch of
  implementation profiles, which two hazards of `PROJECT.json` describe.
* *Reference profiles*: an in-memory stand-in for tests behind the same ports.
* *Bootstrap*: reads the configuration once. *SDKs and the desktop application*: generated code and user interface.
