-------------------------------- MODULE Outbox --------------------------------
(***************************************************************************)
(* The transactional outbox of the memory service: rows of ai_outbox_event *)
(* (native-sql store.rs), the publisher loop of each service process       *)
(* (outbox_publisher.rs), the HTTP webhook that consumes the events, and   *)
(* the retention purge of settled rows (retention.rs).                     *)
(*                                                                         *)
(* Every action is one SQL statement or transaction, or one observable     *)
(* step of a delivery.  Time is kept as the seconds that remain:           *)
(* lease is lease_expires_at - now, wait is next_attempt_at - now, both    *)
(* floored at 0, so "lease_expires_at > now" is lease > 0 and              *)
(* "next_attempt_at <= now" is wait = 0.  lease_owner is not kept: every   *)
(* claim draws a fresh lease_token in one process, so the token alone      *)
(* identifies the owner.                                                   *)
(***************************************************************************)
EXTENDS Integers, FiniteSets

CONSTANTS
    Events,         \* the rows that mutations may append
    Workers,        \* publisher processes sharing the database
    MaxRetries,     \* SDKWORK_MEMORY_OUTBOX_MAX_RETRIES
    LeaseDuration,  \* lease_duration_seconds
    Concurrency,    \* rows per claim, SDKWORK_MEMORY_OUTBOX_DELIVERY_CONCURRENCY
    SweepBatch,     \* SWEEP_BATCH of the stale sweep
    Dialect,        \* "sqlite" or "postgres"
    MaxFaults       \* bound: process crashes plus database errors

ASSUME OutboxAssumption ==
    /\ MaxRetries \in Nat
    /\ LeaseDuration \in Nat \ {0}
    /\ Concurrency \in Nat \ {0}
    /\ SweepBatch \in Nat \ {0}
    /\ Dialect \in {"sqlite", "postgres"}
    /\ MaxFaults \in Nat

VARIABLES
    outbox,     \* [Events -> Row]: the table
    issued,     \* lease tokens drawn so far (next_numeric_id never repeats)
    loop,       \* [Workers -> LoopState]: where each publisher loop stands
    stale,      \* [Workers -> rows whose lease_expires_at <= the sweep's timestamp]
    picked,     \* [Workers -> ids the two SELECTs of the sweep returned]
    token,      \* [Workers -> the lease_token of the batch the process claimed]
    task,       \* [Workers -> [Events -> Stage]]: the delivery tasks of the batch
    received,   \* events the webhook consumer has received at least once
    faults,     \* faults so far
    lastClaim,  \* history: [Events -> token of the latest claim]
    claims,     \* history: [Events -> number of claims]
    settledBy   \* history: [Events -> token whose acknowledgement published it]

store   == <<outbox, issued, lastClaim, claims, settledBy>>
process == <<loop, stale, picked, token, task>>
vars    == <<store, process, received, faults>>

PublishState == {"absent", "pending", "processing", "published", "failed", "purged"}
LoopState    == {"sleep", "sweep", "dead", "requeue", "claim", "drain"}
Stage        == {"none", "sending", "arrived", "ok", "err"}

Row == [publish_state : PublishState,
        retry_count   : Nat,
        lease_token   : Nat,       \* 0 is NULL
        lease         : Nat,
        wait          : Nat]

NoRow    == [publish_state |-> "absent", retry_count |-> 0,
             lease_token |-> 0, lease |-> 0, wait |-> 0]
NoIds    == [dead |-> {}, requeue |-> {}]
NoTasks  == [e \in Events |-> "none"]
Larger(a, b)  == IF a >= b THEN a ELSE b
Smaller(a, b) == IF a <= b THEN a ELSE b

Budget == Larger(MaxRetries, 1)

-------------------------------------------------------------------------------
(* Predicates of the SQL statements.                                       *)

\* Defect: only rows without an expiry count as expired.
ExpiredNull(e) ==
    /\ outbox[e].publish_state = "processing"
    /\ outbox[e].lease_token = 0

Expired(e) ==
    /\ outbox[e].publish_state = "processing"
    /\ outbox[e].lease = 0

\* Defect: the UPDATE trusts the id list of the earlier SELECT.
StaleWhenPicked(w, e) == outbox[e].publish_state # "absent"

\* Defect: only the state is checked again, not the lease.
StaleAnyLease(w, e) == outbox[e].publish_state = "processing"

\* The sweep's WHERE clause at its own, possibly old, timestamp.
StaleAt(w, e) ==
    /\ outbox[e].publish_state = "processing"
    /\ e \in stale[w]

\* Defect: the sweep gives up one crash too late.
OutOfRetriesLate(e) == outbox[e].retry_count >= MaxRetries

OutOfRetries(e) == outbox[e].retry_count + 1 >= MaxRetries

Due(e) ==
    /\ outbox[e].publish_state = "pending"
    /\ outbox[e].wait = 0

\* Defect: the fence compares no token.
OwnsAnyLiveLease(w, e) ==
    /\ outbox[e].publish_state = "processing"
    /\ outbox[e].lease > 0

\* Defect: only the primary key selects the row.
OwnsNothing(w, e) == outbox[e].publish_state # "absent"

OwnsLiveLease(w, e) ==
    /\ outbox[e].publish_state = "processing"
    /\ outbox[e].lease_token = token[w]
    /\ outbox[e].lease > 0

\* 1 << clamp(next_retry, 1, 5)
BackoffSeconds(n) == <<2, 4, 8, 16, 32>>[Larger(1, Smaller(n, 5))]

\* An UPDATE ... id IN (SweepBatch placeholders) with one value bound per id:
\* SQLite reads the unbound ones as NULL, PostgreSQL refuses the statement.
BindAccepted(ids) == Dialect = "sqlite" \/ Cardinality(ids) = SweepBatch

\* LIMIT SweepBatch: ORDER BY id is some order on the rows.
Limited(S) == {T \in SUBSET S : Cardinality(T) = Smaller(Cardinality(S), SweepBatch)}

\* Defect: the statement forgets to clear the lease columns.
ReleasedKeepsLease(row, state, charge, wait) ==
    [row EXCEPT !.publish_state = state, !.retry_count = @ + charge, !.wait = wait]

\* A row as it leaves 'processing', charged for the try or not.
Released(row, state, charge, wait) ==
    [publish_state |-> state, retry_count |-> row.retry_count + charge,
     lease_token |-> 0, lease |-> 0, wait |-> wait]

\* A row as a claim leaves it.
Claimed(row, new_token) ==
    [publish_state |-> "processing", retry_count |-> row.retry_count,
     lease_token |-> new_token, lease |-> LeaseDuration, wait |-> 0]

\* A row one second later.
Aged(row) ==
    [publish_state |-> row.publish_state, retry_count |-> row.retry_count,
     lease_token |-> row.lease_token,
     lease |-> Larger(row.lease - 1, 0), wait |-> Larger(row.wait - 1, 0)]

SetTask(w, e, s) == task' = [task EXCEPT ![w][e] = s]

-------------------------------------------------------------------------------
(* Mutations and retention.                                                *)

\* append_outbox_on_tx: the row commits with the domain change it reports.
Append(e) ==
    /\ outbox[e].publish_state = "absent"
    /\ outbox' = [outbox EXCEPT ![e].publish_state = "pending"]
    /\ UNCHANGED <<issued, lastClaim, claims, settledBy, process, received, faults>>

\* purge_terminal_outbox_events: the retention window is any length.
Purge(e) ==
    /\ outbox[e].publish_state \in {"published", "failed"}
    /\ outbox' = [outbox EXCEPT ![e].publish_state = "purged"]
    /\ UNCHANGED <<issued, lastClaim, claims, settledBy, process, received, faults>>

-------------------------------------------------------------------------------
(* The publisher loop: sweep stale rows, claim a batch, drain it.          *)

\* The two SELECTs.  The timestamp is read once, when the loop wakes up; both
\* result lists empty ends the sweep.
SweepSelect(w) ==
    /\ loop[w] \in {"sleep", "sweep"}
    /\ LET old  == IF loop[w] = "sleep" THEN {e \in Events : Expired(e)}
                   ELSE {e \in stale[w] : outbox[e].publish_state = "processing"}
           dead == {e \in old : OutOfRetries(e)}
       IN  /\ stale' = [stale EXCEPT ![w] = old]
           /\ \E d \in Limited(dead), r \in Limited(old \ dead) :
                 picked' = [picked EXCEPT ![w] = [dead |-> d, requeue |-> r]]
           /\ loop' = [loop EXCEPT ![w] = IF old = {} THEN "claim" ELSE "dead"]
    /\ UNCHANGED <<store, token, task, received, faults>>

\* A statement that fails ends the sweep; the loop logs it and goes on to claim.
AfterSweep(w, failed, next) ==
    /\ loop' = [loop EXCEPT ![w] = IF failed THEN "claim" ELSE next]
    /\ picked' = [picked EXCEPT ![w] = IF failed \/ next = "sweep" THEN NoIds ELSE @]
    /\ stale' = [stale EXCEPT ![w] = IF failed THEN {} ELSE @]
    /\ UNCHANGED <<issued, lastClaim, claims, settledBy, token, task, received, faults>>

SweptRows(ids, w, state) ==
    [e \in Events |->
        IF e \in ids /\ StaleAt(w, e)
        THEN Released(outbox[e], state, 1, outbox[e].wait)
        ELSE outbox[e]]

\* UPDATE ... SET publish_state = 'failed' over the first id list.
SweepDead(w) ==
    LET ids == picked[w].dead
        bad == ids # {} /\ ~BindAccepted(ids)
    IN  /\ loop[w] = "dead"
        /\ outbox' = IF bad THEN outbox
                     ELSE SweptRows({e \in ids : OutOfRetries(e)}, w, "failed")
        /\ AfterSweep(w, bad, "requeue")

\* UPDATE ... SET publish_state = 'pending' over the second id list.
SweepRequeue(w) ==
    LET ids == picked[w].requeue
        bad == ids # {} /\ ~BindAccepted(ids)
    IN  /\ loop[w] = "requeue"
        /\ outbox' = IF bad THEN outbox
                     ELSE SweptRows({e \in ids : ~OutOfRetries(e)}, w, "pending")
        /\ AfterSweep(w, bad, "sweep")

\* claim_global_pending_outbox_events, atomic in both dialects.  ORDER BY
\* created_at is some order on the due rows.
Claim(w) ==
    /\ loop[w] = "claim"
    /\ \E S \in {T \in SUBSET {e \in Events : Due(e)} :
                 Cardinality(T) = Smaller(Concurrency, Cardinality({e \in Events : Due(e)}))} :
          IF S = {}
          THEN /\ loop' = [loop EXCEPT ![w] = "sleep"]
               /\ UNCHANGED <<store, stale, token, task>>
          ELSE /\ issued' = issued + 1
               /\ token' = [token EXCEPT ![w] = issued + 1]
               /\ outbox' = [e \in Events |->
                     IF e \in S THEN Claimed(outbox[e], issued + 1) ELSE outbox[e]]
               /\ stale' = [v \in Workers |-> stale[v] \ S]
               /\ task' = [task EXCEPT ![w] = [e \in Events |-> IF e \in S THEN "sending" ELSE "none"]]
               /\ loop' = [loop EXCEPT ![w] = "drain"]
               /\ lastClaim' = [e \in Events |-> IF e \in S THEN issued + 1 ELSE lastClaim[e]]
               /\ claims' = [e \in Events |-> IF e \in S THEN claims[e] + 1 ELSE claims[e]]
               /\ UNCHANGED settledBy
    /\ UNCHANGED <<picked, received, faults>>

\* JoinSet drained: the loop sleeps for its poll interval.
Drained(w) ==
    /\ loop[w] = "drain"
    /\ \A e \in Events : task[w][e] = "none"
    /\ loop' = [loop EXCEPT ![w] = "sleep"]
    /\ UNCHANGED <<store, stale, picked, token, task, received, faults>>

-------------------------------------------------------------------------------
(* One delivery task: process_claimed_event and deliver_outbox_event.      *)

\* The POST reaches the consumer.
Arrive(w, e) ==
    /\ task[w][e] = "sending"
    /\ SetTask(w, e, "arrived")
    /\ received' = received \union {e}
    /\ UNCHANGED <<store, loop, stale, picked, token, faults>>

\* Defect: a request that timed out counts as delivered.
RespondTimeoutIsSuccess(w, e) ==
    /\ task[w][e] \in {"sending", "arrived"}
    /\ \E s \in {"ok", "err"} : SetTask(w, e, s)
    /\ UNCHANGED <<store, loop, stale, picked, token, received, faults>>

\* The response: a success status, another status, a timeout or a lost
\* connection.  A request that never arrived can only fail.
Respond(w, e) ==
    /\ \/ task[w][e] = "arrived" /\ \E s \in {"ok", "err"} : SetTask(w, e, s)
       \/ task[w][e] = "sending" /\ SetTask(w, e, "err")
    /\ UNCHANGED <<store, loop, stale, picked, token, received, faults>>

\* renew_outbox_delivery_lease: a lost lease abandons the delivery.
Heartbeat(w, e) ==
    /\ task[w][e] \in {"sending", "arrived"}
    /\ IF OwnsLiveLease(w, e)
       THEN /\ outbox' = [outbox EXCEPT ![e].lease = LeaseDuration]
            /\ stale' = [v \in Workers |-> stale[v] \ {e}]
            /\ UNCHANGED task
       ELSE /\ SetTask(w, e, "none")
            /\ UNCHANGED <<outbox, stale>>
    /\ UNCHANGED <<issued, lastClaim, claims, settledBy, loop, picked, token, received, faults>>

\* ack_outbox_delivery_success, fenced by the live lease.
Ack(w, e) ==
    /\ task[w][e] = "ok"
    /\ SetTask(w, e, "none")
    /\ IF OwnsLiveLease(w, e)
       THEN /\ outbox' = [outbox EXCEPT ![e] = Released(outbox[e], "published", 0, 0)]
            /\ settledBy' = [settledBy EXCEPT ![e] = token[w]]
       ELSE UNCHANGED <<outbox, settledBy>>
    /\ UNCHANGED <<issued, lastClaim, claims, loop, stale, picked, token, received, faults>>

\* fail_outbox_delivery: charge the attempt, back off or dead-letter.
Fail(w, e) ==
    LET next_retry == outbox[e].retry_count + 1
        failed     == next_retry >= Budget
    IN  /\ task[w][e] = "err"
        /\ SetTask(w, e, "none")
        /\ outbox' = IF OwnsLiveLease(w, e)
                     THEN [outbox EXCEPT ![e] =
                             Released(outbox[e], IF failed THEN "failed" ELSE "pending", 1,
                                      IF failed THEN 0 ELSE BackoffSeconds(next_retry))]
                     ELSE outbox
        /\ UNCHANGED <<issued, lastClaim, claims, settledBy, loop, stale, picked, token, received, faults>>

-------------------------------------------------------------------------------
(* Faults and time.                                                        *)

\* The process dies, or is aborted past its drain budget, and starts again:
\* everything local is gone, the rows it holds stay 'processing'.
Crash(w) ==
    /\ faults < MaxFaults
    /\ faults' = faults + 1
    /\ loop' = [loop EXCEPT ![w] = "sleep"]
    /\ stale' = [stale EXCEPT ![w] = {}]
    /\ picked' = [picked EXCEPT ![w] = NoIds]
    /\ token' = [token EXCEPT ![w] = 0]
    /\ task' = [task EXCEPT ![w] = NoTasks]
    /\ UNCHANGED <<store, received>>

\* A statement of the sweep or of the claim hits a database error: the sweep
\* goes on to the claim, a failed claim waits for the next poll.
LoopError(w) ==
    /\ faults < MaxFaults
    /\ loop[w] \in {"sweep", "dead", "requeue", "claim"}
    /\ faults' = faults + 1
    /\ loop' = [loop EXCEPT ![w] = IF loop[w] = "claim" THEN "sleep" ELSE "claim"]
    /\ stale' = [stale EXCEPT ![w] = {}]
    /\ picked' = [picked EXCEPT ![w] = NoIds]
    /\ UNCHANGED <<store, token, task, received>>

\* A renewal, acknowledgement or failure record hits a database error, or the
\* delivery task panics: the task ends and its row is left as it is.
LoseTask(w, e) ==
    /\ faults < MaxFaults
    /\ task[w][e] # "none"
    /\ faults' = faults + 1
    /\ SetTask(w, e, "none")
    /\ UNCHANGED <<store, loop, stale, picked, token, received>>

\* A second passes.
Tick ==
    /\ \E e \in Events : outbox[e].lease > 0 \/ outbox[e].wait > 0
    /\ outbox' = [e \in Events |-> Aged(outbox[e])]
    /\ UNCHANGED <<issued, lastClaim, claims, settledBy, process, received, faults>>

-------------------------------------------------------------------------------
Init ==
    /\ outbox = [e \in Events |-> NoRow]
    /\ issued = 0
    /\ loop = [w \in Workers |-> "sleep"]
    /\ stale = [w \in Workers |-> {}]
    /\ picked = [w \in Workers |-> NoIds]
    /\ token = [w \in Workers |-> 0]
    /\ task = [w \in Workers |-> NoTasks]
    /\ received = {}
    /\ faults = 0
    /\ lastClaim = [e \in Events |-> 0]
    /\ claims = [e \in Events |-> 0]
    /\ settledBy = [e \in Events |-> 0]

Loop(w) ==
    \/ SweepSelect(w)
    \/ SweepDead(w)
    \/ SweepRequeue(w)
    \/ Claim(w)
    \/ Drained(w)

Delivery(w, e) ==
    \/ Arrive(w, e)
    \/ Respond(w, e)
    \/ Heartbeat(w, e)
    \/ Ack(w, e)
    \/ Fail(w, e)
    \/ LoseTask(w, e)

Next ==
    \/ \E e \in Events : Append(e) \/ Purge(e)
    \/ \E w \in Workers : Loop(w) \/ LoopError(w) \/ Crash(w)
    \/ \E w \in Workers, e \in Events : Delivery(w, e)
    \/ Tick

Spec == Init /\ [][Next]_vars

\* The loop polls for ever, the HTTP client's timeout ends every request, a
\* task settles as soon as its request has ended, and time passes.
Fairness ==
    /\ \A w \in Workers : WF_vars(Loop(w))
    /\ \A w \in Workers, e \in Events :
          WF_vars(Respond(w, e)) /\ WF_vars(Ack(w, e)) /\ WF_vars(Fail(w, e))
    /\ WF_vars(Tick)

FairSpec == Spec /\ Fairness

-------------------------------------------------------------------------------
(* Properties.                                                             *)

\* Types, and the shape of a row: exactly the 'processing' rows carry a lease,
\* and only 'pending' rows wait for a retry.
TypeOK ==
    /\ outbox \in [Events -> Row]
    /\ \A e \in Events :
          /\ outbox[e].lease_token # 0 <=> outbox[e].publish_state = "processing"
          /\ outbox[e].lease > 0 => outbox[e].publish_state = "processing"
          /\ outbox[e].wait > 0 => outbox[e].publish_state = "pending"
    /\ issued \in Nat
    /\ loop \in [Workers -> LoopState]
    /\ stale \in [Workers -> SUBSET Events]
    /\ picked \in [Workers -> [dead : SUBSET Events, requeue : SUBSET Events]]
    /\ token \in [Workers -> Nat]
    /\ task \in [Workers -> [Events -> Stage]]
    /\ received \in SUBSET Events
    /\ faults \in Nat
    /\ lastClaim \in [Events -> Nat]
    /\ claims \in [Events -> Nat]
    /\ settledBy \in [Events -> Nat]

\* Every claim of a row is charged exactly once, by its failure record or by
\* the sweep that found it abandoned, and never by both: retry_count counts
\* the claims that are over, whatever publishers, sweeps and late failures
\* interleave (requeue_stale_processing_outbox_events, fail_outbox_delivery).
ClaimsChargedOnce ==
    \A e \in Events :
        claims[e] = outbox[e].retry_count +
            (IF \/ outbox[e].publish_state \in {"processing", "published"}
                \/ outbox[e].publish_state = "purged" /\ settledBy[e] # 0
             THEN 1 ELSE 0)

\* "Expired workers cannot overwrite the result of a replacement worker"
\* (ADR-20260721): a published row was acknowledged by the publisher that
\* claimed it last, never by an earlier one that had lost it.
PublishedByLatestClaim ==
    \A e \in Events : outbox[e].publish_state = "published" => settledBy[e] = lastClaim[e]

\* At-least-once: an event counts as published only after the consumer got it.
PublishedWasReceived ==
    \A e \in Events : outbox[e].publish_state = "published" => e \in received

\* An event is dead-lettered after exactly the retry budget, through delivery
\* failures and crashes alike, and is never claimed more often.
DeadLetterAfterBudget ==
    \A e \in Events :
        /\ claims[e] <= Budget
        /\ outbox[e].publish_state = "failed" => claims[e] = Budget

VerdictKept(e) ==
    /\ outbox[e].publish_state = "published" => outbox'[e].publish_state \in {"published", "purged"}
    /\ outbox[e].publish_state = "failed"    => outbox'[e].publish_state \in {"failed", "purged"}

\* A settled row never returns to the queue and its verdict never changes,
\* however late a sweep, a failure record or an acknowledgement arrives.
SettledIsFinal == [][\A e \in Events : VerdictKept(e)]_vars

LeaseRespected(e) ==
    /\ outbox[e].publish_state = "processing"
    /\ outbox[e].lease > 0
    /\ outbox'[e].publish_state # "processing"
    => \E w \in Workers : token[w] = outbox[e].lease_token /\ task[w][e] \in {"ok", "err"}

\* A row whose lease is alive leaves 'processing' only by the publisher that
\* holds it, with a finished delivery in hand: no sweep, however old its
\* timestamp and id list, takes a lease that was renewed or claimed since.
LiveLeaseNotStolen == [][\A e \in Events : LeaseRespected(e)]_vars

\* Every appended event is published or dead-lettered in the end, whatever
\* crashes and errors happen, as long as they stop.
EventuallySettled ==
    \A e \in Events :
        outbox[e].publish_state = "pending" ~> outbox[e].publish_state \in {"published", "failed", "purged"}

-------------------------------------------------------------------------------
(* Every event is an instance of EventDelivery.                            *)

DeliveryStatus(e) ==
    LET state == outbox[e].publish_state
    IN  IF state = "absent" THEN "none"
        ELSE IF state = "failed" THEN "dead"
        ELSE IF state = "purged" THEN "removed"
        ELSE IF state = "published" THEN "published"
        ELSE "open"

Event(e) == INSTANCE EventDelivery
                WITH status <- DeliveryStatus(e),
                     tries <- claims[e],
                     received <- (e \in received)

\* The outbox implements the promise of EventDelivery for every event: the
\* conjunction over the events of Event(e)!Spec, in the form TLC checks.
DeliversAtLeastOnce ==
    /\ \A e \in Events : Event(e)!Init
    /\ [][\A e \in Events : [Event(e)!Next]_(Event(e)!vars)]_vars

===============================================================================
