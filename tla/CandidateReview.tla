---------------------------- MODULE CandidateReview ----------------------------
(***************************************************************************)
(* The review of memory candidates in one space: a candidate is approved,  *)
(* which promotes it to a canonical record, or rejected, while records of  *)
(* the space are created, deleted and forgotten under a record quota       *)
(* (candidate_promotion.rs, app_backend_api.rs, store.rs,                  *)
(* canonical_data.rs, privacy.rs).                                         *)
(*                                                                         *)
(* An API request reads the candidate before its transaction and again     *)
(* after it, and other requests run in between.  A transaction that admits *)
(* a record counts the records first and inserts its own later; it holds   *)
(* the row lock of the space from before the count, and a promotion that   *)
(* of its candidate too.  Every request runs once and a client's retry is  *)
(* another request.  A request that may create a record draws a fresh      *)
(* memory id, so the request itself names the record it creates; NoMemory  *)
(* is NULL.                                                                *)
(***************************************************************************)
EXTENDS Integers, FiniteSets

CONSTANTS
    Candidates,     \* the proposals that extractions may store
    Requests,       \* the API requests, and the memory ids they draw
    NoCandidate,    \* no candidate: the record was created directly
    NoMemory,       \* NULL in target_memory_id
    MaxRecords      \* max_records_per_space; 0 is unlimited

ASSUME ReviewAssumption ==
    /\ IsFiniteSet(Requests)
    /\ NoMemory \notin Requests
    /\ NoCandidate \notin Candidates
    /\ MaxRecords \in Nat

VARIABLES
    candidate,  \* [Candidates -> [decision_state, target_memory_id]]
    record,     \* [Requests -> status of the record with that memory id]
    origin,     \* history: [Requests -> the candidate the record was created for]
    request     \* [Requests -> [stage, candidate_id, memory]]: what each call does

vars == <<candidate, record, origin, request>>

Decision     == {"absent", "pending", "approved", "rejected", "withdrawn"}
RecordStatus == {"none", "active", "deleted", "gone"}
Stage        == {"new", "promote", "promoting", "refresh", "reject", "creating",
                 "approved", "rejected", "created", "error"}

Stored(c) == candidate[c].decision_state \notin {"absent", "withdrawn"}

\* LEFT JOIN ai_record ... AND record.status <> 'deleted'.
LiveTarget(c) ==
    LET m == candidate[c].target_memory_id
    IN  IF m # NoMemory /\ record[m] = "active" THEN m ELSE NoMemory

\* count_active_records_on_tx.
ActiveRecords == Cardinality({m \in Requests : record[m] = "active"})

QuotaExceeded == MaxRecords > 0 /\ ActiveRecords >= MaxRecords

\* lock_space_on_tx would not wait: no transaction that admitted a record is
\* still open.
SpaceFree == \A r \in Requests : request[r].stage \notin {"promoting", "creating"}

\* A statement on the candidate's row would not wait.
CandidateFree(c) ==
    \A r \in Requests : request[r].stage = "promoting" => request[r].candidate_id # c

\* The row with another decision.
Decided(row, state) ==
    [decision_state |-> state, target_memory_id |-> row.target_memory_id]

\* The request goes on to, or ends in, stage s with memory m.
AnswerWith(r, s, m) ==
    request' = [request EXCEPT ![r] =
                  [stage |-> s, candidate_id |-> request[r].candidate_id, memory |-> m]]

Answer(r, s) == AnswerWith(r, s, request[r].memory)

-------------------------------------------------------------------------------
(* Where candidates come from, and where they go without a review.         *)

\* create_candidate.
Propose(c) ==
    /\ candidate[c].decision_state = "absent"
    /\ candidate' = [candidate EXCEPT ![c] = Decided(candidate[c], "pending")]
    /\ UNCHANGED <<record, origin, request>>

\* delete_pending_candidates_for_learning_job, of a requeued extraction.
Withdraw(c) ==
    /\ candidate[c].decision_state = "pending"
    /\ CandidateFree(c)
    /\ candidate' = [candidate EXCEPT ![c] = Decided(candidate[c], "withdrawn")]
    /\ UNCHANGED <<record, origin, request>>

\* One UPDATE of reject_pending_candidates_batched over the ids read before:
\* it checks 'pending' again, so any of the pending rows may be in it.
ForgetCandidates(S) ==
    /\ S # {}
    /\ \A c \in S : candidate[c].decision_state = "pending" /\ CandidateFree(c)
    /\ candidate' = [c \in Candidates |->
          IF c \in S THEN Decided(candidate[c], "rejected") ELSE candidate[c]]
    /\ UNCHANGED <<record, origin, request>>

-------------------------------------------------------------------------------
(* Approval: approve_candidate_with_promotion.                             *)

\* Defect: a repeated approval is answered with the request's own memory id.
ApproveReadOwnId(r, c) ==
    /\ request[r].stage = "new"
    /\ request' = [request EXCEPT ![r] =
          [stage |-> IF ~Stored(c) THEN "error"
                     ELSE IF candidate[c].decision_state = "approved" THEN "approved"
                     ELSE "promote",
           candidate_id |-> c, memory |-> r]]
    /\ UNCHANGED <<candidate, record, origin>>

\* The first read.  An approved candidate is answered at once.
ApproveRead(r, c) ==
    /\ request[r].stage = "new"
    /\ request' = [request EXCEPT ![r] =
          IF ~Stored(c)
          THEN [stage |-> "error", candidate_id |-> c, memory |-> NoMemory]
          ELSE IF candidate[c].decision_state = "approved"
          THEN [stage |-> IF LiveTarget(c) = NoMemory THEN "error" ELSE "approved",
                candidate_id |-> c, memory |-> LiveTarget(c)]
          ELSE [stage |-> "promote", candidate_id |-> c,
                memory |-> IF LiveTarget(c) = NoMemory THEN r ELSE LiveTarget(c)]]
    /\ UNCHANGED <<candidate, record, origin>>

\* lock_space_on_tx, of a request that may create a record, then
\* lock_candidate_target_on_tx.
Locks(r) ==
    /\ request[r].memory = r => SpaceFree
    /\ CandidateFree(request[r].candidate_id)

\* Defect: only the target is looked at, not the decision.
PromoteAnyDecision(r) ==
    LET c == request[r].candidate_id
    IN  /\ request[r].stage = "promote"
        /\ Locks(r)
        /\ Answer(r, IF Stored(c) /\ candidate[c].target_memory_id = NoMemory /\ ~QuotaExceeded
                     THEN "promoting" ELSE "error")
        /\ UNCHANGED <<candidate, record, origin>>

\* Defect: the transaction trusts the first read.
PromoteFromFirstRead(r) ==
    LET c == request[r].candidate_id
    IN  /\ request[r].stage = "promote"
        /\ Locks(r)
        /\ Answer(r, IF Stored(c) /\ candidate[c].decision_state # "rejected" /\ ~QuotaExceeded
                     THEN "promoting" ELSE "error")
        /\ UNCHANGED <<candidate, record, origin>>

\* promote_and_approve_candidate_with_quota_inner up to the admission: an
\* earlier promotion is answered with its record, a pending candidate without a
\* target is admitted by the count, and everything else is refused.
Promote(r) ==
    LET c == request[r].candidate_id
        promoted == candidate[c].decision_state = "approved" /\ LiveTarget(c) # NoMemory
        admitted == /\ candidate[c].decision_state = "pending"
                    /\ candidate[c].target_memory_id = NoMemory
                    /\ request[r].memory = r
                    /\ ~QuotaExceeded
    IN  /\ request[r].stage = "promote"
        /\ Locks(r)
        /\ \/ promoted /\ AnswerWith(r, "refresh", LiveTarget(c))
           \/ admitted /\ Answer(r, "promoting")
           \/ ~promoted /\ ~admitted /\ Answer(r, "error")
        /\ UNCHANGED <<candidate, record, origin>>

\* Its inserts and its commit: the record of the request's memory id, the
\* target, the decision and the journal.
PromoteCommit(r) ==
    LET c == request[r].candidate_id
        m == request[r].memory
    IN  /\ request[r].stage = "promoting"
        /\ record' = [record EXCEPT ![m] = "active"]
        /\ origin' = [origin EXCEPT ![m] = c]
        /\ candidate' = [candidate EXCEPT ![c] =
              [decision_state |-> "approved", target_memory_id |-> m]]
        /\ Answer(r, "refresh")

\* The second read: the candidate must still name the promoted memory.
ApproveRefresh(r) ==
    LET c == request[r].candidate_id
    IN  /\ request[r].stage = "refresh"
        /\ Answer(r, IF Stored(c) /\ LiveTarget(c) = request[r].memory THEN "approved" ELSE "error")
        /\ UNCHANGED <<candidate, record, origin>>

-------------------------------------------------------------------------------
(* Rejection: reject_candidate.                                            *)

RejectRead(r, c) ==
    /\ request[r].stage = "new"
    /\ request' = [request EXCEPT ![r] =
          [stage |-> IF Stored(c) THEN "reject" ELSE "error", candidate_id |-> c, memory |-> NoMemory]]
    /\ UNCHANGED <<candidate, record, origin>>

\* decide_candidate: an UPDATE by primary key, whatever the decision is by now.
\* The read that follows only builds the answer.
Reject(r) ==
    LET c == request[r].candidate_id
    IN  /\ request[r].stage = "reject"
        /\ CandidateFree(c)
        /\ IF Stored(c)
           THEN /\ candidate' = [candidate EXCEPT ![c] = Decided(candidate[c], "rejected")]
                /\ Answer(r, "rejected")
           ELSE /\ Answer(r, "error")
                /\ UNCHANGED candidate
        /\ UNCHANGED <<record, origin>>

-------------------------------------------------------------------------------
(* The records of the space.                                               *)

\* Defect: count_active_records_on_tx without the lock of the space.
CreateMemoryUnlocked(r) ==
    /\ request[r].stage = "new"
    /\ Answer(r, IF QuotaExceeded THEN "error" ELSE "creating")
    /\ UNCHANGED <<candidate, record, origin>>

\* create_canonical_memory_atomic_with_quota up to the admission.
CreateMemory(r) ==
    /\ request[r].stage = "new"
    /\ SpaceFree
    /\ Answer(r, IF QuotaExceeded THEN "error" ELSE "creating")
    /\ UNCHANGED <<candidate, record, origin>>

\* Its inserts and its commit.
CreateCommit(r) ==
    /\ request[r].stage = "creating"
    /\ record' = [record EXCEPT ![r] = "active"]
    /\ Answer(r, "created")
    /\ UNCHANGED <<candidate, origin>>

\* delete_canonical_memory_atomic, which locks the record only: references to it
\* stay, and an admission may have counted it.
DeleteMemory(m) ==
    /\ record[m] = "active"
    /\ record' = [record EXCEPT ![m] = "deleted"]
    /\ UNCHANGED <<candidate, origin, request>>

\* Defect: the references to the row are left behind.
HardDeleteKeepsTarget(m) ==
    /\ record[m] \in {"active", "deleted"}
    /\ SpaceFree
    /\ record' = [record EXCEPT ![m] = "gone"]
    /\ UNCHANGED <<candidate, origin, request>>

\* hard_delete_record_with_cleanup, of a privacy request: the row and every
\* reference to it.
HardDelete(m) ==
    /\ record[m] \in {"active", "deleted"}
    /\ SpaceFree
    /\ record' = [record EXCEPT ![m] = "gone"]
    /\ candidate' = [c \in Candidates |->
          IF candidate[c].target_memory_id = m
          THEN [decision_state |-> IF candidate[c].decision_state = "pending" THEN "rejected"
                                   ELSE candidate[c].decision_state,
                target_memory_id |-> NoMemory]
          ELSE candidate[c]]
    /\ UNCHANGED <<origin, request>>

\* The process dies or the connection is lost: an open transaction is rolled
\* back and its locks are gone.
Abandon(r) ==
    /\ request[r].stage \in {"promote", "promoting", "refresh", "reject", "creating"}
    /\ Answer(r, "error")
    /\ UNCHANGED <<candidate, record, origin>>

-------------------------------------------------------------------------------
Init ==
    /\ candidate = [c \in Candidates |-> [decision_state |-> "absent", target_memory_id |-> NoMemory]]
    /\ record = [m \in Requests |-> "none"]
    /\ origin = [m \in Requests |-> NoCandidate]
    /\ request = [r \in Requests |->
          [stage |-> "new", candidate_id |-> NoCandidate, memory |-> NoMemory]]

Next ==
    \/ \E c \in Candidates : Propose(c) \/ Withdraw(c)
    \/ \E S \in SUBSET Candidates : ForgetCandidates(S)
    \/ \E r \in Requests, c \in Candidates : ApproveRead(r, c) \/ RejectRead(r, c)
    \/ \E r \in Requests :
          \/ Promote(r) \/ PromoteCommit(r) \/ ApproveRefresh(r)
          \/ Reject(r)
          \/ CreateMemory(r) \/ CreateCommit(r)
          \/ Abandon(r)
    \/ \E m \in Requests : DeleteMemory(m) \/ HardDelete(m)

Spec == Init /\ [][Next]_vars

-------------------------------------------------------------------------------
(* Properties.                                                             *)

\* Types, and the references: a target is a stored row of ai_record, created
\* for that candidate (the foreign key a hard delete must clear first).
TypeOK ==
    /\ candidate \in [Candidates -> [decision_state : Decision,
                                     target_memory_id : Requests \union {NoMemory}]]
    /\ \A c \in Candidates :
          LET m == candidate[c].target_memory_id
          IN  m # NoMemory => record[m] \in {"active", "deleted"} /\ origin[m] = c
    /\ record \in [Requests -> RecordStatus]
    /\ origin \in [Requests -> Candidates \union {NoCandidate}]
    /\ request \in [Requests -> [stage : Stage,
                                 candidate_id : Candidates \union {NoCandidate},
                                 memory : Requests \union {NoMemory}]]

\* "The space lock serializes quota admission": an approval or a creation that
\* has counted is not overtaken by another one before its insert, so the space
\* never holds more live records than its quota.
QuotaHeld == MaxRecords > 0 => ActiveRecords <= MaxRecords

\* "retries for one candidate observe the target created by an earlier
\* request": a candidate becomes a record at most once, also after that record
\* was deleted, forgotten or its approval overwritten by a rejection.
OneRecordPerCandidate ==
    \A m, n \in Requests : origin[m] # NoCandidate /\ origin[m] = origin[n] => m = n

\* An approval that was answered names the record the candidate was promoted
\* to, so any two answered approvals of a candidate agree, and a request whose
\* own id lost to a concurrent promotion never reports that id.
ApprovalAnswersRecord ==
    \A r \in Requests :
        request[r].stage = "approved" => origin[request[r].memory] = request[r].candidate_id

\* A rejection is final: no approval, however old its first read, promotes a
\* candidate that a reviewer or a privacy request has rejected.
RejectionIsFinal ==
    [][\A c \in Candidates :
          candidate[c].decision_state = "rejected" => candidate'[c].decision_state = "rejected"]_vars

\* The assertion in promote_and_approve_candidate_with_quota_inner
\* (store.rs:2919): only an approved candidate has a target reference.
TargetMeansApproved ==
    \A c \in Candidates :
        candidate[c].target_memory_id # NoMemory => candidate[c].decision_state = "approved"

-------------------------------------------------------------------------------
(* Every candidate is an instance of CandidatePromotion.                   *)

\* A record made from the candidate has status s.
RecordIs(c, s) == \E m \in Requests : origin[m] = c /\ record[m] = s

MemoryOf(c) ==
    IF RecordIs(c, "active") THEN "active"
    ELSE IF RecordIs(c, "deleted") THEN "deleted"
    ELSE IF RecordIs(c, "gone") THEN "gone"
    ELSE "none"

Promotion(c) == INSTANCE CandidatePromotion
                    WITH decision <- candidate[c].decision_state,
                         memory <- MemoryOf(c)

\* The review implements the promise of CandidatePromotion for every candidate:
\* an approval and its record come together, once, however many requests race.
PromotesAtomically ==
    /\ \A c \in Candidates : Promotion(c)!Init
    /\ [][\A c \in Candidates : [Promotion(c)!Next]_(Promotion(c)!vars)]_vars

===============================================================================
