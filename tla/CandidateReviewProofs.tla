------------------------- MODULE CandidateReviewProofs -------------------------
(***************************************************************************)
(* Proofs about CandidateReview, for any number of candidates and requests *)
(* and any quota.  The argument of the review: a candidate with a record   *)
(* is never pending again, a request that may still create a record has    *)
(* not used its memory id, and a request that carries another record's id  *)
(* works on a candidate that is rejected for good.                         *)
(***************************************************************************)
EXTENDS CandidateReview, FiniteSetTheorems, TLAPS

\* A candidate that was promoted, or that refers to a record, is decided.
PromotedIsDecided ==
    /\ \A m \in Requests : origin[m] # NoCandidate =>
          candidate[origin[m]].decision_state \in {"approved", "rejected"}
    /\ \A c \in Candidates : candidate[c].target_memory_id # NoMemory =>
          candidate[c].decision_state \in {"approved", "rejected"}

\* The memory id of a request is unused until its own transaction.
FreshId ==
    \A r \in Requests :
        /\ record[r] = "none" => origin[r] = NoCandidate
        /\ request[r].stage \in {"new", "promote", "promoting", "creating"} => record[r] = "none"

\* What the memory of a request may be at each stage.
MemoryOfRequest ==
    \A r \in Requests :
        /\ request[r].stage \in {"promote", "promoting", "refresh", "reject", "approved"} =>
              request[r].candidate_id \in Candidates
        /\ request[r].stage = "promote" =>
              \/ request[r].memory = r
              \/ candidate[request[r].candidate_id].decision_state = "rejected"
        /\ request[r].stage \in {"refresh", "approved"} =>
              /\ request[r].memory \in Requests
              /\ origin[request[r].memory] = request[r].candidate_id

\* The row locks: one admitted transaction is open at a time, and the candidate
\* of a promotion is what it was when it was admitted.
Admitted(r) == request[r].stage \in {"promoting", "creating"}

LocksHold ==
    /\ \A q, r \in Requests : Admitted(q) /\ Admitted(r) => q = r
    /\ \A r \in Requests : request[r].stage = "promoting" =>
          /\ request[r].memory = r
          /\ candidate[request[r].candidate_id].decision_state = "pending"

IInv ==
    /\ TypeOK
    /\ PromotedIsDecided
    /\ FreshId
    /\ MemoryOfRequest
    /\ LocksHold
    /\ OneRecordPerCandidate

-------------------------------------------------------------------------------
(* The invariant.                                                          *)

\* The join finds a record that was created for the candidate.
LEMMA LiveTargetIsOwn ==
  ASSUME TypeOK, NEW c \in Candidates, LiveTarget(c) # NoMemory
  PROVE  LiveTarget(c) \in Requests /\ origin[LiveTarget(c)] = c
  <1>. DEFINE m == candidate[c].target_memory_id
  <1>1. LiveTarget(c) = m /\ m # NoMemory
    BY DEF LiveTarget
  <1>2. m \in Requests \union {NoMemory}
    BY DEF TypeOK
  <1>3. m # NoMemory => origin[m] = c
    BY DEF TypeOK
  <1>. QED  BY <1>1, <1>2, <1>3

\* Nothing has happened yet.
LEMMA Starts == Init => IInv
  BY ReviewAssumption
  DEF Init, IInv, TypeOK, PromotedIsDecided, FreshId, MemoryOfRequest, LocksHold, Admitted,
      OneRecordPerCandidate,
      Decision, RecordStatus, Stage

\* A new candidate has no record and no request.
LEMMA KeepsPropose ==
  ASSUME IInv, NEW c \in Candidates, Propose(c)
  PROVE  IInv'
  <1>1. TypeOK'
    BY ReviewAssumption DEF IInv, TypeOK, Propose, Decided, Decision
  <1>2. PromotedIsDecided'
    BY ReviewAssumption DEF IInv, TypeOK, PromotedIsDecided, Propose, Decided
  <1>3. FreshId'
    BY DEF IInv, TypeOK, FreshId, Propose
  <1>4. MemoryOfRequest'
    BY DEF IInv, TypeOK, MemoryOfRequest, Propose, Decided
  <1>5. OneRecordPerCandidate'
    BY DEF IInv, TypeOK, OneRecordPerCandidate, Propose
  <1>6. LocksHold'
    BY DEF IInv, TypeOK, MemoryOfRequest, LocksHold, Admitted, Propose, Decided
  <1>. QED  BY <1>1, <1>2, <1>3, <1>4, <1>5, <1>6 DEF IInv

\* A pending candidate has no record.
LEMMA KeepsWithdraw ==
  ASSUME IInv, NEW c \in Candidates, Withdraw(c)
  PROVE  IInv'
  <1>1. TypeOK'
    BY ReviewAssumption DEF IInv, TypeOK, Withdraw, Decided, Decision
  <1>2. PromotedIsDecided'
    BY ReviewAssumption DEF IInv, TypeOK, PromotedIsDecided, Withdraw, Decided
  <1>3. FreshId'
    BY DEF IInv, TypeOK, FreshId, Withdraw
  <1>4. MemoryOfRequest'
    BY DEF IInv, TypeOK, MemoryOfRequest, Withdraw, Decided
  <1>5. OneRecordPerCandidate'
    BY DEF IInv, TypeOK, OneRecordPerCandidate, Withdraw
  <1>6. LocksHold'
    BY DEF IInv, TypeOK, MemoryOfRequest, LocksHold, Admitted, Withdraw, CandidateFree, Decided
  <1>. QED  BY <1>1, <1>2, <1>3, <1>4, <1>5, <1>6 DEF IInv

\* Pending candidates are rejected, so no reference changes.
LEMMA KeepsForgetCandidates ==
  ASSUME IInv, NEW S \in SUBSET Candidates, ForgetCandidates(S)
  PROVE  IInv'
  <1>1. TypeOK'
    BY ReviewAssumption DEF IInv, TypeOK, ForgetCandidates, Decided, Decision
  <1>2. PromotedIsDecided'
    BY ReviewAssumption DEF IInv, TypeOK, PromotedIsDecided, ForgetCandidates, Decided
  <1>3. FreshId'
    BY DEF IInv, TypeOK, FreshId, ForgetCandidates
  <1>4. MemoryOfRequest'
    BY DEF IInv, TypeOK, MemoryOfRequest, ForgetCandidates, Decided
  <1>5. OneRecordPerCandidate'
    BY DEF IInv, TypeOK, OneRecordPerCandidate, ForgetCandidates
  <1>6. LocksHold'
    BY DEF IInv, TypeOK, MemoryOfRequest, LocksHold, Admitted, ForgetCandidates, CandidateFree, Decided
  <1>. QED  BY <1>1, <1>2, <1>3, <1>4, <1>5, <1>6 DEF IInv

\* The first read copies a live target, whose origin is the candidate.
LEMMA KeepsApproveRead ==
  ASSUME IInv, NEW r \in Requests, NEW c \in Candidates, ApproveRead(r, c)
  PROVE  IInv'
  <1>1. TypeOK'
    BY ReviewAssumption DEF IInv, TypeOK, ApproveRead, LiveTarget, Stage
  <1>2. PromotedIsDecided'
    BY ReviewAssumption DEF IInv, TypeOK, PromotedIsDecided, ApproveRead
  <1>3. FreshId'
    BY DEF IInv, TypeOK, FreshId, ApproveRead
  <1>4. MemoryOfRequest'
    <2>1. LiveTarget(c) # NoMemory => LiveTarget(c) \in Requests /\ origin[LiveTarget(c)] = c
      BY LiveTargetIsOwn DEF IInv
    <2>2. /\ UNCHANGED <<candidate, record, origin>>
          /\ \A q \in Requests \ {r} : request'[q] = request[q]
          /\ request'[r].candidate_id = c
          /\ request'[r].stage \in {"error", "approved", "promote"}
          /\ request'[r].stage = "approved" => request'[r].memory = LiveTarget(c) /\ LiveTarget(c) # NoMemory
          /\ request'[r].stage = "promote" =>
                \/ request'[r].memory = r
                \/ request'[r].memory = LiveTarget(c) /\ LiveTarget(c) # NoMemory
      BY DEF IInv, TypeOK, ApproveRead
    <2>3. request'[r].stage = "promote" /\ LiveTarget(c) # NoMemory => candidate[c].decision_state = "rejected"
      <3>1. LiveTarget(c) # NoMemory => candidate[c].target_memory_id # NoMemory
        BY DEF LiveTarget
      <3>2. request'[r].stage = "promote" => candidate[c].decision_state # "approved"
        BY DEF IInv, TypeOK, ApproveRead
      <3>. QED  BY <3>1, <3>2 DEF IInv, PromotedIsDecided
    <2>. QED  BY <2>1, <2>2, <2>3 DEF IInv, MemoryOfRequest
  <1>5. OneRecordPerCandidate'
    BY DEF IInv, TypeOK, OneRecordPerCandidate, ApproveRead
  <1>6. LocksHold'
    BY DEF IInv, TypeOK, MemoryOfRequest, LocksHold, Admitted, ApproveRead
  <1>. QED  BY <1>1, <1>2, <1>3, <1>4, <1>5, <1>6 DEF IInv

\* Reading changes the request only.
LEMMA KeepsRejectRead ==
  ASSUME IInv, NEW r \in Requests, NEW c \in Candidates, RejectRead(r, c)
  PROVE  IInv'
  <1>1. TypeOK'
    BY ReviewAssumption DEF IInv, TypeOK, RejectRead, Stage
  <1>2. PromotedIsDecided'
    BY ReviewAssumption DEF IInv, TypeOK, PromotedIsDecided, RejectRead
  <1>3. FreshId'
    BY DEF IInv, TypeOK, FreshId, RejectRead
  <1>4. MemoryOfRequest'
    BY DEF IInv, TypeOK, MemoryOfRequest, RejectRead
  <1>5. OneRecordPerCandidate'
    BY DEF IInv, TypeOK, OneRecordPerCandidate, RejectRead
  <1>6. LocksHold'
    BY DEF IInv, TypeOK, MemoryOfRequest, LocksHold, Admitted, RejectRead
  <1>. QED  BY <1>1, <1>2, <1>3, <1>4, <1>5, <1>6 DEF IInv

\* The admission of a promotion: an existing target, the locks, or an error.
LEMMA KeepsPromote ==
  ASSUME IInv, NEW r \in Requests, Promote(r)
  PROVE  IInv'
  <1>. DEFINE c == request[r].candidate_id
  <1>1. /\ request[r].stage = "promote" /\ c \in Candidates
        /\ UNCHANGED <<candidate, record, origin>>
    BY DEF IInv, MemoryOfRequest, Promote
  <1>2. LiveTarget(c) # NoMemory => LiveTarget(c) \in Requests /\ origin[LiveTarget(c)] = c
    BY <1>1, LiveTargetIsOwn DEF IInv
  <1>3. \/ LiveTarget(c) # NoMemory /\ AnswerWith(r, "refresh", LiveTarget(c))
        \/ AnswerWith(r, "error", request[r].memory)
        \/ /\ AnswerWith(r, "promoting", request[r].memory)
           /\ request[r].memory = r
           /\ candidate[c].decision_state = "pending"
           /\ SpaceFree
    BY DEF Promote, Locks, Answer
  <1>4. TypeOK'
    <2>1. PICK s \in {"refresh", "error", "promoting"}, n \in Requests \union {NoMemory} :
            AnswerWith(r, s, n)
      BY <1>2, <1>3 DEF IInv, TypeOK
    <2>2. request' \in [Requests -> [stage : Stage,
                                     candidate_id : Candidates \union {NoCandidate},
                                     memory : Requests \union {NoMemory}]]
      BY <1>1, <2>1 DEF IInv, TypeOK, AnswerWith, Stage
    <2>. QED  BY <1>1, <2>2 DEF IInv, TypeOK
  <1>5. PromotedIsDecided' /\ OneRecordPerCandidate'
    BY <1>1 DEF IInv, PromotedIsDecided, OneRecordPerCandidate
  <1>6. FreshId' /\ MemoryOfRequest'
    BY <1>1, <1>2, <1>3, SMTT(60) DEF IInv, TypeOK, FreshId, MemoryOfRequest, AnswerWith
  <1>7. LocksHold'
    <2>1. /\ \A q \in Requests \ {r} : request'[q] = request[q]
          /\ request'[r].stage \in {"refresh", "error"} \/ SpaceFree
          /\ request'[r].stage # "creating"
          /\ request'[r].stage = "promoting" =>
                /\ request'[r].memory = r
                /\ candidate[request'[r].candidate_id].decision_state = "pending"
      BY <1>3 DEF IInv, TypeOK, AnswerWith
    <2>2. \A p, q \in Requests : Admitted(p)' /\ Admitted(q)' => p = q
      BY <2>1 DEF IInv, LocksHold, Admitted, SpaceFree
    <2>3. ASSUME NEW q \in Requests, request'[q].stage = "promoting"
          PROVE  /\ request'[q].memory = q
                 /\ candidate'[request'[q].candidate_id].decision_state = "pending"
      BY <1>1, <2>1, <2>3 DEF IInv, LocksHold
    <2>. QED  BY <2>2, <2>3 DEF LocksHold
  <1>. QED  BY <1>4, <1>5, <1>6, <1>7 DEF IInv

\* The commit of a promotion: a new record under an unused id, for a candidate
\* that the lock has kept pending.
LEMMA KeepsPromoteCommit ==
  ASSUME IInv, NEW r \in Requests, PromoteCommit(r)
  PROVE  IInv'
  <1>. DEFINE c == request[r].candidate_id
  <1>1. /\ request[r].stage = "promoting" /\ c \in Candidates
        /\ request[r].memory = r /\ record[r] = "none" /\ origin[r] = NoCandidate
        /\ candidate[c].decision_state = "pending"
    BY DEF IInv, MemoryOfRequest, FreshId, LocksHold, PromoteCommit
  <1>2. /\ record' = [record EXCEPT ![r] = "active"]
        /\ origin' = [origin EXCEPT ![r] = c]
        /\ candidate' = [candidate EXCEPT ![c] =
              [decision_state |-> "approved", target_memory_id |-> r]]
        /\ request' = [request EXCEPT ![r] =
              [stage |-> "refresh", candidate_id |-> c, memory |-> r]]
    BY <1>1 DEF PromoteCommit, Answer, AnswerWith
  <1>3. \A d \in Candidates : candidate[d].target_memory_id # r
    BY <1>1, ReviewAssumption DEF IInv, TypeOK
  <1>4. \A n \in Requests : origin[n] # c
    BY <1>1, ReviewAssumption DEF IInv, TypeOK, PromotedIsDecided
  <1>5. TypeOK'
    BY <1>1, <1>2, <1>3 DEF IInv, TypeOK, Decision, RecordStatus, Stage
  <1>6. PromotedIsDecided'
    BY <1>1, <1>2, ReviewAssumption DEF IInv, TypeOK, PromotedIsDecided
  <1>7. FreshId'
    BY <1>2 DEF IInv, TypeOK, FreshId
  <1>8. MemoryOfRequest'
    BY <1>1, <1>2, ReviewAssumption DEF IInv, TypeOK, MemoryOfRequest
  <1>9. LocksHold'
    BY <1>1, <1>2 DEF IInv, TypeOK, LocksHold, Admitted
  <1>10. OneRecordPerCandidate'
    BY <1>2, <1>4 DEF IInv, TypeOK, OneRecordPerCandidate
  <1>. QED  BY <1>5, <1>6, <1>7, <1>8, <1>9, <1>10 DEF IInv

\* The answer keeps the memory it was given.
LEMMA KeepsApproveRefresh ==
  ASSUME IInv, NEW r \in Requests, ApproveRefresh(r)
  PROVE  IInv'
  <1>1. TypeOK'
    BY ReviewAssumption DEF IInv, TypeOK, ApproveRefresh, Answer, AnswerWith, Stage
  <1>2. PromotedIsDecided'
    BY ReviewAssumption DEF IInv, TypeOK, PromotedIsDecided, ApproveRefresh
  <1>3. FreshId'
    BY DEF IInv, TypeOK, FreshId, ApproveRefresh, Answer, AnswerWith
  <1>4. MemoryOfRequest'
    BY DEF IInv, TypeOK, MemoryOfRequest, ApproveRefresh, Answer, AnswerWith
  <1>5. OneRecordPerCandidate'
    BY DEF IInv, TypeOK, OneRecordPerCandidate, ApproveRefresh
  <1>6. LocksHold'
    BY DEF IInv, TypeOK, MemoryOfRequest, LocksHold, Admitted, ApproveRefresh, Answer, AnswerWith
  <1>. QED  BY <1>1, <1>2, <1>3, <1>4, <1>5, <1>6 DEF IInv

\* A decision is overwritten, the target stays.
LEMMA KeepsReject ==
  ASSUME IInv, NEW r \in Requests, Reject(r)
  PROVE  IInv'
  <1>. DEFINE c == request[r].candidate_id
  <1>1. c \in Candidates
    BY DEF IInv, MemoryOfRequest, Reject
  <1>2. PICK s \in {"rejected", "error"} : AnswerWith(r, s, request[r].memory)
    BY DEF Reject, Answer
  <1>3. \/ candidate' = candidate
        \/ candidate' = [candidate EXCEPT ![c] = Decided(candidate[c], "rejected")]
    BY DEF Reject
  <1>4. UNCHANGED <<record, origin>>
    BY DEF Reject
  <1>5. \A d \in Candidates :
           /\ candidate'[d].target_memory_id = candidate[d].target_memory_id
           /\ candidate'[d].decision_state \in {candidate[d].decision_state, "rejected"}
    BY <1>1, <1>3 DEF IInv, TypeOK, Decided
  <1>6. TypeOK'
    <2>1. candidate' \in [Candidates -> [decision_state : Decision,
                                         target_memory_id : Requests \union {NoMemory}]]
      BY <1>1, <1>3 DEF IInv, TypeOK, Decided, Decision
    <2>2. request' \in [Requests -> [stage : Stage,
                                     candidate_id : Candidates \union {NoCandidate},
                                     memory : Requests \union {NoMemory}]]
      BY <1>2 DEF IInv, TypeOK, AnswerWith, Stage
    <2>. QED  BY <1>4, <1>5, <2>1, <2>2 DEF IInv, TypeOK
  <1>7. PromotedIsDecided'
    BY <1>4, <1>5 DEF IInv, TypeOK, PromotedIsDecided
  <1>8. FreshId' /\ OneRecordPerCandidate'
    BY <1>2, <1>4 DEF IInv, TypeOK, FreshId, OneRecordPerCandidate, AnswerWith
  <1>9. MemoryOfRequest'
    BY <1>2, <1>4, <1>5 DEF IInv, TypeOK, MemoryOfRequest, AnswerWith
  <1>10. LocksHold'
    <2>1. \A q \in Requests : request[q].stage = "promoting" => request[q].candidate_id # c
      BY DEF Reject, CandidateFree
    <2>2. \A q \in Requests : request[q].stage = "promoting" =>
             candidate'[request[q].candidate_id] = candidate[request[q].candidate_id]
      BY <1>3, <2>1 DEF IInv, TypeOK, MemoryOfRequest
    <2>3. \A q \in Requests : Admitted(q)' => q # r /\ request'[q] = request[q]
      BY <1>2 DEF IInv, TypeOK, Admitted, AnswerWith
    <2>. QED  BY <2>2, <2>3 DEF IInv, LocksHold, Admitted
  <1>. QED  BY <1>6, <1>7, <1>8, <1>9, <1>10 DEF IInv

\* The admission changes the request only.
LEMMA KeepsCreateMemory ==
  ASSUME IInv, NEW r \in Requests, CreateMemory(r)
  PROVE  IInv'
  <1>1. TypeOK'
    BY ReviewAssumption DEF IInv, TypeOK, CreateMemory, Answer, AnswerWith, Stage
  <1>2. PromotedIsDecided'
    BY ReviewAssumption DEF IInv, TypeOK, PromotedIsDecided, CreateMemory
  <1>3. FreshId'
    BY DEF IInv, TypeOK, FreshId, CreateMemory, Answer, AnswerWith
  <1>4. MemoryOfRequest'
    BY DEF IInv, TypeOK, MemoryOfRequest, CreateMemory, Answer, AnswerWith
  <1>5. OneRecordPerCandidate'
    BY DEF IInv, TypeOK, OneRecordPerCandidate, CreateMemory
  <1>6. LocksHold'
    BY DEF IInv, TypeOK, MemoryOfRequest, LocksHold, Admitted, CreateMemory, SpaceFree, Answer, AnswerWith
  <1>. QED  BY <1>1, <1>2, <1>3, <1>4, <1>5, <1>6 DEF IInv

\* The record of an unused id has no candidate.
LEMMA KeepsCreateCommit ==
  ASSUME IInv, NEW r \in Requests, CreateCommit(r)
  PROVE  IInv'
  <1>1. TypeOK'
    BY ReviewAssumption DEF IInv, TypeOK, CreateCommit, Answer, AnswerWith, RecordStatus, Stage
  <1>2. PromotedIsDecided'
    BY ReviewAssumption DEF IInv, TypeOK, PromotedIsDecided, CreateCommit
  <1>3. FreshId'
    BY DEF IInv, TypeOK, FreshId, CreateCommit, Answer, AnswerWith
  <1>4. MemoryOfRequest'
    BY DEF IInv, TypeOK, MemoryOfRequest, CreateCommit, Answer, AnswerWith
  <1>5. OneRecordPerCandidate'
    BY DEF IInv, TypeOK, OneRecordPerCandidate, CreateCommit
  <1>6. LocksHold'
    BY DEF IInv, TypeOK, MemoryOfRequest, LocksHold, Admitted, CreateCommit, Answer, AnswerWith
  <1>. QED  BY <1>1, <1>2, <1>3, <1>4, <1>5, <1>6 DEF IInv

\* A request that is lost changes nothing.
LEMMA KeepsAbandon ==
  ASSUME IInv, NEW r \in Requests, Abandon(r)
  PROVE  IInv'
  <1>1. TypeOK'
    BY ReviewAssumption DEF IInv, TypeOK, Abandon, Answer, AnswerWith, Stage
  <1>2. PromotedIsDecided'
    BY ReviewAssumption DEF IInv, TypeOK, PromotedIsDecided, Abandon
  <1>3. FreshId'
    BY DEF IInv, TypeOK, FreshId, Abandon, Answer, AnswerWith
  <1>4. MemoryOfRequest'
    BY DEF IInv, TypeOK, MemoryOfRequest, Abandon, Answer, AnswerWith
  <1>5. OneRecordPerCandidate'
    BY DEF IInv, TypeOK, OneRecordPerCandidate, Abandon
  <1>6. LocksHold'
    BY DEF IInv, TypeOK, MemoryOfRequest, LocksHold, Admitted, Abandon, Answer, AnswerWith
  <1>. QED  BY <1>1, <1>2, <1>3, <1>4, <1>5, <1>6 DEF IInv

\* A deleted record is still stored.
LEMMA KeepsDeleteMemory ==
  ASSUME IInv, NEW m \in Requests, DeleteMemory(m)
  PROVE  IInv'
  <1>1. TypeOK'
    BY ReviewAssumption DEF IInv, TypeOK, DeleteMemory, RecordStatus
  <1>2. PromotedIsDecided'
    BY ReviewAssumption DEF IInv, TypeOK, PromotedIsDecided, DeleteMemory
  <1>3. FreshId'
    BY DEF IInv, TypeOK, FreshId, DeleteMemory
  <1>4. MemoryOfRequest'
    BY DEF IInv, TypeOK, MemoryOfRequest, DeleteMemory
  <1>5. OneRecordPerCandidate'
    BY DEF IInv, TypeOK, OneRecordPerCandidate, DeleteMemory
  <1>6. LocksHold'
    BY DEF IInv, TypeOK, MemoryOfRequest, LocksHold, Admitted, DeleteMemory
  <1>. QED  BY <1>1, <1>2, <1>3, <1>4, <1>5, <1>6 DEF IInv

\* The references to the record go with it.
LEMMA KeepsHardDelete ==
  ASSUME IInv, NEW m \in Requests, HardDelete(m)
  PROVE  IInv'
  <1>1. TypeOK'
    BY ReviewAssumption DEF IInv, TypeOK, HardDelete, RecordStatus, Decision
  <1>2. PromotedIsDecided'
    BY ReviewAssumption DEF IInv, TypeOK, PromotedIsDecided, HardDelete
  <1>3. FreshId'
    BY DEF IInv, TypeOK, FreshId, HardDelete
  <1>4. MemoryOfRequest'
    BY DEF IInv, TypeOK, MemoryOfRequest, HardDelete
  <1>5. OneRecordPerCandidate'
    BY DEF IInv, TypeOK, OneRecordPerCandidate, HardDelete
  <1>6. LocksHold'
    BY DEF IInv, TypeOK, MemoryOfRequest, LocksHold, Admitted, HardDelete, SpaceFree
  <1>. QED  BY <1>1, <1>2, <1>3, <1>4, <1>5, <1>6 DEF IInv

-------------------------------------------------------------------------------
(* The theorems.                                                           *)

\* The invariant holds in every reachable state: every request, every deletion
\* and every extraction keeps it.
THEOREM Invariance == Spec => []IInv
  <1>1. ASSUME IInv, [Next]_vars
        PROVE  IInv'
    <2>1. CASE \E c \in Candidates : Propose(c) \/ Withdraw(c)
      BY <1>1, <2>1, KeepsPropose, KeepsWithdraw
    <2>2. CASE \E S \in SUBSET Candidates : ForgetCandidates(S)
      BY <1>1, <2>2, KeepsForgetCandidates
    <2>3. CASE \E r \in Requests, c \in Candidates : ApproveRead(r, c) \/ RejectRead(r, c)
      BY <1>1, <2>3, KeepsApproveRead, KeepsRejectRead
    <2>4. CASE \E r \in Requests : Promote(r) \/ PromoteCommit(r) \/ ApproveRefresh(r)
      BY <1>1, <2>4, KeepsPromote, KeepsPromoteCommit, KeepsApproveRefresh
    <2>5. CASE \E r \in Requests : Reject(r) \/ CreateMemory(r) \/ CreateCommit(r) \/ Abandon(r)
      BY <1>1, <2>5, KeepsReject, KeepsCreateMemory, KeepsCreateCommit, KeepsAbandon
    <2>6. CASE \E m \in Requests : DeleteMemory(m) \/ HardDelete(m)
      BY <1>1, <2>6, KeepsDeleteMemory, KeepsHardDelete
    <2>7. CASE UNCHANGED vars
      BY <1>1, <2>7
      DEF vars, IInv, TypeOK, PromotedIsDecided, FreshId, MemoryOfRequest, LocksHold, Admitted,
          OneRecordPerCandidate
    <2>. QED  BY <1>1, <2>1, <2>2, <2>3, <2>4, <2>6, <2>7, <2>5 DEF Next
  <1>. QED  BY Starts, <1>1, PTL DEF Spec

\* Every reference from a candidate is to a stored record of that candidate.
THEOREM TypeCorrect == Spec => []TypeOK
  <1>1. IInv => TypeOK
    BY DEF IInv
  <1>. QED  BY Invariance, <1>1, PTL

\* No two approvals, retries or deletions turn one candidate into two records.
THEOREM PromotedOnce == Spec => []OneRecordPerCandidate
  <1>1. IInv => OneRecordPerCandidate
    BY DEF IInv
  <1>. QED  BY Invariance, <1>1, PTL

\* An answered approval names the record of its candidate.
THEOREM AnswersAgree == Spec => []ApprovalAnswersRecord
  <1>1. IInv => ApprovalAnswersRecord
    BY DEF IInv, MemoryOfRequest, ApprovalAnswersRecord
  <1>. QED  BY Invariance, <1>1, PTL

\* A rejection is final: the promotion transaction checks the decision under
\* the candidate's lock and keeps the lock until its commit, however old the
\* first read of the request is.
THEOREM RejectedForGood == Spec => RejectionIsFinal
  <1>1. ASSUME TypeOK, LocksHold, [Next]_vars,
               NEW c \in Candidates, candidate[c].decision_state = "rejected"
        PROVE  candidate'[c].decision_state = "rejected"
    <2>. USE <1>1 DEF TypeOK
    <2>1. CASE UNCHANGED candidate
      BY <2>1
    <2>2. ASSUME NEW d \in Candidates, Propose(d) \/ Withdraw(d)
          PROVE  candidate'[c].decision_state = "rejected"
      BY <2>2 DEF Propose, Withdraw, Decided
    <2>3. ASSUME NEW S \in SUBSET Candidates, ForgetCandidates(S)
          PROVE  candidate'[c].decision_state = "rejected"
      BY <2>3 DEF ForgetCandidates, Decided
    <2>4. ASSUME NEW r \in Requests, PromoteCommit(r)
          PROVE  candidate'[c].decision_state = "rejected"
      BY <2>4 DEF PromoteCommit, LocksHold
    <2>5. ASSUME NEW r \in Requests, Reject(r)
          PROVE  candidate'[c].decision_state = "rejected"
      BY <2>5 DEF Reject, Decided
    <2>6. ASSUME NEW m \in Requests, HardDelete(m)
          PROVE  candidate'[c].decision_state = "rejected"
      BY <2>6 DEF HardDelete
    <2>. QED
      BY <2>1, <2>2, <2>3, <2>4, <2>5, <2>6
      DEF Next, vars, ApproveRead, RejectRead, Promote, ApproveRefresh, CreateMemory, CreateCommit,
          Abandon, DeleteMemory
  <1>2. IInv /\ [Next]_vars => \A c \in Candidates :
           candidate[c].decision_state = "rejected" => candidate'[c].decision_state = "rejected"
    BY <1>1 DEF IInv
  <1>. QED  BY Invariance, <1>2, PTL DEF Spec, RejectionIsFinal

-------------------------------------------------------------------------------
(* The quota.                                                              *)

Active == {m \in Requests : record[m] = "active"}

\* A statement that makes at most one more record live, and only below the
\* quota, keeps the quota.
LEMMA QuotaStep ==
  ASSUME QuotaHeld, NEW m \in Requests,
         \/ Active' \subseteq Active
         \/ ~QuotaExceeded /\ Active' \subseteq Active \union {m}
  PROVE  QuotaHeld'
  <1>1. IsFiniteSet(Active) /\ IsFiniteSet(Active')
    BY ReviewAssumption, FS_Subset DEF Active
  <1>2. Cardinality(Active) \in Nat /\ Cardinality(Active') \in Nat
    BY <1>1, FS_CardinalityType
  <1>3. /\ IsFiniteSet(Active \union {m})
        /\ Cardinality(Active \union {m}) <= Cardinality(Active) + 1
    <2>1. /\ IsFiniteSet(Active \union {m})
          /\ \/ Cardinality(Active \union {m}) = Cardinality(Active)
             \/ Cardinality(Active \union {m}) = Cardinality(Active) + 1
      BY <1>1, FS_AddElement, Zenon
    <2>. QED  BY <1>2, <2>1
  <1>4. CASE Active' \subseteq Active
    <2>1. Cardinality(Active') <= Cardinality(Active)
      BY <1>1, <1>4, FS_Subset
    <2>. QED  BY <1>2, <2>1, ReviewAssumption DEF QuotaHeld, ActiveRecords, Active
  <1>5. CASE ~QuotaExceeded /\ Active' \subseteq Active \union {m}
    <2>1. Cardinality(Active') <= Cardinality(Active \union {m})
      BY <1>3, <1>5, FS_Subset
    <2>2. Cardinality(Active \union {m}) \in Nat
      BY <1>3, FS_CardinalityType
    <2>. QED
      BY <1>2, <1>3, <1>5, <2>1, <2>2, ReviewAssumption
      DEF QuotaHeld, QuotaExceeded, ActiveRecords, Active
  <1>. QED  BY <1>4, <1>5

\* Whoever has been admitted still finds room: nothing else inserts while the
\* space is locked, and deletions only make room.
RoomForAdmitted == \A r \in Requests : Admitted(r) => ~QuotaExceeded

\* Room is kept by every statement after which no more records are live.
LEMMA RoomStep ==
  ASSUME ~QuotaExceeded, Active' \subseteq Active
  PROVE  ~QuotaExceeded'
  <1>1. IsFiniteSet(Active)
    BY ReviewAssumption, FS_Subset DEF Active
  <1>2. /\ Cardinality(Active') <= Cardinality(Active)
        /\ Cardinality(Active) \in Nat /\ Cardinality(Active') \in Nat
    BY <1>1, FS_Subset, FS_CardinalityType
  <1>. QED  BY <1>2, ReviewAssumption DEF QuotaExceeded, ActiveRecords, Active

\* Whatever approvals and creations race, each between its count and its
\* insert, the quota of the space holds: the lock lets one of them in at a time.
THEOREM QuotaNeverExceeded == Spec => []QuotaHeld
  <1>1. ASSUME Init
        PROVE  QuotaHeld /\ RoomForAdmitted
    <2>1. Active = {}
      BY <1>1 DEF Init, Active
    <2>2. QuotaHeld
      BY <2>1, FS_EmptySet, ReviewAssumption DEF QuotaHeld, ActiveRecords, Active
    <2>. QED  BY <1>1, <2>2 DEF Init, RoomForAdmitted, Admitted
  <1>2. ASSUME IInv, QuotaHeld, RoomForAdmitted, [Next]_vars
        PROVE  QuotaHeld' /\ RoomForAdmitted'
    <2>. USE <1>2 DEF IInv, TypeOK
    <2>1. ASSUME UNCHANGED record,
                 \A r \in Requests : Admitted(r)' => Admitted(r) \/ ~QuotaExceeded
          PROVE  QuotaHeld' /\ RoomForAdmitted'
      BY <2>1 DEF QuotaHeld, RoomForAdmitted, QuotaExceeded, ActiveRecords
    <2>2. ASSUME NEW r \in Requests, Promote(r)
          PROVE  QuotaHeld' /\ RoomForAdmitted'
      BY <2>1, <2>2 DEF Promote, Answer, AnswerWith, Admitted
    <2>3. ASSUME NEW r \in Requests, CreateMemory(r)
          PROVE  QuotaHeld' /\ RoomForAdmitted'
      BY <2>1, <2>3 DEF CreateMemory, Answer, AnswerWith, Admitted
    <2>4. ASSUME NEW r \in Requests, PromoteCommit(r) \/ CreateCommit(r)
          PROVE  QuotaHeld' /\ RoomForAdmitted'
      <3>1. Admitted(r) /\ ~QuotaExceeded
        BY <2>4 DEF PromoteCommit, CreateCommit, Admitted, RoomForAdmitted
      <3>2. record' = [record EXCEPT ![r] = "active"]
        BY <2>4 DEF PromoteCommit, CreateCommit, LocksHold
      <3>3. Active' \subseteq Active \union {r}
        BY <3>2 DEF Active
      <3>4. \A q \in Requests : ~Admitted(q)'
        BY <2>4, <3>1 DEF LocksHold, Admitted, PromoteCommit, CreateCommit, Answer, AnswerWith
      <3>. QED  BY <3>1, <3>3, <3>4, QuotaStep DEF RoomForAdmitted
    <2>5. ASSUME NEW m \in Requests, DeleteMemory(m) \/ HardDelete(m)
          PROVE  QuotaHeld' /\ RoomForAdmitted'
      <3>1. Active' \subseteq Active /\ UNCHANGED request
        BY <2>5 DEF DeleteMemory, HardDelete, Active
      <3>2. RoomForAdmitted'
        BY <3>1, RoomStep DEF RoomForAdmitted, Admitted
      <3>. QED  BY <2>5, <3>1, <3>2, QuotaStep
    <2>6. CASE UNCHANGED vars
      BY <2>1, <2>6 DEF vars, Admitted
    <2>7. ASSUME NEW r \in Requests, NEW c \in Candidates, ApproveRead(r, c) \/ RejectRead(r, c)
          PROVE  QuotaHeld' /\ RoomForAdmitted'
      BY <2>1, <2>7 DEF ApproveRead, RejectRead, Admitted
    <2>8. ASSUME NEW r \in Requests, ApproveRefresh(r) \/ Reject(r) \/ Abandon(r)
          PROVE  QuotaHeld' /\ RoomForAdmitted'
      BY <2>1, <2>8 DEF ApproveRefresh, Reject, Abandon, Answer, AnswerWith, Admitted
    <2>9. ASSUME \/ \E c \in Candidates : Propose(c) \/ Withdraw(c)
                 \/ \E S \in SUBSET Candidates : ForgetCandidates(S)
          PROVE  QuotaHeld' /\ RoomForAdmitted'
      BY <2>1, <2>9 DEF Propose, Withdraw, ForgetCandidates, Admitted
    <2>. QED  BY <2>2, <2>3, <2>4, <2>5, <2>6, <2>7, <2>8, <2>9 DEF Next
  <1>. QED  BY Invariance, <1>1, <1>2, PTL DEF Spec

-------------------------------------------------------------------------------
(* The review implements CandidatePromotion for every candidate.           *)

\* The record of a candidate is found by its origin.
LEMMA MemoryIs ==
  ASSUME IInv, NEW c \in Candidates, NEW m \in Requests, origin[m] = c
  PROVE  MemoryOf(c) = record[m]
  <1>1. record[m] \in {"active", "deleted", "gone"}
    BY ReviewAssumption DEF IInv, TypeOK, FreshId, RecordStatus
  <1>2. \A n \in Requests : origin[n] = c => n = m
    BY ReviewAssumption DEF IInv, OneRecordPerCandidate
  <1>3. \A s \in RecordStatus : RecordIs(c, s) <=> record[m] = s
    BY <1>2 DEF RecordIs
  <1>. QED  BY <1>1, <1>3 DEF MemoryOf, RecordStatus

LEMMA NoMemoryYet ==
  ASSUME NEW c \in Candidates, \A m \in Requests : origin[m] # c
  PROVE  MemoryOf(c) = "none"
  BY DEF MemoryOf, RecordIs

\* Statements about other records leave the record of a candidate alone.
LEMMA MemoryKept ==
  ASSUME NEW c \in Candidates,
         \A m \in Requests : origin'[m] = c <=> origin[m] = c,
         \A m \in Requests : origin[m] = c => record'[m] = record[m]
  PROVE  MemoryOf(c)' = MemoryOf(c)
  <1>1. ASSUME NEW s
        PROVE  RecordIs(c, s)' <=> RecordIs(c, s)
    BY DEF RecordIs
  <1>. QED  BY <1>1 DEF MemoryOf

\* The promotion transaction: the candidate has had no record, and gets one.
LEMMA CommitApproves ==
  ASSUME IInv, IInv', NEW r \in Requests, NEW c \in Candidates, PromoteCommit(r)
  PROVE  [Promotion(c)!Next]_(Promotion(c)!vars)
  <1>. DEFINE d == request[r].candidate_id
  <1>1. /\ d \in Candidates /\ candidate[d].decision_state = "pending"
        /\ request[r].memory = r /\ record[r] = "none" /\ origin[r] = NoCandidate
    BY DEF IInv, MemoryOfRequest, FreshId, LocksHold, PromoteCommit
  <1>2. /\ origin' = [origin EXCEPT ![r] = d]
        /\ record' = [record EXCEPT ![r] = "active"]
        /\ candidate' = [candidate EXCEPT ![d] =
                           [decision_state |-> "approved", target_memory_id |-> r]]
    BY <1>1 DEF PromoteCommit
  <1>3. CASE c = d
    <2>1. \A m \in Requests : origin[m] # c
      BY <1>1, <1>3, ReviewAssumption DEF IInv, PromotedIsDecided
    <2>2. MemoryOf(c) = "none"
      BY <2>1, NoMemoryYet
    <2>3. origin'[r] = c /\ record'[r] = "active"
      BY <1>2, <1>3 DEF IInv, TypeOK
    <2>4. MemoryOf(c)' = "active"
      <3>1. RecordIs(c, "active")'
        BY <2>3 DEF RecordIs
      <3>. QED  BY <3>1 DEF MemoryOf
    <2>5. candidate[c].decision_state = "pending" /\ candidate'[c].decision_state = "approved"
      BY <1>1, <1>2, <1>3 DEF IInv, TypeOK
    <2>. QED  BY <2>2, <2>4, <2>5 DEF Promotion!Next, Promotion!Approve
  <1>4. CASE c # d
    <2>1. \A m \in Requests : origin'[m] = c <=> origin[m] = c
      BY <1>1, <1>2, <1>4, ReviewAssumption DEF IInv, TypeOK
    <2>2. \A m \in Requests : origin[m] = c => record'[m] = record[m]
      BY <1>1, <1>2, ReviewAssumption DEF IInv, TypeOK
    <2>3. candidate'[c] = candidate[c]
      BY <1>2, <1>4 DEF IInv, TypeOK
    <2>. QED  BY <2>1, <2>2, <2>3, MemoryKept DEF Promotion!vars
  <1>. QED  BY <1>3, <1>4

\* A decision about candidates that touches no record.
LEMMA DecisionStep ==
  ASSUME NEW c \in Candidates, UNCHANGED <<record, origin>>,
         LET old == candidate[c].decision_state
             new == candidate'[c].decision_state
         IN  \/ new = old
             \/ old = "absent" /\ new = "pending"
             \/ old = "pending" /\ new = "withdrawn"
             \/ old \in {"pending", "approved"} /\ new = "rejected"
  PROVE  [Promotion(c)!Next]_(Promotion(c)!vars)
  <1>1. MemoryOf(c)' = MemoryOf(c)
    BY MemoryKept
  <1>. QED
    BY <1>1
    DEF Promotion!Next, Promotion!vars, Promotion!Propose, Promotion!Withdraw, Promotion!Reject

\* A deletion ends one record; the decision stays.
LEMMA DeletionStep ==
  ASSUME IInv, IInv', NEW c \in Candidates, NEW m \in Requests,
         DeleteMemory(m) \/ HardDelete(m)
  PROVE  [Promotion(c)!Next]_(Promotion(c)!vars)
  <1>1. candidate'[c].decision_state = candidate[c].decision_state
    BY ReviewAssumption DEF DeleteMemory, HardDelete, IInv, TypeOK, PromotedIsDecided
  <1>2. /\ UNCHANGED origin
        /\ \A n \in Requests \ {m} : record'[n] = record[n]
        /\ \/ record[m] = "active" /\ record'[m] = "deleted"
           \/ record[m] \in {"active", "deleted"} /\ record'[m] = "gone"
    BY DEF DeleteMemory, HardDelete, IInv, TypeOK
  <1>3. CASE origin[m] = c
    <2>1. MemoryOf(c) = record[m]
      BY <1>3, MemoryIs
    <2>2. MemoryOf(c)' = record'[m]
      <3>1. \A n \in Requests : origin'[n] = c => n = m
        BY <1>2, <1>3, ReviewAssumption DEF IInv, OneRecordPerCandidate
      <3>2. \A s \in RecordStatus : RecordIs(c, s)' <=> record'[m] = s
        BY <1>2, <1>3, <3>1 DEF RecordIs
      <3>. QED  BY <1>2, <3>2 DEF MemoryOf, RecordStatus
    <2>. QED
      BY <1>1, <1>2, <2>1, <2>2 DEF Promotion!Next, Promotion!Delete, Promotion!Erase
  <1>4. CASE origin[m] # c
    <2>1. MemoryOf(c)' = MemoryOf(c)
      BY <1>2, <1>4, MemoryKept
    <2>. QED  BY <1>1, <2>1 DEF Promotion!vars
  <1>. QED  BY <1>3, <1>4

\* Every step of the review is a step of the promotion of each candidate, or
\* none.
LEMMA PromotionStep ==
  ASSUME IInv, IInv', [Next]_vars, NEW c \in Candidates
  PROVE  [Promotion(c)!Next]_(Promotion(c)!vars)
  <1>1. ASSUME UNCHANGED <<candidate, record, origin>>
        PROVE  [Promotion(c)!Next]_(Promotion(c)!vars)
    BY <1>1, DecisionStep
  <1>2. ASSUME NEW d \in Candidates, Propose(d) \/ Withdraw(d)
        PROVE  [Promotion(c)!Next]_(Promotion(c)!vars)
    BY <1>2, DecisionStep DEF Propose, Withdraw, Decided, IInv, TypeOK
  <1>3. ASSUME NEW S \in SUBSET Candidates, ForgetCandidates(S)
        PROVE  [Promotion(c)!Next]_(Promotion(c)!vars)
    BY <1>3, DecisionStep DEF ForgetCandidates, Decided, IInv, TypeOK
  <1>4. ASSUME NEW r \in Requests, PromoteCommit(r)
        PROVE  [Promotion(c)!Next]_(Promotion(c)!vars)
    BY <1>4, CommitApproves
  <1>5. ASSUME NEW r \in Requests, Reject(r)
        PROVE  [Promotion(c)!Next]_(Promotion(c)!vars)
    <2>1. UNCHANGED <<record, origin>>
      BY <1>5 DEF Reject
    <2>2. /\ candidate'[c].decision_state \in {candidate[c].decision_state, "rejected"}
          /\ candidate'[c] # candidate[c] => Stored(c)
      BY <1>5 DEF Reject, Decided, IInv, TypeOK
    <2>3. candidate[c].decision_state \in Decision
      BY DEF IInv, TypeOK
    <2>. QED  BY <2>1, <2>2, <2>3, DecisionStep DEF Stored, Decision
  <1>6. ASSUME NEW r \in Requests, CreateCommit(r)
        PROVE  [Promotion(c)!Next]_(Promotion(c)!vars)
    <2>1. UNCHANGED <<candidate, origin>> /\ origin[r] # c
      BY <1>6, ReviewAssumption DEF CreateCommit, IInv, FreshId
    <2>2. \A m \in Requests \ {r} : record'[m] = record[m]
      BY <1>6 DEF CreateCommit, IInv, TypeOK
    <2>3. MemoryOf(c)' = MemoryOf(c)
      BY <2>1, <2>2, MemoryKept
    <2>. QED  BY <2>1, <2>3 DEF Promotion!vars
  <1>7. ASSUME NEW m \in Requests, DeleteMemory(m) \/ HardDelete(m)
        PROVE  [Promotion(c)!Next]_(Promotion(c)!vars)
    BY <1>7, DeletionStep
  <1>8. ASSUME \/ \E r \in Requests, d \in Candidates : ApproveRead(r, d) \/ RejectRead(r, d)
               \/ \E r \in Requests : Promote(r) \/ ApproveRefresh(r) \/ CreateMemory(r) \/ Abandon(r)
               \/ UNCHANGED vars
        PROVE  UNCHANGED <<candidate, record, origin>>
    BY <1>8 DEF ApproveRead, RejectRead, Promote, ApproveRefresh, CreateMemory, Abandon, vars
  <1>. QED  BY <1>1, <1>2, <1>3, <1>4, <1>5, <1>6, <1>7, <1>8 DEF Next

\* The review keeps, for every candidate, the promise of CandidatePromotion: an
\* approval and its record come into being together, the record is never made
\* again, and a rejection is final.
THEOREM ImplementsPromotion == Spec => PromotesAtomically
  <1>1. Init => \A c \in Candidates : Promotion(c)!Init
    <2>. SUFFICES ASSUME Init, NEW c \in Candidates PROVE Promotion(c)!Init
      OBVIOUS
    <2>1. \A m \in Requests : origin[m] # c
      BY ReviewAssumption DEF Init
    <2>2. candidate[c].decision_state = "absent" /\ MemoryOf(c) = "none"
      BY <2>1, NoMemoryYet DEF Init
    <2>. QED  BY <2>2 DEF Promotion!Init
  <1>2. IInv /\ IInv' /\ [Next]_vars
        => [\A c \in Candidates : [Promotion(c)!Next]_(Promotion(c)!vars)]_vars
    BY PromotionStep
  <1>. QED  BY <1>1, <1>2, Invariance, PTL DEF Spec, PromotesAtomically

-------------------------------------------------------------------------------
(* Why TargetMeansApproved fails.                                          *)

\* A step that makes TargetMeansApproved false is a rejection.
OnlyRejectBreaks ==
    [][TargetMeansApproved => TargetMeansApproved' \/ \E r \in Requests : Reject(r)]_vars

\* The assertion of the promotion transaction (store.rs:2919) is broken by
\* decide_candidate alone, which rejects by primary key what was approved after
\* its read: no approval, withdrawal, deletion or privacy request leaves a
\* target on a candidate that is not approved.
THEOREM AssertionBrokenByReject == Spec => OnlyRejectBreaks
  <1>1. ASSUME IInv, IInv', [Next]_vars, TargetMeansApproved,
               \A r \in Requests : ~Reject(r)
        PROVE  TargetMeansApproved'
    <2>. SUFFICES ASSUME NEW c \in Candidates, candidate'[c].target_memory_id # NoMemory
                  PROVE  candidate'[c].decision_state = "approved"
      BY DEF TargetMeansApproved
    <2>1. CASE candidate'[c] = candidate[c]
      BY <1>1, <2>1 DEF TargetMeansApproved
    <2>2. ASSUME NEW d \in Candidates, Propose(d) \/ Withdraw(d)
          PROVE  candidate'[c] = candidate[c]
      BY <1>1, <2>2, ReviewAssumption DEF Propose, Withdraw, Decided, TargetMeansApproved, IInv, TypeOK
    <2>3. ASSUME NEW S \in SUBSET Candidates, ForgetCandidates(S)
          PROVE  candidate'[c] = candidate[c]
      BY <1>1, <2>3 DEF ForgetCandidates, Decided, TargetMeansApproved, IInv, TypeOK
    <2>4. ASSUME NEW r \in Requests, PromoteCommit(r)
          PROVE  candidate'[c] = candidate[c] \/ candidate'[c].decision_state = "approved"
      BY <1>1, <2>4 DEF PromoteCommit, IInv, TypeOK
    <2>5. ASSUME NEW m \in Requests, HardDelete(m)
          PROVE  candidate'[c] = candidate[c]
      BY <1>1, <2>5 DEF HardDelete, IInv, TypeOK
    <2>. QED
      BY <1>1, <2>1, <2>2, <2>3, <2>4, <2>5
      DEF Next, vars, ApproveRead, RejectRead, Promote, ApproveRefresh, CreateMemory, CreateCommit,
          Abandon, DeleteMemory
  <1>2. IInv /\ IInv' /\ [Next]_vars
        => [TargetMeansApproved => TargetMeansApproved' \/ \E r \in Requests : Reject(r)]_vars
    BY <1>1
  <1>. QED  BY <1>2, Invariance, PTL DEF Spec, OnlyRejectBreaks

===============================================================================
