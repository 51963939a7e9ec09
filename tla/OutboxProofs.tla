----------------------------- MODULE OutboxProofs -----------------------------
(***************************************************************************)
(* Theorems about Outbox for every number of events, publishers, retries   *)
(* and faults, in both dialects.                                           *)
(***************************************************************************)
EXTENDS Outbox, TLAPS

(* The inductive invariant.                                                *)

\* A row in 'processing' belongs to its latest claim.
HeldByLatestClaim ==
    \A e \in Events :
        outbox[e].publish_state = "processing" => outbox[e].lease_token = lastClaim[e]

\* What a delivery task knows about the consumer is true.
TasksTruthful ==
    /\ \A w \in Workers, e \in Events : task[w][e] \in {"arrived", "ok"} => e \in received
    /\ \A e \in Events : outbox[e].publish_state = "published" => e \in received

\* The verdict of a row agrees with who settled it.
SettledByAgrees ==
    \A e \in Events :
        /\ outbox[e].publish_state = "published" => settledBy[e] # 0
        /\ outbox[e].publish_state \notin {"published", "purged"} => settledBy[e] = 0

\* An unsettled row has tries left, a dead-lettered one has none.
RetriesWithinBudget ==
    \A e \in Events :
        /\ outbox[e].publish_state = "absent" => outbox[e].retry_count = 0
        /\ outbox[e].publish_state \in {"absent", "pending", "processing", "published"}
             => outbox[e].retry_count < Budget
        /\ outbox[e].publish_state = "failed" => outbox[e].retry_count = Budget
        /\ outbox[e].publish_state = "purged"
             => IF settledBy[e] = 0 THEN outbox[e].retry_count = Budget
                                    ELSE outbox[e].retry_count < Budget

\* What a sweep remembers as stale has no live lease.
StaleIsExpired ==
    \A w \in Workers, e \in Events :
        e \in stale[w] /\ outbox[e].publish_state = "processing" => outbox[e].lease = 0

IInv ==
    /\ TypeOK
    /\ HeldByLatestClaim
    /\ PublishedByLatestClaim
    /\ TasksTruthful
    /\ SettledByAgrees
    /\ ClaimsChargedOnce
    /\ RetriesWithinBudget
    /\ StaleIsExpired

-------------------------------------------------------------------------------
(* Facts about the operators.                                              *)

LEMMA BudgetType == Budget \in Nat \ {0} /\ Budget >= MaxRetries
  BY OutboxAssumption DEF Budget, Larger

LEMMA LargerType == ASSUME NEW a \in Int, NEW b \in Nat PROVE Larger(a, b) \in Nat
  BY DEF Larger

LEMMA BackoffType == ASSUME NEW n \in Nat PROVE BackoffSeconds(n) \in Nat
  BY DEF BackoffSeconds, Larger, Smaller

\* What a type-correct table says of one row.
LEMMA RowType ==
    ASSUME TypeOK, NEW e \in Events
    PROVE  /\ outbox[e] \in Row
           /\ outbox[e].publish_state \in PublishState
           /\ outbox[e].retry_count \in Nat
           /\ outbox[e].lease_token \in Nat
           /\ outbox[e].lease \in Nat
           /\ outbox[e].wait \in Nat
           /\ outbox[e].lease_token # 0 <=> outbox[e].publish_state = "processing"
           /\ outbox[e].publish_state # "processing" => outbox[e].lease = 0
           /\ outbox[e].publish_state # "pending" => outbox[e].wait = 0
  <1>1. outbox[e] \in Row
    BY DEF TypeOK
  <1>2. /\ outbox[e].publish_state \in PublishState
        /\ outbox[e].retry_count \in Nat
        /\ outbox[e].lease_token \in Nat
        /\ outbox[e].lease \in Nat
        /\ outbox[e].wait \in Nat
    BY <1>1 DEF Row
  <1>3. QED
    BY <1>1, <1>2 DEF TypeOK

\* A released row is again a row, without a lease.
LEMMA ReleasedType ==
    ASSUME NEW row \in Row, NEW s \in PublishState, NEW c \in {0, 1}, NEW n \in Nat
    PROVE  /\ Released(row, s, c, n) \in Row
           /\ Released(row, s, c, n).publish_state = s
           /\ Released(row, s, c, n).retry_count = row.retry_count + c
           /\ Released(row, s, c, n).lease_token = 0
           /\ Released(row, s, c, n).lease = 0
           /\ Released(row, s, c, n).wait = n
  BY DEF Released, Row

\* So are a claimed row and an aged one.
LEMMA ClaimedType ==
    ASSUME NEW row \in Row, NEW t \in Nat
    PROVE  /\ Claimed(row, t) \in Row
           /\ Claimed(row, t).publish_state = "processing"
           /\ Claimed(row, t).retry_count = row.retry_count
           /\ Claimed(row, t).lease_token = t
           /\ Claimed(row, t).wait = 0
  BY OutboxAssumption DEF Claimed, Row, PublishState

LEMMA AgedType ==
    ASSUME NEW row \in Row
    PROVE  /\ Aged(row) \in Row
           /\ Aged(row).publish_state = row.publish_state
           /\ Aged(row).retry_count = row.retry_count
           /\ Aged(row).lease_token = row.lease_token
           /\ Aged(row).lease <= row.lease
           /\ Aged(row).wait <= row.wait
  BY DEF Aged, Row, Larger

-------------------------------------------------------------------------------
LEMMA InitIInv == Init => IInv
  <1> SUFFICES ASSUME Init PROVE IInv
    OBVIOUS
  <1>1. NoRow \in Row
    BY DEF NoRow, Row, PublishState
  <1>2. TypeOK
    BY <1>1 DEF TypeOK, Init, NoRow, NoIds, NoTasks, LoopState, Stage
  <1>3. QED
    BY <1>2, BudgetType DEF Init, IInv, HeldByLatestClaim, PublishedByLatestClaim,
       TasksTruthful, SettledByAgrees, ClaimsChargedOnce, RetriesWithinBudget,
       StaleIsExpired, NoRow, NoTasks

-------------------------------------------------------------------------------
(* Every action preserves the inductive invariant.                         *)

\* Steps of a process that leave the table alone.
LEMMA ProcessStep ==
    ASSUME IInv, UNCHANGED store, received \subseteq received',
           TypeOK', StaleIsExpired',
           \A w \in Workers, e \in Events :
               task'[w][e] \in {"arrived", "ok"} => e \in received'
    PROVE  IInv'
  BY DEF IInv, store, HeldByLatestClaim, PublishedByLatestClaim, TasksTruthful, SettledByAgrees,
         ClaimsChargedOnce, RetriesWithinBudget

LEMMA AppendIInv == ASSUME IInv, NEW e \in Events, Append(e) PROVE IInv'
  <1> USE DEF IInv, Append, process
  <1>1. /\ outbox'[e] \in Row
        /\ outbox'[e].publish_state = "pending"
        /\ outbox'[e].retry_count = outbox[e].retry_count
        /\ outbox'[e].lease_token = 0
        /\ outbox'[e].lease = 0
        /\ outbox'[e].wait = 0
    <2>1. outbox'[e] = [outbox[e] EXCEPT !.publish_state = "pending"]
      BY DEF TypeOK
    <2>2. /\ outbox[e] \in Row
          /\ outbox[e].lease_token = 0 /\ outbox[e].lease = 0 /\ outbox[e].wait = 0
      BY RowType
    <2>3. "pending" \in PublishState
      BY DEF PublishState
    <2>4. QED
      BY <2>1, <2>2, <2>3 DEF Row
  <1>2. \A f \in Events : f # e => outbox'[f] = outbox[f]
    BY DEF TypeOK
  <1>3. TypeOK'
    BY <1>1, <1>2 DEF TypeOK
  <1>4. HeldByLatestClaim' /\ PublishedByLatestClaim' /\ TasksTruthful' /\ StaleIsExpired'
    BY <1>1, <1>2 DEF HeldByLatestClaim, PublishedByLatestClaim, TasksTruthful, StaleIsExpired
  <1>5. SettledByAgrees' /\ ClaimsChargedOnce' /\ RetriesWithinBudget'
    BY <1>1, <1>2 DEF SettledByAgrees, ClaimsChargedOnce, RetriesWithinBudget
  <1>6. QED
    BY <1>3, <1>4, <1>5

LEMMA PurgeIInv == ASSUME IInv, NEW e \in Events, Purge(e) PROVE IInv'
  <1> USE DEF IInv, Purge, process
  <1>1. /\ outbox'[e] \in Row
        /\ outbox'[e].publish_state = "purged"
        /\ outbox'[e].retry_count = outbox[e].retry_count
        /\ outbox'[e].lease_token = 0
        /\ outbox'[e].lease = 0
        /\ outbox'[e].wait = 0
    <2>1. outbox'[e] = [outbox[e] EXCEPT !.publish_state = "purged"]
      BY DEF TypeOK
    <2>2. /\ outbox[e] \in Row
          /\ outbox[e].lease_token = 0 /\ outbox[e].lease = 0 /\ outbox[e].wait = 0
      BY RowType
    <2>3. "purged" \in PublishState
      BY DEF PublishState
    <2>4. QED
      BY <2>1, <2>2, <2>3 DEF Row
  <1>2. \A f \in Events : f # e => outbox'[f] = outbox[f]
    BY DEF TypeOK
  <1>3. TypeOK'
    BY <1>1, <1>2 DEF TypeOK
  <1>4. HeldByLatestClaim' /\ PublishedByLatestClaim' /\ TasksTruthful' /\ StaleIsExpired'
    BY <1>1, <1>2 DEF HeldByLatestClaim, PublishedByLatestClaim, TasksTruthful, StaleIsExpired
  <1>5. SettledByAgrees' /\ ClaimsChargedOnce' /\ RetriesWithinBudget'
    BY <1>1, <1>2 DEF SettledByAgrees, ClaimsChargedOnce, RetriesWithinBudget
  <1>6. QED
    BY <1>3, <1>4, <1>5

LEMMA SweepSelectIInv == ASSUME IInv, NEW w \in Workers, SweepSelect(w) PROVE IInv'
  <1> DEFINE old == IF loop[w] = "sleep" THEN {e \in Events : Expired(e)}
                    ELSE {e \in stale[w] : outbox[e].publish_state = "processing"}
             dead == {e \in old : OutOfRetries(e)}
  <1>1. PICK d \in Limited(dead), r \in Limited(old \ dead) :
            picked' = [picked EXCEPT ![w] = [dead |-> d, requeue |-> r]]
    BY DEF SweepSelect
  <1>2. old \in SUBSET Events /\ d \in SUBSET Events /\ r \in SUBSET Events
    BY DEF Limited, IInv, TypeOK
  <1>3. TypeOK'
    BY <1>1, <1>2 DEF SweepSelect, store, IInv, TypeOK, LoopState
  <1>4. stale' = [stale EXCEPT ![w] = old]
    BY DEF SweepSelect
  <1>5. \A e \in old : outbox[e].publish_state = "processing" => outbox[e].lease = 0
    BY DEF Expired, IInv, StaleIsExpired, TypeOK
  <1>6. StaleIsExpired'
    BY <1>4, <1>5 DEF SweepSelect, store, IInv, TypeOK, StaleIsExpired
  <1>7. QED
    BY <1>3, <1>6, ProcessStep DEF SweepSelect, IInv, TasksTruthful

\* A sweep's UPDATE, for either list: state is what it moves the rows to.
LEMMA SweptStep ==
    ASSUME IInv, NEW w \in Workers, NEW ids, NEW state \in {"failed", "pending"},
           \A e \in ids : state = "failed" <=> OutOfRetries(e),
           outbox' = SweptRows(ids, w, state),
           UNCHANGED <<issued, lastClaim, claims, settledBy, token, task, received, faults>>,
           loop' \in [Workers -> LoopState],
           picked' \in [Workers -> [dead : SUBSET Events, requeue : SUBSET Events]],
           stale' \in [Workers -> SUBSET Events],
           \A v \in Workers : stale'[v] \subseteq stale[v]
    PROVE  IInv'
  <1> DEFINE swept == {e \in Events : e \in ids /\ StaleAt(w, e)}
  <1>1. \A e \in Events \ swept : outbox'[e] = outbox[e]
    BY DEF SweptRows
  <1>2. ASSUME NEW e \in swept
        PROVE  /\ outbox[e].publish_state = "processing"
               /\ outbox'[e] \in Row
               /\ outbox'[e].publish_state = state
               /\ outbox'[e].retry_count = outbox[e].retry_count + 1
               /\ outbox'[e].lease_token = 0
               /\ outbox'[e].lease = 0
               /\ outbox'[e].wait = 0
    <2>1. outbox[e] \in Row /\ outbox[e].publish_state = "processing" /\ outbox[e].wait = 0
      BY RowType DEF IInv, StaleAt
    <2>2. outbox'[e] = Released(outbox[e], state, 1, outbox[e].wait)
      BY DEF SweptRows
    <2>3. state \in PublishState /\ 1 \in {0, 1} /\ 0 \in Nat
      BY DEF PublishState
    <2>4. QED
      BY <2>1, <2>2, <2>3, ReleasedType, SMTT(60)
  <1>3. \A e \in swept : /\ outbox[e].retry_count < Budget
                         /\ state = "failed" => outbox[e].retry_count + 1 = Budget
                         /\ state = "pending" => outbox[e].retry_count + 1 < Budget
    BY <1>2, BudgetType, OutboxAssumption, RowType
       DEF IInv, RetriesWithinBudget, OutOfRetries, Budget, Larger
  <1>4. outbox' \in [Events -> Row]
    <2>1. \A e \in Events : outbox'[e] \in Row
      BY <1>1, <1>2, ZenonT(60) DEF IInv, TypeOK
    <2>2. QED
      BY <2>1 DEF SweptRows
  <1>5. TypeOK'
    <2>1. ASSUME NEW e \in Events
          PROVE  /\ outbox'[e].lease_token # 0 <=> outbox'[e].publish_state = "processing"
                 /\ outbox'[e].lease > 0 => outbox'[e].publish_state = "processing"
                 /\ outbox'[e].wait > 0 => outbox'[e].publish_state = "pending"
      <3>1. CASE e \in swept
        BY <3>1, <1>2
      <3>2. CASE e \notin swept
        BY <3>2, <1>1 DEF IInv, TypeOK
      <3>3. QED
        BY <3>1, <3>2
    <2>2. QED
      BY <2>1, <1>4 DEF IInv, TypeOK
  <1>6. HeldByLatestClaim' /\ PublishedByLatestClaim' /\ TasksTruthful' /\ StaleIsExpired'
    BY <1>1, <1>2 DEF IInv, HeldByLatestClaim, PublishedByLatestClaim, TasksTruthful, StaleIsExpired
  <1>7. SettledByAgrees'
    BY <1>1, <1>2 DEF IInv, SettledByAgrees
  <1>8. ClaimsChargedOnce'
    BY <1>1, <1>2, RowType DEF IInv, ClaimsChargedOnce
  <1>9. RetriesWithinBudget'
    BY <1>1, <1>2, <1>3 DEF IInv, RetriesWithinBudget
  <1>10. QED
    BY <1>5, <1>6, <1>7, <1>8, <1>9 DEF IInv

LEMMA AfterSweepType ==
    ASSUME TypeOK, NEW w \in Workers, NEW failed \in BOOLEAN, NEW next \in LoopState,
           AfterSweep(w, failed, next)
    PROVE  /\ loop' \in [Workers -> LoopState]
           /\ picked' \in [Workers -> [dead : SUBSET Events, requeue : SUBSET Events]]
           /\ stale' \in [Workers -> SUBSET Events]
           /\ \A v \in Workers : stale'[v] \subseteq stale[v]
  BY DEF AfterSweep, TypeOK, NoIds, LoopState

LEMMA SweepDeadIInv == ASSUME IInv, NEW w \in Workers, SweepDead(w) PROVE IInv'
  <1> DEFINE bad == picked[w].dead # {} /\ ~BindAccepted(picked[w].dead)
             ids == IF bad THEN {} ELSE {e \in picked[w].dead : OutOfRetries(e)}
  <1>1. outbox' = SweptRows(ids, w, "failed")
    BY DEF SweepDead, SweptRows, IInv, TypeOK
  <1>2. AfterSweep(w, bad, "requeue")
    BY DEF SweepDead
  <1>3. \A e \in ids : "failed" = "failed" <=> OutOfRetries(e)
    OBVIOUS
  <1>4. bad \in BOOLEAN
    OBVIOUS
  <1>5. UNCHANGED <<issued, lastClaim, claims, settledBy, token, task, received, faults>>
    BY <1>2 DEF AfterSweep
  <1> HIDE DEF bad, ids
  <1>6. /\ loop' \in [Workers -> LoopState]
        /\ picked' \in [Workers -> [dead : SUBSET Events, requeue : SUBSET Events]]
        /\ stale' \in [Workers -> SUBSET Events]
        /\ \A v \in Workers : stale'[v] \subseteq stale[v]
    BY <1>2, <1>4, AfterSweepType DEF IInv, LoopState
  <1>7. QED
    BY <1>1, <1>3, <1>5, <1>6, SweptStep

LEMMA SweepRequeueIInv == ASSUME IInv, NEW w \in Workers, SweepRequeue(w) PROVE IInv'
  <1> DEFINE bad == picked[w].requeue # {} /\ ~BindAccepted(picked[w].requeue)
             ids == IF bad THEN {} ELSE {e \in picked[w].requeue : ~OutOfRetries(e)}
  <1>1. outbox' = SweptRows(ids, w, "pending")
    BY DEF SweepRequeue, SweptRows, IInv, TypeOK
  <1>2. AfterSweep(w, bad, "sweep")
    BY DEF SweepRequeue
  <1>3. \A e \in ids : "pending" = "failed" <=> OutOfRetries(e)
    OBVIOUS
  <1>4. bad \in BOOLEAN
    OBVIOUS
  <1>5. UNCHANGED <<issued, lastClaim, claims, settledBy, token, task, received, faults>>
    BY <1>2 DEF AfterSweep
  <1> HIDE DEF bad, ids
  <1>6. /\ loop' \in [Workers -> LoopState]
        /\ picked' \in [Workers -> [dead : SUBSET Events, requeue : SUBSET Events]]
        /\ stale' \in [Workers -> SUBSET Events]
        /\ \A v \in Workers : stale'[v] \subseteq stale[v]
    BY <1>2, <1>4, AfterSweepType DEF IInv, LoopState
  <1>7. QED
    BY <1>1, <1>3, <1>5, <1>6, SweptStep

\* An action that gives each row in S a new, fresh claim and keeps the others.
LEMMA ClaimIInv == ASSUME IInv, NEW w \in Workers, Claim(w) PROVE IInv'
  <1>1. PICK S \in SUBSET {e \in Events : Due(e)} :
          IF S = {}
          THEN /\ loop' = [loop EXCEPT ![w] = "sleep"]
               /\ UNCHANGED <<store, stale, token, task>>
          ELSE /\ issued' = issued + 1
               /\ token' = [token EXCEPT ![w] = issued + 1]
               /\ outbox' = [e \in Events |->
                     IF e \in S THEN Claimed(outbox[e], issued + 1) ELSE outbox[e]]
               /\ stale' = [v \in Workers |-> stale[v] \ S]
               /\ task' = [task EXCEPT ![w] = [e \in Events |-> IF e \in S THEN "sending" ELSE "none"]]
               /\ loop' = [loop EXCEPT ![w] = "drain"]
               /\ lastClaim' = [e \in Events |-> IF e \in S THEN issued + 1 ELSE lastClaim[e]]
               /\ claims' = [e \in Events |-> IF e \in S THEN claims[e] + 1 ELSE claims[e]]
               /\ UNCHANGED settledBy
    BY DEF Claim
  <1>2. UNCHANGED <<picked, received, faults>>
    BY DEF Claim
  <1>3. CASE S = {}
    <2>1. TypeOK' /\ StaleIsExpired'
      BY <1>1, <1>2, <1>3 DEF IInv, TypeOK, StaleIsExpired, LoopState, store
    <2>2. QED
      BY <1>1, <1>2, <1>3, <2>1, ProcessStep DEF IInv, TasksTruthful
  <1>4. CASE S # {}
    <2> DEFINE batch == [e \in Events |-> IF e \in S THEN "sending" ELSE "none"]
    <2>1. \A e \in Events \ S : /\ outbox'[e] = outbox[e]
                                /\ lastClaim'[e] = lastClaim[e]
                                /\ claims'[e] = claims[e]
      BY <1>1, <1>4
    <2>2. ASSUME NEW e \in S
          PROVE  /\ e \in Events
                 /\ outbox[e].publish_state = "pending"
                 /\ outbox'[e] \in Row
                 /\ outbox'[e].publish_state = "processing"
                 /\ outbox'[e].retry_count = outbox[e].retry_count
                 /\ outbox'[e].lease_token = issued + 1
                 /\ outbox'[e].wait = 0
                 /\ lastClaim'[e] = issued + 1
                 /\ claims'[e] = claims[e] + 1
      <3>1. e \in Events /\ outbox[e].publish_state = "pending"
        BY DEF Due
      <3>2. outbox'[e] = Claimed(outbox[e], issued + 1)
        BY <1>1, <1>4, <3>1
      <3>3. issued + 1 \in Nat
        BY DEF IInv, TypeOK
      <3>4. lastClaim'[e] = issued + 1 /\ claims'[e] = claims[e] + 1
        BY <1>1, <1>4, <3>1
      <3>5. outbox[e] \in Row
        BY <3>1, RowType DEF IInv
      <3>6. QED
        BY <3>1, <3>2, <3>3, <3>4, <3>5, ClaimedType, SMTT(60)
    <2>3. ASSUME NEW e \in Events
          PROVE  /\ outbox'[e] \in Row
                 /\ outbox'[e].lease_token # 0 <=> outbox'[e].publish_state = "processing"
                 /\ outbox'[e].lease > 0 => outbox'[e].publish_state = "processing"
                 /\ outbox'[e].wait > 0 => outbox'[e].publish_state = "pending"
      <3>1. CASE e \in S
        BY <3>1, <2>2 DEF IInv, TypeOK
      <3>2. CASE e \notin S
        BY <3>2, <2>1 DEF IInv, TypeOK
      <3>3. QED
        BY <3>1, <3>2
    <2>4. TypeOK'
      <3>1. outbox' \in [Events -> Row]
        BY <1>1, <1>4, <2>3
      <3>2. stale' \in [Workers -> SUBSET Events]
        <4>1. stale' = [v \in Workers |-> stale[v] \ S]
          BY <1>1, <1>4
        <4>2. QED
          BY <4>1 DEF IInv, TypeOK
      <3>3. task' \in [Workers -> [Events -> Stage]]
        <4>1. task' = [task EXCEPT ![w] = batch]
          BY <1>1, <1>4
        <4>2. batch \in [Events -> Stage]
          BY DEF Stage
        <4> HIDE DEF batch
        <4>3. QED
          BY <4>1, <4>2 DEF IInv, TypeOK
      <3>4. lastClaim' \in [Events -> Nat] /\ claims' \in [Events -> Nat]
        <4>1. /\ lastClaim' = [e \in Events |-> IF e \in S THEN issued + 1 ELSE lastClaim[e]]
              /\ claims' = [e \in Events |-> IF e \in S THEN claims[e] + 1 ELSE claims[e]]
          BY <1>1, <1>4
        <4>2. QED
          BY <4>1 DEF IInv, TypeOK
      <3>5. issued' \in Nat /\ token' \in [Workers -> Nat] /\ loop' \in [Workers -> LoopState]
        <4>1. /\ issued' = issued + 1
              /\ token' = [token EXCEPT ![w] = issued + 1]
              /\ loop' = [loop EXCEPT ![w] = "drain"]
          BY <1>1, <1>4
        <4>2. QED
          BY <4>1 DEF IInv, TypeOK, LoopState
      <3>6. QED
        BY <1>1, <1>2, <1>4, <2>3, <3>1, <3>2, <3>3, <3>4, <3>5 DEF IInv, TypeOK
    <2>5. HeldByLatestClaim' /\ PublishedByLatestClaim'
      BY <1>1, <1>4, <2>1, <2>2 DEF IInv, HeldByLatestClaim, PublishedByLatestClaim
    <2>6. TasksTruthful'
      <3>1. \A v \in Workers, e \in Events :
                task'[v][e] \in {"arrived", "ok"} => task[v][e] \in {"arrived", "ok"}
        <4>1. task' = [task EXCEPT ![w] = batch]
          BY <1>1, <1>4
        <4>2. \A e \in Events : batch[e] \notin {"arrived", "ok"}
          OBVIOUS
        <4> HIDE DEF batch
        <4>3. QED
          BY <4>1, <4>2 DEF IInv, TypeOK
      <3>2. QED
        BY <1>2, <2>1, <2>2, <3>1 DEF IInv, TasksTruthful
    <2>7. SettledByAgrees'
      BY <1>1, <1>4, <2>1, <2>2 DEF IInv, SettledByAgrees
    <2>8. ClaimsChargedOnce'
      BY <1>1, <1>4, <2>1, <2>2, RowType DEF IInv, ClaimsChargedOnce
    <2>9. RetriesWithinBudget'
      BY <1>1, <1>4, <2>1, <2>2 DEF IInv, RetriesWithinBudget
    <2>10. StaleIsExpired'
      BY <1>1, <1>4, <2>1 DEF IInv, StaleIsExpired
    <2>11. QED
      BY <2>4, <2>5, <2>6, <2>7, <2>8, <2>9, <2>10 DEF IInv
  <1>5. QED
    BY <1>3, <1>4

LEMMA DrainedIInv == ASSUME IInv, NEW w \in Workers, Drained(w) PROVE IInv'
  <1>1. TypeOK' /\ StaleIsExpired'
    BY DEF Drained, IInv, TypeOK, StaleIsExpired, LoopState, store
  <1>2. QED
    BY <1>1, ProcessStep DEF Drained, IInv, TasksTruthful

LEMMA ArriveIInv == ASSUME IInv, NEW w \in Workers, NEW e \in Events, Arrive(w, e) PROVE IInv'
  <1>1. TypeOK' /\ StaleIsExpired'
    BY DEF Arrive, SetTask, IInv, TypeOK, StaleIsExpired, Stage, store
  <1>2. \A v \in Workers, f \in Events : task'[v][f] \in {"arrived", "ok"} => f \in received'
    BY DEF Arrive, SetTask, IInv, TypeOK, TasksTruthful
  <1>3. QED
    BY <1>1, <1>2, ProcessStep DEF Arrive

LEMMA RespondIInv == ASSUME IInv, NEW w \in Workers, NEW e \in Events, Respond(w, e) PROVE IInv'
  <1>1. PICK s \in {"ok", "err"} :
            /\ task' = [task EXCEPT ![w][e] = s]
            /\ s = "ok" => task[w][e] = "arrived"
    BY DEF Respond, SetTask
  <1>2. UNCHANGED <<store, loop, stale, picked, token, received, faults>>
    BY DEF Respond
  <1>3. TypeOK' /\ StaleIsExpired'
    BY <1>1, <1>2 DEF IInv, TypeOK, StaleIsExpired, Stage, store
  <1>4. \A v \in Workers, f \in Events : task'[v][f] \in {"arrived", "ok"} => f \in received'
    BY <1>1, <1>2 DEF IInv, TypeOK, TasksTruthful
  <1>5. QED
    BY <1>2, <1>3, <1>4, ProcessStep

LEMMA LoseTaskIInv == ASSUME IInv, NEW w \in Workers, NEW e \in Events, LoseTask(w, e) PROVE IInv'
  <1>1. TypeOK' /\ StaleIsExpired'
    BY DEF LoseTask, SetTask, IInv, TypeOK, StaleIsExpired, Stage, store
  <1>2. \A v \in Workers, f \in Events : task'[v][f] \in {"arrived", "ok"} => f \in received'
    BY DEF LoseTask, SetTask, IInv, TypeOK, TasksTruthful
  <1>3. QED
    BY <1>1, <1>2, ProcessStep DEF LoseTask

LEMMA LoopErrorIInv == ASSUME IInv, NEW w \in Workers, LoopError(w) PROVE IInv'
  <1>1. TypeOK' /\ StaleIsExpired'
    BY DEF LoopError, IInv, TypeOK, StaleIsExpired, LoopState, NoIds, store
  <1>2. QED
    BY <1>1, ProcessStep DEF LoopError, IInv, TasksTruthful

LEMMA CrashIInv == ASSUME IInv, NEW w \in Workers, Crash(w) PROVE IInv'
  <1>1. TypeOK' /\ StaleIsExpired'
    BY DEF Crash, IInv, TypeOK, StaleIsExpired, LoopState, Stage, NoIds, NoTasks, store
  <1>2. \A v \in Workers, f \in Events : task'[v][f] \in {"arrived", "ok"} => f \in received'
    BY DEF Crash, IInv, TypeOK, TasksTruthful, NoTasks
  <1>3. QED
    BY <1>1, <1>2, ProcessStep DEF Crash

LEMMA HeartbeatIInv == ASSUME IInv, NEW w \in Workers, NEW e \in Events, Heartbeat(w, e) PROVE IInv'
  <1>1. UNCHANGED <<issued, lastClaim, claims, settledBy, loop, picked, token, received, faults>>
    BY DEF Heartbeat
  <1>2. CASE OwnsLiveLease(w, e)
    <2>1. /\ outbox' = [outbox EXCEPT ![e].lease = LeaseDuration]
          /\ stale' = [v \in Workers |-> stale[v] \ {e}]
          /\ UNCHANGED task
      BY <1>2 DEF Heartbeat
    <2>2. \A f \in Events : f # e => outbox'[f] = outbox[f]
      BY <2>1 DEF IInv, TypeOK
    <2>3. /\ outbox'[e] \in Row
          /\ outbox'[e].publish_state = "processing"
          /\ outbox[e].publish_state = "processing"
          /\ outbox'[e].retry_count = outbox[e].retry_count
          /\ outbox'[e].lease_token = outbox[e].lease_token
          /\ outbox'[e].wait = outbox[e].wait
      <3>1. outbox'[e] = [outbox[e] EXCEPT !.lease = LeaseDuration]
        BY <2>1 DEF IInv, TypeOK
      <3>2. outbox[e] \in Row /\ outbox[e].publish_state = "processing"
        BY <1>2, RowType DEF IInv, OwnsLiveLease
      <3>3. QED
        BY <3>1, <3>2, OutboxAssumption DEF Row
    <2>4. TypeOK'
      BY <1>1, <2>1, <2>2, <2>3 DEF IInv, TypeOK
    <2>5. HeldByLatestClaim' /\ PublishedByLatestClaim' /\ TasksTruthful' /\ StaleIsExpired'
      BY <1>1, <2>1, <2>2, <2>3
         DEF IInv, HeldByLatestClaim, PublishedByLatestClaim, TasksTruthful, StaleIsExpired
    <2>6. SettledByAgrees' /\ ClaimsChargedOnce' /\ RetriesWithinBudget'
      BY <1>1, <2>2, <2>3 DEF IInv, SettledByAgrees, ClaimsChargedOnce, RetriesWithinBudget
    <2>7. QED
      BY <2>4, <2>5, <2>6 DEF IInv
  <1>3. CASE ~OwnsLiveLease(w, e)
    <2>1. task' = [task EXCEPT ![w][e] = "none"] /\ UNCHANGED <<outbox, stale>>
      BY <1>3 DEF Heartbeat, SetTask
    <2>2. TypeOK' /\ StaleIsExpired'
      BY <1>1, <2>1 DEF IInv, TypeOK, StaleIsExpired, Stage
    <2>3. \A v \in Workers, f \in Events : task'[v][f] \in {"arrived", "ok"} => f \in received'
      BY <1>1, <2>1 DEF IInv, TypeOK, TasksTruthful
    <2>4. QED
      BY <1>1, <2>1, <2>2, <2>3, ProcessStep DEF store
  <1>4. QED
    BY <1>2, <1>3

LEMMA AckIInv == ASSUME IInv, NEW w \in Workers, NEW e \in Events, Ack(w, e) PROVE IInv'
  <1>1. /\ task[w][e] = "ok"
        /\ task' = [task EXCEPT ![w][e] = "none"]
        /\ UNCHANGED <<issued, lastClaim, claims, loop, stale, picked, token, received, faults>>
    BY DEF Ack, SetTask
  <1>2. /\ task' \in [Workers -> [Events -> Stage]]
        /\ \A v \in Workers, f \in Events : task'[v][f] \in {"arrived", "ok"} => f \in received'
    BY <1>1 DEF IInv, TypeOK, TasksTruthful, Stage
  <1>3. CASE OwnsLiveLease(w, e)
    <2>1. /\ outbox' = [outbox EXCEPT ![e] = Released(outbox[e], "published", 0, 0)]
          /\ settledBy' = [settledBy EXCEPT ![e] = token[w]]
      BY <1>3 DEF Ack
    <2>2. \A f \in Events : f # e => outbox'[f] = outbox[f] /\ settledBy'[f] = settledBy[f]
      BY <2>1 DEF IInv, TypeOK
    <2>3. /\ outbox[e] \in Row
          /\ outbox[e].publish_state = "processing"
          /\ token[w] = outbox[e].lease_token
          /\ token[w] = lastClaim[e]
          /\ token[w] \in Nat \ {0}
          /\ outbox[e].retry_count \in Nat
      BY <1>3, RowType DEF OwnsLiveLease, IInv, HeldByLatestClaim
    <2>4. /\ outbox'[e] \in Row
          /\ outbox'[e].publish_state = "published"
          /\ outbox'[e].retry_count = outbox[e].retry_count
          /\ outbox'[e].lease_token = 0
          /\ outbox'[e].lease = 0
          /\ outbox'[e].wait = 0
      <3>1. outbox'[e] = Released(outbox[e], "published", 0, 0)
        BY <2>1 DEF IInv, TypeOK
      <3>2. "published" \in PublishState /\ 0 \in {0, 1} /\ 0 \in Nat
        BY DEF PublishState
      <3>3. /\ Released(outbox[e], "published", 0, 0) \in Row
            /\ Released(outbox[e], "published", 0, 0).publish_state = "published"
            /\ Released(outbox[e], "published", 0, 0).retry_count = outbox[e].retry_count + 0
            /\ Released(outbox[e], "published", 0, 0).lease_token = 0
            /\ Released(outbox[e], "published", 0, 0).lease = 0
            /\ Released(outbox[e], "published", 0, 0).wait = 0
        BY <3>2, <2>3, ReleasedType
      <3>4. outbox[e].retry_count + 0 = outbox[e].retry_count
        BY <2>3
      <3>5. QED
        BY <3>1, <3>3, <3>4, Zenon
    <2>5. settledBy' \in [Events -> Nat] /\ settledBy'[e] = lastClaim[e] /\ settledBy'[e] # 0
      BY <2>1, <2>3 DEF IInv, TypeOK
    <2>6. TypeOK'
      <3>1. outbox' \in [Events -> Row]
        BY <2>1, <2>4 DEF IInv, TypeOK
      <3>2. QED
        BY <1>1, <1>2, <2>2, <2>4, <2>5, <3>1 DEF IInv, TypeOK
    <2>7. HeldByLatestClaim' /\ PublishedByLatestClaim' /\ StaleIsExpired'
      BY <1>1, <2>2, <2>4, <2>5 DEF IInv, HeldByLatestClaim, PublishedByLatestClaim, StaleIsExpired
    <2>8. TasksTruthful'
      BY <1>1, <1>2, <2>2, <2>4 DEF IInv, TasksTruthful
    <2>9. SettledByAgrees' /\ ClaimsChargedOnce' /\ RetriesWithinBudget'
      BY <1>1, <2>2, <2>3, <2>4, <2>5
         DEF IInv, SettledByAgrees, ClaimsChargedOnce, RetriesWithinBudget
    <2>10. QED
      BY <2>6, <2>7, <2>8, <2>9 DEF IInv
  <1>4. CASE ~OwnsLiveLease(w, e)
    <2>1. UNCHANGED <<outbox, settledBy>>
      BY <1>4 DEF Ack
    <2>2. TypeOK' /\ StaleIsExpired'
      BY <1>1, <1>2, <2>1 DEF IInv, TypeOK, StaleIsExpired
    <2>3. QED
      BY <1>1, <1>2, <2>1, <2>2, ProcessStep DEF store
  <1>5. QED
    BY <1>3, <1>4

LEMMA FailIInv == ASSUME IInv, NEW w \in Workers, NEW e \in Events, Fail(w, e) PROVE IInv'
  <1> DEFINE next_retry == outbox[e].retry_count + 1
             state == IF next_retry >= Budget THEN "failed" ELSE "pending"
             wait == IF next_retry >= Budget THEN 0 ELSE BackoffSeconds(next_retry)
  <1>1. /\ task' = [task EXCEPT ![w][e] = "none"]
        /\ UNCHANGED <<issued, lastClaim, claims, settledBy, loop, stale, picked, token, received, faults>>
    BY DEF Fail, SetTask
  <1>2. /\ task' \in [Workers -> [Events -> Stage]]
        /\ \A v \in Workers, f \in Events : task'[v][f] \in {"arrived", "ok"} => f \in received'
    BY <1>1 DEF IInv, TypeOK, TasksTruthful, Stage
  <1>3. CASE OwnsLiveLease(w, e)
    <2>1. outbox' = [outbox EXCEPT ![e] = Released(outbox[e], state, 1, wait)]
      BY <1>3 DEF Fail
    <2>2. \A f \in Events : f # e => outbox'[f] = outbox[f]
      BY <2>1 DEF IInv, TypeOK
    <2>3. outbox[e] \in Row /\ outbox[e].publish_state = "processing" /\ outbox[e].retry_count \in Nat
      BY <1>3, RowType DEF OwnsLiveLease, IInv
    <2>4. outbox[e].retry_count < Budget
      BY <2>3 DEF IInv, RetriesWithinBudget
    <2>5. /\ state \in PublishState /\ wait \in Nat /\ state \in {"failed", "pending"}
          /\ state = "failed" => outbox[e].retry_count + 1 = Budget /\ wait = 0
          /\ state = "pending" => outbox[e].retry_count + 1 < Budget
      BY <2>3, <2>4, BudgetType, BackoffType DEF PublishState
    <2> HIDE DEF state, wait
    <2>6. /\ outbox'[e] \in Row
          /\ outbox'[e].publish_state = state
          /\ outbox'[e].retry_count = outbox[e].retry_count + 1
          /\ outbox'[e].lease_token = 0
          /\ outbox'[e].lease = 0
          /\ outbox'[e].wait = wait
      <3>1. outbox'[e] = Released(outbox[e], state, 1, wait)
        BY <2>1 DEF IInv, TypeOK
      <3>2. QED
        BY <3>1, <2>3, <2>5, ReleasedType, SMTT(60)
    <2>7. TypeOK'
      <3>1. outbox' \in [Events -> Row]
        BY <2>1, <2>6 DEF IInv, TypeOK
      <3>2. QED
        BY <1>1, <1>2, <2>2, <2>5, <2>6, <3>1 DEF IInv, TypeOK
    <2>8. HeldByLatestClaim' /\ PublishedByLatestClaim' /\ StaleIsExpired'
      BY <1>1, <2>2, <2>5, <2>6 DEF IInv, HeldByLatestClaim, PublishedByLatestClaim, StaleIsExpired
    <2>9. TasksTruthful'
      BY <1>1, <1>2, <2>2, <2>5, <2>6 DEF IInv, TasksTruthful
    <2>10. SettledByAgrees' /\ ClaimsChargedOnce'
      BY <1>1, <2>2, <2>3, <2>5, <2>6 DEF IInv, SettledByAgrees, ClaimsChargedOnce
    <2>11. RetriesWithinBudget'
      BY <1>1, <2>2, <2>3, <2>5, <2>6 DEF IInv, RetriesWithinBudget
    <2>12. QED
      BY <2>7, <2>8, <2>9, <2>10, <2>11 DEF IInv
  <1>4. CASE ~OwnsLiveLease(w, e)
    <2>1. UNCHANGED outbox
      BY <1>4 DEF Fail
    <2>2. TypeOK' /\ StaleIsExpired'
      BY <1>1, <1>2, <2>1 DEF IInv, TypeOK, StaleIsExpired
    <2>3. QED
      BY <1>1, <1>2, <2>1, <2>2, ProcessStep DEF store
  <1>5. QED
    BY <1>3, <1>4

LEMMA TickIInv == ASSUME IInv, Tick PROVE IInv'
  <1>1. UNCHANGED <<issued, lastClaim, claims, settledBy, process, received, faults>>
    BY DEF Tick
  <1>2. ASSUME NEW e \in Events
        PROVE  /\ outbox'[e] \in Row
               /\ outbox'[e].publish_state = outbox[e].publish_state
               /\ outbox'[e].retry_count = outbox[e].retry_count
               /\ outbox'[e].lease_token = outbox[e].lease_token
               /\ outbox'[e].lease <= outbox[e].lease
               /\ outbox'[e].wait <= outbox[e].wait
    BY RowType, AgedType DEF Tick, IInv
  <1>3. ASSUME NEW e \in Events
        PROVE  outbox'[e].lease \in Nat /\ outbox'[e].wait \in Nat
    BY <1>2 DEF Row
  <1>4. TypeOK'
    <2>1. outbox' \in [Events -> Row]
      BY <1>2 DEF Tick
    <2>2. ASSUME NEW e \in Events
          PROVE  /\ outbox'[e].lease_token # 0 <=> outbox'[e].publish_state = "processing"
                 /\ outbox'[e].lease > 0 => outbox'[e].publish_state = "processing"
                 /\ outbox'[e].wait > 0 => outbox'[e].publish_state = "pending"
      BY <1>2, <1>3, RowType DEF IInv
    <2>3. QED
      BY <1>1, <2>1, <2>2 DEF IInv, TypeOK, process
  <1>5. HeldByLatestClaim' /\ PublishedByLatestClaim' /\ TasksTruthful' /\ SettledByAgrees'
    BY <1>1, <1>2 DEF IInv, HeldByLatestClaim, PublishedByLatestClaim, TasksTruthful,
                      SettledByAgrees, process
  <1>6. ClaimsChargedOnce' /\ RetriesWithinBudget'
    BY <1>1, <1>2 DEF IInv, ClaimsChargedOnce, RetriesWithinBudget
  <1>7. StaleIsExpired'
    <2>1. ASSUME NEW w \in Workers, NEW e \in Events,
                 e \in stale'[w], outbox'[e].publish_state = "processing"
          PROVE  outbox'[e].lease = 0
      <3>1. outbox[e].lease = 0
        BY <1>1, <1>2, <2>1 DEF IInv, StaleIsExpired, process
      <3>2. QED
        BY <1>2, <1>3, <3>1
    <2>2. QED
      BY <2>1 DEF StaleIsExpired
  <1>8. QED
    BY <1>4, <1>5, <1>6, <1>7 DEF IInv

LEMMA StepIInv == IInv /\ [Next]_vars => IInv'
  <1> SUFFICES ASSUME IInv, [Next]_vars PROVE IInv'
    OBVIOUS
  <1>1. ASSUME NEW e \in Events, Append(e) \/ Purge(e) PROVE IInv'
    BY <1>1, AppendIInv, PurgeIInv
  <1>2. ASSUME NEW w \in Workers, Loop(w) \/ LoopError(w) \/ Crash(w) PROVE IInv'
    BY <1>2, SweepSelectIInv, SweepDeadIInv, SweepRequeueIInv, ClaimIInv, DrainedIInv,
       LoopErrorIInv, CrashIInv DEF Loop
  <1>3. ASSUME NEW w \in Workers, NEW e \in Events, Delivery(w, e) PROVE IInv'
    BY <1>3, ArriveIInv, RespondIInv, HeartbeatIInv, AckIInv, FailIInv, LoseTaskIInv DEF Delivery
  <1>4. CASE Tick
    BY <1>4, TickIInv
  <1>5. CASE UNCHANGED vars
    BY <1>5 DEF vars, store, process, IInv, TypeOK, HeldByLatestClaim, PublishedByLatestClaim,
       TasksTruthful, SettledByAgrees, ClaimsChargedOnce, RetriesWithinBudget, StaleIsExpired
  <1>6. QED
    BY <1>1, <1>2, <1>3, <1>4, <1>5 DEF Next

-------------------------------------------------------------------------------
(* The theorems.                                                           *)

\* The inductive invariant holds throughout.
THEOREM Invariance == Spec => []IInv
  BY InitIInv, StepIInv, PTL DEF Spec

\* The table and the publishers' state keep their types and the shape of a
\* row: exactly the 'processing' rows hold a lease (claim, release, sweep).
THEOREM TypeCorrect == Spec => []TypeOK
  <1>1. IInv => TypeOK
    BY DEF IInv
  <1>2. QED
    BY <1>1, Invariance, PTL

\* Failure records and sweeps charge every claim exactly once.
THEOREM ChargedOnce == Spec => []ClaimsChargedOnce
  <1>1. IInv => ClaimsChargedOnce
    BY DEF IInv
  <1>2. QED
    BY <1>1, Invariance, PTL

\* The lease fence of ack_outbox_delivery_success keeps an expired publisher
\* from settling a row that a replacement claimed.
THEOREM Fenced == Spec => []PublishedByLatestClaim
  <1>1. IInv => PublishedByLatestClaim
    BY DEF IInv
  <1>2. QED
    BY <1>1, Invariance, PTL

\* At-least-once: a published event has reached the consumer.
THEOREM AtLeastOnce == Spec => []PublishedWasReceived
  <1>1. IInv => PublishedWasReceived
    BY DEF IInv, TasksTruthful, PublishedWasReceived
  <1>2. QED
    BY <1>1, Invariance, PTL

\* A row is dead-lettered after exactly its retry budget, and is never claimed
\* more often (fail_outbox_delivery and the stale sweep agree on the limit).
THEOREM BudgetKept == Spec => []DeadLetterAfterBudget
  <1>1. ASSUME IInv PROVE DeadLetterAfterBudget
    <2> SUFFICES ASSUME NEW e \in Events
                 PROVE  /\ claims[e] <= Budget
                        /\ outbox[e].publish_state = "failed" => claims[e] = Budget
      BY DEF DeadLetterAfterBudget
    <2>1. /\ outbox[e].retry_count \in Nat
          /\ outbox[e].publish_state \in PublishState
      BY <1>1, RowType DEF IInv
    <2>2. QED
      BY <1>1, <2>1, BudgetType DEF IInv, ClaimsChargedOnce, RetriesWithinBudget, PublishState
  <1>2. QED
    BY <1>1, Invariance, PTL

-------------------------------------------------------------------------------
(* Action properties.  Only five statements move a row out of a state.     *)

\* A step that rewrites a row's state is one of these.
RowMoves(e) ==
    \/ Append(e)
    \/ Purge(e)
    \/ outbox[e].publish_state = "pending" /\ outbox'[e].publish_state = "processing"
    \/ /\ outbox[e].publish_state = "processing"
       /\ outbox'[e].publish_state \in {"pending", "failed", "published"}
       /\ \/ outbox[e].lease = 0
          \/ \E w \in Workers : /\ token[w] = outbox[e].lease_token
                               /\ task[w][e] \in {"ok", "err"}
    \/ outbox'[e].publish_state = outbox[e].publish_state

LEMMA SweptMoves ==
    ASSUME IInv, NEW w \in Workers, NEW ids, NEW state \in {"pending", "failed"},
           outbox' = SweptRows(ids, w, state), NEW e \in Events
    PROVE  RowMoves(e)
  <1>1. CASE e \in ids /\ StaleAt(w, e)
    BY <1>1 DEF IInv, StaleIsExpired, StaleAt, SweptRows, Released, RowMoves
  <1>2. CASE ~(e \in ids /\ StaleAt(w, e))
    BY <1>2 DEF SweptRows, RowMoves
  <1>3. QED
    BY <1>1, <1>2

LEMMA Moves == ASSUME IInv, [Next]_vars, NEW e \in Events PROVE RowMoves(e)
  <1>1. ASSUME NEW f \in Events, Append(f) \/ Purge(f) PROVE RowMoves(e)
    BY <1>1 DEF Append, Purge, RowMoves, IInv, TypeOK
  <1>2. ASSUME NEW w \in Workers, SweepSelect(w) \/ Drained(w) \/ LoopError(w) \/ Crash(w)
        PROVE  RowMoves(e)
    BY <1>2 DEF SweepSelect, Drained, LoopError, Crash, store, RowMoves
  <1>3. ASSUME NEW w \in Workers, SweepDead(w) PROVE RowMoves(e)
    <2>1. CASE UNCHANGED outbox
      BY <2>1 DEF RowMoves
    <2>2. CASE outbox' = SweptRows({f \in picked[w].dead : OutOfRetries(f)}, w, "failed")
      BY <2>2, SweptMoves
    <2>3. QED
      BY <1>3, <2>1, <2>2 DEF SweepDead
  <1>4. ASSUME NEW w \in Workers, SweepRequeue(w) PROVE RowMoves(e)
    <2>1. CASE UNCHANGED outbox
      BY <2>1 DEF RowMoves
    <2>2. CASE outbox' = SweptRows({f \in picked[w].requeue : ~OutOfRetries(f)}, w, "pending")
      BY <2>2, SweptMoves
    <2>3. QED
      BY <1>4, <2>1, <2>2 DEF SweepRequeue
  <1>5. ASSUME NEW w \in Workers, Claim(w) PROVE RowMoves(e)
    BY <1>5 DEF Claim, Claimed, Due, store, RowMoves
  <1>6. ASSUME NEW w \in Workers, NEW f \in Events,
               Arrive(w, f) \/ Respond(w, f) \/ LoseTask(w, f)
        PROVE  RowMoves(e)
    BY <1>6 DEF Arrive, Respond, LoseTask, store, RowMoves
  <1>7. ASSUME NEW w \in Workers, NEW f \in Events, Heartbeat(w, f) PROVE RowMoves(e)
    <2>1. outbox' = outbox \/ outbox' = [outbox EXCEPT ![f].lease = LeaseDuration]
      BY <1>7 DEF Heartbeat
    <2>2. CASE outbox'[e] = outbox[e]
      BY <2>2 DEF RowMoves
    <2>3. CASE outbox'[e] = [outbox[e] EXCEPT !.lease = LeaseDuration]
      <3>1. outbox[e] \in Row
        BY DEF IInv, TypeOK
      <3>2. outbox'[e].publish_state = outbox[e].publish_state
        BY <2>3, <3>1 DEF Row
      <3>3. QED
        BY <3>2 DEF RowMoves
    <2>4. QED
      BY <2>1, <2>2, <2>3 DEF IInv, TypeOK
  <1>8. ASSUME NEW w \in Workers, NEW f \in Events, Ack(w, f) PROVE RowMoves(e)
    <2>1. CASE e = f /\ OwnsLiveLease(w, f)
      BY <1>8, <2>1 DEF Ack, OwnsLiveLease, Released, RowMoves, IInv, TypeOK
    <2>2. CASE ~(e = f /\ OwnsLiveLease(w, f))
      <3>1. outbox'[e] = outbox[e]
        BY <1>8, <2>2 DEF Ack, IInv, TypeOK
      <3>2. QED
        BY <3>1 DEF RowMoves
    <2>3. QED
      BY <2>1, <2>2
  <1>9. ASSUME NEW w \in Workers, NEW f \in Events, Fail(w, f) PROVE RowMoves(e)
    <2>1. CASE e = f /\ OwnsLiveLease(w, f)
      BY <1>9, <2>1 DEF Fail, OwnsLiveLease, Released, RowMoves, IInv, TypeOK
    <2>2. CASE ~(e = f /\ OwnsLiveLease(w, f))
      <3>1. outbox'[e] = outbox[e]
        BY <1>9, <2>2 DEF Fail, IInv, TypeOK
      <3>2. QED
        BY <3>1 DEF RowMoves
    <2>3. QED
      BY <2>1, <2>2
  <1>10. CASE Tick
    BY <1>10 DEF Tick, Aged, RowMoves
  <1>11. CASE UNCHANGED vars
    BY <1>11 DEF vars, store, RowMoves
  <1>12. QED
    BY <1>1, <1>2, <1>3, <1>4, <1>5, <1>6, <1>7, <1>8, <1>9, <1>10, <1>11
       DEF Next, Loop, Delivery

\* Published and dead-lettered are final, until retention purges the row.
THEOREM VerdictFinal == Spec => SettledIsFinal
  <1>1. ASSUME IInv, [Next]_vars, NEW e \in Events PROVE VerdictKept(e)
    <2>1. RowMoves(e)
      BY <1>1, Moves
    <2>2. CASE Purge(e)
      <3>1. outbox'[e] = [outbox[e] EXCEPT !.publish_state = "purged"] /\ outbox[e] \in Row
        BY <1>1, <2>2 DEF Purge, IInv, TypeOK
      <3>2. outbox'[e].publish_state = "purged"
        BY <3>1 DEF Row
      <3>3. QED
        BY <3>2 DEF VerdictKept
    <2>3. CASE ~Purge(e)
      BY <2>1, <2>3 DEF RowMoves, Append, VerdictKept
    <2>4. QED
      BY <2>2, <2>3
  <1>2. IInv /\ [Next]_vars => [\A e \in Events : VerdictKept(e)]_vars
    BY <1>1
  <1>3. QED
    BY <1>2, Invariance, PTL DEF Spec, SettledIsFinal

\* Only its holder takes a row with a live lease out of 'processing': a sweep
\* re-checks lease_expires_at at its own timestamp, which a renewal outdates.
THEOREM LeaseKept == Spec => LiveLeaseNotStolen
  <1>1. ASSUME IInv, [Next]_vars, NEW e \in Events PROVE LeaseRespected(e)
    <2> SUFFICES ASSUME outbox[e].publish_state = "processing",
                        outbox[e].lease > 0,
                        outbox'[e].publish_state # "processing"
                 PROVE  \E w \in Workers : /\ token[w] = outbox[e].lease_token
                                           /\ task[w][e] \in {"ok", "err"}
      BY DEF LeaseRespected
    <2>1. RowMoves(e)
      BY <1>1, Moves
    <2>2. outbox[e].lease # 0
      BY <1>1, RowType DEF IInv
    <2>3. QED
      BY <1>1, <2>1, <2>2 DEF RowMoves, Append, Purge
  <1>2. IInv /\ [Next]_vars => [\A e \in Events : LeaseRespected(e)]_vars
    BY <1>1
  <1>3. QED
    BY <1>2, Invariance, PTL DEF Spec, LiveLeaseNotStolen

-------------------------------------------------------------------------------
(* The outbox implements EventDelivery for every event.                    *)

\* Only a claimed event is ever on its way to the consumer.
TasksClaimed == \A w \in Workers, e \in Events : task[w][e] # "none" => claims[e] > 0

LEMMA InitTasksClaimed == Init => TasksClaimed
  BY DEF Init, TasksClaimed, NoTasks

LEMMA StepTasksClaimed == IInv /\ TasksClaimed /\ [Next]_vars => TasksClaimed'
  <1> SUFFICES ASSUME IInv, TasksClaimed, [Next]_vars,
                      NEW v \in Workers, NEW f \in Events, task'[v][f] # "none"
               PROVE  claims'[f] > 0
    BY DEF TasksClaimed
  <1>1. claims[f] \in Nat
    BY DEF IInv, TypeOK
  <1>2. task[v][f] # "none" => claims[f] > 0
    BY DEF TasksClaimed
  <1>3. ASSUME NEW w \in Workers, Claim(w) PROVE claims'[f] > 0
    <2>1. PICK S \in SUBSET {e \in Events : Due(e)} :
            \/ UNCHANGED <<claims, task>>
            \/ /\ task' = [task EXCEPT ![w] = [e \in Events |-> IF e \in S THEN "sending" ELSE "none"]]
               /\ claims' = [e \in Events |-> IF e \in S THEN claims[e] + 1 ELSE claims[e]]
      BY <1>3 DEF Claim, store
    <2>2. CASE UNCHANGED <<claims, task>>
      BY <1>2, <2>2
    <2>3. CASE /\ task' = [task EXCEPT ![w] = [e \in Events |-> IF e \in S THEN "sending" ELSE "none"]]
               /\ claims' = [e \in Events |-> IF e \in S THEN claims[e] + 1 ELSE claims[e]]
      <3>1. f \in S \/ task[v][f] # "none"
        BY <2>3 DEF IInv, TypeOK
      <3>2. QED
        BY <1>1, <1>2, <2>3, <3>1
    <2>4. QED
      BY <2>1, <2>2, <2>3
  <1>4. ASSUME NEW w \in Workers, Loop(w) \/ LoopError(w) \/ Crash(w), ~Claim(w)
        PROVE  claims'[f] > 0
    <2>1. UNCHANGED claims
      BY <1>4 DEF Loop, SweepSelect, SweepDead, SweepRequeue, AfterSweep, Drained, LoopError, Crash, store
    <2>2. task[v][f] # "none"
      BY <1>4, SMTT(60) DEF Loop, SweepSelect, SweepDead, SweepRequeue, AfterSweep, Drained, LoopError, Crash,
                  IInv, TypeOK, NoTasks
    <2>3. QED
      BY <1>2, <2>1, <2>2
  <1>5. ASSUME NEW w \in Workers, NEW e \in Events, Delivery(w, e) PROVE claims'[f] > 0
    <2>1. UNCHANGED claims
      BY <1>5 DEF Delivery, Arrive, Respond, Heartbeat, Ack, Fail, LoseTask, store
    <2>2. UNCHANGED task \/ (\E s \in Stage : task' = [task EXCEPT ![w][e] = s])
      BY <1>5 DEF Delivery, Arrive, Respond, Heartbeat, Ack, Fail, LoseTask, SetTask, Stage
    <2>3. task[w][e] # "none"
      BY <1>5 DEF Delivery, Arrive, Respond, Heartbeat, Ack, Fail, LoseTask
    <2>4. task[v][f] # "none"
      <3>1. CASE UNCHANGED task
        BY <3>1
      <3>2. ASSUME NEW s \in Stage, task' = [task EXCEPT ![w][e] = s] PROVE task[v][f] # "none"
        <4>1. CASE v = w /\ f = e
          BY <2>3, <4>1
        <4>2. CASE ~(v = w /\ f = e)
          <5>1. task'[v][f] = task[v][f]
            BY <3>2, <4>2 DEF IInv, TypeOK
          <5>2. QED
            BY <5>1
        <4>3. QED
          BY <4>1, <4>2
      <3>3. QED
        BY <2>2, <3>1, <3>2
    <2>5. QED
      BY <1>2, <2>1, <2>4
  <1>6. ASSUME \/ \E e \in Events : Append(e) \/ Purge(e)
               \/ Tick
               \/ UNCHANGED vars
        PROVE  claims'[f] > 0
    BY <1>2, <1>6 DEF Append, Purge, Tick, vars, store, process
  <1>7. QED
    BY <1>3, <1>4, <1>5, <1>6 DEF Next, Loop

\* Only a claim counts a try and only an arrival reaches the consumer.
LEMMA CountsUnchanged ==
    ASSUME [Next]_vars,
           \A w \in Workers : ~Claim(w),
           \A w \in Workers, e \in Events : ~Arrive(w, e)
    PROVE  UNCHANGED <<claims, received>>
  BY ZenonT(60) DEF Next, Loop, Delivery, Append, Purge, SweepSelect, SweepDead, SweepRequeue, AfterSweep,
         Drained, LoopError, Crash, Respond, Heartbeat, Ack, Fail, LoseTask, Tick, vars, store

LEMMA InitEvent == ASSUME Init, NEW e \in Events PROVE Event(e)!Init
  BY DEF Init, Event!Init, DeliveryStatus, NoRow

\* Every step of the outbox is, for each event, a step of EventDelivery.
LEMMA StepEvent ==
    ASSUME IInv, IInv', DeadLetterAfterBudget, DeadLetterAfterBudget', TasksClaimed, [Next]_vars,
           NEW e \in Events
    PROVE  [Event(e)!Next]_(Event(e)!vars)
  <1> USE DEF Event!Next, Event!vars
  <1>1. RowMoves(e)
    BY Moves
  <1>2. outbox[e].publish_state \in PublishState /\ outbox'[e].publish_state \in PublishState
    <2>1. outbox[e] \in Row /\ outbox'[e] \in Row
      BY DEF IInv, TypeOK
    <2>2. QED
      BY <2>1 DEF Row
  <1>3. claims[e] \in Nat /\ claims'[e] \in Nat /\ claims'[e] <= Budget /\ Budget \in Nat
    BY BudgetType DEF IInv, TypeOK, DeadLetterAfterBudget
  <1>4. ASSUME NEW w \in Workers, Claim(w) PROVE [Event(e)!Next]_(Event(e)!vars)
    <2>1. UNCHANGED received
      BY <1>4 DEF Claim
    <2>2. \/ UNCHANGED <<outbox, claims>>
          \/ outbox'[e] = outbox[e] /\ claims'[e] = claims[e]
          \/ /\ outbox[e].publish_state = "pending"
             /\ outbox'[e].publish_state = "processing"
             /\ claims'[e] = claims[e] + 1
      BY <1>4 DEF Claim, Claimed, Due, store
    <2>3. QED
      BY <1>3, <2>1, <2>2 DEF Event!Try, DeliveryStatus
  <1>5. ASSUME NEW w \in Workers, NEW f \in Events, Arrive(w, f) PROVE [Event(e)!Next]_(Event(e)!vars)
    <2>1. UNCHANGED <<outbox, claims>> /\ received' = received \union {f} /\ claims[f] > 0
      BY <1>5 DEF Arrive, TasksClaimed, store
    <2>2. QED
      BY <2>1 DEF Event!Receive, DeliveryStatus
  <1>6. ASSUME UNCHANGED <<claims, received>> PROVE [Event(e)!Next]_(Event(e)!vars)
    <2>1. CASE outbox'[e].publish_state = outbox[e].publish_state
      BY <1>6, <2>1 DEF DeliveryStatus
    <2>2. CASE outbox[e].publish_state = "pending" /\ outbox'[e].publish_state = "processing"
      BY <1>6, <2>2 DEF DeliveryStatus
    <2>3. CASE Append(e)
      <3>1. outbox[e].publish_state = "absent" /\ outbox'[e].publish_state = "pending"
        BY <2>3 DEF Append, IInv, TypeOK, Row
      <3>2. QED
        BY <1>6, <3>1 DEF Event!Record, DeliveryStatus
    <2>4. CASE Purge(e)
      <3>1. outbox[e].publish_state \in {"published", "failed"} /\ outbox'[e].publish_state = "purged"
        BY <2>4 DEF Purge, IInv, TypeOK, Row
      <3>2. QED
        BY <1>6, <3>1 DEF Event!Remove, DeliveryStatus
    <2>5. CASE /\ outbox[e].publish_state = "processing"
               /\ outbox'[e].publish_state \in {"pending", "failed", "published"}
      <3>1. CASE outbox'[e].publish_state = "pending"
        BY <1>6, <2>5, <3>1 DEF DeliveryStatus
      <3>2. CASE outbox'[e].publish_state = "failed"
        <4>1. claims[e] = Budget
          BY <1>6, <3>2 DEF DeadLetterAfterBudget
        <4>2. QED
          BY <1>6, <2>5, <3>2, <4>1 DEF Event!GiveUp, DeliveryStatus
      <3>3. CASE outbox'[e].publish_state = "published"
        <4>1. e \in received
          BY <1>6, <3>3 DEF IInv, TasksTruthful
        <4>2. QED
          BY <1>6, <2>5, <3>3, <4>1 DEF Event!Publish, DeliveryStatus
      <3>4. QED
        BY <2>5, <3>1, <3>2, <3>3
    <2>6. QED
      BY <1>1, <2>1, <2>2, <2>3, <2>4, <2>5 DEF RowMoves
  <1>7. QED
    BY <1>4, <1>5, <1>6, CountsUnchanged

\* The outbox keeps, for every event, the promise of EventDelivery: received
\* before it counts as published, tried at most Budget times, given up after
\* exactly Budget tries.
THEOREM Implements == Spec => DeliversAtLeastOnce
  <1>1. Init => \A e \in Events : Event(e)!Init
    BY InitEvent
  <1>2. /\ IInv /\ IInv' /\ DeadLetterAfterBudget /\ DeadLetterAfterBudget'
        /\ TasksClaimed /\ [Next]_vars
        => [\A e \in Events : [Event(e)!Next]_(Event(e)!vars)]_vars
    BY StepEvent
  <1>3. Spec => []TasksClaimed
    BY InitTasksClaimed, StepTasksClaimed, Invariance, PTL DEF Spec
  <1>4. QED
    BY <1>1, <1>2, <1>3, Invariance, BudgetKept, PTL DEF Spec, DeliversAtLeastOnce

-------------------------------------------------------------------------------
(* What liveness rests on: the life of a row is finite.                    *)

\* No statement refunds a try: retry_count only grows, one at a time.
LEMMA RetriesGrow ==
    ASSUME IInv, [Next]_vars, NEW e \in Events
    PROVE  outbox'[e].retry_count \in {outbox[e].retry_count, outbox[e].retry_count + 1}
  <1> DEFINE Kept == outbox'[e].retry_count = outbox[e].retry_count
  <1> DEFINE Grown == outbox'[e].retry_count = outbox[e].retry_count + 1
  <1>0. outbox[e] \in Row /\ outbox \in [Events -> Row]
    BY DEF IInv, TypeOK
  <1>1. ASSUME NEW f \in Events, Append(f) \/ Purge(f) PROVE Kept
    BY <1>0, <1>1 DEF Append, Purge, Row
  <1>2. ASSUME NEW w \in Workers, NEW ids, NEW state, outbox' = SweptRows(ids, w, state)
        PROVE  Kept \/ Grown
    BY <1>2 DEF SweptRows, Released
  <1>3. ASSUME NEW w \in Workers, SweepDead(w) PROVE Kept \/ Grown
    <2>1. \/ outbox' = outbox
          \/ outbox' = SweptRows({f \in picked[w].dead : OutOfRetries(f)}, w, "failed")
      BY <1>3 DEF SweepDead
    <2>2. QED
      BY <1>2, <2>1
  <1>4. ASSUME NEW w \in Workers, SweepRequeue(w) PROVE Kept \/ Grown
    <2>1. \/ outbox' = outbox
          \/ outbox' = SweptRows({f \in picked[w].requeue : ~OutOfRetries(f)}, w, "pending")
      BY <1>4 DEF SweepRequeue
    <2>2. QED
      BY <1>2, <2>1
  <1>5. ASSUME NEW w \in Workers, Claim(w) PROVE Kept
    BY <1>5 DEF Claim, Claimed, store
  <1>6. ASSUME NEW w \in Workers, SweepSelect(w) \/ Drained(w) \/ LoopError(w) \/ Crash(w)
        PROVE  Kept
    BY <1>6 DEF SweepSelect, Drained, LoopError, Crash, store
  <1>7. ASSUME NEW w \in Workers, NEW f \in Events,
               Arrive(w, f) \/ Respond(w, f) \/ LoseTask(w, f)
        PROVE  Kept
    BY <1>7 DEF Arrive, Respond, LoseTask, store
  <1>8. ASSUME NEW w \in Workers, NEW f \in Events, Heartbeat(w, f) PROVE Kept
    <2>1. outbox' = outbox \/ outbox' = [outbox EXCEPT ![f].lease = LeaseDuration]
      BY <1>8 DEF Heartbeat
    <2>2. QED
      BY <1>0, <2>1 DEF Row
  <1>9. ASSUME NEW w \in Workers, NEW f \in Events, Ack(w, f) PROVE Kept
    <2>1. \/ outbox' = outbox
          \/ outbox' = [outbox EXCEPT ![f] = Released(outbox[f], "published", 0, 0)]
      BY <1>9 DEF Ack
    <2>2. outbox[e].retry_count + 0 = outbox[e].retry_count
      BY <1>0 DEF Row
    <2>3. QED
      BY <1>0, <2>1, <2>2 DEF Released
  <1>10. ASSUME NEW w \in Workers, NEW f \in Events, Fail(w, f) PROVE Kept \/ Grown
    <2>1. \/ outbox' = outbox
          \/ \E s, n : outbox' = [outbox EXCEPT ![f] = Released(outbox[f], s, 1, n)]
      BY <1>10 DEF Fail
    <2>2. QED
      BY <1>0, <2>1 DEF Released
  <1>11. CASE Tick
    BY <1>11 DEF Tick, Aged
  <1>12. CASE UNCHANGED vars
    BY <1>12 DEF vars, store
  <1>13. QED
    BY <1>1, <1>3, <1>4, <1>5, <1>6, <1>7, <1>8, <1>9, <1>10, <1>11, <1>12
       DEF Next, Loop, Delivery

\* Nor does one forget a claim.
LEMMA ClaimsGrow ==
    ASSUME IInv, [Next]_vars, NEW e \in Events
    PROVE  claims'[e] \in {claims[e], claims[e] + 1}
  <1>1. ASSUME NEW w \in Workers, Claim(w) PROVE claims'[e] \in {claims[e], claims[e] + 1}
    BY <1>1 DEF Claim, store
  <1>2. ASSUME NEW w \in Workers, NEW f \in Events, Arrive(w, f) PROVE claims'[e] = claims[e]
    BY <1>2 DEF Arrive, store
  <1>3. QED
    BY <1>1, <1>2, CountsUnchanged

\* How far a state is from the start.
Age(state) ==
    CASE state = "absent" -> 0
      [] state \in {"pending", "processing"} -> 1
      [] state \in {"published", "failed"} -> 2
      [] OTHER -> 3

\* Tries, charges and age: what is spent of the life of a row.
Spent(e) == claims[e] + outbox[e].retry_count + Age(outbox[e].publish_state)

SpentBounded == \A e \in Events : Spent(e) \in 0..2 * Budget + 3

\* A row that changes its state has spent more, and no step gives back.
StateChangeSpends ==
    [][\A e \in Events :
          /\ Spent(e) <= Spent(e)'
          /\ outbox'[e].publish_state # outbox[e].publish_state => Spent(e) < Spent(e)']_vars

\* However many publishers crash, requests time out or database statements
\* fail, a row changes its state at most 2 * Budget + 3 times: retries and
\* sweeps (store.rs:4017-4192) cannot hand an event round for ever.
THEOREM DeliveryIsFinite == Spec => []SpentBounded /\ StateChangeSpends
  <1>1. ASSUME IInv, DeadLetterAfterBudget, NEW e \in Events
        PROVE  Spent(e) \in 0..2 * Budget + 3
    <2>1. Age(outbox[e].publish_state) \in 0..3
      BY DEF Age
    <2>2. /\ claims[e] \in Nat /\ claims[e] <= Budget /\ Budget \in Nat
          /\ outbox[e].retry_count \in Nat /\ outbox[e].retry_count <= claims[e]
      BY <1>1, RowType, BudgetType DEF IInv, TypeOK, DeadLetterAfterBudget, ClaimsChargedOnce
    <2> HIDE DEF Age
    <2>3. QED
      BY <2>1, <2>2 DEF Spent
  <1>2. ASSUME IInv, IInv', [Next]_vars, NEW e \in Events
        PROVE  /\ Spent(e) <= Spent(e)'
               /\ outbox'[e].publish_state # outbox[e].publish_state => Spent(e) < Spent(e)'
    <2> DEFINE old == outbox[e].publish_state
               new == outbox'[e].publish_state
    <2>1. /\ claims[e] \in Nat /\ claims'[e] \in Nat
          /\ outbox[e].retry_count \in Nat /\ outbox'[e].retry_count \in Nat
      BY <1>2 DEF IInv, TypeOK, Row
    <2>2. /\ claims'[e] >= claims[e]
          /\ outbox'[e].retry_count >= outbox[e].retry_count
      BY <1>2, <2>1, RetriesGrow, ClaimsGrow
    <2>3. /\ old \in {"absent", "pending", "failed"} => claims[e] = outbox[e].retry_count
          /\ old \in {"processing", "published"} => claims[e] = outbox[e].retry_count + 1
          /\ new \in {"pending", "failed"} => claims'[e] = outbox'[e].retry_count
          /\ new \in {"processing", "published"} => claims'[e] = outbox'[e].retry_count + 1
      BY <1>2, <2>1 DEF IInv, ClaimsChargedOnce
    <2>4. /\ Age("absent") = 0 /\ Age("pending") = 1 /\ Age("processing") = 1
          /\ Age("published") = 2 /\ Age("failed") = 2 /\ Age("purged") = 3
      BY DEF Age
    <2>5. Age(old) \in 0..3 /\ Age(new) \in 0..3
      BY DEF Age
    <2>6. RowMoves(e)
      BY <1>2, Moves
    <2> HIDE DEF Age
    <2>7. CASE new = old
      BY <2>1, <2>2, <2>5, <2>7 DEF Spent
    <2>8. CASE \/ old = "absent" /\ new = "pending"
               \/ old \in {"published", "failed"} /\ new = "purged"
               \/ old = "processing" /\ new = "published"
      <3>1. Age(old) < Age(new)
        BY <2>4, <2>8
      <3>2. QED
        BY <2>1, <2>2, <2>5, <3>1 DEF Spent
    <2>9. CASE old = "pending" /\ new = "processing"
      <3>1. claims'[e] > claims[e] /\ Age(old) = Age(new)
        BY <2>1, <2>2, <2>3, <2>4, <2>9
      <3>2. QED
        BY <2>1, <2>2, <2>5, <3>1 DEF Spent
    <2>10. CASE old = "processing" /\ new \in {"pending", "failed"}
      <3>1. outbox'[e].retry_count > outbox[e].retry_count /\ Age(old) <= Age(new)
        BY <2>1, <2>2, <2>3, <2>4, <2>10
      <3>2. QED
        BY <2>1, <2>2, <2>5, <3>1 DEF Spent
    <2>11. Append(e) => old = "absent" /\ new = "pending"
      BY <1>2 DEF Append, IInv, TypeOK, Row
    <2>12. Purge(e) => old \in {"published", "failed"} /\ new = "purged"
      BY <1>2 DEF Purge, IInv, TypeOK, Row
    <2>13. QED
      BY <2>6, <2>7, <2>8, <2>9, <2>10, <2>11, <2>12 DEF RowMoves
  <1>3. IInv /\ DeadLetterAfterBudget => SpentBounded
    BY <1>1 DEF SpentBounded
  <1>4. IInv /\ IInv' /\ [Next]_vars
        => [\A e \in Events :
              /\ Spent(e) <= Spent(e)'
              /\ outbox'[e].publish_state # outbox[e].publish_state => Spent(e) < Spent(e)']_vars
    BY <1>2
  <1>5. QED
    BY <1>3, <1>4, Invariance, BudgetKept, PTL DEF Spec, StateChangeSpends

===============================================================================
