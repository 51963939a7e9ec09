---------------------------- MODULE EventLogProofs ----------------------------
(***************************************************************************)
(* Proofs about EventLog, for every set of event ids, payloads and         *)
(* requests, and every choice of deletions.                                *)
(***************************************************************************)
EXTENDS EventLog, TLAPS, FiniteSetTheorems

EventRow == [payload : Payloads, user : Users]

\* Before its verdict, and when refused, a request has no audit line.
AuditedOnVerdict ==
    \A r \in Requests :
        /\ request[r].stage = "accepted" => r \in audited
        /\ request[r].stage \in {"idle", "insert", "reread", "audit", "conflict"} => r \notin audited

UsageAgrees == usage = Cardinality(StoredEvents) + purged

LogInv == LogTypeOK /\ AuditedOnVerdict /\ UsageAgrees /\ AcceptedIsStored

LEMMA LogInitInv == LogInit => LogInv
<1> SUFFICES ASSUME LogInit PROVE LogInv
    OBVIOUS
<1>1. LogTypeOK
    BY DEF LogInit, LogTypeOK, Stages
<1>2. AuditedOnVerdict
    BY DEF LogInit, AuditedOnVerdict
<1>3. StoredEvents = {}
    BY DEF LogInit, StoredEvents
<1>4. UsageAgrees
    BY <1>3, FS_EmptySet DEF LogInit, UsageAgrees
<1>5. AcceptedIsStored
    BY DEF LogInit, AcceptedIsStored
<1> QED
    BY <1>1, <1>2, <1>4, <1>5 DEF LogInv

\* What a change of one request's stage leaves as it is.
LEMMA StageMoves ==
    ASSUME LogTypeOK, NEW r \in Requests, NEW s \in Stages, Stage(r, s)
    PROVE  /\ request' \in [Requests -> [stage : Stages, event : EventIds,
                                         payload : Payloads, user : Users]]
           /\ request'[r].stage = s
           /\ \A q \in Requests : /\ q # r => request'[q].stage = request[q].stage
                                  /\ request'[q].event = request[q].event
                                  /\ request'[q].payload = request[q].payload
BY DEF Stage, LogTypeOK

LEMMA VerdictMoves ==
    ASSUME LogTypeOK, NEW r \in Requests, Verdict(r)
    PROVE  \E s \in {"audit", "conflict"} :
              /\ Stage(r, s)
              /\ held' \subseteq held \union {r}
              /\ held' # held => Same(request[r].event, request[r].payload)
BY DEF Verdict

\* A step that changes neither rows nor lines, only a stage and what is held.
LEMMA QuietStep ==
    ASSUME LogInv, NEW r \in Requests, NEW s \in Stages \ {"idle"}, Stage(r, s),
           UNCHANGED <<event, audited, usage, purged>>,
           held' \subseteq held \union {r},
           r \in held' => r \in held \/ Same(request[r].event, request[r].payload),
           s \in {"insert", "reread", "audit", "conflict"} => r \notin audited,
           s = "accepted" => r \in audited
    PROVE  LogInv'
<1>1. LogTypeOK'
    <2>1. request' \in [Requests -> [stage : Stages, event : EventIds,
                                    payload : Payloads, user : Users]]
        BY StageMoves DEF LogInv
    <2>2. held' \subseteq Requests
        BY DEF LogInv, LogTypeOK
    <2> QED
        BY <2>1, <2>2 DEF LogInv, LogTypeOK
<1>2. AuditedOnVerdict'
    <2> SUFFICES ASSUME NEW q \in Requests
                 PROVE  /\ request'[q].stage = "accepted" => q \in audited
                        /\ request'[q].stage \in {"idle", "insert", "reread", "audit", "conflict"} =>
                              q \notin audited
        BY DEF AuditedOnVerdict
    <2>1. CASE q = r
        <3>1. request'[q].stage = s
            BY <2>1, StageMoves DEF LogInv
        <3> QED
            BY <2>1, <3>1
    <2>2. CASE q # r
        <3>1. request'[q].stage = request[q].stage
            BY <2>2, StageMoves DEF LogInv
        <3> QED
            BY <3>1 DEF LogInv, AuditedOnVerdict
    <2> QED
        BY <2>1, <2>2
<1>3. UsageAgrees'
    BY DEF LogInv, UsageAgrees, StoredEvents
<1>4. AcceptedIsStored'
    <2> SUFFICES ASSUME NEW q \in held' PROVE Same(request[q].event, request[q].payload)'
        BY DEF AcceptedIsStored
    <2>1. q \in Requests
        BY DEF LogInv, LogTypeOK
    <2>2. Same(request[q].event, request[q].payload)
        BY DEF LogInv, AcceptedIsStored
    <2> QED
        BY <2>1, <2>2, StageMoves DEF Same, LogInv
<1> QED
    BY <1>1, <1>2, <1>3, <1>4 DEF LogInv

LEMMA ReadStep ==
    ASSUME LogInv, NEW r \in Requests, AppendRead(r) \/ AppendReread(r)
    PROVE  LogInv'
<1>1. r \notin audited
    BY DEF LogInv, AuditedOnVerdict, AppendRead, AppendReread
<1>2. CASE Stage(r, "insert") /\ UNCHANGED <<event, audited, usage, purged, held>>
    BY <1>1, <1>2, QuietStep DEF Stages
<1>3. CASE Verdict(r) /\ UNCHANGED <<event, audited, usage, purged>>
    <2>1. PICK s \in {"audit", "conflict"} :
              /\ Stage(r, s)
              /\ held' \subseteq held \union {r}
              /\ held' # held => Same(request[r].event, request[r].payload)
        BY <1>3, VerdictMoves DEF LogInv
    <2> QED
        BY <1>1, <1>3, <2>1, QuietStep DEF Stages
<1> QED
    BY <1>2, <1>3 DEF AppendRead, AppendReread

\* The insertion adds a row, its audit line and one to the count.
LEMMA InsertStep ==
    ASSUME LogInv, NEW r \in Requests, AppendInsert(r)
    PROVE  LogInv'
<1>1. r \notin audited
    BY DEF LogInv, AuditedOnVerdict, AppendInsert
<1>2. CASE Stage(r, "reread") /\ UNCHANGED <<event, audited, usage, purged, held>>
    BY <1>1, <1>2, QuietStep DEF Stages
<1>3. CASE event[request[r].event] = None
    <2> DEFINE e == request[r].event
               row == [payload |-> request[r].payload, user |-> request[r].user]
    <2>1. /\ e \in EventIds /\ row \in EventRow /\ row # None
          /\ event \in [EventIds -> EventRow \union {None}]
        BY EventLogAssumption DEF LogInv, LogTypeOK, EventRow
    <2>2. PICK s \in {"accepted", "failed"} : Stage(r, s)
        BY <1>3 DEF AppendInsert, Answered
    <2>3. /\ event' = [event EXCEPT ![e] = row]
          /\ audited' = audited \union {r} /\ usage' = usage + 1
          /\ held' = held \union {r} /\ purged' = purged
        BY <1>3 DEF AppendInsert
    <2>4. LogTypeOK'
        BY <2>1, <2>2, <2>3, StageMoves DEF LogInv, LogTypeOK, EventRow, Stages
    <2>5. AuditedOnVerdict'
        BY <2>2, <2>3, StageMoves DEF LogInv, AuditedOnVerdict, Stages
    <2>6. StoredEvents' = StoredEvents \union {e} /\ e \notin StoredEvents
        BY <1>3, <2>1, <2>3 DEF StoredEvents
    <2>7. IsFiniteSet(StoredEvents)
        BY EventLogAssumption, FS_Subset DEF StoredEvents
    <2>8. Cardinality(StoredEvents') = Cardinality(StoredEvents) + 1
        BY <2>6, <2>7, FS_AddElement
    <2>9. UsageAgrees'
        BY <2>3, <2>7, <2>8, FS_CardinalityType DEF LogInv, LogTypeOK, UsageAgrees
    <2>10. AcceptedIsStored'
        <3> SUFFICES ASSUME NEW q \in held' PROVE Same(request[q].event, request[q].payload)'
            BY DEF AcceptedIsStored
        <3>1. q \in Requests
            BY <2>3 DEF LogInv, LogTypeOK
        <3>2. request'[q].event = request[q].event /\ request'[q].payload = request[q].payload
            BY <2>2, <3>1, StageMoves DEF LogInv, Stages
        <3>3. CASE q = r
            BY <2>1, <2>3, <3>2, <3>3 DEF Same
        <3>4. CASE q # r
            <4>1. Same(request[q].event, request[q].payload)
                BY <2>3, <3>4 DEF LogInv, AcceptedIsStored
            <4>2. request[q].event # e
                BY <1>3, <4>1 DEF Same
            <4> QED
                BY <2>1, <2>3, <3>1, <3>2, <4>1, <4>2 DEF Same, LogInv, LogTypeOK
        <3> QED
            BY <3>3, <3>4
    <2> QED
        BY <2>4, <2>5, <2>9, <2>10 DEF LogInv
<1> QED
    BY <1>2, <1>3 DEF AppendInsert

LEMMA AuditStep ==
    ASSUME LogInv, NEW r \in Requests, AppendAudit(r)
    PROVE  LogInv'
<1>1. PICK s \in {"accepted", "failed"} : Stage(r, s)
    BY DEF AppendAudit, Answered
<1>2. audited' = audited \union {r} /\ UNCHANGED <<event, usage, purged, held>>
    BY DEF AppendAudit
<1>3. LogTypeOK'
    BY <1>1, <1>2, StageMoves DEF LogInv, LogTypeOK, Stages
<1>4. AuditedOnVerdict'
    BY <1>1, <1>2, StageMoves DEF LogInv, AuditedOnVerdict, Stages
<1>5. UsageAgrees'
    BY <1>2 DEF LogInv, UsageAgrees, StoredEvents
<1>6. AcceptedIsStored'
    <2> SUFFICES ASSUME NEW q \in held' PROVE Same(request[q].event, request[q].payload)'
        BY DEF AcceptedIsStored
    <2>1. q \in Requests /\ Same(request[q].event, request[q].payload)
        BY <1>2 DEF LogInv, LogTypeOK, AcceptedIsStored
    <2> QED
        BY <1>1, <1>2, <2>1, StageMoves DEF Same, LogInv, Stages
<1> QED
    BY <1>3, <1>4, <1>5, <1>6 DEF LogInv

LEMMA FailStep ==
    ASSUME LogInv, NEW r \in Requests, AppendFails(r)
    PROVE  LogInv'
<1>1. Stage(r, "failed") /\ UNCHANGED <<event, audited, usage, purged, held>>
    BY DEF AppendFails
<1> QED
    BY <1>1, QuietStep DEF Stages

\* A deletion counts the rows it removes.
LEMMA DeleteStep ==
    ASSUME LogInv, NEW S, DeleteEvents(S)
    PROVE  LogInv'
<1>1. /\ event' = [e \in EventIds |-> IF e \in S THEN None ELSE event[e]]
      /\ purged' = purged + Cardinality(StoredEvents \intersect S)
      /\ held' = {r \in held : request[r].event \notin S}
      /\ UNCHANGED <<request, audited, usage>>
    BY DEF DeleteEvents
<1>2. IsFiniteSet(StoredEvents)
    BY EventLogAssumption, FS_Subset DEF StoredEvents
<1>3. /\ IsFiniteSet(StoredEvents \intersect S)
      /\ Cardinality(StoredEvents \intersect S) \in Nat
    BY <1>2, FS_Subset, FS_CardinalityType
<1>4. LogTypeOK'
    BY <1>1, <1>3 DEF LogInv, LogTypeOK
<1>5. AuditedOnVerdict'
    BY <1>1 DEF LogInv, AuditedOnVerdict
<1>6. StoredEvents' = StoredEvents \ S
    BY <1>1 DEF StoredEvents
<1>7. Cardinality(StoredEvents \ S) = Cardinality(StoredEvents) - Cardinality(StoredEvents \intersect S)
    BY <1>2, FS_Difference
<1>8. UsageAgrees'
    BY <1>1, <1>2, <1>3, <1>6, <1>7, FS_CardinalityType DEF LogInv, LogTypeOK, UsageAgrees
<1>9. AcceptedIsStored'
    <2> SUFFICES ASSUME NEW q \in held' PROVE Same(request[q].event, request[q].payload)'
        BY DEF AcceptedIsStored
    <2>1. q \in held /\ request[q].event \notin S /\ request[q].event \in EventIds
        BY <1>1 DEF LogInv, LogTypeOK
    <2> QED
        BY <1>1, <2>1 DEF Same, LogInv, AcceptedIsStored
<1> QED
    BY <1>4, <1>5, <1>8, <1>9 DEF LogInv

LEMMA LogNextInv == LogInv /\ [LogNext]_logVars => LogInv'
<1> SUFFICES ASSUME LogInv, [LogNext]_logVars PROVE LogInv'
    OBVIOUS
<1>1. CASE Append
    BY <1>1, ReadStep, InsertStep, AuditStep, FailStep DEF Append
<1>2. CASE \E S \in SUBSET EventIds : DeleteEvents(S)
    BY <1>2, DeleteStep
<1>3. CASE UNCHANGED logVars
    BY <1>3 DEF logVars, LogInv, LogTypeOK, AuditedOnVerdict, UsageAgrees, AcceptedIsStored,
                Same, StoredEvents
<1> QED
    BY <1>1, <1>2, <1>3 DEF LogNext

\* The inductive invariant of the log.
THEOREM LogInvariant == LogSpec => []LogInv
BY LogInitInv, LogNextInv, PTL DEF LogSpec

\* Audit lines follow the verdicts, and every row is counted once.
THEOREM LedgerAlwaysAgrees == LogSpec => []LedgerAgrees
<1>1. LogInv => LedgerAgrees
    BY DEF LogInv, AuditedOnVerdict, UsageAgrees, LedgerAgrees
<1> QED
    BY <1>1, LogInvariant, PTL

\* Requests are accepted for what is stored, whoever wins the race.
THEOREM AcceptedAlwaysStored == LogSpec => []AcceptedIsStored
<1>1. LogInv => AcceptedIsStored
    BY DEF LogInv
<1> QED
    BY <1>1, LogInvariant, PTL

===============================================================================
