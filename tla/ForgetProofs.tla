----------------------------- MODULE ForgetProofs -----------------------------
(***************************************************************************)
(* Proofs about Forget, for every set of rows and requests, every page     *)
(* size and every scope.                                                   *)
(*                                                                         *)
(* A sweep is complete because at each of its steps what is left of the    *)
(* rows it was asked to remove lies on its page or past its cursor         *)
(* (TodoInv), and because nothing comes back: a row that was in scope when *)
(* the request was accepted is still in scope or gone (SeenInv).           *)
(***************************************************************************)
EXTENDS Forget, EventLogProofs

RecordRow == [status : {"none", "active", "deleted", "gone"}, user : Users, hit : BOOLEAN]
CandidateRow == [state : {"none", "pending", "approved", "rejected"},
                 user : Users, event : EventIds \union {None}]
Pages == (SUBSET RecordIds) \union (SUBSET Candidates) \union (SUBSET EventIds)
SweepRow == [stage : Sweep, last : Nat, more : BOOLEAN, page : Pages]

\* What is left of the rows that request f was accepted for.
LeftRecords(f) == seen[f].records \intersect Stored
LeftActive(f) == seen[f].records \intersect Active
LeftPending(f) == {c \in seen[f].candidates : candidate[c].state = "pending"}

\* They were in scope, and are so still unless they are gone.
SeenKept(f) ==
    /\ \A m \in seen[f].records : record[m].status # "none"
    /\ LeftRecords(f) \subseteq RecordsInScope
    /\ seen[f].events \subseteq EventsInScope
    /\ \A c \in seen[f].candidates : candidate[c].state # "none"
    /\ LeftPending(f) \subseteq PendingInScope

SeenInv == \A f \in Forgets : SeenKept(f)

\* The rows of S are on the page of f, or past its cursor and its page.
Ahead(f, S) ==
    \A n \in S : \/ n \in forget[f].page
                 \/ forget[f].last < n /\ \A k \in forget[f].page : k < n

Paged == scope \in {"space", "user", "query"}

RecordsTodo(f) ==
    /\ forget[f].stage = "records" =>
          /\ forget[f].page \subseteq RecordIds
          /\ Paged => /\ Ahead(f, LeftRecords(f))
                      /\ \/ forget[f].page = {}
                         \/ forget[f].more
                         \/ LeftRecords(f) \subseteq forget[f].page
          /\ scope = "memory" => LeftActive(f) \subseteq forget[f].page
          /\ scope = "all" => \A m \in LeftActive(f) : forget[f].last < m
    /\ forget[f].stage \notin {"idle", "records", "dead"} =>
          /\ Paged => LeftRecords(f) = {}
          /\ ~Paged => LeftActive(f) = {}

CandidatesTodo(f) ==
    /\ forget[f].stage = "candidates" =>
          scope = "user" /\ forget[f].page \subseteq Candidates /\ Ahead(f, LeftPending(f))
    /\ forget[f].stage \in {"events", "sources", "delete", "report", "done"} =>
          (scope = "user" => LeftPending(f) = {})

EventsTodo(f) ==
    /\ forget[f].stage \in {"events", "sources", "delete"} => scope \in {"space", "user"}
    /\ forget[f].stage \in {"sources", "delete"} => forget[f].page \subseteq EventIds
    /\ forget[f].stage \in {"report", "done"} =>
          (scope \in {"space", "user"} => seen[f].events = {})

Reported(f) ==
    /\ forget[f].stage = "report" => scope # "all"
    /\ f \in succeeded => forget[f].stage = "done"
    /\ forget[f].stage # "idle" /\ scope # "all" => f \in running

TodoInv(f) == RecordsTodo(f) /\ CandidatesTodo(f) /\ EventsTodo(f) /\ Reported(f)

Inv ==
    /\ LogInv /\ TypeOK /\ SeenInv
    /\ \A f \in Forgets : TodoInv(f)
    /\ InterruptedIsTraced

-------------------------------------------------------------------------------
(* The steps of Forget are steps of EventLog.                              *)

LEMMA StepOfLog == Inv /\ [Next]_vars => [LogNext]_logVars
<1> SUFFICES ASSUME Inv, [Next]_vars PROVE LogNext \/ UNCHANGED logVars
    OBVIOUS
<1>1. CASE Requested
    BY <1>1 DEF Requested, LogNext
<1>2. ASSUME NEW f \in Forgets, EventDelete(f) PROVE LogNext \/ UNCHANGED logVars
    <2>1. CASE UNCHANGED logVars
        BY <2>1
    <2>2. CASE DeleteEvents(forget[f].page)
        <3>1. forget[f].page \in SUBSET EventIds
            BY <1>2 DEF Inv, TodoInv, EventsTodo, EventDelete
        <3> QED
            BY <2>2, <3>1 DEF LogNext
    <2> QED
        BY <1>2, <2>1, <2>2 DEF EventDelete
<1>3. CASE UNCHANGED vars
    BY <1>3 DEF vars
<1>4. CASE \/ \E m \in RecordIds, u \in Authors, h \in Hits : CreateMemory(m, u, h)
           \/ \E m \in RecordIds, h \in Hits : UpdateMemory(m, h)
           \/ \E m \in RecordIds : DeleteMemory(m)
           \/ \E c \in Candidates, u \in Authors, e \in EventIds \union {None} : Propose(c, u, e)
           \/ \E c \in Candidates, m \in RecordIds, u \in Authors, h \in Hits : Approve(c, m, u, h)
    BY <1>4 DEF CreateMemory, UpdateMemory, DeleteMemory, Propose, Approve
<1>5. CASE \/ \E f \in Forgets, T \in Targets : ForgetStart(f, T)
           \/ \E f \in Forgets :
                \/ ForgetPage(f) \/ ForgetRecord(f) \/ ForgetTarget(f) \/ DeleteAllBatch(f)
                \/ CandidatePage(f) \/ CandidateReject(f)
                \/ EventPage(f) \/ SourceDelete(f) \/ ForgetReport(f) \/ ForgetFails(f)
    BY <1>5 DEF ForgetStart, ForgetPage, ForgetRecord, ForgetTarget, DeleteAllBatch, CandidatePage,
                CandidateReject, EventPage, SourceDelete, ForgetReport, ForgetFails
<1> QED
    BY <1>1, <1>2, <1>3, <1>4, <1>5 DEF Next

-------------------------------------------------------------------------------
(* Types.                                                                  *)

LEMMA AppendKeeps ==
    ASSUME LogTypeOK, Append
    PROVE  \A e \in EventIds : event[e] # None => event'[e] = event[e]
<1>1. ASSUME NEW r \in Requests, AppendInsert(r)
      PROVE  \A e \in EventIds : event[e] # None => event'[e] = event[e]
    BY <1>1 DEF AppendInsert, LogTypeOK
<1> QED
    BY <1>1 DEF Append, AppendRead, AppendReread, AppendAudit, AppendFails

\* The type of all but the log.
StoreTyped ==
    /\ scope \in Scopes
    /\ record \in [RecordIds -> RecordRow]
    /\ candidate \in [Candidates -> CandidateRow]
    /\ sources \subseteq Stored \X StoredEvents

SweepTyped ==
    /\ forget \in [Forgets -> SweepRow]
    /\ running \subseteq Forgets
    /\ succeeded \subseteq Forgets
    /\ seen \in [Forgets -> [records : SUBSET RecordIds, events : SUBSET EventIds,
                             candidates : SUBSET Candidates]]

LEMMA TypeParts == TypeOK <=> LogTypeOK /\ StoreTyped /\ SweepTyped
BY DEF TypeOK, StoreTyped, SweepTyped, RecordRow, CandidateRow, SweepRow, Pages

LEMMA PagesAre ==
    \A S : S \in SUBSET RecordIds \/ S \in SUBSET Candidates \/ S \in SUBSET EventIds => S \in Pages
BY DEF Pages

LEMMA GotoTyped ==
    ASSUME SweepTyped, NEW f \in Forgets, NEW s \in Sweep, Goto(f, s)
    PROVE  forget' \in [Forgets -> SweepRow]
<1>1. [stage |-> s, last |-> 0, page |-> {}, more |-> FALSE] \in SweepRow
    <2>1. {} \in SUBSET RecordIds
        OBVIOUS
    <2>2. {} \in Pages
        BY <2>1 DEF Pages
    <2> QED
        BY <2>2 DEF SweepRow
<1> QED
    BY <1>1 DEF Goto, SweepTyped

\* A sweep row with two of its columns replaced, as the steps replace them.
LEMMA PageAndMore ==
    ASSUME SweepTyped, NEW f \in Forgets, NEW p \in Pages, NEW b \in BOOLEAN,
           forget' = [forget EXCEPT ![f].page = p, ![f].more = b]
    PROVE  forget' \in [Forgets -> SweepRow]
<1>1. [[forget[f] EXCEPT !.page = p] EXCEPT !.more = b] \in SweepRow
    BY DEF SweepTyped, SweepRow
<1> QED
    BY <1>1 DEF SweepTyped

LEMMA PageAndLast ==
    ASSUME SweepTyped, NEW f \in Forgets, NEW p \in Pages, NEW n \in Nat,
           forget' = [forget EXCEPT ![f].page = p, ![f].last = n]
    PROVE  forget' \in [Forgets -> SweepRow]
<1>1. [[forget[f] EXCEPT !.page = p] EXCEPT !.last = n] \in SweepRow
    BY DEF SweepTyped, SweepRow
<1> QED
    BY <1>1 DEF SweepTyped

LEMMA StageAndPage ==
    ASSUME SweepTyped, NEW f \in Forgets, NEW s \in Sweep, NEW p \in Pages,
           forget' = [forget EXCEPT ![f].stage = s, ![f].page = p]
    PROVE  forget' \in [Forgets -> SweepRow]
<1>1. [[forget[f] EXCEPT !.stage = s] EXCEPT !.page = p] \in SweepRow
    BY DEF SweepTyped, SweepRow
<1> QED
    BY <1>1 DEF SweepTyped

\* Sources stay valid when no row that they cite goes.
LEMMA SourcesStay ==
    ASSUME StoreTyped, sources' \subseteq sources,
           \A s \in sources' : s[1] \in Stored' /\ s[2] \in StoredEvents'
    PROVE  sources' \subseteq Stored' \X StoredEvents'
BY DEF StoreTyped

LEMMA HardDeleteTyped ==
    ASSUME StoreTyped, NEW m \in RecordIds, HardDelete(m), UNCHANGED <<scope, candidate, event>>
    PROVE  StoreTyped'
<1>1. record' \in [RecordIds -> RecordRow]
    BY DEF HardDelete, StoreTyped, RecordRow, Stored
<1>2. StoredEvents' = StoredEvents
    BY DEF StoredEvents
<1>3. \A n \in Stored : n # m => n \in Stored'
    BY DEF HardDelete, StoreTyped, Stored
<1>4. sources' \subseteq sources /\ \A s \in sources' : s[1] # m
    BY DEF HardDelete
<1>5. \A s \in sources' : s[1] \in Stored' /\ s[2] \in StoredEvents'
    BY <1>2, <1>3, <1>4 DEF StoreTyped
<1>6. sources' \subseteq Stored' \X StoredEvents'
    BY <1>4, <1>5, SourcesStay
<1> QED
    BY <1>1, <1>6 DEF StoreTyped

LEMMA UseTyped ==
    ASSUME LogTypeOK, StoreTyped, SweepTyped,
           \/ \E m \in RecordIds, u \in Authors, h \in Hits : CreateMemory(m, u, h)
           \/ \E m \in RecordIds, h \in Hits : UpdateMemory(m, h)
           \/ \E m \in RecordIds : DeleteMemory(m)
           \/ \E c \in Candidates, u \in Authors, e \in EventIds \union {None} : Propose(c, u, e)
           \/ \E c \in Candidates, m \in RecordIds, u \in Authors, h \in Hits : Approve(c, m, u, h)
           \/ Requested
    PROVE  StoreTyped' /\ SweepTyped'
<1>0. Authors \subseteq Users /\ Hits \subseteq BOOLEAN
    BY ForgetAssumption DEF Authors, Hits
<1>1. ASSUME NEW m \in RecordIds, NEW u \in Authors, NEW h \in Hits, CreateMemory(m, u, h)
      PROVE  StoreTyped' /\ SweepTyped'
    <2>1. [status |-> "active", user |-> u, hit |-> h] \in RecordRow
        BY <1>0 DEF RecordRow
    <2>2. record' \in [RecordIds -> RecordRow] /\ Stored \subseteq Stored'
        BY <1>1, <2>1 DEF CreateMemory, StoreTyped, Stored
    <2> QED
        BY <1>1, <2>2 DEF CreateMemory, StoreTyped, SweepTyped, StoredEvents, logVars, sweepVars
<1>2. ASSUME NEW m \in RecordIds, NEW h \in Hits, UpdateMemory(m, h)
      PROVE  StoreTyped' /\ SweepTyped'
    <2>1. record' \in [RecordIds -> RecordRow] /\ Stored \subseteq Stored'
        BY <1>0, <1>2 DEF UpdateMemory, StoreTyped, Stored, RecordRow
    <2>2. seen' \in [Forgets -> [records : SUBSET RecordIds, events : SUBSET EventIds,
                                 candidates : SUBSET Candidates]]
        BY <1>2 DEF UpdateMemory, SweepTyped
    <2> QED
        BY <1>2, <2>1, <2>2 DEF UpdateMemory, StoreTyped, SweepTyped, StoredEvents, logVars
<1>3. ASSUME NEW m \in RecordIds, DeleteMemory(m)
      PROVE  StoreTyped' /\ SweepTyped'
    <2>1. record' \in [RecordIds -> RecordRow] /\ Stored \subseteq Stored'
        BY <1>3 DEF DeleteMemory, StoreTyped, Stored, RecordRow
    <2> QED
        BY <1>3, <2>1 DEF DeleteMemory, StoreTyped, SweepTyped, StoredEvents, logVars, sweepVars
<1>4. ASSUME NEW c \in Candidates, NEW u \in Authors, NEW e \in EventIds \union {None},
             Propose(c, u, e)
      PROVE  StoreTyped' /\ SweepTyped'
    <2>1. [state |-> "pending", user |-> u, event |-> e] \in CandidateRow
        BY <1>0 DEF CandidateRow
    <2>2. candidate' \in [Candidates -> CandidateRow]
        BY <1>4, <2>1 DEF Propose, StoreTyped
    <2> QED
        BY <1>4, <2>2 DEF Propose, StoreTyped, SweepTyped, Stored, StoredEvents, logVars, sweepVars
<1>5. ASSUME NEW c \in Candidates, NEW m \in RecordIds, NEW u \in Authors, NEW h \in Hits,
             Approve(c, m, u, h)
      PROVE  StoreTyped' /\ SweepTyped'
    <2>1. [status |-> "active", user |-> u, hit |-> h] \in RecordRow
        BY <1>0 DEF RecordRow
    <2>2. /\ record' \in [RecordIds -> RecordRow] /\ Stored \subseteq Stored' /\ m \in Stored'
        BY <1>5, <2>1 DEF Approve, StoreTyped, Stored
    <2>3. candidate' \in [Candidates -> CandidateRow]
        BY <1>5 DEF Approve, StoreTyped, CandidateRow
    <2>4. StoredEvents' = StoredEvents
        BY <1>5 DEF Approve, StoredEvents, logVars
    <2>5. sources' \subseteq Stored' \X StoredEvents'
        <3>1. sources \subseteq Stored' \X StoredEvents'
            BY <2>2, <2>4 DEF StoreTyped
        <3>2. CASE candidate[c].event = None
            BY <1>5, <3>1, <3>2 DEF Approve
        <3>3. CASE candidate[c].event # None
            BY <1>5, <2>2, <2>4, <3>1, <3>3 DEF Approve
        <3> QED
            BY <3>2, <3>3
    <2> QED
        BY <1>5, <2>2, <2>3, <2>5 DEF Approve, StoreTyped, SweepTyped, sweepVars
<1>6. CASE Requested
    <2>1. StoredEvents \subseteq StoredEvents'
        BY <1>6, AppendKeeps DEF Requested, StoredEvents
    <2> QED
        BY <1>6, <2>1 DEF Requested, StoreTyped, SweepTyped, Stored, storeVars, sweepVars
<1> QED
    BY <1>1, <1>2, <1>3, <1>4, <1>5, <1>6

LEMMA SweepStepTyped ==
    ASSUME LogTypeOK, StoreTyped, SweepTyped, NEW f \in Forgets,
           \/ ForgetPage(f) \/ ForgetRecord(f) \/ ForgetTarget(f) \/ DeleteAllBatch(f)
           \/ CandidatePage(f) \/ CandidateReject(f)
           \/ EventPage(f) \/ SourceDelete(f) \/ EventDelete(f)
           \/ ForgetReport(f) \/ ForgetFails(f)
    PROVE  StoreTyped' /\ SweepTyped'
<1>0. /\ RecordsInScope \in SUBSET RecordIds /\ PendingInScope \in SUBSET Candidates
      /\ EventsInScope \in SUBSET EventIds /\ Active \in SUBSET RecordIds
      /\ RecordIds \in SUBSET Nat /\ Candidates \in SUBSET Nat
      /\ AfterRecords \in Sweep
    BY ForgetAssumption DEF RecordsInScope, PendingInScope, EventsInScope, Stored, StoredEvents,
       Active, AfterRecords, Sweep
<1>a. ASSUME forget' \in [Forgets -> SweepRow],
             UNCHANGED <<logVars, scope, storeVars, running, seen>>,
             succeeded' \subseteq succeeded \union {f}
      PROVE  StoreTyped' /\ SweepTyped'
    BY <1>a DEF StoreTyped, SweepTyped, Stored, StoredEvents, logVars, storeVars
<1>1. CASE ForgetPage(f)
    <2> DEFINE rest == {m \in RecordsInScope : m > forget[f].last}
    <2>1. FirstPage(rest) \in Pages
        <3>1. FirstPage(rest) \in SUBSET RecordIds
            BY <1>0 DEF FirstPage
        <3> QED
            BY <3>1, PagesAre
    <2>2. CASE Goto(f, AfterRecords)
        BY <1>0, <1>1, <1>a, <2>2, GotoTyped DEF ForgetPage
    <2>3. CASE \E b \in BOOLEAN : forget' = [forget EXCEPT ![f].page = FirstPage(rest), ![f].more = b]
        <3>1. PICK b \in BOOLEAN : forget' = [forget EXCEPT ![f].page = FirstPage(rest), ![f].more = b]
            BY <2>3
        <3>2. forget' \in [Forgets -> SweepRow]
            BY <2>1, <3>1, PageAndMore
        <3> QED
            BY <1>1, <1>a, <3>2 DEF ForgetPage
    <2> QED
        BY <1>1, <2>2, <2>3 DEF ForgetPage
<1>2. CASE ForgetRecord(f)
    <2>1. PICK m \in RecordIds :
              /\ HardDelete(m)
              /\ IF forget[f].page = {m} /\ ~forget[f].more THEN Goto(f, AfterRecords)
                 ELSE forget' = [forget EXCEPT ![f].page = @ \ {m}, ![f].last = m]
        BY <1>2 DEF ForgetRecord
    <2>2. StoreTyped'
        BY <1>2, <2>1, HardDeleteTyped DEF ForgetRecord, logVars
    <2>3. forget' \in [Forgets -> SweepRow]
        <3>1. CASE Goto(f, AfterRecords)
            BY <1>0, <3>1, GotoTyped
        <3>2. CASE forget' = [forget EXCEPT ![f].page = @ \ {m}, ![f].last = m]
            <4>1. m \in Nat
                BY <1>0
            <4>2. forget[f].page \in Pages
                BY DEF SweepTyped, SweepRow
            <4>3. forget[f].page \ {m} \in Pages
                BY <4>2 DEF Pages
            <4> QED
                BY <3>2, <4>1, <4>3 DEF SweepTyped, SweepRow
        <3> QED
            BY <2>1, <3>1, <3>2
    <2> QED
        BY <1>2, <2>2, <2>3 DEF ForgetRecord, SweepTyped
<1>3. CASE ForgetTarget(f)
    <2>1. CASE Goto(f, AfterRecords) /\ UNCHANGED <<record, sources>>
        <3>1. forget' \in [Forgets -> SweepRow]
            BY <1>0, <2>1, GotoTyped
        <3> QED
            BY <1>3, <1>a, <2>1, <3>1 DEF ForgetTarget, storeVars
    <2>2. ASSUME NEW m \in forget[f].page,
                 IF m \in Active THEN HardDelete(m) ELSE UNCHANGED <<record, sources>>,
                 forget' = [forget EXCEPT ![f].page = @ \ {m}]
          PROVE  StoreTyped' /\ SweepTyped'
        <3>1. forget[f].page \ {m} \in Pages
            <4>1. forget[f].page \in Pages
                BY DEF SweepTyped, SweepRow
            <4> QED
                BY <4>1 DEF Pages
        <3>2. forget' \in [Forgets -> SweepRow]
            BY <2>2, <3>1 DEF SweepTyped, SweepRow
        <3>3. CASE UNCHANGED <<record, sources>>
            BY <1>3, <1>a, <3>2, <3>3 DEF ForgetTarget, storeVars
        <3>4. CASE m \in Active /\ HardDelete(m)
            <4>1. StoreTyped'
                BY <1>0, <1>3, <3>4, HardDeleteTyped DEF ForgetTarget, logVars
            <4> QED
                BY <1>3, <3>2, <4>1 DEF ForgetTarget, SweepTyped
        <3> QED
            BY <2>2, <3>3, <3>4
    <2> QED
        BY <1>3, <2>1, <2>2 DEF ForgetTarget
<1>4. CASE DeleteAllBatch(f)
    <2> DEFINE page == FirstPage({m \in Active : m > forget[f].last})
    <2>1. CASE Goto(f, "done") /\ UNCHANGED record
        <3>1. forget' \in [Forgets -> SweepRow]
            BY <2>1, GotoTyped DEF Sweep
        <3> QED
            BY <1>4, <1>a, <2>1, <3>1 DEF DeleteAllBatch, storeVars
    <2>2. CASE /\ record' = [m \in RecordIds |->
                               IF m \in page THEN [record[m] EXCEPT !.status = "deleted"]
                               ELSE record[m]]
               /\ \E n \in RecordIds : forget' = [forget EXCEPT ![f].last = n]
        <3>1. page \subseteq Active
            BY DEF FirstPage
        <3>2. record' \in [RecordIds -> RecordRow]
            BY <2>2 DEF StoreTyped, RecordRow
        <3>3. Stored \subseteq Stored'
            BY <2>2 DEF StoreTyped, Stored, RecordRow
        <3>4. forget' \in [Forgets -> SweepRow]
            BY <1>0, <2>2 DEF SweepTyped, SweepRow
        <3>5. /\ UNCHANGED <<scope, candidate, sources, running, succeeded, seen>>
              /\ StoredEvents' = StoredEvents
            BY <1>4 DEF DeleteAllBatch, StoredEvents, logVars
        <3>6. StoreTyped'
            BY <3>2, <3>3, <3>5 DEF StoreTyped
        <3> QED
            BY <3>4, <3>5, <3>6 DEF SweepTyped
    <2> QED
        BY <1>4, <2>1, <2>2 DEF DeleteAllBatch
<1>5. CASE CandidatePage(f)
    <2> DEFINE rest == {c \in PendingInScope : c > forget[f].last}
    <2>1. FirstPage(rest) \in Pages
        <3>1. FirstPage(rest) \in SUBSET Candidates
            BY <1>0 DEF FirstPage
        <3> QED
            BY <3>1, PagesAre
    <2>2. CASE Goto(f, "events")
        BY <1>5, <1>a, <2>2, GotoTyped DEF CandidatePage, Sweep
    <2>3. CASE forget' = [forget EXCEPT ![f].page = FirstPage(rest)]
        <3>1. forget' \in [Forgets -> SweepRow]
            BY <2>1, <2>3 DEF SweepTyped, SweepRow
        <3> QED
            BY <1>5, <1>a, <3>1 DEF CandidatePage
    <2> QED
        BY <1>5, <2>2, <2>3 DEF CandidatePage
<1>6. CASE CandidateReject(f)
    <2>1. PICK n \in Candidates : forget' = [forget EXCEPT ![f].page = {}, ![f].last = n]
        BY <1>6 DEF CandidateReject
    <2>2. {} \in Pages /\ n \in Nat
        <3>1. {} \in SUBSET RecordIds
            OBVIOUS
        <3> QED
            BY <1>0, <3>1 DEF Pages
    <2>3. forget' \in [Forgets -> SweepRow]
        BY <2>1, <2>2, PageAndLast
    <2>4. candidate' \in [Candidates -> CandidateRow]
        BY <1>6 DEF CandidateReject, StoreTyped, CandidateRow
    <2> QED
        BY <1>6, <2>3, <2>4 DEF CandidateReject, StoreTyped, SweepTyped, Stored, StoredEvents, logVars
<1>7. CASE EventPage(f)
    <2>1. CASE Goto(f, "report")
        BY <1>7, <1>a, <2>1, GotoTyped DEF EventPage, Sweep
    <2>2. ASSUME NEW S \in SUBSET EventsInScope,
                 forget' = [forget EXCEPT ![f].stage = "sources", ![f].page = S]
          PROVE  StoreTyped' /\ SweepTyped'
        <3>1. S \in Pages
            <4>1. S \in SUBSET EventIds
                BY <1>0
            <4> QED
                BY <4>1, PagesAre
        <3>2. "sources" \in Sweep
            BY DEF Sweep
        <3>3. forget' \in [Forgets -> SweepRow]
            BY <2>2, <3>1, <3>2, StageAndPage
        <3> QED
            BY <1>7, <1>a, <3>3 DEF EventPage
    <2> QED
        BY <1>7, <2>1, <2>2 DEF EventPage
<1>8. CASE SourceDelete(f)
    <2>1. forget' \in [Forgets -> SweepRow]
        BY <1>8 DEF SourceDelete, SweepTyped, SweepRow, Sweep
    <2>2. sources' \subseteq sources
        BY <1>8 DEF SourceDelete
    <2> QED
        BY <1>8, <2>1, <2>2 DEF SourceDelete, StoreTyped, SweepTyped, Stored, StoredEvents, logVars
<1>9. CASE EventDelete(f)
    <2>1. CASE Goto(f, "dead") /\ UNCHANGED <<logVars, seen>>
        BY <1>9, <1>a, <2>1, GotoTyped DEF EventDelete, Sweep
    <2>2. CASE /\ ~\E s \in sources : s[2] \in forget[f].page
               /\ DeleteEvents(forget[f].page)
               /\ Goto(f, "events")
               /\ seen' = [g \in Forgets |-> [seen[g] EXCEPT !.events = @ \ forget[f].page]]
        <3>1. forget' \in [Forgets -> SweepRow]
            BY <2>2, GotoTyped DEF Sweep
        <3>2. seen' \in [Forgets -> [records : SUBSET RecordIds, events : SUBSET EventIds,
                                     candidates : SUBSET Candidates]]
            BY <2>2 DEF SweepTyped
        <3>3. /\ UNCHANGED <<scope, record, candidate, sources, running, succeeded>>
              /\ Stored' = Stored
            BY <1>9 DEF EventDelete, storeVars, Stored
        <3>4. StoredEvents' = StoredEvents \ forget[f].page
            BY <2>2 DEF DeleteEvents, StoredEvents
        <3>5. \A s \in sources' : s[1] \in Stored' /\ s[2] \in StoredEvents'
            BY <2>2, <3>3, <3>4 DEF StoreTyped
        <3>6. StoreTyped'
            BY <3>3, <3>5, SourcesStay DEF StoreTyped
        <3> QED
            BY <3>1, <3>2, <3>3, <3>6 DEF SweepTyped
    <2> QED
        BY <1>9, <2>1, <2>2 DEF EventDelete
<1>10. CASE ForgetReport(f)
    BY <1>10, <1>a, GotoTyped DEF ForgetReport, Sweep
<1>11. CASE ForgetFails(f)
    BY <1>11, <1>a, GotoTyped DEF ForgetFails, Sweep
<1> QED
    BY <1>1, <1>2, <1>3, <1>4, <1>5, <1>6, <1>7, <1>8, <1>9, <1>10, <1>11

LEMMA StartTyped ==
    ASSUME LogTypeOK, StoreTyped, SweepTyped, NEW f \in Forgets, NEW T \in Targets, ForgetStart(f, T)
    PROVE  StoreTyped' /\ SweepTyped'
<1>1. T \in SUBSET RecordIds
    BY DEF Targets
<1>2. /\ RecordsInScope \in SUBSET RecordIds /\ PendingInScope \in SUBSET Candidates
      /\ EventsInScope \in SUBSET EventIds
    BY DEF RecordsInScope, PendingInScope, EventsInScope, Stored, StoredEvents
<1>3. [stage |-> "records", last |-> 0, page |-> T, more |-> FALSE] \in SweepRow
    <2>1. T \in Pages
        BY <1>1 DEF Pages
    <2> QED
        BY <2>1 DEF SweepRow, Sweep
<1>4. forget' \in [Forgets -> SweepRow]
    BY <1>3 DEF ForgetStart, SweepTyped
<1>5. [records |-> IF scope = "memory" THEN RecordsInScope \intersect T ELSE RecordsInScope,
       events |-> EventsInScope, candidates |-> PendingInScope]
          \in [records : SUBSET RecordIds, events : SUBSET EventIds, candidates : SUBSET Candidates]
    BY <1>2
<1>6. seen' \in [Forgets -> [records : SUBSET RecordIds, events : SUBSET EventIds,
                             candidates : SUBSET Candidates]]
    BY <1>5 DEF ForgetStart, SweepTyped
<1> QED
    BY <1>4, <1>6 DEF ForgetStart, StoreTyped, SweepTyped, Stored, StoredEvents, logVars, storeVars

-------------------------------------------------------------------------------
(* What a page holds.                                                      *)

\* What is not on the first page comes after all that is.
LEMMA FirstPageIsFirst ==
    ASSUME NEW S \in SUBSET Nat, IsFiniteSet(S), NEW n \in S, n \notin FirstPage(S),
           NEW k \in FirstPage(S)
    PROVE  k < n
<1> DEFINE Below(x) == {j \in S : j < x}
<1>1. k \in S /\ Cardinality(Below(k)) < PageSize /\ ~(Cardinality(Below(n)) < PageSize)
    BY DEF FirstPage
<1>a. k \in Nat /\ n \in Nat /\ k # n
    BY <1>1
<1>2. SUFFICES ASSUME n < k PROVE FALSE
    BY <1>a
<1>3. Below(n) \subseteq Below(k) /\ Below(k) \subseteq S
    <2>1. \A j \in Nat : j < n => j < k
        BY <1>2, <1>a
    <2> QED
        BY <2>1
<1>4. IsFiniteSet(Below(k))
    BY <1>3, FS_Subset
<1>5. IsFiniteSet(Below(n)) /\ Cardinality(Below(n)) <= Cardinality(Below(k))
    BY <1>3, <1>4, FS_Subset
<1>6. Cardinality(Below(n)) \in Nat /\ Cardinality(Below(k)) \in Nat
    BY <1>4, <1>5, FS_CardinalityType
<1> QED
    BY <1>1, <1>5, <1>6, ForgetAssumption

\* A set of at most PageSize is its own first page.
LEMMA FirstPageIsAll ==
    ASSUME NEW S \in SUBSET Nat, IsFiniteSet(S), ~(Cardinality(S) > PageSize)
    PROVE  FirstPage(S) = S
<1> SUFFICES ASSUME NEW n \in S PROVE Cardinality({k \in S : k < n}) < PageSize
    BY DEF FirstPage
<1> DEFINE Below == {k \in S : k < n}
<1>1. Below \subseteq S /\ Below # S
    OBVIOUS
<1>2. /\ IsFiniteSet(Below) /\ Cardinality(Below) <= Cardinality(S)
      /\ Cardinality(S) # Cardinality(Below)
    BY <1>1, FS_Subset
<1>3. Cardinality(S) \in Nat /\ Cardinality(Below) \in Nat
    BY <1>2, FS_CardinalityType
<1> QED
    BY <1>2, <1>3, ForgetAssumption

-------------------------------------------------------------------------------
(* Rows change only towards being gone.                                    *)

StoreDecays ==
    /\ scope' = scope
    /\ \A m \in RecordIds : record[m].status # "none" =>
          /\ record'[m].status # "none"
          /\ m \in Stored' => m \in Stored
          /\ m \in Active' => m \in Active
          /\ record'[m].user = record[m].user
    /\ \A c \in Candidates : candidate[c].state # "none" =>
          /\ candidate'[c].state # "none"
          /\ candidate'[c].state = "pending" => candidate[c].state = "pending"
          /\ candidate'[c].user = candidate[c].user

SeenDecays(f) ==
    /\ seen'[f].records \subseteq seen[f].records
    /\ seen'[f].events \subseteq seen[f].events
    /\ seen'[f].candidates \subseteq seen[f].candidates
    /\ \A m \in seen'[f].records :
          scope = "query" /\ m \in Stored /\ record[m].hit => record'[m].hit
    /\ \A e \in seen'[f].events : event[e] # None => event'[e] = event[e]

\* What is left for f shrinks.
Shrinks(f) ==
    /\ scope' = scope
    /\ LeftRecords(f)' \subseteq LeftRecords(f)
    /\ LeftActive(f)' \subseteq LeftActive(f)
    /\ LeftPending(f)' \subseteq LeftPending(f)
    /\ seen'[f].events \subseteq seen[f].events

LEMMA DecayShrinks ==
    ASSUME StoreTyped, SweepTyped, NEW f \in Forgets, SeenKept(f), StoreDecays, SeenDecays(f)
    PROVE  Shrinks(f) /\ SeenKept(f)'
<1>1. /\ seen[f].records \subseteq RecordIds /\ seen[f].candidates \subseteq Candidates
      /\ seen[f].events \subseteq EventIds
    BY DEF SweepTyped
<1>2. Shrinks(f)
    <2>1. \A m \in seen'[f].records : m \in RecordIds /\ m \in seen[f].records
                                    /\ record[m].status # "none"
        BY <1>1 DEF SeenDecays, SeenKept
    <2>2. LeftRecords(f)' \subseteq LeftRecords(f) /\ LeftActive(f)' \subseteq LeftActive(f)
        BY <2>1 DEF StoreDecays, LeftRecords, LeftActive
    <2>3. LeftPending(f)' \subseteq LeftPending(f)
        BY <1>1 DEF StoreDecays, SeenDecays, SeenKept, LeftPending
    <2> QED
        BY <2>2, <2>3 DEF Shrinks, StoreDecays, SeenDecays
<1>3. \A m \in seen'[f].records : record'[m].status # "none"
    BY <1>1 DEF StoreDecays, SeenDecays, SeenKept
<1>4. LeftRecords(f)' \subseteq RecordsInScope'
    <2> SUFFICES ASSUME NEW m \in LeftRecords(f)' PROVE m \in RecordsInScope'
        OBVIOUS
    <2>1. m \in RecordIds /\ m \in seen'[f].records /\ m \in seen[f].records /\ m \in Stored'
        BY <1>1 DEF LeftRecords, SeenDecays
    <2>2. m \in RecordsInScope
        BY <1>2 DEF Shrinks, SeenKept
    <2>3. record'[m].user = record[m].user /\ scope' = scope
        BY <2>1 DEF StoreDecays, SeenKept
    <2>4. scope = "query" => record'[m].hit
        BY <2>1, <2>2 DEF SeenDecays, RecordsInScope
    <2> QED
        BY <2>1, <2>2, <2>3, <2>4 DEF RecordsInScope, InScope
<1>5. seen'[f].events \subseteq EventsInScope'
    <2> SUFFICES ASSUME NEW e \in seen'[f].events PROVE e \in EventsInScope'
        OBVIOUS
    <2>1. e \in EventsInScope
        BY DEF SeenDecays, SeenKept
    <2>2. event'[e] = event[e] /\ scope' = scope
        BY <2>1 DEF SeenDecays, EventsInScope, StoredEvents, StoreDecays
    <2> QED
        BY <2>1, <2>2 DEF EventsInScope, StoredEvents, InScope
<1>6. \A c \in seen'[f].candidates : candidate'[c].state # "none"
    BY <1>1 DEF StoreDecays, SeenDecays, SeenKept
<1>7. LeftPending(f)' \subseteq PendingInScope'
    <2> SUFFICES ASSUME NEW c \in LeftPending(f)' PROVE c \in PendingInScope'
        OBVIOUS
    <2>1. c \in seen[f].candidates /\ candidate'[c].state = "pending" /\ c \in Candidates
        BY <1>1 DEF LeftPending, SeenDecays
    <2>2. c \in PendingInScope
        BY <1>2 DEF Shrinks, SeenKept
    <2>3. candidate'[c].user = candidate[c].user /\ scope' = scope
        BY <2>1 DEF StoreDecays, SeenKept
    <2> QED
        BY <2>1, <2>2, <2>3 DEF PendingInScope, InScope
<1> QED
    BY <1>2, <1>3, <1>4, <1>5, <1>6, <1>7 DEF SeenKept
LEMMA HardDeleteDecays ==
    ASSUME StoreTyped, SweepTyped, NEW m \in RecordIds, HardDelete(m),
           UNCHANGED <<scope, candidate, event, seen>>
    PROVE  /\ StoreDecays /\ \A f \in Forgets : SeenDecays(f)
           /\ m \notin Stored' /\ m \notin Active'
<1>1. \A n \in RecordIds : record'[n] = IF n = m /\ m \in Stored
                                        THEN [record[m] EXCEPT !.status = "gone"] ELSE record[n]
    BY DEF HardDelete, StoreTyped
<1>2. \A n \in RecordIds : record[n] \in RecordRow
    BY DEF StoreTyped
<1>3. \A n \in RecordIds : /\ record'[n].user = record[n].user /\ record'[n].hit = record[n].hit
                           /\ record'[n].status \in {record[n].status, "gone"}
    BY <1>1, <1>2 DEF RecordRow
<1>4. StoreDecays
    BY <1>3 DEF StoreDecays, Stored, Active
<1>5. record'[m].status \notin {"active", "deleted"}
    BY <1>1, <1>2 DEF RecordRow, Stored
<1>6. \A f \in Forgets : seen'[f] = seen[f] /\ seen[f].records \subseteq RecordIds
    BY DEF SweepTyped
<1> QED
    BY <1>3, <1>4, <1>5, <1>6 DEF SeenDecays, Stored, Active
Decays == StoreDecays /\ \A f \in Forgets : SeenDecays(f)

LEMMA StillDecays ==
    ASSUME StoreTyped, SweepTyped, UNCHANGED <<scope, record, candidate, event, seen>>
    PROVE  Decays
BY DEF Decays, StoreDecays, SeenDecays, StoreTyped, SweepTyped, Stored, Active

LEMMA UseDecays ==
    ASSUME LogTypeOK, StoreTyped, SweepTyped,
           \/ \E m \in RecordIds, u \in Authors, h \in Hits : CreateMemory(m, u, h)
           \/ \E m \in RecordIds, h \in Hits : UpdateMemory(m, h)
           \/ \E m \in RecordIds : DeleteMemory(m)
           \/ \E c \in Candidates, u \in Authors, e \in EventIds \union {None} : Propose(c, u, e)
           \/ \E c \in Candidates, m \in RecordIds, u \in Authors, h \in Hits : Approve(c, m, u, h)
           \/ Requested
    PROVE  Decays
<1>0. /\ \A f \in Forgets : /\ seen[f].records \subseteq RecordIds
                             /\ seen[f].events \subseteq EventIds
      /\ \A m \in RecordIds : record[m] \in RecordRow
      /\ \A c \in Candidates : candidate[c] \in CandidateRow
    BY DEF SweepTyped, StoreTyped
<1>1. ASSUME NEW m \in RecordIds, NEW u \in Authors, NEW h \in Hits, CreateMemory(m, u, h)
      PROVE  Decays
    <2>1. /\ \A n \in RecordIds : n # m => record'[n] = record[n]
          /\ record[m].status = "none" /\ record'[m].status = "active"
          /\ UNCHANGED <<scope, candidate, event, seen>>
        BY <1>1 DEF CreateMemory, StoreTyped, logVars, sweepVars
    <2>2. StoreDecays
        BY <2>1 DEF StoreDecays, Stored, Active
    <2> QED
        BY <1>0, <2>1, <2>2 DEF Decays, SeenDecays, Stored
<1>2. ASSUME NEW m \in RecordIds, NEW h \in Hits, UpdateMemory(m, h)
      PROVE  Decays
    <2>1. /\ \A n \in RecordIds : n # m => record'[n] = record[n]
          /\ record'[m] = [record[m] EXCEPT !.hit = h]
          /\ UNCHANGED <<scope, candidate, event>>
          /\ seen' = IF scope = "query" /\ ~h
                     THEN [f \in Forgets |-> [seen[f] EXCEPT !.records = @ \ {m}]] ELSE seen
        BY <1>2 DEF UpdateMemory, StoreTyped, logVars
    <2>2. /\ record'[m].status = record[m].status /\ record'[m].user = record[m].user
          /\ record'[m].hit = h
        BY <1>0, <2>1 DEF RecordRow
    <2>3. StoreDecays
        BY <2>1, <2>2 DEF StoreDecays, Stored, Active
    <2>4. \A f \in Forgets : seen'[f].records = IF scope = "query" /\ ~h THEN seen[f].records \ {m}
                                               ELSE seen[f].records
        BY <2>1 DEF SweepTyped
    <2>5. \A f \in Forgets : seen'[f].events = seen[f].events /\ seen'[f].candidates = seen[f].candidates
        BY <2>1 DEF SweepTyped
    <2>6. ASSUME NEW f \in Forgets PROVE SeenDecays(f)
        <3>1. \A n \in seen'[f].records : n \in RecordIds /\ n \in seen[f].records
            BY <1>0, <2>4
        <3>2. \A n \in seen'[f].records : scope = "query" /\ record[n].hit => record'[n].hit
            <4>1. h = TRUE \/ h = FALSE
                BY DEF Hits
            <4>2. record'[m].hit = h /\ \A n \in RecordIds : n # m => record'[n] = record[n]
                BY <2>1, <2>2
            <4>3. CASE scope = "query" /\ h = FALSE
                <5>1. m \notin seen'[f].records
                    BY <2>4, <4>3
                <5> QED
                    BY <3>1, <4>2, <5>1
            <4>4. CASE scope = "query" /\ h = TRUE
                <5>1. record'[m].hit = TRUE
                    BY <4>2, <4>4
                <5> QED
                    BY <3>1, <4>2, <5>1
            <4> QED
                BY <4>1, <4>3, <4>4
        <3>3. event' = event
            BY <2>1
        <3>4. /\ seen'[f].records \subseteq seen[f].records
              /\ seen'[f].events \subseteq seen[f].events
              /\ seen'[f].candidates \subseteq seen[f].candidates
            BY <2>5, <3>1
        <3> QED
            <4>1. \A n \in seen'[f].records :
                      scope = "query" /\ n \in Stored /\ record[n].hit => record'[n].hit
                BY <3>2
            <4>2. \A e \in seen'[f].events : event[e] # None => event'[e] = event[e]
                BY <3>3
            <4> QED
                BY <3>4, <4>1, <4>2 DEF SeenDecays
    <2> QED
        BY <2>3, <2>6 DEF Decays
<1>3. ASSUME NEW m \in RecordIds, DeleteMemory(m)
      PROVE  Decays
    <2>1. /\ \A n \in RecordIds : n # m => record'[n] = record[n]
          /\ record'[m] = [record[m] EXCEPT !.status = "deleted"]
          /\ m \in Stored
          /\ UNCHANGED <<scope, candidate, event, seen>>
        BY <1>3 DEF DeleteMemory, StoreTyped, logVars, sweepVars, Active, Stored
    <2>2. /\ record'[m].status = "deleted" /\ record'[m].user = record[m].user
          /\ record'[m].hit = record[m].hit
        BY <1>0, <2>1 DEF RecordRow
    <2>3. StoreDecays
        BY <2>1, <2>2 DEF StoreDecays, Stored, Active
    <2> QED
        BY <1>0, <2>1, <2>2, <2>3 DEF Decays, SeenDecays
<1>4. ASSUME NEW c \in Candidates, NEW u \in Authors, NEW e \in EventIds \union {None},
             Propose(c, u, e)
      PROVE  Decays
    <2>1. /\ \A d \in Candidates : d # c => candidate'[d] = candidate[d]
          /\ candidate[c].state = "none" /\ candidate'[c].state = "pending"
          /\ UNCHANGED <<scope, record, event, seen>>
        BY <1>4 DEF Propose, StoreTyped, logVars, sweepVars
    <2>2. StoreDecays
        BY <2>1 DEF StoreDecays, Stored, Active
    <2> QED
        BY <2>1, <2>2 DEF Decays, SeenDecays
<1>5. ASSUME NEW c \in Candidates, NEW m \in RecordIds, NEW u \in Authors, NEW h \in Hits,
             Approve(c, m, u, h)
      PROVE  Decays
    <2>1. /\ \A n \in RecordIds : n # m => record'[n] = record[n]
          /\ record[m].status = "none" /\ record'[m].status = "active"
          /\ \A d \in Candidates : d # c => candidate'[d] = candidate[d]
          /\ candidate'[c] = [candidate[c] EXCEPT !.state = "approved"]
          /\ UNCHANGED <<scope, event, seen>>
        BY <1>5 DEF Approve, StoreTyped, logVars, sweepVars
    <2>2. candidate'[c].state = "approved" /\ candidate'[c].user = candidate[c].user
        BY <1>0, <2>1 DEF CandidateRow
    <2>3. StoreDecays
        BY <2>1, <2>2 DEF StoreDecays, Stored, Active
    <2> QED
        BY <1>0, <2>1, <2>3 DEF Decays, SeenDecays, Stored
<1>6. CASE Requested
    <2>1. UNCHANGED <<scope, record, candidate, seen>>
        BY <1>6 DEF Requested, storeVars, sweepVars
    <2>2. StoreDecays
        BY <2>1 DEF StoreDecays, Stored, Active
    <2> QED
        BY <1>0, <1>6, <2>1, <2>2, AppendKeeps DEF Decays, SeenDecays, Requested
<1> QED
    BY <1>1, <1>2, <1>3, <1>4, <1>5, <1>6
LEMMA SweepDecays ==
    ASSUME LogTypeOK, StoreTyped, SweepTyped, NEW f \in Forgets,
           \/ ForgetPage(f) \/ ForgetRecord(f) \/ ForgetTarget(f) \/ DeleteAllBatch(f)
           \/ CandidatePage(f) \/ CandidateReject(f)
           \/ EventPage(f) \/ SourceDelete(f) \/ EventDelete(f)
           \/ ForgetReport(f) \/ ForgetFails(f)
    PROVE  Decays
<1>0. /\ \A g \in Forgets : /\ seen[g].records \subseteq RecordIds
                             /\ seen[g].events \subseteq EventIds
                             /\ seen[g] = [records |-> seen[g].records, events |-> seen[g].events,
                                          candidates |-> seen[g].candidates]
      /\ \A m \in RecordIds : record[m] \in RecordRow
      /\ \A c \in Candidates : candidate[c] \in CandidateRow
    BY DEF SweepTyped, StoreTyped
<1>1. CASE UNCHANGED <<scope, record, candidate, event, seen>>
    BY <1>1, StillDecays
<1>2. CASE ForgetRecord(f)
    BY <1>2, HardDeleteDecays DEF ForgetRecord, Decays, logVars
<1>3. CASE ForgetTarget(f)
    <2>1. CASE UNCHANGED <<record, sources>>
        BY <1>1, <1>3, <2>1 DEF ForgetTarget, logVars
    <2>2. ASSUME NEW m \in Active, HardDelete(m) PROVE Decays
        BY <1>3, <2>2, HardDeleteDecays DEF ForgetTarget, Decays, Active, logVars
    <2> QED
        BY <1>3, <2>1, <2>2 DEF ForgetTarget
<1>4. CASE DeleteAllBatch(f)
    <2> DEFINE page == FirstPage({m \in Active : m > forget[f].last})
    <2>1. CASE UNCHANGED record
        BY <1>1, <1>4, <2>1 DEF DeleteAllBatch, logVars
    <2>2. CASE record' = [m \in RecordIds |->
                              IF m \in page THEN [record[m] EXCEPT !.status = "deleted"]
                              ELSE record[m]]
        <3>1. \A m \in RecordIds : /\ record'[m].user = record[m].user
                                  /\ record'[m].hit = record[m].hit
                                  /\ \/ record'[m].status = record[m].status
                                     \/ m \in Active /\ record'[m].status = "deleted"
            BY <1>0, <2>2 DEF RecordRow, FirstPage
        <3>2. UNCHANGED <<scope, candidate, event, seen>>
            BY <1>4 DEF DeleteAllBatch, logVars
        <3>3. StoreDecays
            BY <3>1, <3>2 DEF StoreDecays, Stored, Active
        <3> QED
            BY <1>0, <3>1, <3>2, <3>3 DEF Decays, SeenDecays
    <2> QED
        BY <1>4, <2>1, <2>2 DEF DeleteAllBatch
<1>5. CASE CandidateReject(f)
    <2>1. \A c \in Candidates : /\ candidate'[c].user = candidate[c].user
                               /\ \/ candidate'[c].state = candidate[c].state
                                  \/ candidate'[c].state = "rejected"
        BY <1>0, <1>5 DEF CandidateReject, CandidateRow
    <2>2. UNCHANGED <<scope, record, event, seen>>
        BY <1>5 DEF CandidateReject, logVars
    <2>3. StoreDecays
        BY <2>1, <2>2 DEF StoreDecays, Stored, Active
    <2> QED
        BY <1>0, <2>2, <2>3 DEF Decays, SeenDecays
<1>6. CASE EventDelete(f)
    <2>1. CASE UNCHANGED <<logVars, seen>>
        BY <1>1, <1>6, <2>1 DEF EventDelete, logVars, storeVars
    <2>2. CASE /\ DeleteEvents(forget[f].page)
               /\ seen' = [g \in Forgets |-> [seen[g] EXCEPT !.events = @ \ forget[f].page]]
        <3>1. UNCHANGED <<scope, record, candidate>>
            BY <1>6 DEF EventDelete, storeVars
        <3>2. StoreDecays
            BY <3>1 DEF StoreDecays, Stored, Active
        <3>3. ASSUME NEW g \in Forgets PROVE SeenDecays(g)
            <4>1. /\ seen'[g].records = seen[g].records /\ seen'[g].candidates = seen[g].candidates
                  /\ seen'[g].events = seen[g].events \ forget[f].page
                BY <2>2 DEF SweepTyped
            <4>2. \A e \in EventIds \ forget[f].page : event'[e] = event[e]
                BY <2>2 DEF DeleteEvents
            <4>3. /\ seen'[g].records \subseteq seen[g].records
                  /\ seen'[g].events \subseteq seen[g].events
                  /\ seen'[g].candidates \subseteq seen[g].candidates
                BY <4>1
            <4>4. \A e \in seen'[g].events : event'[e] = event[e]
                BY <1>0, <4>1, <4>2
            <4> QED
                <5>1. \A m \in seen'[g].records :
                          scope = "query" /\ m \in Stored /\ record[m].hit => record'[m].hit
                    BY <3>1
                <5>2. \A e \in seen'[g].events : event[e] # None => event'[e] = event[e]
                    BY <4>4
                <5> QED
                    BY <4>3, <5>1, <5>2 DEF SeenDecays
        <3> QED
            BY <3>2, <3>3 DEF Decays
    <2> QED
        BY <1>6, <2>1, <2>2 DEF EventDelete
<1>7. CASE ForgetPage(f) \/ CandidatePage(f) \/ EventPage(f) \/ SourceDelete(f)
           \/ ForgetReport(f) \/ ForgetFails(f)
    BY <1>1, <1>7 DEF ForgetPage, CandidatePage, EventPage, SourceDelete, ForgetReport, ForgetFails,
       logVars, storeVars
<1> QED
    BY <1>2, <1>3, <1>4, <1>5, <1>6, <1>7
-------------------------------------------------------------------------------
(* What every step leaves to do.                                           *)

\* A step that does not move f leaves it less to do.
LEMMA TodoFrame ==
    ASSUME NEW f \in Forgets, TodoInv(f), Shrinks(f), forget'[f] = forget[f],
           f \in succeeded' => f \in succeeded, running \subseteq running'
    PROVE  TodoInv(f)'
<1>1. RecordsTodo(f)'
    BY DEF TodoInv, RecordsTodo, Shrinks, Ahead, Paged
<1>2. CandidatesTodo(f)'
    BY DEF TodoInv, CandidatesTodo, Shrinks, Ahead
<1>3. EventsTodo(f)'
    BY DEF TodoInv, EventsTodo, Shrinks
<1>4. Reported(f)'
    BY DEF TodoInv, Reported, Shrinks
<1> QED
    BY <1>1, <1>2, <1>3, <1>4 DEF TodoInv

\* Where f goes when nothing is left of the records.
LEMMA TodoAfterRecords ==
    ASSUME StoreTyped, SweepTyped, NEW f \in Forgets, TodoInv(f), Shrinks(f),
           (SweepTyped)', Goto(f, AfterRecords), forget[f].stage = "records",
           UNCHANGED <<succeeded, running>>,
           scope \in {"space", "user", "query", "memory"},
           Paged => LeftRecords(f)' = {}, ~Paged => LeftActive(f)' = {}
    PROVE  TodoInv(f)'
<1>1. forget'[f] = [stage |-> AfterRecords, last |-> 0, page |-> {}, more |-> FALSE]
    BY DEF Goto, SweepTyped
<1>2. scope' = scope
    BY DEF Shrinks
<1>3. /\ scope = "space" => forget'[f].stage = "events"
      /\ scope = "user" => forget'[f].stage = "candidates"
      /\ scope \in {"query", "memory"} => forget'[f].stage = "report"
      /\ forget'[f].page = {} /\ forget'[f].last = 0
    BY <1>1 DEF AfterRecords
<1>4. RecordsTodo(f)'
    BY <1>2, <1>3 DEF RecordsTodo, Paged
<1>5. CandidatesTodo(f)'
    <2>1. \A c \in LeftPending(f)' : 0 < c
        BY ForgetAssumption DEF LeftPending, SweepTyped
    <2> QED
        BY <1>2, <1>3, <2>1 DEF CandidatesTodo, Ahead
<1>6. EventsTodo(f)'
    BY <1>2, <1>3 DEF EventsTodo
<1>7. Reported(f)'
    BY <1>2, <1>3 DEF Reported, TodoInv
<1> QED
    BY <1>4, <1>5, <1>6, <1>7 DEF TodoInv
\* The page and the cursor of a sweep over the records.
LEMMA PageTodo ==
    ASSUME StoreTyped, SweepTyped, (SweepTyped)', NEW f \in Forgets, SeenKept(f), TodoInv(f),
           Shrinks(f), ForgetPage(f)
    PROVE  TodoInv(f)'
<1> DEFINE rest == {m \in RecordsInScope : m > forget[f].last}
<1>1. /\ forget[f].stage = "records" /\ forget[f].page = {} /\ Paged
      /\ UNCHANGED <<scope, running, succeeded>>
    BY DEF ForgetPage, Paged
<1>2. LeftRecords(f) \subseteq rest
    BY <1>1 DEF TodoInv, RecordsTodo, Ahead, SeenKept, RecordsInScope, Stored
<1>3. LeftRecords(f)' \subseteq rest
    BY <1>2 DEF Shrinks
<1>4. CASE rest = {} /\ Goto(f, AfterRecords)
    <2>1. LeftRecords(f)' = {}
        BY <1>3, <1>4
    <2> QED
        BY <1>1, <1>4, <2>1, TodoAfterRecords DEF Paged
<1>5. ASSUME forget' = [forget EXCEPT ![f].page = FirstPage(rest),
                                      ![f].more = scope # "space" \/ Cardinality(rest) > PageSize]
      PROVE  TodoInv(f)'
    <2>1. rest \in SUBSET Nat /\ IsFiniteSet(rest) /\ rest \subseteq RecordIds
        <3>1. rest \in SUBSET RecordIds
            BY DEF RecordsInScope, Stored
        <3> QED
            BY <3>1, ForgetAssumption, FS_Subset
    <2>a. PICK b : /\ b = (scope # "space" \/ Cardinality(rest) > PageSize)
                   /\ forget' = [forget EXCEPT ![f].page = FirstPage(rest), ![f].more = b]
        BY <1>5
    <2>2. /\ forget'[f].stage = "records" /\ forget'[f].last = forget[f].last
          /\ forget'[f].page = FirstPage(rest)
          /\ forget'[f].more = b
        BY <1>1, <2>a DEF SweepTyped, SweepRow
    <2>3. FirstPage(rest) \subseteq rest
        BY DEF FirstPage
    <2>4. \A n \in rest : n \notin FirstPage(rest) => \A k \in FirstPage(rest) : k < n
        BY <2>1, FirstPageIsFirst
    <2>5. \A n \in rest : forget[f].last < n
        BY <2>1 DEF SweepTyped, SweepRow
    <2>6. Ahead(f, LeftRecords(f))'
        <3>1. ASSUME NEW n \in rest
              PROVE  \/ n \in forget'[f].page
                     \/ forget'[f].last < n /\ \A k \in forget'[f].page : k < n
            <4>1. forget[f].last < n
                BY <2>5
            <4>2. CASE n \in FirstPage(rest)
                BY <2>2, <4>2
            <4>3. CASE n \notin FirstPage(rest)
                <5>1. \A k \in FirstPage(rest) : k < n
                    BY <2>4, <4>3
                <5> HIDE DEF rest
                <5> QED
                    BY <2>2, <4>1, <5>1
            <4> QED
                BY <4>2, <4>3
        <3>2. \A n \in LeftRecords(f)' : n \in rest
            BY <1>3
        <3> HIDE DEF rest
        <3> QED
            BY <3>1, <3>2 DEF Ahead
    <2>7. forget'[f].page = {} \/ forget'[f].more \/ LeftRecords(f)' \subseteq forget'[f].page
        <3>1. CASE Cardinality(rest) > PageSize
            BY <2>2, <2>a, <3>1
        <3>2. CASE ~(Cardinality(rest) > PageSize)
            BY <1>3, <2>1, <2>2, <3>2, FirstPageIsAll
        <3> QED
            BY <3>1, <3>2
    <2>8. RecordsTodo(f)'
        BY <1>1, <2>1, <2>2, <2>3, <2>6, <2>7 DEF RecordsTodo, Paged
    <2>9. CandidatesTodo(f)' /\ EventsTodo(f)'
        BY <2>2 DEF CandidatesTodo, EventsTodo
    <2>10. Reported(f)'
        BY <1>1, <2>2 DEF Reported, TodoInv
    <2> QED
        BY <2>8, <2>9, <2>10 DEF TodoInv
<1> QED
    BY <1>4, <1>5 DEF ForgetPage

LEMMA RecordTodo ==
    ASSUME StoreTyped, SweepTyped, (SweepTyped)', NEW f \in Forgets, SeenKept(f), TodoInv(f),
           Shrinks(f), ForgetRecord(f)
    PROVE  TodoInv(f)'
<1>1. /\ forget[f].stage = "records" /\ Paged
      /\ UNCHANGED <<scope, running, succeeded, candidate, event, seen>>
    BY DEF ForgetRecord, Paged, logVars
<1>2. PICK m \in RecordIds :
          /\ IsMin(m, forget[f].page)
          /\ HardDelete(m)
          /\ IF forget[f].page = {m} /\ ~forget[f].more THEN Goto(f, AfterRecords)
             ELSE forget' = [forget EXCEPT ![f].page = @ \ {m}, ![f].last = m]
    BY DEF ForgetRecord
<1>3. m \notin Stored' /\ m \in forget[f].page
    BY <1>1, <1>2, HardDeleteDecays DEF IsMin
<1>4. m \notin LeftRecords(f)' /\ LeftRecords(f)' \subseteq LeftRecords(f)
    BY <1>3 DEF LeftRecords, Shrinks
<1>5. /\ forget[f].page \subseteq RecordIds
      /\ Ahead(f, LeftRecords(f))
      /\ forget[f].more \/ LeftRecords(f) \subseteq forget[f].page
    BY <1>1, <1>3 DEF TodoInv, RecordsTodo
<1>6. CASE forget[f].page = {m} /\ ~forget[f].more /\ Goto(f, AfterRecords)
    <2>1. LeftRecords(f)' = {}
        BY <1>4, <1>5, <1>6
    <2> QED
        BY <1>1, <1>6, <2>1, TodoAfterRecords DEF Paged
<1>7. CASE forget' = [forget EXCEPT ![f].page = @ \ {m}, ![f].last = m]
    <2>1. /\ forget'[f].stage = "records" /\ forget'[f].last = m
          /\ forget'[f].page = forget[f].page \ {m} /\ forget'[f].more = forget[f].more
        BY <1>1, <1>7 DEF SweepTyped, SweepRow
    <2>2. Ahead(f, LeftRecords(f))'
        BY <1>3, <1>4, <1>5, <2>1 DEF Ahead
    <2>3. RecordsTodo(f)'
        BY <1>1, <1>4, <1>5, <2>1, <2>2 DEF RecordsTodo, Paged
    <2>4. CandidatesTodo(f)' /\ EventsTodo(f)'
        BY <2>1 DEF CandidatesTodo, EventsTodo
    <2>5. Reported(f)'
        BY <1>1, <2>1 DEF Reported, TodoInv
    <2> QED
        BY <2>3, <2>4, <2>5 DEF TodoInv
<1> QED
    BY <1>2, <1>6, <1>7

LEMMA TargetTodo ==
    ASSUME StoreTyped, SweepTyped, (SweepTyped)', NEW f \in Forgets, SeenKept(f), TodoInv(f),
           Shrinks(f), ForgetTarget(f)
    PROVE  TodoInv(f)'
<1>1. /\ forget[f].stage = "records" /\ scope = "memory" /\ ~Paged
      /\ UNCHANGED <<scope, running, succeeded, candidate, event, seen>>
    BY DEF ForgetTarget, Paged, logVars
<1>2. LeftActive(f) \subseteq forget[f].page /\ forget[f].page \subseteq RecordIds
    BY <1>1 DEF TodoInv, RecordsTodo
<1>3. CASE forget[f].page = {} /\ Goto(f, AfterRecords)
    <2>1. LeftActive(f)' = {}
        BY <1>2, <1>3 DEF Shrinks
    <2> QED
        BY <1>1, <1>3, <2>1, TodoAfterRecords
<1>4. ASSUME NEW m \in forget[f].page,
             IF m \in Active THEN HardDelete(m) ELSE UNCHANGED <<record, sources>>,
             forget' = [forget EXCEPT ![f].page = @ \ {m}]
      PROVE  TodoInv(f)'
    <2>1. forget'[f].stage = "records" /\ forget'[f].page = forget[f].page \ {m}
        BY <1>1, <1>4 DEF SweepTyped, SweepRow
    <2>2. m \notin Active'
        <3>1. CASE m \in Active
            BY <1>1, <1>2, <1>4, <3>1, HardDeleteDecays
        <3>2. CASE m \notin Active
            BY <1>4, <3>2 DEF Active
        <3> QED
            BY <3>1, <3>2
    <2>3. LeftActive(f)' \subseteq forget'[f].page
        BY <1>2, <2>1, <2>2 DEF Shrinks, LeftActive
    <2>4. RecordsTodo(f)'
        BY <1>1, <1>2, <2>1, <2>3 DEF RecordsTodo, Paged
    <2>5. CandidatesTodo(f)' /\ EventsTodo(f)'
        BY <2>1 DEF CandidatesTodo, EventsTodo
    <2>6. Reported(f)'
        BY <1>1, <2>1 DEF Reported, TodoInv
    <2> QED
        BY <2>4, <2>5, <2>6 DEF TodoInv
<1> QED
    BY <1>3, <1>4 DEF ForgetTarget
LEMMA BulkTodo ==
    ASSUME StoreTyped, SweepTyped, (SweepTyped)', NEW f \in Forgets, SeenKept(f), TodoInv(f),
           Shrinks(f), DeleteAllBatch(f)
    PROVE  TodoInv(f)'
<1> DEFINE rest == {m \in Active : m > forget[f].last}
           page == FirstPage(rest)
<1>1. /\ forget[f].stage = "records" /\ scope = "all" /\ ~Paged
      /\ UNCHANGED <<scope, running, succeeded, candidate, event, seen>>
    BY DEF DeleteAllBatch, Paged, logVars
<1>2. rest \in SUBSET Nat /\ IsFiniteSet(rest)
    <2>1. rest \in SUBSET RecordIds
        BY DEF Active
    <2> QED
        BY <2>1, ForgetAssumption, FS_Subset
<1>3. \A m \in LeftActive(f) : forget[f].last < m /\ m \in rest
    <2>1. \A m \in LeftActive(f) : forget[f].last < m /\ m \in Active
        BY <1>1 DEF TodoInv, RecordsTodo, LeftActive
    <2>2. \A m \in Active : m \in Nat
        BY ForgetAssumption DEF Active
    <2>3. forget[f].last \in Nat
        BY DEF SweepTyped, SweepRow
    <2> QED
        BY <2>1, <2>2, <2>3
<1>4. CASE rest = {} /\ Goto(f, "done")
    <2>1. LeftActive(f)' = {}
        BY <1>3, <1>4 DEF Shrinks
    <2>2. forget'[f].stage = "done"
        BY <1>4 DEF Goto, SweepTyped
    <2>3. RecordsTodo(f)'
        BY <1>1, <2>1, <2>2 DEF RecordsTodo, Paged
    <2>4. CandidatesTodo(f)' /\ EventsTodo(f)'
        BY <1>1, <2>2 DEF CandidatesTodo, EventsTodo
    <2>5. Reported(f)'
        BY <1>1, <2>2 DEF Reported, TodoInv
    <2> QED
        BY <2>3, <2>4, <2>5 DEF TodoInv
<1>5. ASSUME NEW n \in RecordIds, IsMax(n, page), forget' = [forget EXCEPT ![f].last = n],
             record' = [m \in RecordIds |->
                          IF m \in page THEN [record[m] EXCEPT !.status = "deleted"]
                          ELSE record[m]]
      PROVE  TodoInv(f)'
    <2>1. /\ forget'[f].stage = "records" /\ forget'[f].last = n
          /\ forget'[f].page = forget[f].page
        BY <1>1, <1>5 DEF SweepTyped, SweepRow
    <2>2. \A m \in page : m \in RecordIds /\ m \notin Active'
        <3>1. \A m \in page : m \in RecordIds
            BY DEF FirstPage, Active
        <3>2. \A m \in page : record'[m].status = "deleted"
            BY <1>5, <3>1 DEF StoreTyped, RecordRow
        <3> QED
            BY <3>1, <3>2 DEF Active
    <2>3. \A m \in LeftActive(f)' : n < m
        <3> SUFFICES ASSUME NEW m \in LeftActive(f)' PROVE n < m
            OBVIOUS
        <3>1. m \in rest /\ m \notin page
            BY <1>3, <2>2 DEF Shrinks, LeftActive
        <3>2. n \in page
            BY <1>5 DEF IsMax
        <3> HIDE DEF rest
        <3> QED
            BY <1>2, <3>1, <3>2, FirstPageIsFirst
    <2>4. RecordsTodo(f)'
        BY <1>1, <2>1, <2>3 DEF RecordsTodo, Paged, TodoInv
    <2>5. CandidatesTodo(f)' /\ EventsTodo(f)'
        BY <2>1 DEF CandidatesTodo, EventsTodo
    <2>6. Reported(f)'
        BY <1>1, <2>1 DEF Reported, TodoInv
    <2> QED
        BY <2>4, <2>5, <2>6 DEF TodoInv
<1> QED
    BY <1>4, <1>5 DEF DeleteAllBatch

LEMMA CandidatePageTodo ==
    ASSUME StoreTyped, SweepTyped, (SweepTyped)', NEW f \in Forgets, SeenKept(f), TodoInv(f),
           Shrinks(f), CandidatePage(f)
    PROVE  TodoInv(f)'
<1> DEFINE rest == {c \in PendingInScope : c > forget[f].last}
<1>1. /\ forget[f].stage = "candidates" /\ forget[f].page = {} /\ scope = "user"
      /\ UNCHANGED <<scope, running, succeeded>>
    BY DEF CandidatePage, TodoInv, CandidatesTodo
<1>2. rest \in SUBSET Nat /\ IsFiniteSet(rest) /\ rest \subseteq Candidates
    <2>1. rest \in SUBSET Candidates
        BY DEF PendingInScope
    <2> QED
        BY <2>1, ForgetAssumption, FS_Subset
<1>3. \A c \in LeftPending(f)' : c \in rest
    <2>1. \A c \in LeftPending(f) : forget[f].last < c /\ c \in PendingInScope
        BY <1>1 DEF TodoInv, CandidatesTodo, Ahead, SeenKept
    <2>2. \A c \in PendingInScope : c \in Nat
        BY ForgetAssumption DEF PendingInScope
    <2>3. forget[f].last \in Nat
        BY DEF SweepTyped, SweepRow
    <2> QED
        BY <2>1, <2>2, <2>3 DEF Shrinks
<1>4. Paged /\ LeftRecords(f)' = {}
    BY <1>1 DEF TodoInv, RecordsTodo, Shrinks, Paged
<1>5. CASE rest = {} /\ Goto(f, "events")
    <2>1. forget'[f].stage = "events"
        BY <1>5 DEF Goto, SweepTyped
    <2>2. LeftPending(f)' = {}
        BY <1>3, <1>5
    <2>3. RecordsTodo(f)' /\ CandidatesTodo(f)' /\ EventsTodo(f)'
        BY <1>1, <1>4, <2>1, <2>2 DEF RecordsTodo, CandidatesTodo, EventsTodo, Paged
    <2>4. Reported(f)'
        BY <1>1, <2>1 DEF Reported, TodoInv
    <2> QED
        BY <2>3, <2>4 DEF TodoInv
<1>6. CASE forget' = [forget EXCEPT ![f].page = FirstPage(rest)]
    <2>1. /\ forget'[f].stage = "candidates" /\ forget'[f].last = forget[f].last
          /\ forget'[f].page = FirstPage(rest)
        BY <1>1, <1>6 DEF SweepTyped, SweepRow
    <2>2. FirstPage(rest) \subseteq rest
        BY DEF FirstPage
    <2>3. \A n \in rest : \/ n \in forget'[f].page
                          \/ forget'[f].last < n /\ \A k \in forget'[f].page : k < n
        <3>1. \A n \in rest : n \notin FirstPage(rest) => \A k \in FirstPage(rest) : k < n
            BY <1>2, FirstPageIsFirst
        <3>2. \A n \in rest : forget[f].last < n
            BY <1>2 DEF SweepTyped, SweepRow
        <3> HIDE DEF rest
        <3> QED
            BY <2>1, <3>1, <3>2
    <2> HIDE DEF rest
    <2>4. Ahead(f, LeftPending(f))'
        BY <1>3, <2>3 DEF Ahead
    <2>5. RecordsTodo(f)' /\ CandidatesTodo(f)' /\ EventsTodo(f)'
        BY <1>1, <1>2, <1>4, <2>1, <2>2, <2>4 DEF RecordsTodo, CandidatesTodo, EventsTodo, Paged
    <2>6. Reported(f)'
        BY <1>1, <2>1 DEF Reported, TodoInv
    <2> QED
        BY <2>5, <2>6 DEF TodoInv
<1> QED
    BY <1>5, <1>6 DEF CandidatePage
LEMMA RejectTodo ==
    ASSUME StoreTyped, SweepTyped, (SweepTyped)', NEW f \in Forgets, SeenKept(f), TodoInv(f),
           Shrinks(f), CandidateReject(f)
    PROVE  TodoInv(f)'
<1>1. /\ forget[f].stage = "candidates" /\ scope = "user" /\ forget[f].page \subseteq Candidates
      /\ Ahead(f, LeftPending(f)) /\ UNCHANGED <<scope, running, succeeded>>
    BY DEF CandidateReject, TodoInv, CandidatesTodo
<1>2. PICK n \in Candidates : /\ IsMax(n, forget[f].page)
                             /\ forget' = [forget EXCEPT ![f].page = {}, ![f].last = n]
    BY DEF CandidateReject
<1>3. forget'[f].stage = "candidates" /\ forget'[f].page = {} /\ forget'[f].last = n
    BY <1>1, <1>2 DEF SweepTyped, SweepRow
<1>4. \A c \in LeftPending(f)' : c \in LeftPending(f) /\ c \notin forget[f].page
    <2> SUFFICES ASSUME NEW c \in LeftPending(f)' PROVE c \in LeftPending(f) /\ c \notin forget[f].page
        OBVIOUS
    <2>1. c \in LeftPending(f) /\ c \in PendingInScope /\ c \in Candidates
        BY DEF Shrinks, SeenKept, PendingInScope
    <2>2. candidate'[c].state = "pending"
        BY DEF LeftPending
    <2>3. c \in forget[f].page => candidate'[c].state = "rejected"
        BY <2>1 DEF CandidateReject, StoreTyped, CandidateRow
    <2> QED
        BY <2>1, <2>2, <2>3
<1>5. Ahead(f, LeftPending(f))'
    <2>1. n \in forget[f].page
        BY <1>2 DEF IsMax
    <2> QED
        BY <1>1, <1>3, <1>4, <2>1 DEF Ahead
<1>6. RecordsTodo(f)'
    BY <1>1, <1>3 DEF RecordsTodo, TodoInv, Shrinks, Paged
<1>7. CandidatesTodo(f)' /\ EventsTodo(f)'
    BY <1>1, <1>3, <1>5 DEF CandidatesTodo, EventsTodo
<1>8. Reported(f)'
    BY <1>1, <1>3 DEF Reported, TodoInv
<1> QED
    BY <1>6, <1>7, <1>8 DEF TodoInv

\* The steps after the candidates, and those that end a request.
LEMMA LateTodo ==
    ASSUME StoreTyped, SweepTyped, (SweepTyped)', NEW f \in Forgets, SeenKept(f), TodoInv(f),
           Shrinks(f),
           EventPage(f) \/ SourceDelete(f) \/ EventDelete(f) \/ ForgetReport(f) \/ ForgetFails(f)
    PROVE  TodoInv(f)'
<1>1. UNCHANGED <<scope, running>>
    BY DEF EventPage, SourceDelete, EventDelete, ForgetReport, ForgetFails
<1>2. \A s \in Sweep : Goto(f, s) => forget'[f].stage = s
    BY DEF Goto, SweepTyped
<1>3. CASE ForgetFails(f)
    <2>1. forget[f].stage \notin {"idle", "done"} /\ forget'[f].stage = "dead" /\ UNCHANGED succeeded
        BY <1>2, <1>3 DEF ForgetFails, Sweep
    <2>2. RecordsTodo(f)' /\ CandidatesTodo(f)' /\ EventsTodo(f)'
        BY <2>1 DEF RecordsTodo, CandidatesTodo, EventsTodo
    <2>3. Reported(f)'
        BY <1>1, <2>1 DEF Reported, TodoInv
    <2> QED
        BY <2>2, <2>3 DEF TodoInv
<1>4. CASE ForgetReport(f)
    <2>1. forget[f].stage = "report" /\ forget'[f].stage = "done"
        BY <1>2, <1>4 DEF ForgetReport, Sweep
    <2>2. RecordsTodo(f)'
        BY <1>1, <2>1 DEF RecordsTodo, TodoInv, Shrinks, Paged
    <2>3. CandidatesTodo(f)' /\ EventsTodo(f)'
        BY <1>1, <2>1 DEF CandidatesTodo, EventsTodo, TodoInv, Shrinks
    <2>4. Reported(f)'
        BY <1>1, <2>1 DEF Reported, TodoInv
    <2> QED
        BY <2>2, <2>3, <2>4 DEF TodoInv
<1>5. CASE EventPage(f)
    <2>1. forget[f].stage = "events" /\ UNCHANGED succeeded
        BY <1>5 DEF EventPage
    <2>2. CASE EventsInScope = {} /\ Goto(f, "report")
        <3>1. forget'[f].stage = "report"
            BY <1>2, <2>2 DEF Sweep
        <3>2. seen'[f].events = {}
            BY <2>2 DEF Shrinks, SeenKept
        <3>3. RecordsTodo(f)'
            BY <1>1, <2>1, <3>1 DEF RecordsTodo, TodoInv, Shrinks, Paged
        <3>4. CandidatesTodo(f)' /\ EventsTodo(f)'
            BY <1>1, <2>1, <3>1, <3>2 DEF CandidatesTodo, EventsTodo, TodoInv, Shrinks
        <3>5. Reported(f)'
            BY <1>1, <2>1, <3>1 DEF Reported, TodoInv, EventsTodo
        <3> QED
            BY <3>3, <3>4, <3>5 DEF TodoInv
    <2>3. ASSUME NEW S \in SUBSET EventsInScope,
                 forget' = [forget EXCEPT ![f].stage = "sources", ![f].page = S]
          PROVE  TodoInv(f)'
        <3>1. forget'[f].stage = "sources" /\ forget'[f].page = S
            BY <2>3 DEF SweepTyped, SweepRow
        <3>2. S \subseteq EventIds
            BY DEF EventsInScope, StoredEvents
        <3>3. RecordsTodo(f)'
            BY <1>1, <2>1, <3>1 DEF RecordsTodo, TodoInv, Shrinks, Paged
        <3>4. CandidatesTodo(f)' /\ EventsTodo(f)'
            BY <1>1, <2>1, <3>1, <3>2 DEF CandidatesTodo, EventsTodo, TodoInv, Shrinks
        <3>5. Reported(f)'
            BY <1>1, <2>1, <3>1 DEF Reported, TodoInv
        <3> QED
            BY <3>3, <3>4, <3>5 DEF TodoInv
    <2> QED
        BY <1>5, <2>2, <2>3 DEF EventPage
<1>6. CASE SourceDelete(f)
    <2>1. /\ forget[f].stage = "sources" /\ UNCHANGED succeeded
          /\ forget'[f].stage = "delete" /\ forget'[f].page = forget[f].page
        BY <1>6 DEF SourceDelete, SweepTyped, SweepRow
    <2>2. RecordsTodo(f)'
        BY <1>1, <2>1 DEF RecordsTodo, TodoInv, Shrinks, Paged
    <2>3. CandidatesTodo(f)' /\ EventsTodo(f)'
        BY <1>1, <2>1 DEF CandidatesTodo, EventsTodo, TodoInv, Shrinks
    <2>4. Reported(f)'
        BY <1>1, <2>1 DEF Reported, TodoInv
    <2> QED
        BY <2>2, <2>3, <2>4 DEF TodoInv
<1>7. CASE EventDelete(f)
    <2>1. /\ forget[f].stage = "delete" /\ UNCHANGED succeeded
          /\ forget'[f].stage \in {"dead", "events"}
        BY <1>2, <1>7 DEF EventDelete, Sweep
    <2>2. RecordsTodo(f)'
        BY <1>1, <2>1 DEF RecordsTodo, TodoInv, Shrinks, Paged
    <2>3. CandidatesTodo(f)' /\ EventsTodo(f)'
        BY <1>1, <2>1 DEF CandidatesTodo, EventsTodo, TodoInv, Shrinks
    <2>4. Reported(f)'
        BY <1>1, <2>1 DEF Reported, TodoInv
    <2> QED
        BY <2>2, <2>3, <2>4 DEF TodoInv
<1> QED
    BY <1>3, <1>4, <1>5, <1>6, <1>7

\* A request starts with all of its scope to do.
LEMMA StartTodo ==
    ASSUME StoreTyped, SweepTyped, (SweepTyped)', NEW f \in Forgets, NEW T \in Targets, TodoInv(f),
           ForgetStart(f, T)
    PROVE  TodoInv(f)' /\ SeenKept(f)'
<1>1. /\ forget[f].stage = "idle"
      /\ UNCHANGED <<scope, record, candidate, event, succeeded>>
      /\ running' = IF scope = "all" THEN running ELSE running \union {f}
    BY DEF ForgetStart, logVars, storeVars
<1>2. forget'[f] = [stage |-> "records", last |-> 0, page |-> T, more |-> FALSE]
    BY DEF ForgetStart, SweepTyped
<1>3. seen'[f] = [records |-> IF scope = "memory" THEN RecordsInScope \intersect T ELSE RecordsInScope,
                  events |-> EventsInScope, candidates |-> PendingInScope]
    BY DEF ForgetStart, SweepTyped
<1>4. /\ Stored' = Stored /\ Active' = Active /\ RecordsInScope' = RecordsInScope
      /\ EventsInScope' = EventsInScope /\ PendingInScope' = PendingInScope
    BY <1>1 DEF Stored, Active, RecordsInScope, EventsInScope, PendingInScope, StoredEvents, InScope
<1>5. /\ seen'[f].records \subseteq RecordsInScope /\ seen'[f].events = EventsInScope
      /\ seen'[f].candidates = PendingInScope /\ RecordsInScope \subseteq RecordIds
      /\ scope = "memory" => seen'[f].records \subseteq T
    BY <1>3 DEF RecordsInScope, Stored
<1>6. SeenKept(f)'
    <2>1. \A m \in seen'[f].records : record'[m].status # "none"
        BY <1>1, <1>5 DEF RecordsInScope, Stored
    <2>2. LeftRecords(f)' \subseteq RecordsInScope'
        BY <1>4, <1>5 DEF LeftRecords
    <2>3. \A c \in seen'[f].candidates : candidate'[c].state # "none"
        BY <1>1, <1>5 DEF PendingInScope
    <2>4. LeftPending(f)' \subseteq PendingInScope'
        BY <1>4, <1>5 DEF LeftPending
    <2> QED
        BY <1>4, <1>5, <2>1, <2>2, <2>3, <2>4 DEF SeenKept
<1>a. \A m \in RecordIds : 0 < m
    BY ForgetAssumption
<1>7. \A m \in LeftRecords(f)' : 0 < m
    BY <1>5, <1>a DEF LeftRecords
<1>8. \A m \in LeftActive(f)' : 0 < m
    BY <1>5, <1>a DEF LeftActive
<1>9. forget'[f].stage = "records" /\ forget'[f].last = 0 /\ forget'[f].page = T
    BY <1>2
<1>10. T \subseteq RecordIds /\ (Paged => T = {})
    BY DEF Targets, Paged
<1>11. Ahead(f, LeftRecords(f))' \/ ~Paged
    BY <1>7, <1>9, <1>10 DEF Ahead
<1>12. scope = "memory" => LeftActive(f)' \subseteq T
    BY <1>5 DEF LeftActive
<1>13. RecordsTodo(f)'
    BY <1>1, <1>8, <1>9, <1>10, <1>11, <1>12 DEF RecordsTodo, Paged
<1>14. CandidatesTodo(f)' /\ EventsTodo(f)'
    BY <1>9 DEF CandidatesTodo, EventsTodo
<1>15. Reported(f)'
    BY <1>1, <1>9 DEF Reported, TodoInv
<1> QED
    BY <1>6, <1>13, <1>14, <1>15 DEF TodoInv
-------------------------------------------------------------------------------
(* The invariant.                                                          *)

\* A sweep's step other than its start.
SweepStep(f) ==
    \/ ForgetPage(f) \/ ForgetRecord(f) \/ ForgetTarget(f) \/ DeleteAllBatch(f)
    \/ CandidatePage(f) \/ CandidateReject(f)
    \/ EventPage(f) \/ SourceDelete(f) \/ EventDelete(f)
    \/ ForgetReport(f) \/ ForgetFails(f)

\* A step of a client.
UseStep ==
    \/ \E m \in RecordIds, u \in Authors, h \in Hits : CreateMemory(m, u, h)
    \/ \E m \in RecordIds, h \in Hits : UpdateMemory(m, h)
    \/ \E m \in RecordIds : DeleteMemory(m)
    \/ \E c \in Candidates, u \in Authors, e \in EventIds \union {None} : Propose(c, u, e)
    \/ \E c \in Candidates, m \in RecordIds, u \in Authors, h \in Hits : Approve(c, m, u, h)
    \/ Requested

LEMMA NextSteps ==
    Next <=> \/ UseStep
             \/ \E f \in Forgets, T \in Targets : ForgetStart(f, T)
             \/ \E f \in Forgets : SweepStep(f)
BY DEF Next, UseStep, SweepStep

\* Nothing is destroyed before it is recorded that a request runs.
LEMMA UseTraced ==
    ASSUME StoreTyped, InterruptedIsTraced, UseStep
    PROVE  InterruptedIsTraced'
<1>1. UNCHANGED <<purged, running>>
    BY DEF UseStep, CreateMemory, UpdateMemory, DeleteMemory, Propose, Approve, Requested, Append,
           AppendRead, AppendInsert, AppendReread, AppendAudit, AppendFails, logVars, sweepVars
<1>2. \A m \in RecordIds : record'[m].status = "gone" => record[m].status = "gone"
    <2>1. \A m \in RecordIds : record[m] \in RecordRow
        BY DEF StoreTyped
    <2>2. CASE Requested
        BY <2>2 DEF Requested, storeVars
    <2>3. CASE \E c \in Candidates, u \in Authors, e \in EventIds \union {None} : Propose(c, u, e)
        BY <2>3 DEF Propose
    <2>4. ASSUME NEW m \in RecordIds, NEW u, NEW h,
                 record' = [record EXCEPT ![m] = [status |-> "active", user |-> u, hit |-> h]]
          PROVE  \A n \in RecordIds : record'[n].status = "gone" => record[n].status = "gone"
        BY <2>4 DEF StoreTyped
    <2>5. CASE \/ \E m \in RecordIds, u \in Authors, h \in Hits : CreateMemory(m, u, h)
               \/ \E c \in Candidates, m \in RecordIds, u \in Authors, h \in Hits : Approve(c, m, u, h)
        BY <2>4, <2>5 DEF CreateMemory, Approve
    <2>6. ASSUME NEW m \in RecordIds, NEW h, record' = [record EXCEPT ![m].hit = h]
          PROVE  \A n \in RecordIds : record'[n].status = "gone" => record[n].status = "gone"
        BY <2>1, <2>6 DEF StoreTyped, RecordRow
    <2>7. CASE \E m \in RecordIds, h \in Hits : UpdateMemory(m, h)
        BY <2>6, <2>7 DEF UpdateMemory
    <2>8. CASE \E m \in RecordIds : DeleteMemory(m)
        BY <2>1, <2>8 DEF DeleteMemory, StoreTyped, RecordRow
    <2> QED
        BY <2>2, <2>3, <2>5, <2>7, <2>8 DEF UseStep
<1> QED
    BY <1>1, <1>2 DEF InterruptedIsTraced

LEMMA SweepTraced ==
    ASSUME StoreTyped, InterruptedIsTraced, NEW f \in Forgets, TodoInv(f), SweepStep(f)
    PROVE  InterruptedIsTraced'
<1>1. running' = running
    BY DEF SweepStep, ForgetPage, ForgetRecord, ForgetTarget, DeleteAllBatch, CandidatePage,
           CandidateReject, EventPage, SourceDelete, EventDelete, ForgetReport, ForgetFails
<1>2. CASE ForgetRecord(f) \/ ForgetTarget(f) \/ EventDelete(f)
    <2>1. f \in running
        BY <1>2 DEF ForgetRecord, ForgetTarget, EventDelete, TodoInv, Reported, EventsTodo
    <2> QED
        BY <1>1, <2>1 DEF InterruptedIsTraced
<1>3. CASE DeleteAllBatch(f)
    <2>1. \A m \in RecordIds : record'[m].status = "gone" => record[m].status = "gone"
        BY <1>3 DEF DeleteAllBatch, StoreTyped, RecordRow
    <2> QED
        BY <1>1, <1>3, <2>1 DEF DeleteAllBatch, logVars, InterruptedIsTraced
<1>4. CASE UNCHANGED <<record, purged>>
    BY <1>1, <1>4 DEF InterruptedIsTraced
<1> QED
    BY <1>2, <1>3, <1>4 DEF SweepStep, ForgetPage, CandidatePage, CandidateReject, EventPage,
       SourceDelete, ForgetReport, ForgetFails, logVars, storeVars

LEMMA InitInv == Init => Inv
<1> SUFFICES ASSUME Init PROVE Inv
    OBVIOUS
<1>1. LogInv
    BY LogInitInv DEF Init
<1>2. \A f \in Forgets : /\ forget[f] = [stage |-> "idle", last |-> 0, page |-> {}, more |-> FALSE]
                         /\ seen[f] = [records |-> {}, events |-> {}, candidates |-> {}]
    BY DEF Init
<1>3. StoreTyped
    <2>1. [status |-> "none", user |-> Subject, hit |-> FALSE] \in RecordRow
        BY ForgetAssumption DEF RecordRow
    <2>2. [state |-> "none", user |-> Subject, event |-> None] \in CandidateRow
        BY ForgetAssumption DEF CandidateRow
    <2> QED
        BY <2>1, <2>2 DEF Init, StoreTyped
<1>4. SweepTyped
    <2>1. {} \in SUBSET RecordIds
        OBVIOUS
    <2>2. [stage |-> "idle", last |-> 0, page |-> {}, more |-> FALSE] \in SweepRow
        BY <2>1, PagesAre DEF SweepRow, Sweep
    <2>3. [records |-> {}, events |-> {}, candidates |-> {}]
              \in [records : SUBSET RecordIds, events : SUBSET EventIds, candidates : SUBSET Candidates]
        OBVIOUS
    <2> QED
        BY <2>2, <2>3 DEF Init, SweepTyped
<1>5. TypeOK
    BY <1>1, <1>3, <1>4, TypeParts DEF LogInv
<1>6. SeenInv
    BY <1>2 DEF SeenInv, SeenKept, LeftRecords, LeftPending
<1>7. \A f \in Forgets : TodoInv(f)
    BY <1>2 DEF Init, TodoInv, RecordsTodo, CandidatesTodo, EventsTodo, Reported
<1>8. InterruptedIsTraced
    <2>1. \A m \in RecordIds : record[m].status = "none"
        BY DEF Init
    <2>2. purged = 0
        BY DEF Init, LogInit
    <2> QED
        BY <2>1, <2>2 DEF InterruptedIsTraced
<1> QED
    BY <1>1, <1>5, <1>6, <1>7, <1>8 DEF Inv
\* The other requests do not move.
LEMMA OthersStand ==
    ASSUME SweepTyped, NEW f \in Forgets, SweepStep(f), NEW g \in Forgets, g # f
    PROVE  forget'[g] = forget[g] /\ (g \in succeeded' => g \in succeeded) /\ running' = running
<1>1. running' = running /\ (g \in succeeded' => g \in succeeded)
    BY DEF SweepStep, ForgetPage, ForgetRecord, ForgetTarget, DeleteAllBatch, CandidatePage,
           CandidateReject, EventPage, SourceDelete, EventDelete, ForgetReport, ForgetFails
<1>2. \A row : forget' = [forget EXCEPT ![f] = row] => forget'[g] = forget[g]
    BY DEF SweepTyped
<1>3. CASE \E s : Goto(f, s)
    BY <1>1, <1>2, <1>3 DEF Goto
<1>4. CASE ForgetPage(f)
    BY <1>3, <1>4 DEF ForgetPage, SweepTyped
<1>5. CASE ForgetRecord(f)
    BY <1>3, <1>5 DEF ForgetRecord, SweepTyped
<1>6. CASE ForgetTarget(f)
    BY <1>3, <1>6 DEF ForgetTarget, SweepTyped
<1>7. CASE DeleteAllBatch(f)
    BY <1>3, <1>7 DEF DeleteAllBatch, SweepTyped
<1>8. CASE CandidatePage(f)
    BY <1>3, <1>8 DEF CandidatePage, SweepTyped
<1>9. CASE CandidateReject(f) \/ SourceDelete(f)
    BY <1>9 DEF CandidateReject, SourceDelete, SweepTyped
<1>10. CASE EventPage(f)
    BY <1>3, <1>10 DEF EventPage, SweepTyped
<1>11. CASE EventDelete(f) \/ ForgetReport(f) \/ ForgetFails(f)
    BY <1>3, <1>11 DEF EventDelete, ForgetReport, ForgetFails
<1> QED
    BY <1>1, <1>4, <1>5, <1>6, <1>7, <1>8, <1>9, <1>10, <1>11 DEF SweepStep

LEMMA NextInv == Inv /\ [Next]_vars => Inv'
<1> SUFFICES ASSUME Inv, [Next]_vars PROVE Inv'
    OBVIOUS
<1>0. /\ LogInv /\ LogTypeOK /\ StoreTyped /\ SweepTyped /\ SeenInv /\ InterruptedIsTraced
      /\ \A g \in Forgets : TodoInv(g) /\ SeenKept(g)
    BY TypeParts DEF Inv, SeenInv
<1>1. LogInv'
    BY <1>0, StepOfLog, LogNextInv
<1>2. ASSUME StoreTyped', SweepTyped' PROVE TypeOK'
    <2>1. LogTypeOK'
        BY <1>1 DEF LogInv
    <2> QED
        BY <1>2, <2>1 DEF TypeOK, StoreTyped, SweepTyped, RecordRow, CandidateRow, SweepRow, Pages
<1>3. CASE UseStep
    <2>1. StoreTyped' /\ SweepTyped'
        BY <1>0, <1>3, UseTyped DEF UseStep
    <2>2. Decays
        BY <1>0, <1>3, UseDecays DEF UseStep
    <2>3. UNCHANGED <<forget, running, succeeded>>
        BY <1>3 DEF UseStep, CreateMemory, UpdateMemory, DeleteMemory, Propose, Approve, Requested,
                    sweepVars
    <2>4. ASSUME NEW g \in Forgets PROVE SeenKept(g)' /\ TodoInv(g)'
        <3>1. Shrinks(g) /\ SeenKept(g)'
            BY <1>0, <2>2, DecayShrinks DEF Decays
        <3>2. TodoInv(g)'
            BY <1>0, <2>3, <3>1, TodoFrame
        <3> QED
            BY <3>1, <3>2
    <2>5. InterruptedIsTraced'
        BY <1>0, <1>3, UseTraced
    <2> QED
        BY <1>1, <1>2, <2>1, <2>4, <2>5 DEF Inv, SeenInv
<1>4. ASSUME NEW f \in Forgets, NEW T \in Targets, ForgetStart(f, T) PROVE Inv'
    <2>1. StoreTyped' /\ SweepTyped'
        BY <1>0, <1>4, StartTyped
    <2>2. TodoInv(f)' /\ SeenKept(f)'
        BY <1>0, <1>4, <2>1, StartTodo
    <2>3. /\ UNCHANGED <<scope, record, candidate, event, succeeded, purged>>
          /\ running \subseteq running'
          /\ \A g \in Forgets : g # f => forget'[g] = forget[g] /\ seen'[g] = seen[g]
        BY <1>0, <1>4 DEF ForgetStart, SweepTyped, logVars, storeVars
    <2>4. ASSUME NEW g \in Forgets, g # f PROVE SeenKept(g)' /\ TodoInv(g)'
        <3>1. StoreDecays /\ SeenDecays(g)
            BY <2>3, <2>4 DEF StoreDecays, SeenDecays, Stored, Active
        <3>2. Shrinks(g) /\ SeenKept(g)'
            BY <1>0, <3>1, DecayShrinks
        <3>3. TodoInv(g)'
            BY <1>0, <2>3, <2>4, <3>2, TodoFrame
        <3> QED
            BY <3>2, <3>3
    <2>5. InterruptedIsTraced'
        BY <1>0, <2>3 DEF InterruptedIsTraced
    <2>6. \A g \in Forgets : SeenKept(g)' /\ TodoInv(g)'
        BY <2>2, <2>4
    <2> QED
        BY <1>1, <1>2, <2>1, <2>5, <2>6 DEF Inv, SeenInv
<1>5. ASSUME NEW f \in Forgets, SweepStep(f) PROVE Inv'
    <2>1. StoreTyped' /\ SweepTyped'
        BY <1>0, <1>5, SweepStepTyped DEF SweepStep
    <2>2. Decays
        BY <1>0, <1>5, SweepDecays DEF SweepStep
    <2>3. ASSUME NEW g \in Forgets PROVE SeenKept(g)' /\ TodoInv(g)'
        <3>1. Shrinks(g) /\ SeenKept(g)'
            BY <1>0, <2>2, DecayShrinks DEF Decays
        <3>2. CASE g # f
            BY <1>0, <1>5, <3>1, <3>2, OthersStand, TodoFrame
        <3>3. CASE g = f
            BY <1>0, <1>5, <2>1, <3>1, <3>3, PageTodo, RecordTodo, TargetTodo, BulkTodo,
               CandidatePageTodo, RejectTodo, LateTodo DEF SweepStep
        <3> QED
            BY <3>1, <3>2, <3>3
    <2>4. InterruptedIsTraced'
        BY <1>0, <1>5, SweepTraced
    <2> QED
        BY <1>1, <1>2, <2>1, <2>3, <2>4 DEF Inv, SeenInv
<1>6. CASE UNCHANGED vars
    <2>1. UNCHANGED <<scope, record, sources, candidate, forget, running, succeeded, seen, event, purged>>
        BY <1>6 DEF vars, logVars, storeVars, sweepVars
    <2>2. StoreTyped' /\ SweepTyped'
        BY <1>0, <2>1 DEF StoreTyped, SweepTyped, Stored, StoredEvents
    <2>3. Decays
        BY <1>0, <2>1, StillDecays
    <2>4. ASSUME NEW g \in Forgets PROVE SeenKept(g)' /\ TodoInv(g)'
        <3>1. Shrinks(g) /\ SeenKept(g)'
            BY <1>0, <2>3, DecayShrinks DEF Decays
        <3>2. TodoInv(g)'
            BY <1>0, <2>1, <3>1, TodoFrame
        <3> QED
            BY <3>1, <3>2
    <2>5. InterruptedIsTraced'
        BY <1>0, <2>1 DEF InterruptedIsTraced
    <2> QED
        BY <1>1, <1>2, <2>2, <2>4, <2>5 DEF Inv, SeenInv
<1> QED
    BY <1>3, <1>4, <1>5, <1>6, NextSteps

-------------------------------------------------------------------------------
(* The theorems.                                                           *)

\* The inductive invariant: what is left of a request's rows is ahead of it.
THEOREM ForgetInvariant == Spec => []Inv
BY InitInv, NextInv, PTL DEF Spec

\* Rows, sources and the state of the sweeps are well formed; a source never
\* cites a row that is gone (privacy.rs deletes the sources first).
THEOREM TypeCorrect == Spec => []TypeOK
<1>1. Inv => TypeOK
    BY DEF Inv
<1> QED
    BY <1>1, ForgetInvariant, PTL

\* Under the sweeps the log of events is still the protocol of EventLog, with
\* deletions of events (store.rs, append_open_api_event_with_audit).
THEOREM ImplementsLog == Spec => LogSpec
<1>1. Init => LogInit
    BY DEF Init
<1> QED
    BY <1>1, StepOfLog, ForgetInvariant, PTL DEF Spec, LogSpec

\* Audit lines and usage count agree with the events, whatever is deleted.
THEOREM LedgerKept == Spec => []LedgerAgrees
BY ImplementsLog, LedgerAlwaysAgrees, PTL

\* An accepted event is the one stored, or was deleted since.
THEOREM AcceptedKept == Spec => []AcceptedIsStored
BY ImplementsLog, AcceptedAlwaysStored, PTL

\* A request that reports success left nothing of its scope (privacy.rs).
THEOREM SweepsComplete == Spec => []SweepIsComplete
<1>1. Inv => SweepIsComplete
    <2> SUFFICES ASSUME Inv, NEW f \in Forgets, Finished(f)
                 PROVE  /\ seen[f].records \intersect
                              (IF scope \in {"memory", "all"} THEN Active ELSE Stored) = {}
                        /\ scope \in {"space", "user"} => seen[f].events = {}
                        /\ scope = "user" => \A c \in seen[f].candidates : candidate[c].state # "pending"
        BY DEF SweepIsComplete
    <2>1. TodoInv(f) /\ scope \in {"memory", "space", "user", "query", "all"}
        BY ForgetAssumption DEF Inv, TypeOK
    <2>2. forget[f].stage = "done"
        BY <2>1 DEF Finished, TodoInv, Reported
    <2>3. /\ Paged => LeftRecords(f) = {}
          /\ ~Paged => LeftActive(f) = {}
        BY <2>1, <2>2 DEF TodoInv, RecordsTodo
    <2>4. seen[f].records \intersect (IF scope \in {"memory", "all"} THEN Active ELSE Stored) = {}
        BY <2>1, <2>3 DEF Paged, LeftRecords, LeftActive
    <2>5. scope \in {"space", "user"} => seen[f].events = {}
        BY <2>1, <2>2 DEF TodoInv, EventsTodo
    <2>6. scope = "user" => LeftPending(f) = {}
        BY <2>1, <2>2 DEF TodoInv, CandidatesTodo
    <2> QED
        BY <2>4, <2>5, <2>6 DEF LeftPending
<1> QED
    BY <1>1, ForgetInvariant, PTL

\* Nothing is destroyed without a trace (app_backend_api.rs writes the row
\* "running" before the sweep).
THEOREM DestructionTraced == Spec => []InterruptedIsTraced
<1>1. Inv => InterruptedIsTraced
    BY DEF Inv
<1> QED
    BY <1>1, ForgetInvariant, PTL

===============================================================================
