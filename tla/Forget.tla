-------------------------------- MODULE Forget --------------------------------
(***************************************************************************)
(* A privacy request against a space that is in use: create_forget_request *)
(* (app_backend_api.rs) and the sweeps of privacy.rs, and the bulk         *)
(* deletion of canonical_data.rs, which sweeps in the same way.            *)
(*                                                                         *)
(* A sweep reads a page of ids past its cursor and deletes row by row, one *)
(* transaction each, then deletes the events in batches of three           *)
(* statements.  Between any two statements records are created, updated,   *)
(* deleted and promoted, and events appended (module EventLog).  The audit *)
(* has a row from before the sweep and one from after it.                  *)
(***************************************************************************)
EXTENDS EventLog

CONSTANTS
    RecordIds,  \* record ids in the order of the sweeps' keys
    Candidates, \* candidate ids in that order
    Forgets,    \* requests
    Scopes,     \* what they may ask for: "memory", "space", "user", "query", or
                \* "all", the bulk deletion
    Subject,    \* the user who asks
    PageSize    \* MAX_LIST_PAGE_SIZE, FORGET_DELETE_BATCH and FORGET_REJECT_BATCH

ASSUME ForgetAssumption ==
    /\ RecordIds \subseteq Nat \ {0} /\ IsFiniteSet(RecordIds)
    /\ Candidates \subseteq Nat \ {0} /\ IsFiniteSet(Candidates)
    /\ Scopes \subseteq {"memory", "space", "user", "query", "all"}
    /\ Subject \in Users
    /\ PageSize \in Nat \ {0}

VARIABLES
    scope,      \* what every request of this behaviour asks for
    record,     \* ai_record: [RecordIds -> [status, user, hit]]; hit: the query matches
    sources,    \* ai_record_source: pairs of record and event
    candidate,  \* ai_candidate: [Candidates -> [state, user, event]]
    forget,     \* [Forgets -> [stage, last, page, more]]: a request in its process
    running,    \* requests with a "running" row in the audit log
    succeeded,  \* requests with a "succeeded" row there
    seen        \* history: [Forgets -> rows in scope when the request was accepted]

storeVars == <<record, sources, candidate>>
sweepVars == <<forget, running, succeeded, seen>>
vars == <<logVars, scope, storeVars, sweepVars>>

Stored == {m \in RecordIds : record[m].status \in {"active", "deleted"}}
Active == {m \in RecordIds : record[m].status = "active"}

\* Rows of a request's scope.
InScope(row) == scope = "user" => row.user = Subject
RecordsInScope ==
    {m \in Stored : InScope(record[m]) /\ (scope = "query" => record[m].hit)}
EventsInScope == {e \in StoredEvents : InScope(event[e])}
PendingInScope == {c \in Candidates : candidate[c].state = "pending" /\ InScope(candidate[c])}

Init ==
    /\ LogInit
    /\ scope \in Scopes
    /\ record = [m \in RecordIds |-> [status |-> "none", user |-> Subject, hit |-> FALSE]]
    /\ sources = {}
    /\ candidate = [c \in Candidates |-> [state |-> "none", user |-> Subject, event |-> None]]
    /\ forget = [f \in Forgets |-> [stage |-> "idle", last |-> 0, page |-> {}, more |-> FALSE]]
    /\ running = {}
    /\ succeeded = {}
    /\ seen = [f \in Forgets |-> [records |-> {}, events |-> {}, candidates |-> {}]]

-------------------------------------------------------------------------------
(* The space in use.                                                       *)

\* create_canonical_memory_atomic: ids are drawn before they are stored, so a
\* record may appear behind a cursor.
CreateMemory(m, u, h) ==
    /\ record[m].status = "none"
    /\ record' = [record EXCEPT ![m] = [status |-> "active", user |-> u, hit |-> h]]
    /\ UNCHANGED <<logVars, scope, sources, candidate, sweepVars>>

\* update_canonical_memory_atomic writes another text.
UpdateMemory(m, h) ==
    /\ m \in Active
    /\ record' = [record EXCEPT ![m].hit = h]
    /\ seen' = IF scope = "query" /\ ~h
               THEN [f \in Forgets |-> [seen[f] EXCEPT !.records = @ \ {m}]] ELSE seen
    /\ UNCHANGED <<logVars, scope, sources, candidate, forget, running, succeeded>>

\* delete_canonical_memory_atomic.
DeleteMemory(m) ==
    /\ m \in Active
    /\ record' = [record EXCEPT ![m].status = "deleted"]
    /\ UNCHANGED <<logVars, scope, sources, candidate, sweepVars>>

\* create_candidate: e may be an event that is not there (any more).
Propose(c, u, e) ==
    /\ candidate[c].state = "none"
    /\ candidate' = [candidate EXCEPT ![c] = [state |-> "pending", user |-> u, event |-> e]]
    /\ UNCHANGED <<logVars, scope, record, sources, sweepVars>>

\* The promotion of a candidate makes a record of the reviewer u and links its
\* event, which must be stored.
Approve(c, m, u, h) ==
    /\ candidate[c].state = "pending"
    /\ record[m].status = "none"
    /\ candidate[c].event # None => candidate[c].event \in StoredEvents
    /\ candidate' = [candidate EXCEPT ![c].state = "approved"]
    /\ record' = [record EXCEPT ![m] = [status |-> "active", user |-> u, hit |-> h]]
    /\ sources' = IF candidate[c].event = None THEN sources
                  ELSE sources \union {<<m, candidate[c].event>>}
    /\ UNCHANGED <<logVars, scope, sweepVars>>

Requested ==
    /\ Append
    /\ UNCHANGED <<scope, storeVars, sweepVars>>

-------------------------------------------------------------------------------
(* The sweep.                                                              *)

\* What request f does next.
Goto(f, s) ==
    forget' = [forget EXCEPT ![f] = [stage |-> s, last |-> 0, page |-> {}, more |-> FALSE]]

\* Defect: the audit row is left to the end of the sweep.
ForgetStartUntraced(f, T) ==
    /\ forget[f].stage = "idle"
    /\ forget' = [forget EXCEPT ![f] = [stage |-> "records", last |-> 0, page |-> T, more |-> FALSE]]
    /\ UNCHANGED <<logVars, scope, storeVars, running, succeeded, seen>>

\* The row "running" is written before the sweep; T are the memory ids asked for.
ForgetStart(f, T) ==
    /\ forget[f].stage = "idle"
    /\ forget' = [forget EXCEPT ![f] = [stage |-> "records", last |-> 0, page |-> T, more |-> FALSE]]
    /\ running' = IF scope = "all" THEN running ELSE running \union {f}
    /\ seen' = [seen EXCEPT ![f] =
          [records |-> IF scope = "memory" THEN RecordsInScope \intersect T ELSE RecordsInScope,
           events |-> EventsInScope,
           candidates |-> PendingInScope]]
    /\ UNCHANGED <<logVars, scope, storeVars, succeeded>>

\* What follows the records.
AfterRecords ==
    CASE scope = "space" -> "events"
      [] scope = "user" -> "candidates"
      [] OTHER -> "report"

IsMin(n, S) == n \in S /\ \A k \in S : n <= k
IsMax(n, S) == n \in S /\ \A k \in S : k <= n

\* The first PageSize of a set of ids.
FirstPage(S) == {n \in S : Cardinality({k \in S : k < n}) < PageSize}

\* Defect: a full page is taken for the end, as if no sentinel row were read.
PageWithoutSentinel(f) ==
    /\ forget[f].stage = "records" /\ forget[f].page = {}
    /\ scope \in {"space", "user", "query"}
    /\ LET rest == {m \in RecordsInScope : m > forget[f].last}
       IN  IF rest = {} THEN Goto(f, AfterRecords)
           ELSE forget' = [forget EXCEPT ![f].page = FirstPage(rest),
                                         ![f].more = scope # "space"]
    /\ UNCHANGED <<logVars, scope, storeVars, running, succeeded, seen>>

\* A page past the cursor.  The sweep of a space knows from one row more whether
\* another page follows, the others end at an empty page.
ForgetPage(f) ==
    /\ forget[f].stage = "records" /\ forget[f].page = {}
    /\ scope \in {"space", "user", "query"}
    /\ LET rest == {m \in RecordsInScope : m > forget[f].last}
       IN  IF rest = {} THEN Goto(f, AfterRecords)
           ELSE forget' = [forget EXCEPT ![f].page = FirstPage(rest),
                                         ![f].more = scope # "space" \/ Cardinality(rest) > PageSize]
    /\ UNCHANGED <<logVars, scope, storeVars, running, succeeded, seen>>

\* Defect: the sources of a record stay.
HardDeleteKeepsSources(m) ==
    /\ record' = IF m \in Stored THEN [record EXCEPT ![m].status = "gone"] ELSE record
    /\ UNCHANGED sources

\* hard_delete_record_with_cleanup: a row that is gone is passed over.
HardDelete(m) ==
    /\ record' = IF m \in Stored THEN [record EXCEPT ![m].status = "gone"] ELSE record
    /\ sources' = {s \in sources : s[1] # m}

\* The next record of the page.
ForgetRecord(f) ==
    /\ forget[f].stage = "records"
    /\ scope \in {"space", "user", "query"}
    /\ \E m \in RecordIds :
          /\ IsMin(m, forget[f].page)
          /\ HardDelete(m)
          /\ IF forget[f].page = {m} /\ ~forget[f].more THEN Goto(f, AfterRecords)
             ELSE forget' = [forget EXCEPT ![f].page = @ \ {m}, ![f].last = m]
    /\ UNCHANGED <<logVars, scope, candidate, running, succeeded, seen>>

\* The next of the memory ids asked for: it is read first, and passed over when
\* retrieve_record_detail does not find it.
ForgetTarget(f) ==
    /\ forget[f].stage = "records" /\ scope = "memory"
    /\ \/ /\ forget[f].page = {}
          /\ Goto(f, AfterRecords)
          /\ UNCHANGED <<record, sources>>
       \/ \E m \in forget[f].page :
             /\ IF m \in Active THEN HardDelete(m) ELSE UNCHANGED <<record, sources>>
             /\ forget' = [forget EXCEPT ![f].page = @ \ {m}]
    /\ UNCHANGED <<logVars, scope, candidate, running, succeeded, seen>>

\* One transaction of delete_all_canonical_memory_atomic.
DeleteAllBatch(f) ==
    /\ forget[f].stage = "records" /\ scope = "all"
    /\ LET rest == {m \in Active : m > forget[f].last}
           page == FirstPage(rest)
       IN  \/ rest = {} /\ Goto(f, "done") /\ UNCHANGED record
           \/ /\ record' = [m \in RecordIds |->
                               IF m \in page THEN [record[m] EXCEPT !.status = "deleted"]
                               ELSE record[m]]
              /\ \E n \in RecordIds : IsMax(n, page) /\ forget' = [forget EXCEPT ![f].last = n]
    /\ UNCHANGED <<logVars, scope, sources, candidate, running, succeeded, seen>>

\* reject_pending_candidates_batched reads a batch past its cursor ...
CandidatePage(f) ==
    /\ forget[f].stage = "candidates" /\ forget[f].page = {}
    /\ LET rest == {c \in PendingInScope : c > forget[f].last}
       IN  IF rest = {} THEN Goto(f, "events")
           ELSE forget' = [forget EXCEPT ![f].page = FirstPage(rest)]
    /\ UNCHANGED <<logVars, scope, storeVars, running, succeeded, seen>>

\* ... and rejects those of it that are still pending.
CandidateReject(f) ==
    /\ forget[f].stage = "candidates"
    /\ candidate' = [c \in Candidates |->
                       IF c \in forget[f].page \intersect PendingInScope
                       THEN [candidate[c] EXCEPT !.state = "rejected"] ELSE candidate[c]]
    /\ \E n \in Candidates :
          /\ IsMax(n, forget[f].page)
          /\ forget' = [forget EXCEPT ![f].page = {}, ![f].last = n]
    /\ UNCHANGED <<logVars, scope, record, sources, running, succeeded, seen>>

\* delete_events_batched: the ids of a batch,
EventPage(f) ==
    /\ forget[f].stage = "events"
    /\ IF EventsInScope = {} THEN Goto(f, "report")
       ELSE \E S \in SUBSET EventsInScope :
              /\ Cardinality(S) = PageSize \/ (S = EventsInScope /\ Cardinality(S) < PageSize)
              /\ forget' = [forget EXCEPT ![f].stage = "sources", ![f].page = S]
    /\ UNCHANGED <<logVars, scope, storeVars, running, succeeded, seen>>

\* the sources that cite them,
SourceDelete(f) ==
    /\ forget[f].stage = "sources"
    /\ sources' = {s \in sources : s[2] \notin forget[f].page}
    /\ forget' = [forget EXCEPT ![f].stage = "delete"]
    /\ UNCHANGED <<logVars, scope, record, candidate, running, succeeded, seen>>

\* and the events; a source that was added in between aborts the statement.
EventDelete(f) ==
    /\ forget[f].stage = "delete"
    /\ IF \E s \in sources : s[2] \in forget[f].page
       THEN Goto(f, "dead") /\ UNCHANGED <<logVars, seen>>
       ELSE /\ DeleteEvents(forget[f].page)
            /\ Goto(f, "events")
            /\ seen' = [g \in Forgets |-> [seen[g] EXCEPT !.events = @ \ forget[f].page]]
    /\ UNCHANGED <<scope, storeVars, running, succeeded>>

\* The row "succeeded", after the sweep.
ForgetReport(f) ==
    /\ forget[f].stage = "report"
    /\ succeeded' = succeeded \union {f}
    /\ Goto(f, "done")
    /\ UNCHANGED <<logVars, scope, storeVars, running, seen>>

\* The process dies, the request times out, or a statement fails.
ForgetFails(f) ==
    /\ forget[f].stage \notin {"idle", "done", "dead"}
    /\ Goto(f, "dead")
    /\ UNCHANGED <<logVars, scope, storeVars, running, succeeded, seen>>

-------------------------------------------------------------------------------

Authors == IF scope = "user" THEN Users ELSE {Subject}
Hits == IF scope = "query" THEN BOOLEAN ELSE {FALSE}
Targets == IF scope = "memory" THEN (SUBSET RecordIds) \ {{}} ELSE {{}}

Next ==
    \/ \E m \in RecordIds, u \in Authors, h \in Hits : CreateMemory(m, u, h)
    \/ \E m \in RecordIds, h \in Hits : UpdateMemory(m, h)
    \/ \E m \in RecordIds : DeleteMemory(m)
    \/ \E c \in Candidates, u \in Authors, e \in EventIds \union {None} : Propose(c, u, e)
    \/ \E c \in Candidates, m \in RecordIds, u \in Authors, h \in Hits : Approve(c, m, u, h)
    \/ Requested
    \/ \E f \in Forgets, T \in Targets : ForgetStart(f, T)
    \/ \E f \in Forgets :
          \/ ForgetPage(f) \/ ForgetRecord(f) \/ ForgetTarget(f) \/ DeleteAllBatch(f)
          \/ CandidatePage(f) \/ CandidateReject(f)
          \/ EventPage(f) \/ SourceDelete(f) \/ EventDelete(f)
          \/ ForgetReport(f) \/ ForgetFails(f)

Spec == Init /\ [][Next]_vars

-------------------------------------------------------------------------------
(* Properties.                                                             *)

Sweep == {"idle", "records", "candidates", "events", "sources", "delete", "report", "done", "dead"}

TypeOK ==
    /\ LogTypeOK
    /\ scope \in Scopes
    /\ record \in [RecordIds -> [status : {"none", "active", "deleted", "gone"},
                                 user : Users, hit : BOOLEAN]]
    /\ sources \subseteq Stored \X StoredEvents
    /\ candidate \in [Candidates -> [state : {"none", "pending", "approved", "rejected"},
                                     user : Users, event : EventIds \union {None}]]
    /\ forget \in [Forgets -> [stage : Sweep, last : Nat, more : BOOLEAN,
                               page : (SUBSET RecordIds) \union (SUBSET Candidates)
                                      \union (SUBSET EventIds)]]
    /\ running \subseteq Forgets
    /\ succeeded \subseteq Forgets
    /\ seen \in [Forgets -> [records : SUBSET RecordIds, events : SUBSET EventIds,
                             candidates : SUBSET Candidates]]

Finished(f) == f \in succeeded \/ (scope = "all" /\ forget[f].stage = "done")

\* A request that reports success has left nothing behind of what was in its
\* scope when it was accepted, whatever was written between its pages: records
\* (those only soft-deleted too, where the sweep looks at them), events, and for
\* a user candidates that wait for review.
SweepIsComplete ==
    \A f \in Forgets : Finished(f) =>
        /\ seen[f].records \intersect (IF scope \in {"memory", "all"} THEN Active ELSE Stored) = {}
        /\ scope \in {"space", "user"} => seen[f].events = {}
        /\ scope = "user" => \A c \in seen[f].candidates : candidate[c].state # "pending"

\* Whatever a privacy request has destroyed, at whatever point it died, the
\* audit log shows that one was running.
InterruptedIsTraced ==
    (\E m \in RecordIds : record[m].status = "gone") \/ purged > 0 => running # {}

\* A request for memory ids that reports success leaves none of them in the
\* tables.  The code skips those that were soft-deleted before.
TargetsErased ==
    \A f \in succeeded : scope = "memory" => seen[f].records \intersect Stored = {}

===============================================================================
