------------------------------- MODULE EventLog -------------------------------
(***************************************************************************)
(* The append of an event with its audit line (store.rs,                   *)
(* append_open_api_event_with_audit), by replicas that share the table.    *)
(*                                                                         *)
(* A replica reads the row of the event id, inserts in a transaction, and  *)
(* when another one was faster rolls back and reads again: its verdict is  *)
(* derived from the row it finds then.  A forget request may delete the    *)
(* row between any two of these steps, and a client that lost its answer   *)
(* sends the event again.                                                  *)
(***************************************************************************)
EXTENDS Integers, FiniteSets

CONSTANTS
    EventIds,   \* event ids of one tenant
    Payloads,   \* what a repetition must agree in: payload and space
    Users,      \* authors
    Requests,   \* calls of the append, each with an audit id of its own
    None        \* no row

ASSUME EventLogAssumption ==
    /\ IsFiniteSet(EventIds)
    /\ None \notin [payload : Payloads, user : Users]

VARIABLES
    event,      \* ai_event: [EventIds -> row or None]
    request,    \* [Requests -> [stage, event, payload, user]]
    audited,    \* requests with a line in ai_audit_log
    usage,      \* the tenant's count of USAGE_METRIC_EVENT_CREATE
    purged,     \* rows_affected of all event deletions
    held        \* history: requests that found or stored their row, which was not
                \* deleted since

logVars == <<event, request, audited, usage, purged, held>>

StoredEvents == {e \in EventIds : event[e] # None}

\* A row of e with payload p is stored.
Same(e, p) == event[e] # None /\ event[e].payload = p

Stage(r, s) == request' = [request EXCEPT ![r].stage = s]

LogInit ==
    /\ event = [e \in EventIds |-> None]
    /\ request \in [Requests -> [stage : {"idle"}, event : EventIds,
                                 payload : Payloads, user : Users]]
    /\ audited = {}
    /\ usage = 0
    /\ purged = 0
    /\ held = {}

\* Defect: whatever row the event id has is taken for a repetition.
VerdictById(r) ==
    IF event[request[r].event] # None THEN Stage(r, "audit") /\ held' = held \union {r}
    ELSE Stage(r, "conflict") /\ UNCHANGED held

\* The verdict from the row that is stored: no row, or another one, is a conflict.
Verdict(r) ==
    IF Same(request[r].event, request[r].payload)
    THEN Stage(r, "audit") /\ held' = held \union {r}
    ELSE Stage(r, "conflict") /\ UNCHANGED held

\* retrieve_event_idempotency_state before the insertion.
AppendRead(r) ==
    /\ request[r].stage = "idle"
    /\ IF event[request[r].event] # None THEN Verdict(r)
       ELSE Stage(r, "insert") /\ UNCHANGED held
    /\ UNCHANGED <<event, audited, usage, purged>>

\* The client gets its answer, or loses it.
Answered(r) ==
    \/ Stage(r, "accepted")
    \/ Stage(r, "failed")

\* The transaction of row, audit line and usage count, or a unique violation.
AppendInsert(r) ==
    /\ request[r].stage = "insert"
    /\ \/ /\ event[request[r].event] = None
          /\ event' = [event EXCEPT ![request[r].event] =
                         [payload |-> request[r].payload, user |-> request[r].user]]
          /\ audited' = audited \union {r}
          /\ usage' = usage + 1
          /\ held' = held \union {r}
          /\ Answered(r)
       \/ /\ event[request[r].event] # None
          /\ Stage(r, "reread")
          /\ UNCHANGED <<event, audited, usage, held>>
    /\ UNCHANGED purged

\* The read after the rollback.
AppendReread(r) ==
    /\ request[r].stage = "reread"
    /\ Verdict(r)
    /\ UNCHANGED <<event, audited, usage, purged>>

\* Defect: a repetition is counted again.
AuditAndCharge(r) ==
    /\ request[r].stage = "audit"
    /\ audited' = audited \union {r}
    /\ usage' = usage + 1
    /\ Answered(r)
    /\ UNCHANGED <<event, purged, held>>

\* append_open_api_event_audit_atomic: a repetition owes only its audit line.
AppendAudit(r) ==
    /\ request[r].stage = "audit"
    /\ audited' = audited \union {r}
    /\ Answered(r)
    /\ UNCHANGED <<event, usage, purged, held>>

\* The replica dies, or a statement fails and its transaction is rolled back.
AppendFails(r) ==
    /\ request[r].stage \in {"insert", "reread", "audit"}
    /\ Stage(r, "failed")
    /\ UNCHANGED <<event, audited, usage, purged, held>>

Append ==
    \E r \in Requests :
        AppendRead(r) \/ AppendInsert(r) \/ AppendReread(r) \/ AppendAudit(r) \/ AppendFails(r)

\* DELETE FROM ai_event WHERE id IN S.
DeleteEvents(S) ==
    /\ event' = [e \in EventIds |-> IF e \in S THEN None ELSE event[e]]
    /\ purged' = purged + Cardinality(StoredEvents \intersect S)
    /\ held' = {r \in held : request[r].event \notin S}
    /\ UNCHANGED <<request, audited, usage>>

LogNext ==
    \/ Append
    \/ \E S \in SUBSET EventIds : DeleteEvents(S)

LogSpec == LogInit /\ [][LogNext]_logVars

-------------------------------------------------------------------------------
(* Properties.                                                             *)

Stages == {"idle", "insert", "reread", "audit", "accepted", "conflict", "failed"}

LogTypeOK ==
    /\ event \in [EventIds -> [payload : Payloads, user : Users] \union {None}]
    /\ request \in [Requests -> [stage : Stages, event : EventIds,
                                 payload : Payloads, user : Users]]
    /\ audited \subseteq Requests
    /\ usage \in Nat
    /\ purged \in Nat
    /\ held \subseteq Requests

\* An accepted request, and never a refused one, has its audit line, and each
\* row that was ever stored was counted once, however often the event was sent
\* and whatever was deleted in between.
LedgerAgrees ==
    /\ \A r \in Requests :
          /\ request[r].stage = "accepted" => r \in audited
          /\ request[r].stage = "conflict" => r \notin audited
    /\ usage = Cardinality(StoredEvents) + purged

\* Whoever won the race to insert, every request that is, or will be, accepted
\* sent what is stored, unless the row was deleted in the meantime.
AcceptedIsStored ==
    \A r \in held : Same(request[r].event, request[r].payload)

===============================================================================
