------------------------------- MODULE Records -------------------------------
(***************************************************************************)
(* The canonical records of one space and what is derived from them: their *)
(* supersession links, their evidence, and the SQLite full-text index      *)
(* (canonical_data.rs, consolidation.rs, search_index.rs, store.rs).       *)
(*                                                                         *)
(* A consolidation merges exact duplicates in batches, one transaction     *)
(* each, and may die between two of them; a repetition with its operation  *)
(* id recovers what is committed from the outbox.  Records are created,    *)
(* superseded, updated, deleted and forgotten in between, and the index is *)
(* rebuilt by two statements that are no transaction.                      *)
(*                                                                         *)
(* Records that consolidation may merge agree in user, scope, type and     *)
(* sensitivity: `text' stands for that whole identity.                     *)
(***************************************************************************)
EXTENDS Integers, FiniteSets

CONSTANTS
    RecordIds,      \* memory ids: each is drawn once
    Texts,          \* identities by which records are duplicates
    Events,         \* events that a record may cite as evidence
    Operations,     \* consolidation operation ids
    BatchLimit,     \* BATCH_LIMIT
    MaxRecords,     \* max_records_per_space; 0 is unlimited
    None            \* NULL in a link

ASSUME RecordsAssumption ==
    /\ IsFiniteSet(RecordIds)
    /\ IsFiniteSet(Events)
    /\ BatchLimit \in Nat \ {0}
    /\ MaxRecords \in Nat
    /\ None \notin RecordIds \union Texts

VARIABLES
    record,     \* ai_record: [RecordIds -> row]
    sources,    \* ai_record_source: [RecordIds -> SUBSET Events]
    fts,        \* ai_record_fts: [RecordIds -> the text of its row, or None]
    rebuild,    \* "idle", or "filling" between the statements of a rebuild
    wiped,      \* history: ids whose index row an unfinished rebuild deleted
    merge,      \* [Operations -> [stage, total]]: a consolidation in its process
    journal,    \* [Operations -> ids in its superseded outbox events]
    merged      \* history: [Operations -> ids it superseded]

vars == <<record, sources, fts, rebuild, wiped, merge, journal, merged>>

Status == {"none", "active", "superseded", "deleted", "gone"}

Row == [status : Status, text : Texts \union {None}, evidence_count : Nat,
        supersedes : RecordIds \union {None}, superseded_by : RecordIds \union {None}]

Active == {m \in RecordIds : record[m].status = "active"}
Listed == {m \in RecordIds : record[m].status \in {"active", "superseded"}}
Stored == {m \in RecordIds : record[m].status \in {"active", "superseded", "deleted"}}

\* count_active_records_on_tx counts status <> 'deleted'.
QuotaExceeded == MaxRecords > 0 /\ Cardinality(Listed) >= MaxRecords

\* No row: not yet created, or forgotten.
NoRow(state) ==
    [status |-> state, text |-> None, evidence_count |-> 0,
     supersedes |-> None, superseded_by |-> None]

\* create_record_on_tx: no record starts with fewer than one piece of evidence.
NewRow(t, old) ==
    [status |-> "active", text |-> t, evidence_count |-> 1,
     supersedes |-> old, superseded_by |-> None]

With(row, state) ==
    [row EXCEPT !.status = state]

Superseded(row, winner) ==
    [row EXCEPT !.status = "superseded", !.superseded_by = winner]

\* The records with a row in the index.
Indexed == {m \in RecordIds : fts[m] # None}

\* sync_record_fts_on_tx of `add', which writes the text that the transaction
\* leaves in the record, and remove_record_fts_on_tx of `remove'.
Reindex(add, remove) ==
    /\ fts' = [m \in RecordIds |-> IF m \in add THEN record'[m].text
                                   ELSE IF m \in remove THEN None ELSE fts[m]]
    /\ wiped' = wiped \ (add \union remove)

Init ==
    /\ record = [m \in RecordIds |-> NoRow("none")]
    /\ sources = [m \in RecordIds |-> {}]
    /\ fts = [m \in RecordIds |-> None]
    /\ rebuild = "idle"
    /\ wiped = {}
    /\ merge = [o \in Operations |-> [stage |-> "idle", total |-> 0]]
    /\ journal = [o \in Operations |-> {}]
    /\ merged = [o \in Operations |-> {}]

-------------------------------------------------------------------------------
(* The life of one record.  A transaction that is refused changes nothing.  *)

\* create_canonical_memory_atomic_with_quota, and the promotion of a candidate
\* with its evidence S.
CreateMemory(m, t, S) ==
    /\ record[m].status = "none"
    /\ ~QuotaExceeded
    /\ record' = [record EXCEPT ![m] = NewRow(t, None)]
    /\ sources' = [sources EXCEPT ![m] = S]
    /\ Reindex({m}, {})
    /\ UNCHANGED <<rebuild, merge, journal, merged>>

\* Defect: any listed record may be superseded, a superseded one again.
SupersedeAnyStatus(old, new, t) ==
    /\ old # new
    /\ old \in Listed
    /\ record[new].status = "none"
    /\ ~QuotaExceeded
    /\ record' = [record EXCEPT ![old] = Superseded(record[old], new),
                                ![new] = NewRow(t, old)]
    /\ Reindex({new}, {old})
    /\ UNCHANGED <<sources, rebuild, merge, journal, merged>>

\* supersede_canonical_memory_atomic_with_quota.  A repeated command finds its
\* chain, or an incompatible one, and changes nothing.
Supersede(old, new, t) ==
    /\ old # new
    /\ record[new].status = "none"
    /\ old \in Active
    /\ ~QuotaExceeded
    /\ record' = [record EXCEPT ![old] = Superseded(record[old], new),
                                ![new] = NewRow(t, old)]
    /\ Reindex({new}, {old})
    /\ UNCHANGED <<sources, rebuild, merge, journal, merged>>

\* Defect: the index keeps the text from before the update.
UpdateUnindexed(m, t) ==
    /\ m \in Listed
    /\ record' = [record EXCEPT ![m].text = t]
    /\ UNCHANGED <<sources, fts, rebuild, wiped, merge, journal, merged>>

\* update_canonical_memory_atomic: not only of an active record, and whatever
\* the update changes, the record's text is indexed again.
UpdateMemory(m, t) ==
    /\ m \in Listed
    /\ record' = [record EXCEPT ![m].text = t]
    /\ Reindex({m}, {})
    /\ UNCHANGED <<sources, rebuild, merge, journal, merged>>

\* delete_canonical_memory_atomic.
DeleteMemory(m) ==
    /\ m \in Listed
    /\ record' = [record EXCEPT ![m] = With(record[m], "deleted")]
    /\ Reindex({}, {m})
    /\ UNCHANGED <<sources, rebuild, merge, journal, merged>>

\* One UPDATE of purge_expired_records_for_scope: the index keeps its rows,
\* which the search joins away.
PurgeExpired(S) ==
    /\ S # {} /\ S \subseteq Listed
    /\ record' = [m \in RecordIds |->
                    IF m \in S THEN With(record[m], "deleted") ELSE record[m]]
    /\ UNCHANGED <<sources, fts, rebuild, wiped, merge, journal, merged>>

\* The row without its links to m.
Unlink(row, m) ==
    [row EXCEPT !.supersedes = IF @ = m THEN None ELSE @,
                !.superseded_by = IF @ = m THEN None ELSE @]

\* Defect: the index row is left to the next rebuild.
HardDeleteKeepsIndex(m) ==
    /\ m \in Stored
    /\ record' = [n \in RecordIds |->
                    IF n = m THEN NoRow("gone") ELSE Unlink(record[n], m)]
    /\ sources' = [sources EXCEPT ![m] = {}]
    /\ UNCHANGED <<fts, rebuild, wiped, merge, journal, merged>>

\* hard_delete_record_with_cleanup.
HardDelete(m) ==
    /\ m \in Stored
    /\ record' = [n \in RecordIds |->
                    IF n = m THEN NoRow("gone") ELSE Unlink(record[n], m)]
    /\ sources' = [sources EXCEPT ![m] = {}]
    /\ Reindex({}, {m})
    /\ UNCHANGED <<rebuild, merge, journal, merged>>

-------------------------------------------------------------------------------
(* Consolidation: consolidate_duplicate_records_in_scope_detailed.         *)

\* Defect: the repetition starts to count at zero.
ConsolidateStartAtZero(o) ==
    /\ merge[o].stage # "running"
    /\ merge' = [merge EXCEPT ![o] = [stage |-> "running", total |-> 0]]
    /\ UNCHANGED <<record, sources, fts, rebuild, wiped, journal, merged>>

\* recover_consolidation_result counts the operation's committed events, then
\* the batches run.  A caller repeats an operation that it saw fail.
ConsolidateStart(o) ==
    /\ merge[o].stage # "running"
    /\ merge' = [merge EXCEPT ![o] = [stage |-> "running", total |-> Cardinality(journal[o])]]
    /\ UNCHANGED <<record, sources, fts, rebuild, wiped, journal, merged>>

\* Defect: superseded records take part.
MergeableNotDeleted == Listed

\* status NOT IN ('deleted', 'superseded').
Mergeable == Active

\* The records that merge with m.
Twins(m) == {n \in Mergeable : record[n].text = record[m].text}

\* The winners of all partitions: one of those with the most evidence each
\* (ties fall to confidence, time and row id, which are not modelled).
Winners ==
    {W \in SUBSET Mergeable :
        \A m \in Mergeable :
            \E w \in W : /\ W \intersect Twins(m) = {w}
                        /\ \A n \in Twins(m) :
                              record[n].evidence_count <= record[w].evidence_count}

\* The winner among W of the partition of m.
WinnerOf(W, m) == CHOOSE w \in W \intersect Twins(m) : TRUE

\* The events of m and of those of D that are merged into it.
Gathered(W, D, m) ==
    sources[m] \union UNION {sources[d] : d \in {d \in D : WinnerOf(W, d) = m}}

\* Defect: the sources of a duplicate are deleted and not transferred.
MergeWithoutTransfer(W, D) ==
    /\ sources' = [m \in RecordIds |-> IF m \in D THEN {} ELSE sources[m]]
    /\ record' = [m \in RecordIds |->
          IF m \in D THEN Superseded(record[m], WinnerOf(W, m))
          ELSE IF \E d \in D : WinnerOf(W, d) = m
          THEN [record[m] EXCEPT !.evidence_count = Cardinality(sources[m])]
          ELSE record[m]]
    /\ Reindex({}, D)

\* The rows of one batch: D is superseded, sources move without doubles, the
\* winner counts its own, and the duplicates leave the index.
Merge(W, D) ==
    /\ sources' = [m \in RecordIds |-> IF m \in D THEN {}
                                      ELSE IF m \in W THEN Gathered(W, D, m) ELSE sources[m]]
    /\ record' = [m \in RecordIds |->
          IF m \in D THEN Superseded(record[m], WinnerOf(W, m))
          ELSE IF \E d \in D : WinnerOf(W, d) = m
          THEN [record[m] EXCEPT !.evidence_count = Cardinality(Gathered(W, D, m))]
          ELSE record[m]]
    /\ Reindex({}, D)

\* Defect: a full batch is taken for the last one.
LastBatchFull(D) == Cardinality(D) <= BatchLimit

\* A short batch is the last one.
LastBatch(D) == Cardinality(D) < BatchLimit

\* One transaction under the space lock.
ConsolidateBatch(o) ==
    /\ merge[o].stage = "running"
    /\ \E W \in Winners :
         LET Duplicates == Mergeable \ W
         IN  \E D \in SUBSET Duplicates :
               /\ \/ Cardinality(D) = BatchLimit
                  \/ D = Duplicates /\ Cardinality(D) < BatchLimit
               /\ Merge(W, D)
               /\ journal' = [journal EXCEPT ![o] = @ \union D]
               /\ merged' = [merged EXCEPT ![o] = @ \union D]
               /\ merge' = [merge EXCEPT
                     ![o] = [stage |-> IF LastBatch(D) THEN "done" ELSE "running",
                             total |-> @.total + Cardinality(D)]]
    /\ UNCHANGED rebuild

\* Defect: a failed operation is kept as failed.
ConsolidateFailsForGood(o) ==
    /\ merge[o].stage = "running"
    /\ merge' = [merge EXCEPT ![o] = [stage |-> "failed", total |-> 0]]
    /\ UNCHANGED <<record, sources, fts, rebuild, wiped, journal, merged>>

\* The process dies, or a statement fails and its batch is rolled back.
ConsolidateFails(o) ==
    /\ merge[o].stage = "running"
    /\ merge' = [merge EXCEPT ![o] = [stage |-> "idle", total |-> 0]]
    /\ UNCHANGED <<record, sources, fts, rebuild, wiped, journal, merged>>

\* The outbox retention drops published events.
PurgeJournal(o, m) ==
    /\ m \in journal[o]
    /\ journal' = [journal EXCEPT ![o] = @ \ {m}]
    /\ UNCHANGED <<record, sources, fts, rebuild, wiped, merge, merged>>

-------------------------------------------------------------------------------
(* rebuild_record_search_indexes on SQLite.                                *)

\* The DELETE, committed by itself.
RebuildClear ==
    /\ rebuild = "idle"
    /\ rebuild' = "filling"
    /\ fts' = [m \in RecordIds |-> None]
    /\ wiped' = wiped \union Indexed
    /\ UNCHANGED <<record, sources, merge, journal, merged>>

\* The INSERT ... SELECT fails as a whole on a row that a writer has indexed in
\* the meantime; it also fails when the process dies before it.
RebuildFill ==
    /\ rebuild = "filling"
    /\ rebuild' = "idle"
    /\ \/ /\ Indexed \intersect Listed = {}
          /\ fts' = [m \in RecordIds |-> IF m \in Listed THEN record[m].text ELSE fts[m]]
          /\ wiped' = {}
       \/ UNCHANGED <<fts, wiped>>
    /\ UNCHANGED <<record, sources, merge, journal, merged>>

-------------------------------------------------------------------------------

Next ==
    \/ \E m \in RecordIds, t \in Texts, S \in SUBSET Events : CreateMemory(m, t, S)
    \/ \E old, new \in RecordIds, t \in Texts : Supersede(old, new, t)
    \/ \E m \in RecordIds, t \in Texts : UpdateMemory(m, t)
    \/ \E m \in RecordIds : DeleteMemory(m)
    \/ \E S \in SUBSET RecordIds : PurgeExpired(S)
    \/ \E m \in RecordIds : HardDelete(m)
    \/ \E o \in Operations : ConsolidateStart(o)
    \/ \E o \in Operations : ConsolidateBatch(o)
    \/ \E o \in Operations : ConsolidateFails(o)
    \/ \E o \in Operations, m \in RecordIds : PurgeJournal(o, m)
    \/ RebuildClear
    \/ RebuildFill

Spec == Init /\ [][Next]_vars

-------------------------------------------------------------------------------
(* Properties.                                                             *)

TypeOK ==
    /\ record \in [RecordIds -> Row]
    /\ sources \in [RecordIds -> SUBSET Events]
    /\ fts \in [RecordIds -> Texts \union {None}]
    /\ rebuild \in {"idle", "filling"}
    /\ wiped \subseteq RecordIds
    /\ merge \in [Operations -> [stage : {"idle", "running", "done"}, total : Nat]]
    /\ journal \in [Operations -> SUBSET RecordIds]
    /\ merged \in [Operations -> SUBSET RecordIds]

\* Following superseded_by from any record ends: no set of records points only
\* into itself.  Every supersession, by hand or by a batch, gives a link to a
\* record that has none itself, whatever the batches before it did.
ChainsEnd ==
    \A S \in SUBSET RecordIds :
        S # {} => \E m \in S : record[m].superseded_by \notin S

\* The links of the chain agree: a record that says which one it supersedes is
\* named by that one, nothing points to a row that was forgotten, and what an
\* active record was superseded by does not exist.
LinksAgree ==
    \A m, n \in RecordIds :
        /\ record[n].supersedes = m => record[m].superseded_by = n
        /\ record[m].superseded_by = n => n \in Stored /\ m \in Stored \ Active

\* A consolidation that has died and was repeated reports what all of its runs
\* have superseded, as long as the retention leaves its events.
ResultExact ==
    \A o \in Operations :
        merge[o].stage = "done" /\ journal[o] = merged[o] =>
            merge[o].total = Cardinality(merged[o])

\* A consolidation that ends leaves no two active duplicates in the space, even
\* when its last batch was exactly full.
DoneMeansDistinct ==
    [][\A o \in Operations :
          merge[o].stage = "running" /\ merge'[o].stage = "done" =>
              \A m, n \in Active' : record'[m].text = record'[n].text => m = n]_vars

\* The evidence for text t.
Evidence(t) == UNION {sources[m] : m \in {m \in Active : record[m].text = t}}

\* A batch loses no evidence: what was cited for a text by any active record is
\* cited by the one that wins.
EvidenceKept ==
    [][(\E o \in Operations : merged'[o] # merged[o]) =>
          \A t \in Texts : Evidence(t)' = Evidence(t)]_vars

\* Every active record is found by the text it has now, whichever updates,
\* merges and rebuilds it went through, unless a rebuild that has not ended, or
\* that has failed, deleted its row and no write has indexed it since.
SearchSeesActive == \A m \in Active : fts[m] = record[m].text \/ m \in wiped

\* A forgotten record leaves no text in the index, also when it had expired,
\* which leaves its row there, or a rebuild was under way.
ForgottenNotIndexed == Indexed \subseteq Stored

===============================================================================
