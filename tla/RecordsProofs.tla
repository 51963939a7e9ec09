---------------------------- MODULE RecordsProofs ----------------------------
(***************************************************************************)
(* Proofs about Records, for any number of records, identities, events and *)
(* operations, every batch size and every quota.                           *)
(*                                                                         *)
(* Inv is inductive.  RowsInv says which rows carry links and texts,       *)
(* and makes a supersession end at a row without a link (ChainsEnd); it    *)
(* also makes an active record's index row visible to a rebuild's DELETE   *)
(* (SearchSeesActive).  CountInv keeps a merged record from being merged   *)
(* again, on which the count of a repeated operation rests (ResultExact).  *)
(***************************************************************************)
EXTENDS Records, TLAPS, FiniteSetTheorems

Links == RecordIds \union {None}

\* The empty set under a name, so that it can instantiate a lemma's set.
Nothing == {}

RowsInv ==
    \A m \in RecordIds :
        /\ record[m].status \in {"none", "active", "gone"} => record[m].superseded_by = None
        /\ record[m].status \in {"none", "gone"} => record[m].supersedes = None
        /\ record[m].status \in {"active", "superseded"} => record[m].text \in Texts

CountInv ==
    \A o \in Operations :
        /\ journal[o] \subseteq merged[o]
        /\ \A m \in merged[o] : record[m].status \notin {"none", "active"}
        /\ merge[o].stage \in {"running", "done"} /\ journal[o] = merged[o] =>
              merge[o].total = Cardinality(merged[o])

Inv ==
    /\ TypeOK
    /\ RowsInv
    /\ LinksAgree
    /\ ChainsEnd
    /\ SearchSeesActive
    /\ ForgottenNotIndexed
    /\ CountInv

-------------------------------------------------------------------------------
(* What the row makers write.                                              *)

\* A row is a record of its five columns.
LEMMA RowShape ==
    ASSUME NEW r, r \in Row
    PROVE  /\ r.status \in Status
           /\ r.text \in Texts \union {None}
           /\ r.evidence_count \in Nat
           /\ r.supersedes \in Links
           /\ r.superseded_by \in Links
BY DEF Row, Links

\* The rows of no record and of a new one.
LEMMA FreshRows ==
    ASSUME NEW s \in Status, NEW t \in Texts, NEW old \in Links
    PROVE  /\ NoRow(s) \in Row
           /\ NoRow(s).status = s /\ NoRow(s).text = None
           /\ NoRow(s).supersedes = None /\ NoRow(s).superseded_by = None
           /\ NewRow(t, old) \in Row
           /\ NewRow(t, old).status = "active" /\ NewRow(t, old).text = t
           /\ NewRow(t, old).supersedes = old /\ NewRow(t, old).superseded_by = None
BY DEF Row, NoRow, NewRow, Links, Status

\* A row that is deleted keeps its columns.
LEMMA WithRow ==
    ASSUME NEW r \in Row, NEW s \in Status
    PROVE  /\ With(r, s) \in Row
           /\ With(r, s).status = s
           /\ With(r, s).text = r.text
           /\ With(r, s).supersedes = r.supersedes
           /\ With(r, s).superseded_by = r.superseded_by
BY DEF Row, With

\* A superseded row gets a status and a link.
LEMMA SupersededRow ==
    ASSUME NEW r \in Row, NEW w \in RecordIds
    PROVE  /\ Superseded(r, w) \in Row
           /\ Superseded(r, w).status = "superseded"
           /\ Superseded(r, w).text = r.text
           /\ Superseded(r, w).supersedes = r.supersedes
           /\ Superseded(r, w).superseded_by = w
BY DEF Row, Superseded, Status, Links

\* An unlinked row has no link to m and keeps the others.
LEMMA UnlinkedRow ==
    ASSUME NEW r \in Row, NEW m \in RecordIds
    PROVE  /\ Unlink(r, m) \in Row
           /\ Unlink(r, m).status = r.status
           /\ Unlink(r, m).text = r.text
           /\ Unlink(r, m).supersedes = IF r.supersedes = m THEN None ELSE r.supersedes
           /\ Unlink(r, m).superseded_by = IF r.superseded_by = m THEN None ELSE r.superseded_by
BY DEF Row, Unlink, Links

\* An update and a count write one column.
LEMMA ColumnRows ==
    ASSUME NEW r \in Row, NEW t \in Texts, NEW k \in Nat
    PROVE  /\ [r EXCEPT !.text = t] \in Row
           /\ [r EXCEPT !.text = t].status = r.status
           /\ [r EXCEPT !.text = t].text = t
           /\ [r EXCEPT !.text = t].supersedes = r.supersedes
           /\ [r EXCEPT !.text = t].superseded_by = r.superseded_by
           /\ [r EXCEPT !.evidence_count = k] \in Row
           /\ [r EXCEPT !.evidence_count = k].status = r.status
           /\ [r EXCEPT !.evidence_count = k].text = r.text
           /\ [r EXCEPT !.evidence_count = k].supersedes = r.supersedes
           /\ [r EXCEPT !.evidence_count = k].superseded_by = r.superseded_by
BY DEF Row

-------------------------------------------------------------------------------
(* What any step must do to keep a part of the invariant.                  *)

\* A step that points records only to rows without a link keeps chains finite,
\* whatever else it unlinks.
LEMMA ChainsAfter ==
    ASSUME None \notin RecordIds, ChainsEnd,
           NEW D \in SUBSET RecordIds,
           \A m \in RecordIds \ D :
               record'[m].superseded_by = record[m].superseded_by \/ record'[m].superseded_by = None,
           \A d \in D : \E w \in RecordIds :
               record'[d].superseded_by = w /\ record'[w].superseded_by = None
    PROVE  ChainsEnd'
<1> SUFFICES ASSUME NEW S \in SUBSET RecordIds, S # {}
             PROVE  \E m \in S : record'[m].superseded_by \notin S
    BY DEF ChainsEnd
<1>1. CASE S \intersect D # {}
    <2>1. PICK d \in S \intersect D : TRUE
        BY <1>1
    <2>2. PICK w \in RecordIds : record'[d].superseded_by = w /\ record'[w].superseded_by = None
        BY <2>1
    <2> QED
        BY <2>1, <2>2
<1>2. CASE S \intersect D = {}
    <2>1. PICK m \in S : record[m].superseded_by \notin S
        BY DEF ChainsEnd
    <2>2. m \in RecordIds \ D
        BY <1>2
    <2> QED
        BY <2>1, <2>2
<1> QED
    BY <1>1, <1>2

\* A step that indexes what it writes, and removes only what it takes from the
\* active records, leaves every active record to be found.
LEMMA IndexAfter ==
    ASSUME None \notin Texts,
           record' \in [RecordIds -> Row],
           fts \in [RecordIds -> Texts \union {None}], wiped \in SUBSET RecordIds,
           SearchSeesActive, ForgottenNotIndexed,
           NEW add \in SUBSET RecordIds, NEW remove \in SUBSET RecordIds,
           Reindex(add, remove),
           \A m \in Active' : m \in add \/ (m \in Active \ remove
                                             /\ record'[m].text = record[m].text),
           add \subseteq Stored', Stored \ remove \subseteq Stored'
    PROVE  /\ fts' \in [RecordIds -> Texts \union {None}]
           /\ wiped' \in SUBSET RecordIds
           /\ SearchSeesActive'
           /\ ForgottenNotIndexed'
<1>1. \A m \in RecordIds : record'[m].text \in Texts \union {None}
    BY RowShape
<1>2. fts' \in [RecordIds -> Texts \union {None}]
    BY <1>1 DEF Reindex
<1>3. wiped' \in SUBSET RecordIds
    BY DEF Reindex
<1>4. SearchSeesActive'
    <2> SUFFICES ASSUME NEW m \in Active' PROVE fts'[m] = record'[m].text \/ m \in wiped'
        BY DEF SearchSeesActive
    <2>1. m \in RecordIds
        BY DEF Active
    <2>2. CASE m \in add
        BY <2>1, <2>2 DEF Reindex
    <2>3. CASE m \notin add
        <3>1. m \in Active \ remove /\ record'[m].text = record[m].text
            BY <2>3
        <3>2. fts[m] = record[m].text \/ m \in wiped
            BY <3>1 DEF SearchSeesActive
        <3>3. fts'[m] = fts[m]
            BY <2>1, <2>3, <3>1 DEF Reindex
        <3>4. m \in wiped => m \in wiped'
            BY <2>3, <3>1 DEF Reindex
        <3> QED
            BY <3>1, <3>2, <3>3, <3>4
    <2> QED
        BY <2>2, <2>3
<1>5. ForgottenNotIndexed'
    <2> SUFFICES ASSUME NEW m \in RecordIds, fts'[m] # None PROVE m \in Stored'
        BY DEF ForgottenNotIndexed, Indexed
    <2>1. m \in add \/ (m \notin remove /\ fts[m] # None)
        BY DEF Reindex
    <2>2. m \notin add => m \in Stored \ remove
        BY <2>1 DEF ForgottenNotIndexed, Indexed
    <2> QED
        BY <2>2
<1> QED
    BY <1>2, <1>3, <1>4, <1>5

\* Nothing that is neither new nor active becomes so.
StaysSettled ==
    \A m \in RecordIds :
        record[m].status \notin {"none", "active"} => record'[m].status \notin {"none", "active"}

\* A step of the records alone keeps the counts.
LEMMA CountKept ==
    ASSUME TypeOK, CountInv, StaysSettled, UNCHANGED <<merge, journal, merged>>
    PROVE  CountInv'
<1>1. \A o \in Operations : merged[o] \subseteq RecordIds
    BY DEF TypeOK
<1> QED
    BY <1>1 DEF CountInv, StaysSettled

-------------------------------------------------------------------------------
(* The life of one record.                                                 *)

\* What is left to show of a step that changes records and their index.
LEMMA RecordStep ==
    ASSUME Inv,
           record' \in [RecordIds -> Row],
           sources' \in [RecordIds -> SUBSET Events],
           fts' \in [RecordIds -> Texts \union {None}], wiped' \in SUBSET RecordIds,
           RowsInv', LinksAgree', ChainsEnd', SearchSeesActive', ForgottenNotIndexed',
           StaysSettled, UNCHANGED <<rebuild, merge, journal, merged>>
    PROVE  Inv'
<1>1. TypeOK /\ CountInv
    BY DEF Inv
<1>2. CountInv'
    BY <1>1, CountKept
<1>3. TypeOK'
    BY <1>1 DEF TypeOK
<1> QED
    BY <1>2, <1>3 DEF Inv

\* A new record has no link, and its text is in the index.
LEMMA CreateKeeps ==
    ASSUME Inv, NEW m \in RecordIds, NEW t \in Texts, NEW S \in SUBSET Events,
           CreateMemory(m, t, S)
    PROVE  Inv'
<1> USE RecordsAssumption
<1>1. /\ record \in [RecordIds -> Row]
      /\ sources \in [RecordIds -> SUBSET Events]
      /\ fts \in [RecordIds -> Texts \union {None}] /\ wiped \in SUBSET RecordIds
    BY DEF Inv, TypeOK
<1>2. RowsInv /\ LinksAgree /\ ChainsEnd /\ SearchSeesActive /\ ForgottenNotIndexed
    BY DEF Inv
<1>3. /\ NewRow(t, None) \in Row
      /\ NewRow(t, None).status = "active" /\ NewRow(t, None).text = t
      /\ NewRow(t, None).supersedes = None /\ NewRow(t, None).superseded_by = None
    BY FreshRows DEF Links, Status
<1>4. /\ record[m].status = "none"
      /\ record'[m] = NewRow(t, None)
      /\ \A n \in RecordIds \ {m} : record'[n] = record[n]
      /\ record' \in [RecordIds -> Row]
    BY <1>1, <1>3 DEF CreateMemory
<1>5. sources' \in [RecordIds -> SUBSET Events] /\ Reindex({m}, {})
      /\ UNCHANGED <<rebuild, merge, journal, merged>>
    BY <1>1 DEF CreateMemory
<1>6. RowsInv'
    BY <1>2, <1>3, <1>4 DEF RowsInv
<1>7. record[m].superseded_by = None /\ record[m].supersedes = None
    BY <1>2, <1>4 DEF RowsInv
<1>8. \A n \in RecordIds : record[n].superseded_by # m /\ record[n].supersedes # m
    BY <1>2, <1>4, <1>7 DEF LinksAgree, Stored
<1>9. LinksAgree'
    BY <1>2, <1>3, <1>4, <1>7, <1>8 DEF LinksAgree, Stored, Active
<1>10. ChainsEnd'
    <2>1. /\ Nothing \in SUBSET RecordIds
          /\ \A n \in RecordIds \ Nothing :
                record'[n].superseded_by = record[n].superseded_by \/ record'[n].superseded_by = None
          /\ \A d \in Nothing : \E w \in RecordIds :
                record'[d].superseded_by = w /\ record'[w].superseded_by = None
        BY <1>3, <1>4 DEF Nothing
    <2> QED
        BY <1>2, <2>1, ChainsAfter
<1>11. /\ fts' \in [RecordIds -> Texts \union {None}] /\ wiped' \in SUBSET RecordIds
       /\ SearchSeesActive' /\ ForgottenNotIndexed'
    <2>1. /\ {m} \in SUBSET RecordIds /\ Nothing \in SUBSET RecordIds
          /\ Reindex({m}, Nothing)
        BY <1>5 DEF Nothing
    <2>2. \A n \in Active' : n \in {m} \/ (n \in Active \ Nothing
                                            /\ record'[n].text = record[n].text)
        BY <1>4 DEF Active, Nothing
    <2>3. {m} \subseteq Stored' /\ Stored \ Nothing \subseteq Stored'
        BY <1>3, <1>4 DEF Stored
    <2>4. None \notin Texts /\ record' \in [RecordIds -> Row]
        BY <1>4
    <2> HIDE RecordsAssumption
    <2> QED
        BY <1>1, <1>2, <2>1, <2>2, <2>3, <2>4, IndexAfter
<1>12. StaysSettled
    BY <1>4 DEF StaysSettled
<1> QED
    BY <1>4, <1>5, <1>6, <1>9, <1>10, <1>11, <1>12, RecordStep

\* A step that keeps all links, and what they may point from and to.
LEMMA LinksKept ==
    ASSUME None \notin RecordIds, LinksAgree, ChainsEnd,
           \A n \in RecordIds : /\ record'[n].supersedes = record[n].supersedes
                                /\ record'[n].superseded_by = record[n].superseded_by,
           Stored \subseteq Stored', Stored \ Active \subseteq Stored' \ Active'
    PROVE  LinksAgree' /\ ChainsEnd'
<1>1. LinksAgree'
    BY DEF LinksAgree
<1>2. /\ Nothing \in SUBSET RecordIds
      /\ \A n \in RecordIds \ Nothing :
            record'[n].superseded_by = record[n].superseded_by \/ record'[n].superseded_by = None
      /\ \A d \in Nothing : \E w \in RecordIds :
            record'[d].superseded_by = w /\ record'[w].superseded_by = None
    BY DEF Nothing
<1> QED
    BY <1>1, <1>2, ChainsAfter

\* An update changes no link, and its text is indexed.
LEMMA UpdateKeeps ==
    ASSUME Inv, NEW m \in RecordIds, NEW t \in Texts, UpdateMemory(m, t)
    PROVE  Inv'
<1> USE RecordsAssumption
<1>1. /\ record \in [RecordIds -> Row]
      /\ sources \in [RecordIds -> SUBSET Events]
      /\ fts \in [RecordIds -> Texts \union {None}] /\ wiped \in SUBSET RecordIds
    BY DEF Inv, TypeOK
<1>2. RowsInv /\ LinksAgree /\ ChainsEnd /\ SearchSeesActive /\ ForgottenNotIndexed
    BY DEF Inv
<1>3. /\ record[m].status \in {"active", "superseded"}
      /\ record' = [record EXCEPT ![m].text = t]
      /\ UNCHANGED <<sources, rebuild, merge, journal, merged>>
    BY DEF UpdateMemory, Listed
<1>4. /\ record' \in [RecordIds -> Row]
      /\ record'[m].status = record[m].status
      /\ record'[m].text = t
      /\ record'[m].supersedes = record[m].supersedes
      /\ record'[m].superseded_by = record[m].superseded_by
      /\ \A n \in RecordIds \ {m} : record'[n] = record[n]
    <2>1. record[m] \in Row
        BY <1>1
    <2>2. record' = [n \in RecordIds |-> IF n = m THEN [record[m] EXCEPT !.text = t] ELSE record[n]]
        BY <1>1, <1>3
    <2>3. LET r == [record[m] EXCEPT !.text = t]
          IN  /\ r \in Row /\ r.status = record[m].status /\ r.text = t
              /\ r.supersedes = record[m].supersedes /\ r.superseded_by = record[m].superseded_by
        BY <2>1, 0 \in Nat, ColumnRows
    <2>4. record'[m] = [record[m] EXCEPT !.text = t] /\ \A n \in RecordIds \ {m} : record'[n] = record[n]
        BY <2>2
    <2>5. record' \in [RecordIds -> Row]
        BY <1>1, <2>2, <2>3
    <2> QED
        BY <2>3, <2>4, <2>5
<1>5. /\ \A n \in RecordIds : /\ record'[n].supersedes = record[n].supersedes
                              /\ record'[n].superseded_by = record[n].superseded_by
                              /\ record'[n].status = record[n].status
    BY <1>4
<1>6. Stored' = Stored /\ Active' = Active
    BY <1>5 DEF Stored, Active
<1>7. RowsInv'
    BY <1>2, <1>3, <1>4 DEF RowsInv
<1>8. LinksAgree' /\ ChainsEnd'
    BY <1>2, <1>5, <1>6, LinksKept
<1>9. /\ fts' \in [RecordIds -> Texts \union {None}] /\ wiped' \in SUBSET RecordIds
      /\ SearchSeesActive' /\ ForgottenNotIndexed'
    <2>1. {m} \in SUBSET RecordIds /\ Nothing \in SUBSET RecordIds
        BY DEF Nothing
    <2>2. \A n \in Active' : n \in {m} \/ (n \in Active \ Nothing /\ record'[n].text = record[n].text)
        BY <1>4, <1>6 DEF Active, Nothing
    <2>3. Reindex({m}, Nothing)
        BY DEF UpdateMemory, Nothing
    <2>4. {m} \subseteq Stored' /\ Stored \ Nothing \subseteq Stored'
        BY <1>3, <1>6 DEF Stored
    <2>5. None \notin Texts /\ record' \in [RecordIds -> Row]
        BY <1>4
    <2> HIDE RecordsAssumption
    <2> QED
        BY <1>1, <1>2, <2>1, <2>2, <2>3, <2>4, <2>5, IndexAfter
<1>10. StaysSettled
    BY <1>5 DEF StaysSettled
<1> QED
    BY <1>1, <1>3, <1>4, <1>7, <1>8, <1>9, <1>10, RecordStep

\* A deletion changes no link, and the row leaves the index.
LEMMA DeleteKeeps ==
    ASSUME Inv, NEW m \in RecordIds, DeleteMemory(m)
    PROVE  Inv'
<1> USE RecordsAssumption
<1>1. /\ record \in [RecordIds -> Row]
      /\ sources \in [RecordIds -> SUBSET Events]
      /\ fts \in [RecordIds -> Texts \union {None}] /\ wiped \in SUBSET RecordIds
    BY DEF Inv, TypeOK
<1>2. RowsInv /\ LinksAgree /\ ChainsEnd /\ SearchSeesActive /\ ForgottenNotIndexed
    BY DEF Inv
<1>3. /\ record[m].status \in {"active", "superseded"}
      /\ record' = [record EXCEPT ![m] = With(record[m], "deleted")]
      /\ Reindex(Nothing, {m})
      /\ UNCHANGED <<sources, rebuild, merge, journal, merged>>
    BY DEF DeleteMemory, Listed, Nothing
<1>4. /\ record' \in [RecordIds -> Row]
      /\ record'[m].status = "deleted"
      /\ record'[m].supersedes = record[m].supersedes
      /\ record'[m].superseded_by = record[m].superseded_by
      /\ \A n \in RecordIds \ {m} : record'[n] = record[n]
    <2>1. record[m] \in Row /\ "deleted" \in Status
        BY <1>1 DEF Status
    <2> QED
        BY <1>1, <1>3, <2>1, WithRow
<1>5. \A n \in RecordIds : /\ record'[n].supersedes = record[n].supersedes
                           /\ record'[n].superseded_by = record[n].superseded_by
    BY <1>4
<1>6. Stored' = Stored /\ Active' = Active \ {m}
    BY <1>3, <1>4 DEF Stored, Active
<1>7. RowsInv'
    BY <1>2, <1>3, <1>4 DEF RowsInv
<1>8. LinksAgree' /\ ChainsEnd'
    BY <1>2, <1>5, <1>6, LinksKept
<1>9. /\ fts' \in [RecordIds -> Texts \union {None}] /\ wiped' \in SUBSET RecordIds
      /\ SearchSeesActive' /\ ForgottenNotIndexed'
    <2>1. {m} \in SUBSET RecordIds /\ Nothing \in SUBSET RecordIds
        BY DEF Nothing
    <2>2. \A n \in Active' : n \in Nothing \/ (n \in Active \ {m} /\ record'[n].text = record[n].text)
        BY <1>4, <1>6 DEF Active
    <2>3. Nothing \subseteq Stored' /\ Stored \ {m} \subseteq Stored'
        BY <1>6 DEF Nothing
    <2>4. None \notin Texts /\ record' \in [RecordIds -> Row] /\ Reindex(Nothing, {m})
        BY <1>3, <1>4
    <2> HIDE RecordsAssumption
    <2> QED
        BY <1>1, <1>2, <2>1, <2>2, <2>3, <2>4, IndexAfter
<1>10. StaysSettled
    BY <1>4 DEF StaysSettled
<1> QED
    BY <1>1, <1>3, <1>4, <1>7, <1>8, <1>9, <1>10, RecordStep

\* An expiry changes no link and leaves the index alone.
LEMMA PurgeKeeps ==
    ASSUME Inv, NEW S \in SUBSET RecordIds, PurgeExpired(S)
    PROVE  Inv'
<1> USE RecordsAssumption
<1>1. /\ record \in [RecordIds -> Row]
      /\ sources \in [RecordIds -> SUBSET Events]
      /\ fts \in [RecordIds -> Texts \union {None}] /\ wiped \in SUBSET RecordIds
    BY DEF Inv, TypeOK
<1>2. RowsInv /\ LinksAgree /\ ChainsEnd /\ SearchSeesActive /\ ForgottenNotIndexed
    BY DEF Inv
<1>3. /\ S \subseteq Listed
      /\ record' = [m \in RecordIds |-> IF m \in S THEN With(record[m], "deleted") ELSE record[m]]
      /\ UNCHANGED <<sources, fts, rebuild, wiped, merge, journal, merged>>
    BY DEF PurgeExpired
<1>4. /\ record' \in [RecordIds -> Row]
      /\ \A m \in RecordIds : /\ record'[m].supersedes = record[m].supersedes
                              /\ record'[m].superseded_by = record[m].superseded_by
                              /\ record'[m].text = record[m].text
      /\ \A m \in S : record'[m].status = "deleted" /\ record[m].status \in {"active", "superseded"}
      /\ \A m \in RecordIds \ S : record'[m].status = record[m].status
    <2>1. \A m \in RecordIds : record[m] \in Row /\ "deleted" \in Status
        BY <1>1 DEF Status
    <2> QED
        BY <1>3, <2>1, WithRow DEF Listed
<1>5. Stored' = Stored /\ Active' = Active \ S
    BY <1>4 DEF Stored, Active
<1>6. RowsInv'
    BY <1>2, <1>4 DEF RowsInv
<1>7. LinksAgree' /\ ChainsEnd'
    BY <1>2, <1>4, <1>5, LinksKept
<1>8. SearchSeesActive'
    BY <1>2, <1>3, <1>4, <1>5 DEF SearchSeesActive, Active
<1>9. ForgottenNotIndexed'
    BY <1>2, <1>3, <1>5 DEF ForgottenNotIndexed, Indexed
<1>10. StaysSettled
    BY <1>4 DEF StaysSettled
<1> QED
    BY <1>1, <1>3, <1>4, <1>6, <1>7, <1>8, <1>9, <1>10, RecordStep

\* A supersession points an active record, which has no link, to a new one.
LEMMA SupersedeKeeps ==
    ASSUME Inv, NEW old \in RecordIds, NEW new \in RecordIds, NEW t \in Texts,
           Supersede(old, new, t)
    PROVE  Inv'
<1> USE RecordsAssumption
<1>1. /\ record \in [RecordIds -> Row]
      /\ sources \in [RecordIds -> SUBSET Events]
      /\ fts \in [RecordIds -> Texts \union {None}] /\ wiped \in SUBSET RecordIds
    BY DEF Inv, TypeOK
<1>2. RowsInv /\ LinksAgree /\ ChainsEnd /\ SearchSeesActive /\ ForgottenNotIndexed
    BY DEF Inv
<1>3. /\ old # new /\ record[old].status = "active" /\ record[new].status = "none"
      /\ record' = [record EXCEPT ![old] = Superseded(record[old], new), ![new] = NewRow(t, old)]
      /\ UNCHANGED <<sources, rebuild, merge, journal, merged>>
    BY DEF Supersede, Active
<1>4. /\ record' \in [RecordIds -> Row]
      /\ record'[old].status = "superseded" /\ record'[old].superseded_by = new
      /\ record'[old].supersedes = record[old].supersedes /\ record'[old].text = record[old].text
      /\ record'[new].status = "active" /\ record'[new].superseded_by = None
      /\ record'[new].supersedes = old /\ record'[new].text = t
      /\ \A n \in RecordIds \ {old, new} : record'[n] = record[n]
    <2>1. record[old] \in Row /\ "none" \in Status /\ old \in Links
        BY <1>1 DEF Status, Links
    <2>2. /\ Superseded(record[old], new) \in Row
          /\ Superseded(record[old], new).status = "superseded"
          /\ Superseded(record[old], new).text = record[old].text
          /\ Superseded(record[old], new).supersedes = record[old].supersedes
          /\ Superseded(record[old], new).superseded_by = new
        BY <2>1, SupersededRow
    <2>3. /\ NewRow(t, old) \in Row /\ NewRow(t, old).status = "active"
          /\ NewRow(t, old).text = t /\ NewRow(t, old).supersedes = old
          /\ NewRow(t, old).superseded_by = None
        BY <2>1, FreshRows
    <2>4. /\ record'[old] = Superseded(record[old], new) /\ record'[new] = NewRow(t, old)
          /\ \A n \in RecordIds \ {old, new} : record'[n] = record[n]
          /\ record' \in [RecordIds -> Row]
        BY <1>1, <1>3, <2>2, <2>3
    <2> QED
        BY <2>2, <2>3, <2>4
<1>5. RowsInv'
    BY <1>2, <1>3, <1>4 DEF RowsInv
<1>6. /\ record[old].superseded_by = None /\ record[new].superseded_by = None
      /\ \A n \in RecordIds : /\ record[n].supersedes \notin {old, new}
                              /\ record[n].superseded_by # new
    <2>1. record[old].superseded_by = None /\ record[new].superseded_by = None
        BY <1>2, <1>3 DEF RowsInv
    <2>2. \A n \in RecordIds : record[n].superseded_by # new
        BY <1>2, <1>3 DEF LinksAgree, Stored
    <2> QED
        BY <1>2, <2>1, <2>2 DEF LinksAgree
<1>7. LinksAgree'
    <2> SUFFICES ASSUME NEW m \in RecordIds, NEW n \in RecordIds
                 PROVE  /\ record'[n].supersedes = m => record'[m].superseded_by = n
                        /\ record'[m].superseded_by = n => n \in Stored' /\ m \in Stored' \ Active'
        BY DEF LinksAgree
    <2>1. record'[n].supersedes = m => record'[m].superseded_by = n
        <3>1. CASE n = new
            BY <1>4, <3>1
        <3>2. CASE n # new
            <4>1. record'[n].supersedes = record[n].supersedes
                BY <1>4, <3>2
            <4>2. m \in {old, new} => record'[n].supersedes # m
                BY <1>6, <4>1
            <4>3. m \notin {old, new} => record'[m] = record[m]
                BY <1>4
            <4> QED
                BY <1>2, <4>1, <4>2, <4>3 DEF LinksAgree
        <3> QED
            BY <3>1, <3>2
    <2>2. record'[m].superseded_by = n => n \in Stored' /\ m \in Stored' \ Active'
        <3>1. CASE m = old
            BY <1>4, <3>1 DEF Stored, Active
        <3>2. CASE m = new
            BY <1>4, <3>2
        <3>3. CASE m \notin {old, new}
            <4>1. record'[m] = record[m]
                BY <1>4, <3>3
            <4>2. record[m].superseded_by = n => n \in Stored /\ m \in Stored \ Active
                BY <1>2 DEF LinksAgree
            <4>3. Stored \subseteq Stored'
                BY <1>3, <1>4 DEF Stored
            <4> QED
                BY <4>1, <4>2, <4>3 DEF Active
        <3> QED
            BY <3>1, <3>2, <3>3
    <2> QED
        BY <2>1, <2>2
<1>8. ChainsEnd'
    <2>1. \A n \in RecordIds \ {old} :
            record'[n].superseded_by = record[n].superseded_by \/ record'[n].superseded_by = None
        BY <1>4
    <2>2. \A d \in {old} : \E w \in RecordIds :
            record'[d].superseded_by = w /\ record'[w].superseded_by = None
        BY <1>4
    <2>3. None \notin RecordIds /\ {old} \in SUBSET RecordIds /\ ChainsEnd
        BY <1>2
    <2> HIDE RecordsAssumption
    <2> QED
        BY <2>1, <2>2, <2>3, ChainsAfter
<1>9. /\ fts' \in [RecordIds -> Texts \union {None}] /\ wiped' \in SUBSET RecordIds
      /\ SearchSeesActive' /\ ForgottenNotIndexed'
    <2>1. Reindex({new}, {old})
        BY DEF Supersede
    <2>2. \A n \in Active' : n \in {new} \/ (n \in Active \ {old} /\ record'[n].text = record[n].text)
        BY <1>4 DEF Active
    <2>3. {new} \subseteq Stored' /\ Stored \ {old} \subseteq Stored'
        BY <1>3, <1>4 DEF Stored
    <2>4. record' \in [RecordIds -> Row] /\ {new} \in SUBSET RecordIds /\ {old} \in SUBSET RecordIds
        BY <1>4
    <2> QED
        BY <1>1, <1>2, <2>1, <2>2, <2>3, <2>4, IndexAfter
<1>10. StaysSettled
    BY <1>3, <1>4 DEF StaysSettled
<1> QED
    BY <1>1, <1>3, <1>4, <1>5, <1>7, <1>8, <1>9, <1>10, RecordStep

\* A hard deletion clears every link to the row, and its index row.
LEMMA HardDeleteKeeps ==
    ASSUME Inv, NEW m \in RecordIds, HardDelete(m)
    PROVE  Inv'
<1> USE RecordsAssumption
<1>1. /\ record \in [RecordIds -> Row]
      /\ sources \in [RecordIds -> SUBSET Events]
      /\ fts \in [RecordIds -> Texts \union {None}] /\ wiped \in SUBSET RecordIds
    BY DEF Inv, TypeOK
<1>2. RowsInv /\ LinksAgree /\ ChainsEnd /\ SearchSeesActive /\ ForgottenNotIndexed
    BY DEF Inv
<1>3. /\ record[m].status \in {"active", "superseded", "deleted"}
      /\ record' = [n \in RecordIds |->
                      IF n = m THEN NoRow("gone") ELSE Unlink(record[n], m)]
      /\ sources' = [sources EXCEPT ![m] = {}]
      /\ UNCHANGED <<rebuild, merge, journal, merged>>
    BY DEF HardDelete, Stored
<1>4. /\ record' \in [RecordIds -> Row]
      /\ record'[m].status = "gone"
      /\ record'[m].supersedes = None /\ record'[m].superseded_by = None
      /\ \A n \in RecordIds \ {m} :
            /\ record'[n].status = record[n].status
            /\ record'[n].text = record[n].text
            /\ record'[n].supersedes =
                  IF record[n].supersedes = m THEN None ELSE record[n].supersedes
            /\ record'[n].superseded_by =
                  IF record[n].superseded_by = m THEN None ELSE record[n].superseded_by
    <2>1. \A n \in RecordIds : record[n] \in Row
        BY <1>1
    <2>2. \A n \in RecordIds :
             /\ Unlink(record[n], m) \in Row
             /\ Unlink(record[n], m).status = record[n].status
             /\ Unlink(record[n], m).text = record[n].text
             /\ Unlink(record[n], m).supersedes =
                   IF record[n].supersedes = m THEN None ELSE record[n].supersedes
             /\ Unlink(record[n], m).superseded_by =
                   IF record[n].superseded_by = m THEN None ELSE record[n].superseded_by
        BY <2>1, UnlinkedRow
    <2>3. /\ NoRow("gone") \in Row /\ NoRow("gone").status = "gone"
          /\ NoRow("gone").supersedes = None /\ NoRow("gone").superseded_by = None
        BY DEF NoRow, Row, Status
    <2> QED
        BY <1>3, <2>2, <2>3
<1>5. sources' \in [RecordIds -> SUBSET Events]
    BY <1>1, <1>3
<1>6. RowsInv'
    BY <1>2, <1>4 DEF RowsInv
<1>7. Stored' = Stored \ {m} /\ Active' = Active \ {m}
    BY <1>3, <1>4 DEF Stored, Active
<1>8. LinksAgree'
    <2> SUFFICES ASSUME NEW k \in RecordIds, NEW n \in RecordIds
                 PROVE  /\ record'[n].supersedes = k => record'[k].superseded_by = n
                        /\ record'[k].superseded_by = n => n \in Stored' /\ k \in Stored' \ Active'
        BY DEF LinksAgree
    <2>0. k # None /\ n # None
        OBVIOUS
    <2>1. record'[n].supersedes = k => n # m /\ k # m /\ record[n].supersedes = k
        <3>1. n = m => record'[n].supersedes = None
            BY <1>4
        <3>2. n # m => record'[n].supersedes = IF record[n].supersedes = m THEN None
                                                ELSE record[n].supersedes
            BY <1>4
        <3> QED
            BY <2>0, <3>1, <3>2
    <2>2. record'[k].superseded_by = n => n # m /\ k # m /\ record[k].superseded_by = n
        <3>1. k = m => record'[k].superseded_by = None
            BY <1>4
        <3>2. k # m => record'[k].superseded_by = IF record[k].superseded_by = m THEN None
                                                   ELSE record[k].superseded_by
            BY <1>4
        <3> QED
            BY <2>0, <3>1, <3>2
    <2>3. n # m /\ k # m /\ record[k].superseded_by = n => record'[k].superseded_by = n
        BY <1>4
    <2>4. /\ record[n].supersedes = k => record[k].superseded_by = n
          /\ record[k].superseded_by = n => n \in Stored /\ k \in Stored \ Active
        BY <1>2 DEF LinksAgree
    <2> QED
        BY <1>7, <2>1, <2>2, <2>3, <2>4
<1>9. ChainsEnd'
    <2>1. /\ Nothing \in SUBSET RecordIds
          /\ \A n \in RecordIds \ Nothing :
                record'[n].superseded_by = record[n].superseded_by \/ record'[n].superseded_by = None
          /\ \A d \in Nothing : \E w \in RecordIds :
                record'[d].superseded_by = w /\ record'[w].superseded_by = None
        BY <1>4 DEF Nothing
    <2> QED
        BY <1>2, <2>1, ChainsAfter
<1>10. /\ fts' \in [RecordIds -> Texts \union {None}] /\ wiped' \in SUBSET RecordIds
       /\ SearchSeesActive' /\ ForgottenNotIndexed'
    <2>1. {m} \in SUBSET RecordIds /\ Nothing \in SUBSET RecordIds /\ Reindex(Nothing, {m})
        BY DEF Nothing, HardDelete
    <2>2. \A n \in Active' : n \in Nothing \/ (n \in Active \ {m} /\ record'[n].text = record[n].text)
        BY <1>4, <1>7 DEF Active
    <2>3. Nothing \subseteq Stored' /\ Stored \ {m} \subseteq Stored'
        BY <1>7 DEF Nothing
    <2> QED
        BY <1>1, <1>2, <1>4, <2>1, <2>2, <2>3, IndexAfter
<1>11. StaysSettled
    BY <1>4 DEF StaysSettled
<1> QED
    BY <1>3, <1>4, <1>5, <1>6, <1>8, <1>9, <1>10, <1>11, RecordStep

-------------------------------------------------------------------------------
(* Consolidation.                                                          *)

\* Each active record has one winner, which is active and has its text.
LEMMA OneWinner ==
    ASSUME NEW W \in Winners, NEW m \in Active
    PROVE  /\ WinnerOf(W, m) \in W /\ WinnerOf(W, m) \in Active
           /\ record[WinnerOf(W, m)].text = record[m].text
           /\ \A n \in W : record[n].text = record[m].text => n = WinnerOf(W, m)
<1>1. W \in SUBSET Active
    BY DEF Winners, Mergeable
<1>2. PICK w \in W : W \intersect Twins(m) = {w}
    BY DEF Winners, Mergeable
<1>3. WinnerOf(W, m) = w
    BY <1>2 DEF WinnerOf
<1>4. w \in Twins(m)
    BY <1>2
<1>5. \A n \in W : record[n].text = record[m].text => n \in W \intersect Twins(m)
    BY <1>1 DEF Twins, Mergeable
<1> QED
    BY <1>1, <1>2, <1>3, <1>4, <1>5 DEF Twins

\* What a batch writes.
LEMMA BatchMoves ==
    ASSUME record \in [RecordIds -> Row], sources \in [RecordIds -> SUBSET Events],
           NEW W \in Winners, NEW D \in SUBSET (Mergeable \ W), Merge(W, D)
    PROVE  /\ record' \in [RecordIds -> Row]
           /\ sources' \in [RecordIds -> SUBSET Events]
           /\ \A d \in D : /\ d \in Active /\ d \notin W
                           /\ WinnerOf(W, d) \in W /\ WinnerOf(W, d) \in Active \ D
                           /\ record'[d].status = "superseded"
                           /\ record'[d].text = record[d].text
                           /\ record'[d].supersedes = record[d].supersedes
                           /\ record'[d].superseded_by = WinnerOf(W, d)
           /\ \A m \in RecordIds \ D : /\ record'[m].status = record[m].status
                                       /\ record'[m].text = record[m].text
                                       /\ record'[m].supersedes = record[m].supersedes
                                       /\ record'[m].superseded_by = record[m].superseded_by
<1> USE RecordsAssumption
<1>1. \A d \in D : d \in Active /\ d \notin W
    BY DEF Mergeable
<1>2. \A d \in D : WinnerOf(W, d) \in W /\ WinnerOf(W, d) \in Active \ D
    BY <1>1, OneWinner
<1>3. \A m \in RecordIds : Gathered(W, D, m) \in SUBSET Events
    BY <1>1 DEF Gathered, Active
<1>4. \A m \in RecordIds : Cardinality(Gathered(W, D, m)) \in Nat
    BY <1>3, FS_Subset, FS_CardinalityType
<1>5. sources' \in [RecordIds -> SUBSET Events]
    BY <1>3 DEF Merge
<1>6. /\ record' = [m \in RecordIds |-> record'[m]]
      /\ \A m \in RecordIds :
            record'[m] = IF m \in D THEN Superseded(record[m], WinnerOf(W, m))
                         ELSE IF \E d \in D : WinnerOf(W, d) = m
                         THEN [record[m] EXCEPT !.evidence_count = Cardinality(Gathered(W, D, m))]
                         ELSE record[m]
    BY DEF Merge
<1>7. ASSUME NEW d \in D
      PROVE  /\ record'[d] \in Row
             /\ record'[d].status = "superseded"
             /\ record'[d].text = record[d].text
             /\ record'[d].supersedes = record[d].supersedes
             /\ record'[d].superseded_by = WinnerOf(W, d)
    <2>1. d \in RecordIds /\ WinnerOf(W, d) \in RecordIds /\ record[d] \in Row
        BY <1>1, <1>2 DEF Active
    <2>2. record'[d] = Superseded(record[d], WinnerOf(W, d))
        BY <1>6, <2>1
    <2> QED
        BY <2>1, <2>2, SupersededRow
<1>8. ASSUME NEW m \in RecordIds \ D
      PROVE  /\ record'[m] \in Row
             /\ record'[m].status = record[m].status
             /\ record'[m].text = record[m].text
             /\ record'[m].supersedes = record[m].supersedes
             /\ record'[m].superseded_by = record[m].superseded_by
    <2> DEFINE c == Cardinality(Gathered(W, D, m))
    <2>1. record[m] \in Row /\ c \in Nat
        BY <1>4
    <2>2. record'[m] = [record[m] EXCEPT !.evidence_count = c] \/ record'[m] = record[m]
        BY <1>6
    <2> HIDE DEF c
    <2>3. LET r == [record[m] EXCEPT !.evidence_count = c]
          IN  /\ r \in Row /\ r.status = record[m].status /\ r.text = record[m].text
              /\ r.supersedes = record[m].supersedes /\ r.superseded_by = record[m].superseded_by
        BY <2>1 DEF Row
    <2> QED
        BY <2>1, <2>2, <2>3
<1>9. record' \in [RecordIds -> Row]
    BY <1>6, <1>7, <1>8
<1> QED
    BY <1>1, <1>2, <1>5, <1>7, <1>8, <1>9

\* A batch points active records, which have no link, to its winners.
LEMMA BatchKeepsRecords ==
    ASSUME Inv, NEW W \in Winners, NEW D \in SUBSET (Mergeable \ W), Merge(W, D)
    PROVE  /\ record' \in [RecordIds -> Row] /\ sources' \in [RecordIds -> SUBSET Events]
           /\ fts' \in [RecordIds -> Texts \union {None}] /\ wiped' \in SUBSET RecordIds
           /\ RowsInv' /\ LinksAgree' /\ ChainsEnd' /\ SearchSeesActive' /\ ForgottenNotIndexed'
           /\ StaysSettled
<1> USE RecordsAssumption
<1>1. /\ record \in [RecordIds -> Row]
      /\ sources \in [RecordIds -> SUBSET Events]
      /\ fts \in [RecordIds -> Texts \union {None}] /\ wiped \in SUBSET RecordIds
    BY DEF Inv, TypeOK
<1>2. RowsInv /\ LinksAgree /\ ChainsEnd /\ SearchSeesActive /\ ForgottenNotIndexed
    BY DEF Inv
<1>3. /\ record' \in [RecordIds -> Row]
      /\ sources' \in [RecordIds -> SUBSET Events]
      /\ \A d \in D : /\ d \in Active /\ d \notin W
                      /\ WinnerOf(W, d) \in W /\ WinnerOf(W, d) \in Active \ D
                      /\ record'[d].status = "superseded"
                      /\ record'[d].text = record[d].text
                      /\ record'[d].supersedes = record[d].supersedes
                      /\ record'[d].superseded_by = WinnerOf(W, d)
      /\ \A m \in RecordIds \ D : /\ record'[m].status = record[m].status
                                  /\ record'[m].text = record[m].text
                                  /\ record'[m].supersedes = record[m].supersedes
                                  /\ record'[m].superseded_by = record[m].superseded_by
    BY <1>1, BatchMoves
<1>4. D \in SUBSET RecordIds /\ \A d \in D : record[d].status = "active"
    BY <1>3 DEF Active
<1>5. Stored' = Stored /\ Active' = Active \ D
    BY <1>3, <1>4 DEF Stored, Active
<1>6. RowsInv'
    <2> SUFFICES ASSUME NEW m \in RecordIds
                 PROVE  /\ record'[m].status \in {"none", "active", "gone"} =>
                              record'[m].superseded_by = None
                        /\ record'[m].status \in {"none", "gone"} => record'[m].supersedes = None
                        /\ record'[m].status \in {"active", "superseded"} => record'[m].text \in Texts
        BY DEF RowsInv
    <2>1. CASE m \in D
        BY <1>2, <1>3, <1>4, <2>1 DEF RowsInv
    <2>2. CASE m \notin D
        BY <1>2, <1>3, <2>2 DEF RowsInv
    <2> QED
        BY <2>1, <2>2
<1>7. \A d \in D : record[d].superseded_by = None
    BY <1>2, <1>4 DEF RowsInv
<1>8. LinksAgree'
    <2> SUFFICES ASSUME NEW m \in RecordIds, NEW n \in RecordIds
                 PROVE  /\ record'[n].supersedes = m => record'[m].superseded_by = n
                        /\ record'[m].superseded_by = n => n \in Stored' /\ m \in Stored' \ Active'
        BY DEF LinksAgree
    <2>1. record'[n].supersedes = record[n].supersedes
        BY <1>3
    <2>2. /\ record[n].supersedes = m => record[m].superseded_by = n
          /\ record[m].superseded_by = n => n \in Stored /\ m \in Stored \ Active
        BY <1>2 DEF LinksAgree
    <2>3. CASE m \in D
        <3>1. record[n].supersedes # m
            BY <1>7, <2>2, <2>3
        <3>2. WinnerOf(W, m) \in Stored
            BY <1>3, <2>3 DEF Active, Stored
        <3>3. m \in Stored \ Active'
            BY <1>4, <1>5, <2>3 DEF Stored
        <3> QED
            BY <1>3, <1>5, <2>1, <2>3, <3>1, <3>2, <3>3
    <2>4. CASE m \notin D
        BY <1>3, <1>5, <2>1, <2>2, <2>4
    <2> QED
        BY <2>3, <2>4
<1>9. ChainsEnd'
    <2>1. \A m \in RecordIds \ D :
             record'[m].superseded_by = record[m].superseded_by \/ record'[m].superseded_by = None
        BY <1>3
    <2>2. ASSUME NEW d \in D
          PROVE  \E w \in RecordIds : record'[d].superseded_by = w /\ record'[w].superseded_by = None
        <3>1. WinnerOf(W, d) \in RecordIds \ D /\ record[WinnerOf(W, d)].status = "active"
            BY <1>3 DEF Active
        <3>2. record'[WinnerOf(W, d)].superseded_by = None
            BY <1>2, <1>3, <3>1 DEF RowsInv
        <3> QED
            BY <1>3, <3>1, <3>2
    <2> QED
        BY <1>2, <1>4, <2>1, <2>2, ChainsAfter
<1>10. /\ fts' \in [RecordIds -> Texts \union {None}] /\ wiped' \in SUBSET RecordIds
       /\ SearchSeesActive' /\ ForgottenNotIndexed'
    <2>1. Nothing \in SUBSET RecordIds /\ Reindex(Nothing, D)
        BY DEF Nothing, Merge
    <2>2. \A n \in Active' : n \in Nothing \/ (n \in Active \ D /\ record'[n].text = record[n].text)
        BY <1>3, <1>5 DEF Active
    <2>3. Nothing \subseteq Stored' /\ Stored \ D \subseteq Stored'
        BY <1>5 DEF Nothing
    <2>4. record' \in [RecordIds -> Row]
        BY <1>3
    <2> QED
        BY <1>1, <1>2, <1>4, <2>1, <2>2, <2>3, <2>4, IndexAfter
<1>11. StaysSettled
    BY <1>3, <1>4 DEF StaysSettled
<1> QED
    BY <1>3, <1>6, <1>8, <1>9, <1>10, <1>11

\* A batch counts what it merges, none of which was merged before.
LEMMA BatchKeeps ==
    ASSUME Inv, NEW o \in Operations, ConsolidateBatch(o)
    PROVE  Inv'
<1> USE RecordsAssumption
<1>0. PICK W \in Winners : \E D \in SUBSET (Mergeable \ W) :
         /\ Merge(W, D)
         /\ journal' = [journal EXCEPT ![o] = @ \union D]
         /\ merged' = [merged EXCEPT ![o] = @ \union D]
         /\ merge' = [merge EXCEPT ![o] = [stage |-> IF LastBatch(D) THEN "done" ELSE "running",
                                           total |-> @.total + Cardinality(D)]]
    BY DEF ConsolidateBatch
<1>1. PICK D \in SUBSET (Mergeable \ W) :
         /\ Merge(W, D)
         /\ journal' = [journal EXCEPT ![o] = @ \union D]
         /\ merged' = [merged EXCEPT ![o] = @ \union D]
         /\ merge' = [merge EXCEPT ![o] = [stage |-> IF LastBatch(D) THEN "done" ELSE "running",
                                           total |-> @.total + Cardinality(D)]]
    BY <1>0
<1>2. /\ merge[o].stage = "running" /\ rebuild' = rebuild
      /\ merge \in [Operations -> [stage : {"idle", "running", "done"}, total : Nat]]
      /\ journal \in [Operations -> SUBSET RecordIds]
      /\ merged \in [Operations -> SUBSET RecordIds]
      /\ rebuild \in {"idle", "filling"} /\ CountInv
    BY DEF Inv, TypeOK, ConsolidateBatch
<1>3. /\ record' \in [RecordIds -> Row] /\ sources' \in [RecordIds -> SUBSET Events]
      /\ fts' \in [RecordIds -> Texts \union {None}] /\ wiped' \in SUBSET RecordIds
      /\ RowsInv' /\ LinksAgree' /\ ChainsEnd' /\ SearchSeesActive' /\ ForgottenNotIndexed'
      /\ StaysSettled
    BY <1>1, BatchKeepsRecords
<1>4. D \in SUBSET RecordIds /\ \A d \in D : record[d].status = "active"
    BY DEF Mergeable, Active
<1>5. \A d \in D : record'[d].status = "superseded"
    <2>1. record \in [RecordIds -> Row] /\ sources \in [RecordIds -> SUBSET Events]
        BY DEF Inv, TypeOK
    <2> QED
        BY <1>1, <2>1, BatchMoves
<1>6. /\ IsFiniteSet(D) /\ IsFiniteSet(merged[o]) /\ Cardinality(D) \in Nat
      /\ Cardinality(merged[o]) \in Nat
    BY <1>2, <1>4, FS_Subset, FS_CardinalityType
<1>7. D \intersect merged[o] = {}
    BY <1>2, <1>4 DEF CountInv
<1>8. Cardinality(merged[o] \union D) = Cardinality(merged[o]) + Cardinality(D)
    <2>1. Cardinality(merged[o] \union D) = Cardinality(merged[o]) + Cardinality(D)
             - Cardinality(merged[o] \intersect D)
        BY <1>6, FS_Union
    <2>2. Cardinality(merged[o] \intersect D) = 0
        <3>1. merged[o] \intersect D = {}
            BY <1>7
        <3> QED
            BY <3>1, FS_EmptySet
    <2> QED
        BY <1>6, <2>1, <2>2
<1>9. merge' \in [Operations -> [stage : {"idle", "running", "done"}, total : Nat]]
    <2>1. merge[o].total + Cardinality(D) \in Nat
        BY <1>2, <1>6
    <2> QED
        BY <1>1, <1>2, <2>1
<1>10. /\ journal' \in [Operations -> SUBSET RecordIds]
       /\ merged' \in [Operations -> SUBSET RecordIds]
    BY <1>1, <1>2, <1>4
<1>11. TypeOK'
    BY <1>2, <1>3, <1>9, <1>10 DEF TypeOK
<1>12. CountInv'
    <2> SUFFICES ASSUME NEW p \in Operations
                 PROVE  /\ journal'[p] \subseteq merged'[p]
                        /\ \A m \in merged'[p] : record'[m].status \notin {"none", "active"}
                        /\ merge'[p].stage \in {"running", "done"} /\ journal'[p] = merged'[p] =>
                              merge'[p].total = Cardinality(merged'[p])
        BY DEF CountInv
    <2>1. CASE p # o
        <3>1. journal'[p] = journal[p] /\ merged'[p] = merged[p] /\ merge'[p] = merge[p]
            BY <1>1, <1>2, <2>1
        <3>2. \A m \in merged[p] : record'[m].status \notin {"none", "active"}
            BY <1>2, <1>3 DEF CountInv, StaysSettled
        <3> QED
            BY <1>2, <3>1, <3>2 DEF CountInv
    <2>2. CASE p = o
        <3>1. journal'[o] = journal[o] \union D /\ merged'[o] = merged[o] \union D
            BY <1>1, <1>2
        <3>2. \A m \in merged'[o] : record'[m].status \notin {"none", "active"}
            <4> SUFFICES ASSUME NEW m \in merged'[o]
                         PROVE  record'[m].status \notin {"none", "active"}
                OBVIOUS
            <4>1. m \in merged[o] \/ m \in D
                BY <3>1
            <4> QED
                BY <1>2, <1>3, <1>5, <4>1 DEF CountInv, StaysSettled
        <3>3. journal[o] \subseteq merged[o]
            BY <1>2 DEF CountInv
        <3>4. journal'[o] = merged'[o] => journal[o] = merged[o]
            BY <1>7, <3>1, <3>3
        <3>5. merge'[o].total = merge[o].total + Cardinality(D)
            BY <1>1, <1>2
        <3>6. journal[o] = merged[o] => merge[o].total = Cardinality(merged[o])
            BY <1>2 DEF CountInv
        <3> QED
            BY <1>8, <2>2, <3>1, <3>2, <3>3, <3>4, <3>5, <3>6
    <2> QED
        BY <2>1, <2>2
<1> QED
    BY <1>3, <1>11, <1>12 DEF Inv

\* A step that leaves the records and the index alone.
LEMMA OtherStep ==
    ASSUME Inv, UNCHANGED <<record, sources, fts, rebuild, wiped>>, CountInv',
           merge' \in [Operations -> [stage : {"idle", "running", "done"}, total : Nat]],
           journal' \in [Operations -> SUBSET RecordIds],
           merged' \in [Operations -> SUBSET RecordIds]
    PROVE  Inv'
<1>1. TypeOK'
    BY DEF Inv, TypeOK
<1>2. RowsInv' /\ LinksAgree' /\ ChainsEnd'
    BY DEF Inv, RowsInv, LinksAgree, ChainsEnd, Stored, Active
<1>3. SearchSeesActive' /\ ForgottenNotIndexed'
    BY DEF Inv, SearchSeesActive, ForgottenNotIndexed, Active, Stored, Indexed
<1> QED
    BY <1>1, <1>2, <1>3 DEF Inv

\* A repetition counts what the journal still has.
LEMMA StartKeeps ==
    ASSUME Inv, NEW o \in Operations, ConsolidateStart(o)
    PROVE  Inv'
<1> USE RecordsAssumption
<1>1. /\ merge \in [Operations -> [stage : {"idle", "running", "done"}, total : Nat]]
      /\ journal \in [Operations -> SUBSET RecordIds]
      /\ merged \in [Operations -> SUBSET RecordIds] /\ CountInv
    BY DEF Inv, TypeOK
<1>2. /\ merge' = [merge EXCEPT ![o] = [stage |-> "running", total |-> Cardinality(journal[o])]]
      /\ UNCHANGED <<record, sources, fts, rebuild, wiped, journal, merged>>
    BY DEF ConsolidateStart
<1>3. Cardinality(journal[o]) \in Nat
    BY <1>1, FS_Subset, FS_CardinalityType
<1>4. merge' \in [Operations -> [stage : {"idle", "running", "done"}, total : Nat]]
    BY <1>1, <1>2, <1>3
<1>5. CountInv'
    <2>1. \A p \in Operations \ {o} : merge'[p] = merge[p]
        BY <1>1, <1>2
    <2>2. merge'[o].total = Cardinality(journal[o])
        BY <1>1, <1>2
    <2>3. UNCHANGED <<record, journal, merged>>
        BY <1>2
    <2> QED
        BY <1>1, <2>1, <2>2, <2>3 DEF CountInv
<1> QED
    BY <1>1, <1>2, <1>4, <1>5, OtherStep

\* A failed operation has no count.
LEMMA FailKeeps ==
    ASSUME Inv, NEW o \in Operations, ConsolidateFails(o)
    PROVE  Inv'
<1>1. /\ merge \in [Operations -> [stage : {"idle", "running", "done"}, total : Nat]]
      /\ journal \in [Operations -> SUBSET RecordIds]
      /\ merged \in [Operations -> SUBSET RecordIds] /\ CountInv
    BY DEF Inv, TypeOK
<1>2. /\ merge' = [merge EXCEPT ![o] = [stage |-> "idle", total |-> 0]]
      /\ UNCHANGED <<record, sources, fts, rebuild, wiped, journal, merged>>
    BY DEF ConsolidateFails
<1>3. merge' \in [Operations -> [stage : {"idle", "running", "done"}, total : Nat]]
    BY <1>1, <1>2
<1>4. CountInv'
    <2>1. \A p \in Operations \ {o} : merge'[p] = merge[p]
        BY <1>1, <1>2
    <2>2. merge'[o].stage = "idle"
        BY <1>1, <1>2
    <2>3. UNCHANGED <<record, journal, merged>>
        BY <1>2
    <2> QED
        BY <1>1, <2>1, <2>2, <2>3 DEF CountInv
<1> QED
    BY <1>1, <1>2, <1>3, <1>4, OtherStep

\* A purge makes the journal smaller than the history for good.
LEMMA PurgeJournalKeeps ==
    ASSUME Inv, NEW o \in Operations, NEW m \in RecordIds, PurgeJournal(o, m)
    PROVE  Inv'
<1>1. /\ merge \in [Operations -> [stage : {"idle", "running", "done"}, total : Nat]]
      /\ journal \in [Operations -> SUBSET RecordIds]
      /\ merged \in [Operations -> SUBSET RecordIds] /\ CountInv
    BY DEF Inv, TypeOK
<1>2. /\ m \in journal[o]
      /\ journal' = [journal EXCEPT ![o] = @ \ {m}]
      /\ UNCHANGED <<record, sources, fts, rebuild, wiped, merge, merged>>
    BY DEF PurgeJournal
<1>3. journal' \in [Operations -> SUBSET RecordIds]
    BY <1>1, <1>2
<1>4. CountInv'
    <2>1. \A p \in Operations \ {o} : journal'[p] = journal[p]
        BY <1>1, <1>2
    <2>2. journal'[o] = journal[o] \ {m} /\ m \in merged[o]
        BY <1>1, <1>2 DEF CountInv
    <2>3. UNCHANGED <<record, merge, merged>>
        BY <1>2
    <2> QED
        BY <1>1, <2>1, <2>2, <2>3 DEF CountInv
<1> QED
    BY <1>1, <1>2, <1>3, <1>4, OtherStep

-------------------------------------------------------------------------------
(* The rebuild.                                                            *)

\* The DELETE wipes what was there; the INSERT writes every listed text.
LEMMA RebuildKeeps ==
    ASSUME Inv, RebuildClear \/ RebuildFill
    PROVE  Inv'
<1> USE RecordsAssumption
<1>1. /\ record \in [RecordIds -> Row]
      /\ fts \in [RecordIds -> Texts \union {None}] /\ wiped \in SUBSET RecordIds
      /\ RowsInv /\ SearchSeesActive /\ ForgottenNotIndexed
    BY DEF Inv, TypeOK
<1>2. rebuild' \in {"idle", "filling"} /\ UNCHANGED <<record, sources, merge, journal, merged>>
    BY DEF RebuildClear, RebuildFill
<1>3. /\ fts' \in [RecordIds -> Texts \union {None}] /\ wiped' \in SUBSET RecordIds
      /\ SearchSeesActive' /\ ForgottenNotIndexed'
    <2>1. CASE RebuildClear
        <3>1. /\ \A m \in RecordIds : fts'[m] = None
              /\ wiped' = wiped \union Indexed
              /\ fts' \in [RecordIds -> Texts \union {None}] /\ wiped' \in SUBSET RecordIds
            BY <1>1, <2>1 DEF RebuildClear, Indexed
        <3>2. ForgottenNotIndexed'
            BY <3>1 DEF ForgottenNotIndexed, Indexed
        <3>3. ASSUME NEW m \in Active PROVE m \in wiped'
            <4>1. record[m].text # None /\ m \in RecordIds
                BY <1>1 DEF RowsInv, Active
            <4>2. fts[m] = record[m].text \/ m \in wiped
                BY <1>1 DEF SearchSeesActive
            <4> QED
                BY <3>1, <4>1, <4>2 DEF Indexed
        <3>4. SearchSeesActive'
            BY <1>2, <3>3 DEF SearchSeesActive, Active
        <3> QED
            BY <3>1, <3>2, <3>4
    <2>2. CASE RebuildFill /\ ~UNCHANGED <<fts, wiped>>
        <3>1. /\ fts' = [m \in RecordIds |-> IF m \in Listed THEN record[m].text ELSE fts[m]]
              /\ wiped' = {}
            BY <2>2 DEF RebuildFill
        <3>2. \A m \in RecordIds : record[m].text \in Texts \union {None}
            BY <1>1, RowShape
        <3>3. fts' \in [RecordIds -> Texts \union {None}]
            BY <1>1, <3>1, <3>2
        <3>4. SearchSeesActive'
            BY <1>2, <3>1 DEF SearchSeesActive, Active, Listed
        <3>5. ForgottenNotIndexed'
            <4> SUFFICES ASSUME NEW m \in RecordIds, fts'[m] # None PROVE m \in Stored
                BY <1>2 DEF ForgottenNotIndexed, Indexed, Stored
            <4>1. CASE m \in Listed
                BY <4>1 DEF Listed, Stored
            <4>2. CASE m \notin Listed
                BY <1>1, <3>1, <4>2 DEF ForgottenNotIndexed, Indexed
            <4> QED
                BY <4>1, <4>2
        <3> QED
            BY <3>1, <3>3, <3>4, <3>5
    <2>3. CASE UNCHANGED <<fts, wiped>>
        BY <1>1, <1>2, <2>3 DEF SearchSeesActive, ForgottenNotIndexed, Active, Stored, Indexed
    <2> QED
        BY <2>1, <2>2, <2>3
<1>4. RowsInv' /\ LinksAgree' /\ ChainsEnd' /\ CountInv'
    BY <1>2 DEF Inv, RowsInv, LinksAgree, ChainsEnd, Stored, Active, CountInv
<1>5. TypeOK'
    BY <1>2, <1>3 DEF Inv, TypeOK
<1> QED
    BY <1>3, <1>4, <1>5 DEF Inv

-------------------------------------------------------------------------------

LEMMA InitInv ==
    Init => Inv
<1> USE RecordsAssumption
<1> SUFFICES ASSUME Init PROVE Inv
    OBVIOUS
<1>1. /\ NoRow("none") \in Row
      /\ NoRow("none").status = "none" /\ NoRow("none").supersedes = None
      /\ NoRow("none").superseded_by = None
    BY DEF NoRow, Row, Status
<1>2. /\ record \in [RecordIds -> Row]
      /\ \A m \in RecordIds : /\ record[m].status = "none"
                              /\ record[m].supersedes = None /\ record[m].superseded_by = None
    BY <1>1 DEF Init
<1>3. TypeOK
    BY <1>2 DEF Init, TypeOK
<1>4. RowsInv /\ LinksAgree
    BY <1>2 DEF RowsInv, LinksAgree
<1>5. ChainsEnd
    BY <1>2 DEF ChainsEnd
<1>6. SearchSeesActive /\ ForgottenNotIndexed
    BY <1>2 DEF Init, SearchSeesActive, ForgottenNotIndexed, Active, Indexed
<1>7. CountInv
    BY DEF Init, CountInv
<1> QED
    BY <1>3, <1>4, <1>5, <1>6, <1>7 DEF Inv

LEMMA NextInv ==
    Inv /\ [Next]_vars => Inv'
<1> SUFFICES ASSUME Inv, [Next]_vars PROVE Inv'
    OBVIOUS
<1>1. ASSUME NEW m \in RecordIds, NEW t \in Texts, NEW S \in SUBSET Events, CreateMemory(m, t, S)
      PROVE  Inv'
    BY <1>1, CreateKeeps
<1>2. ASSUME NEW old \in RecordIds, NEW new \in RecordIds, NEW t \in Texts, Supersede(old, new, t)
      PROVE  Inv'
    BY <1>2, SupersedeKeeps
<1>3. ASSUME NEW m \in RecordIds, NEW t \in Texts, UpdateMemory(m, t)
      PROVE  Inv'
    BY <1>3, UpdateKeeps
<1>4. ASSUME NEW m \in RecordIds, DeleteMemory(m)
      PROVE  Inv'
    BY <1>4, DeleteKeeps
<1>5. ASSUME NEW S \in SUBSET RecordIds, PurgeExpired(S)
      PROVE  Inv'
    BY <1>5, PurgeKeeps
<1>6. ASSUME NEW m \in RecordIds, HardDelete(m)
      PROVE  Inv'
    BY <1>6, HardDeleteKeeps
<1>7. ASSUME NEW o \in Operations, ConsolidateStart(o)
      PROVE  Inv'
    BY <1>7, StartKeeps
<1>8. ASSUME NEW o \in Operations, ConsolidateBatch(o)
      PROVE  Inv'
    BY <1>8, BatchKeeps
<1>9. ASSUME NEW o \in Operations, ConsolidateFails(o)
      PROVE  Inv'
    BY <1>9, FailKeeps
<1>10. ASSUME NEW o \in Operations, NEW m \in RecordIds, PurgeJournal(o, m)
       PROVE  Inv'
    BY <1>10, PurgeJournalKeeps
<1>11. CASE RebuildClear \/ RebuildFill
    BY <1>11, RebuildKeeps
<1>12. CASE UNCHANGED vars
    <2>1. UNCHANGED <<record, sources, fts, rebuild, wiped, merge, journal, merged>>
        BY <1>12 DEF vars
    <2>2. CountInv'
        BY <2>1 DEF Inv, CountInv
    <2> QED
        BY <2>1, <2>2, OtherStep DEF Inv, TypeOK
<1> QED
    BY <1>1, <1>2, <1>3, <1>4, <1>5, <1>6, <1>7, <1>8, <1>9, <1>10, <1>11, <1>12 DEF Next

\* Only a batch changes what was merged, or ends an operation.
LEMMA BatchStep ==
    ASSUME TypeOK, [Next]_vars, NEW o \in Operations,
           \/ merged'[o] # merged[o]
           \/ merge[o].stage = "running" /\ merge'[o].stage = "done"
    PROVE  \E W \in Winners : \E D \in SUBSET (Mergeable \ W) :
              /\ Merge(W, D)
              /\ merge[o].stage = "running" /\ merge'[o].stage = "done" =>
                    D = Mergeable \ W
<1> USE RecordsAssumption
<1>1. merge \in [Operations -> [stage : {"idle", "running", "done"}, total : Nat]]
      /\ merged \in [Operations -> SUBSET RecordIds]
    BY DEF TypeOK
<1>2. PICK p \in Operations : ConsolidateStart(p) \/ ConsolidateFails(p) \/ ConsolidateBatch(p)
    <2>1. merged' # merged \/ merge' # merge
        OBVIOUS
    <2>2. CASE UNCHANGED vars
        BY <2>1, <2>2 DEF vars
    <2>3. CASE Next
        BY <2>1, <2>3 DEF Next, CreateMemory, Supersede, UpdateMemory, DeleteMemory, PurgeExpired,
               HardDelete, PurgeJournal, RebuildClear, RebuildFill
    <2> QED
        BY <2>2, <2>3
<1>3. CASE ConsolidateStart(p)
    <2>1. merged' = merged /\ merge[p].stage # "running" /\ merge'[p].stage = "running"
          /\ \A q \in Operations \ {p} : merge'[q] = merge[q]
        BY <1>1, <1>3 DEF ConsolidateStart
    <2> QED
        BY <2>1
<1>4. CASE ConsolidateFails(p)
    <2>1. merged' = merged /\ merge'[p].stage = "idle"
          /\ \A q \in Operations \ {p} : merge'[q] = merge[q]
        BY <1>1, <1>4 DEF ConsolidateFails
    <2> QED
        BY <2>1
<1>5. CASE ConsolidateBatch(p)
    <2>1. PICK W \in Winners : \E D \in SUBSET (Mergeable \ W) :
             /\ \/ Cardinality(D) = BatchLimit
                \/ D = Mergeable \ W /\ Cardinality(D) < BatchLimit
             /\ Merge(W, D)
             /\ merged' = [merged EXCEPT ![p] = @ \union D]
             /\ merge' = [merge EXCEPT ![p] = [stage |-> IF LastBatch(D) THEN "done" ELSE "running",
                                               total |-> @.total + Cardinality(D)]]
        BY <1>5 DEF ConsolidateBatch
    <2>2. PICK D \in SUBSET (Mergeable \ W) :
             /\ \/ Cardinality(D) = BatchLimit
                \/ D = Mergeable \ W /\ Cardinality(D) < BatchLimit
             /\ Merge(W, D)
             /\ merged' = [merged EXCEPT ![p] = @ \union D]
             /\ merge' = [merge EXCEPT ![p] = [stage |-> IF LastBatch(D) THEN "done" ELSE "running",
                                               total |-> @.total + Cardinality(D)]]
        BY <2>1
    <2>3. o = p
        BY <1>1, <2>2
    <2>4. merge'[o].stage = IF LastBatch(D) THEN "done" ELSE "running"
        BY <1>1, <2>2, <2>3
    <2>5. merge'[o].stage = "done" => Cardinality(D) < BatchLimit
        BY <2>4 DEF LastBatch
    <2>6. Cardinality(D) = BatchLimit => ~(Cardinality(D) < BatchLimit)
        OBVIOUS
    <2> QED
        BY <2>2, <2>5, <2>6
<1> QED
    BY <1>2, <1>3, <1>4, <1>5

\* What a batch leaves active.
LEMMA BatchActive ==
    ASSUME TypeOK, NEW W \in Winners, NEW D \in SUBSET (Mergeable \ W), Merge(W, D)
    PROVE  /\ Active' = Active \ D
           /\ \A m \in RecordIds : record'[m].text = record[m].text
<1>1. record \in [RecordIds -> Row] /\ sources \in [RecordIds -> SUBSET Events]
    BY DEF TypeOK
<1>2. /\ \A d \in D : /\ d \in Active /\ record'[d].status = "superseded"
                      /\ record'[d].text = record[d].text
      /\ \A m \in RecordIds \ D : /\ record'[m].status = record[m].status
                                  /\ record'[m].text = record[m].text
    BY <1>1, BatchMoves
<1> QED
    BY <1>2 DEF Active

\* The last batch leaves the winners, one of each text.
LEMMA DoneStep ==
    ASSUME TypeOK, [Next]_vars
    PROVE  \A o \in Operations :
              merge[o].stage = "running" /\ merge'[o].stage = "done" =>
                  \A m, n \in Active' : record'[m].text = record'[n].text => m = n
<1> SUFFICES ASSUME NEW o \in Operations, merge[o].stage = "running", merge'[o].stage = "done",
                    NEW m \in Active', NEW n \in Active', record'[m].text = record'[n].text
             PROVE  m = n
    OBVIOUS
<1>1. PICK W \in Winners : \E D \in SUBSET (Mergeable \ W) : Merge(W, D) /\ D = Mergeable \ W
    BY BatchStep
<1>2. PICK D \in SUBSET (Mergeable \ W) : Merge(W, D) /\ D = Mergeable \ W
    BY <1>1
<1>3. /\ Active' = Active \ D
      /\ \A k \in RecordIds : record'[k].text = record[k].text
    BY <1>2, BatchActive
<1>4. /\ m \in Active /\ n \in Active /\ m \in W /\ n \in W
      /\ m \in RecordIds /\ n \in RecordIds
    BY <1>2, <1>3 DEF Mergeable, Active
<1>5. record[m].text = record[n].text
    BY <1>3, <1>4
<1> QED
    BY <1>4, <1>5, OneWinner

\* The events of a duplicate go to the winner of its text.
LEMMA EvidenceStep ==
    ASSUME TypeOK, [Next]_vars
    PROVE  (\E o \in Operations : merged'[o] # merged[o]) =>
              \A t \in Texts : Evidence(t)' = Evidence(t)
<1> SUFFICES ASSUME NEW o \in Operations, merged'[o] # merged[o], NEW t \in Texts
             PROVE  Evidence(t)' = Evidence(t)
    OBVIOUS
<1>1. PICK W \in Winners : \E D \in SUBSET (Mergeable \ W) : Merge(W, D)
    BY BatchStep
<1>2. PICK D \in SUBSET (Mergeable \ W) : Merge(W, D)
    BY <1>1
<1>3. /\ Active' = Active \ D
      /\ \A m \in RecordIds : record'[m].text = record[m].text
    BY <1>2, BatchActive
<1>4. \A m \in RecordIds \ D : sources'[m] = IF m \in W THEN Gathered(W, D, m) ELSE sources[m]
    BY <1>2 DEF Merge
<1>5. D \subseteq Active /\ Active \subseteq RecordIds
    BY DEF Mergeable, Active
<1>6. ASSUME NEW e \in Evidence(t) PROVE e \in Evidence(t)'
    <2>1. PICK m \in Active : record[m].text = t /\ e \in sources[m]
        BY <1>6 DEF Evidence
    <2>2. \E n \in Active \ D : record[n].text = t /\ e \in sources'[n]
        <3>1. CASE m \in D
            <4>1. /\ WinnerOf(W, m) \in W /\ WinnerOf(W, m) \in Active
                  /\ record[WinnerOf(W, m)].text = t
                BY <2>1, OneWinner
            <4>2. WinnerOf(W, m) \notin D
                BY <4>1
            <4>3. e \in Gathered(W, D, WinnerOf(W, m))
                BY <2>1, <3>1 DEF Gathered
            <4>4. e \in sources'[WinnerOf(W, m)]
                BY <1>4, <1>5, <4>1, <4>2, <4>3
            <4> QED
                BY <4>1, <4>2, <4>4
        <3>2. CASE m \notin D
            <4>1. e \in Gathered(W, D, m)
                BY <2>1 DEF Gathered
            <4>2. e \in sources'[m]
                BY <1>4, <1>5, <2>1, <3>2, <4>1
            <4> QED
                BY <2>1, <3>2, <4>2
        <3> QED
            BY <3>1, <3>2
    <2> QED
        BY <1>3, <1>5, <2>2 DEF Evidence
<1>7. ASSUME NEW e \in Evidence(t)' PROVE e \in Evidence(t)
    <2>1. PICK m \in Active \ D : record[m].text = t /\ e \in sources'[m]
        BY <1>3, <1>5, <1>7 DEF Evidence
    <2>2. e \in sources[m] \/ \E d \in D : WinnerOf(W, d) = m /\ e \in sources[d]
        <3>1. CASE m \in W
            <4>1. e \in Gathered(W, D, m)
                BY <1>4, <1>5, <2>1, <3>1
            <4> QED
                BY <4>1 DEF Gathered
        <3>2. CASE m \notin W
            BY <1>4, <1>5, <2>1, <3>2
        <3> QED
            BY <3>1, <3>2
    <2>3. \A d \in D : WinnerOf(W, d) = m => record[d].text = t /\ d \in Active
        BY <1>5, <2>1, OneWinner
    <2> QED
        BY <2>1, <2>2, <2>3 DEF Evidence
<1> QED
    BY <1>6, <1>7

\* The inductive invariant holds of every behaviour.
THEOREM RecordsInvariant ==
    Spec => []Inv
BY InitInv, NextInv, PTL DEF Spec

\* Every variable keeps its type.
THEOREM TypeCorrect ==
    Spec => []TypeOK
<1>1. Inv => TypeOK
    BY DEF Inv
<1> QED
    BY <1>1, RecordsInvariant, PTL

\* No supersession and no merge, in whatever order and however often repeated,
\* closes a cycle of superseded records.
THEOREM ChainsAlwaysEnd ==
    Spec => []ChainsEnd
<1>1. Inv => ChainsEnd
    BY DEF Inv
<1> QED
    BY <1>1, RecordsInvariant, PTL

\* Both ends of a supersession agree, and none dangles after a hard deletion.
THEOREM LinksAlwaysAgree ==
    Spec => []LinksAgree
<1>1. Inv => LinksAgree
    BY DEF Inv
<1> QED
    BY <1>1, RecordsInvariant, PTL

\* A consolidation that ends reports all that its runs have superseded.
THEOREM RepetitionsReportAll ==
    Spec => []ResultExact
<1>1. Inv => ResultExact
    BY DEF Inv, CountInv, ResultExact
<1> QED
    BY <1>1, RecordsInvariant, PTL

\* The index finds every active record by its present text.
THEOREM ActiveIsFound ==
    Spec => []SearchSeesActive
<1>1. Inv => SearchSeesActive
    BY DEF Inv
<1> QED
    BY <1>1, RecordsInvariant, PTL

\* The index keeps no text of a forgotten record.
THEOREM ForgottenIsNotFound ==
    Spec => []ForgottenNotIndexed
<1>1. Inv => ForgottenNotIndexed
    BY DEF Inv
<1> QED
    BY <1>1, RecordsInvariant, PTL

\* A consolidation ends without duplicates.
THEOREM ConsolidationFinishes ==
    Spec => DoneMeansDistinct
<1>1. TypeOK /\ [Next]_vars =>
        [\A o \in Operations :
            merge[o].stage = "running" /\ merge'[o].stage = "done" =>
                \A m, n \in Active' : record'[m].text = record'[n].text => m = n]_vars
    BY DoneStep
<1> QED
    BY <1>1, TypeCorrect, PTL DEF Spec, DoneMeansDistinct

\* A batch keeps the evidence of every text.
THEOREM EvidenceIsKept ==
    Spec => EvidenceKept
<1>1. TypeOK /\ [Next]_vars =>
        [(\E o \in Operations : merged'[o] # merged[o]) =>
            \A t \in Texts : Evidence(t)' = Evidence(t)]_vars
    BY EvidenceStep
<1> QED
    BY <1>1, TypeCorrect, PTL DEF Spec, EvidenceKept

===============================================================================
