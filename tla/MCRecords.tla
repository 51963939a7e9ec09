------------------------------- MODULE MCRecords -------------------------------
(* Small instances of Records for TLC.                                     *)
EXTENDS Records, TLC

\* Records are interchangeable, and so are texts, events and operations.
Symmetry == Permutations(RecordIds) \union Permutations(Texts)
            \union Permutations(Events) \union Permutations(Operations)

===============================================================================
