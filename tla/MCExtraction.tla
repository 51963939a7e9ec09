------------------------------ MODULE MCExtraction ------------------------------
(* Small instances of Extraction for TLC.                                  *)
EXTENDS Extraction, TLC

\* Workers, jobs and texts are interchangeable.
Symmetry == Permutations(Jobs) \union Permutations(Workers) \union Permutations(Texts)

===============================================================================
