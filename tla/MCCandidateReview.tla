--------------------------- MODULE MCCandidateReview ---------------------------
(* Small instances of CandidateReview for TLC.                             *)
EXTENDS CandidateReview, TLC

\* Candidates are interchangeable, and so are requests.
Symmetry == Permutations(Candidates) \union Permutations(Requests)

===============================================================================
