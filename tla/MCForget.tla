------------------------------- MODULE MCForget -------------------------------
(* Small instances of Forget for TLC.                                      *)
EXTENDS Forget, TLC

\* Append requests and payloads are interchangeable; record ids are ordered.
Symmetry == Permutations(Requests) \union Permutations(Payloads)

===============================================================================
