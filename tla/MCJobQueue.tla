------------------------------ MODULE MCJobQueue ------------------------------
(* Small instances of JobQueue for TLC.                                    *)
EXTENDS JobQueue, TLC

\* Workers are interchangeable, and so are jobs: priorities order a claim, and
\* the model allows every order.
Symmetry == Permutations(Jobs) \union Permutations(Workers)

===============================================================================
