------------------------------- MODULE MCOutbox -------------------------------
(* Small instances of Outbox for TLC.                                      *)
EXTENDS Outbox, TLC

\* Publishers are interchangeable, and so are events: no order on them is kept.
Symmetry == Permutations(Events) \union Permutations(Workers)

===============================================================================
