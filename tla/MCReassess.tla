----------------------------- MODULE MCReassess -----------------------------
(* Small instances of Reassess for TLC.                                      *)
EXTENDS Reassess, TLC

\* Handlers are interchangeable, and so are people and assessments.
Symmetry ==
    Permutations(Threads) \cup Permutations(DefIds) \cup Permutations(Operators)
=============================================================================
