------------------------------- MODULE MCJobs -------------------------------
(* Small instances of Jobs for TLC.                                          *)
EXTENDS Jobs, TLC

\* Callers, targets and finding identities are interchangeable.
Symmetry ==
    Permutations(Callers) \cup Permutations(Targets) \cup Permutations(FindingIds)
=============================================================================
