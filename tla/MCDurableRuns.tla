--------------------------- MODULE MCDurableRuns ---------------------------
(* Small instances of DurableRuns for TLC.                                 *)
EXTENDS DurableRuns, TLC

CONSTANTS r1, i1, p1, p2, o1, o2

\* One run has all the work items.
AllOfR1 == [i \in Items |-> r1]

Symmetry == Permutations(Procs) \cup Permutations(Outcomes)
=============================================================================
