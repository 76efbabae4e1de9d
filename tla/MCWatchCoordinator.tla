------------------------- MODULE MCWatchCoordinator -------------------------
(* The instances of WatchCoordinator that TLC checks.                      *)
EXTENDS WatchCoordinator, TLC

CONSTANTS k1, k2, p1, p2

\* Every key has a parent of its own.
MCParentOf == [k \in Keys |-> IF k = k1 THEN p1 ELSE p2]

\* GVRs and targets are interchangeable.
Symmetry == Permutations(Gvrs) \cup Permutations(Targets)

=============================================================================
