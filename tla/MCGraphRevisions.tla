-------------------------- MODULE MCGraphRevisions --------------------------
(* The instances of GraphRevisions that TLC checks.                        *)
EXTENDS GraphRevisions, TLC

CONSTANTS a, a2, b, bad

\* a2 differs from a in form only: the same hash.
MCHash == [s \in Specs |-> IF s = a2 THEN a ELSE s]

=============================================================================
