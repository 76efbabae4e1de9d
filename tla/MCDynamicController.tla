------------------------- MODULE MCDynamicController -------------------------
(* The instances of DynamicController that TLC checks.                     *)
EXTENDS DynamicController, TLC

CONSTANTS i1, i2, p1

\* The instances are of one RGD.
MCParentOf == [k \in Instances |-> p1]

=============================================================================
