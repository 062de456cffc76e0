--------------------------- MODULE MCNodeLifecycle ---------------------------
(* Model values of the bounded instances of NodeLifecycle.                    *)
EXTENDS NodeLifecycle, TLC

CONSTANTS n1, s1, s2, u1

Symmetry == Permutations(Slot)
==============================================================================
