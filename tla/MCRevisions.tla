---------------------------- MODULE MCRevisions ----------------------------
(* Two requests in flight at once.  Nodes, identifiers and requests are     *)
(* interchangeable.                                                         *)
EXTENDS Revisions, TLC

Symmetry == Permutations(Nodes) \cup Permutations(Ids)
            \cup Permutations(Deployments) \cup Permutations(Requests)
=============================================================================
