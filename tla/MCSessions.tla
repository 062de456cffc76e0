----------------------------- MODULE MCSessions -----------------------------
(* Sessions on a small instance. *)
EXTENDS Sessions, TLC

Symmetry == Permutations(User) \cup Permutations(Session) \cup Permutations(Challenge)
            \cup Permutations(Slot)

=============================================================================
