----------------------------- MODULE MCQueryLog -----------------------------
(* Two passes at once over one node that reads at most two pages.         *)
EXTENDS QueryLog

=============================================================================
