----------------------- MODULE MCDriftReconciliation -----------------------
(* Instances of DriftReconciliation for TLC. *)
EXTENDS DriftReconciliation

CONSTANTS n1, n2, r1, r2

\* Node order by name.
MCRank == [n \in Node |-> IF n = n1 THEN 1 ELSE 2]
\* With two nodes, r1 serves DHCP from n1 and r2 from n2.
MCDhcpOwner == [r \in Revision |->
  IF n2 \notin Node THEN None ELSE IF r = r1 THEN n1 ELSE n2]
MCCovers == [r \in Revision |-> Node]
=============================================================================
