--------------------------- MODULE MCDeployments ---------------------------
(* Instances of Deployments for TLC. *)
EXTENDS Deployments, TLC

CONSTANTS n1, n2, r1, r2

\* Node order by name.
MCRank == [n \in Node |-> IF n = n1 THEN 1 ELSE 2]
\* r1 serves DHCP from n1, r2 from n2: deploying r2 hands the role over.
MCDhcpOwner == [r \in Revision |-> IF r = r1 THEN n1 ELSE IF n2 \in Node THEN n2 ELSE None]
\* Deployment identifiers are interchangeable.
Symmetry == Permutations(Deployment)

MCCovers == [r \in Revision |-> Node]
=============================================================================
