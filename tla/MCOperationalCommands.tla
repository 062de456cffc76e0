----------------------- MODULE MCOperationalCommands -----------------------
(* Instances of OperationalCommands for TLC. *)
EXTENDS OperationalCommands

CONSTANTS fleet, reset

\* One input for all nodes, and a DHCP reset of node 1.
MCScope == [i \in FleetInput |-> Node]
MCDhcpNode == [i \in DhcpInput |-> 1]
=============================================================================
