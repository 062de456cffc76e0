--------------------------- MODULE MCHAMonitoring ---------------------------
(* Bounded instance of HAMonitoring: nodes whose TLS state is unread, off,   *)
(* close to expiry or healthy.                                               *)
EXTENDS HAMonitoring

CONSTANT n1

SnapshotOf(c, t, d) == [collected |-> c, tls |-> t, valid |-> t, days |-> d]
MCSnapshot == {SnapshotOf(FALSE, FALSE, 0), SnapshotOf(TRUE, FALSE, 0), SnapshotOf(TRUE, TRUE, 7),
               SnapshotOf(TRUE, TRUE, 31)}
=============================================================================
