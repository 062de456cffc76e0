-------------------------- MODULE MCNotifications --------------------------
(***************************************************************************)
(* Notifications with one channel and two events, and the model values of  *)
(* its instances.                                                          *)
(***************************************************************************)
EXTENDS Notifications

CONSTANTS c1, e1, e2

=============================================================================
