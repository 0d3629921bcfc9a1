------------------------- MODULE MCNotificationHub -------------------------
(* Model checking of NotificationHub.  No symmetry: liveness is checked.   *)
EXTENDS NotificationHub
=============================================================================
