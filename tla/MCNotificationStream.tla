------------------------ MODULE MCNotificationStream ------------------------
(* One user whose token is renewed, next to another wallet's notifications. *)
EXTENDS NotificationStream

CONSTANTS mine, other

Renewed == {[wallet |-> mine, token |-> k] : k \in 1..2}
==============================================================================
