------------------------- MODULE MCWebhookDelivery -------------------------
(* Small instances of WebhookDelivery. *)
EXTENDS WebhookDelivery

CONSTANTS r1, e1, e2
=============================================================================
