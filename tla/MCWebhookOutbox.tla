--------------------------- MODULE MCWebhookOutbox --------------------------
(* WebhookOutbox for two workers, two lifecycle URLs and one or two events. *)
EXTENDS WebhookOutbox
=============================================================================
