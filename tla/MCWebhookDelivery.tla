-------------------------- MODULE MCWebhookDelivery --------------------------
(***************************************************************************)
(* One request and one dispatch of an organization at once, two hooks, two *)
(* deliveries and one exit of the process.                                 *)
(***************************************************************************)
EXTENDS WebhookDelivery, TLC
=============================================================================
