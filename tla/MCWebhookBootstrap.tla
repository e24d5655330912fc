-------------------------- MODULE MCWebhookBootstrap --------------------------
(***************************************************************************)
(* Two replicas, as deployed, and a certificate for each start of one.     *)
(***************************************************************************)
EXTENDS WebhookBootstrap
=============================================================================
