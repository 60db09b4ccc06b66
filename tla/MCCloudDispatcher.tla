-------------------------- MODULE MCCloudDispatcher --------------------------
(* An instance of CloudDispatcher: an event with and one without a webhook. *)
EXTENDS CloudDispatcher

CONSTANTS e1, e2

MCEvents == {e1, e2}
MCWithWebhook == {e1}
MCRetryDelay == <<1, 1>>
=============================================================================
