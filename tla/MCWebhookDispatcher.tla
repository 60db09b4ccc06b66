------------------------- MODULE MCWebhookDispatcher -------------------------
(* Instances of WebhookDispatcher: two events, and retry curves of two      *)
(* delays that differ, so that the budget runs out.                         *)
EXTENDS WebhookDispatcher

CONSTANTS e1, e2

MCEvents == {e1, e2}
OneEvent == {e1}
Curve == <<1, 2>>
ShortCurve == <<1>>
=============================================================================
