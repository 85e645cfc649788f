--------------------------- MODULE MCWebhookControl ---------------------------
(* WebhookControl for TLC: two webhooks, one of them with a certificate,   *)
(* a request that is refused, and deleteWebhook.                           *)
EXTENDS WebhookControl

Ask4(url, cert, drop, valid) == [url |-> url, cert |-> cert, drop |-> drop, valid |-> valid]
MCRequests == {Ask4(1, FALSE, FALSE, TRUE), Ask4(2, TRUE, FALSE, TRUE),
               Ask4(2, FALSE, TRUE, FALSE), Ask4(None, FALSE, FALSE, TRUE)}
===============================================================================
