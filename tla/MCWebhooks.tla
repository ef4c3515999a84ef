----------------------------- MODULE MCWebhooks -----------------------------
(* A small instance of Webhooks: a channel of one event, so that a second one
   may find it full, and subscriptions that want all of them or some.      *)
EXTENDS Webhooks, TLC

CONSTANTS e1, e2, s1, s2

TwoEvents == {e1, e2}
OneSub == {s1}
TwoSubs == {s1, s2}

OneWants == s1 :> TwoEvents
TwoWant == (s1 :> TwoEvents) @@ (s2 :> {e1})

=============================================================================
