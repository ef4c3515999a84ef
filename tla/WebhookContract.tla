--------------------------- MODULE WebhookContract ---------------------------
(***************************************************************************)
(* What the dispatcher promises its subscribers, without its channel,      *)
(* worker, wait group and retries: a recorded event is fanned out once at  *)
(* most, to the subscriptions there are and that want it; each delivery    *)
(* begins once and ends once; and when the dispatcher has stopped nothing  *)
(* is under way and nothing begins.                                        *)
(***************************************************************************)
CONSTANTS Events, Subs, Wants

VARIABLES
  recorded,    \* the events in the log
  subscribed,  \* the subscriptions there are
  fannedOut,   \* the events whose deliveries have begun
  phase,       \* of the delivery of each event to each subscription
  stopped      \* Stop has returned

cvars == <<recorded, subscribed, fannedOut, phase, stopped>>

Init ==
  /\ recorded = {}
  /\ subscribed = {}
  /\ fannedOut = {}
  /\ phase = [p \in Subs \X Events |-> "none"]
  /\ stopped = FALSE

Record(e) ==
  /\ e \notin recorded
  /\ recorded' = recorded \cup {e}
  /\ UNCHANGED <<subscribed, fannedOut, phase, stopped>>

Subscribe(s) ==
  /\ subscribed' = subscribed \cup {s}
  /\ UNCHANGED <<recorded, fannedOut, phase, stopped>>

Unsubscribe(s) ==
  /\ subscribed' = subscribed \ {s}
  /\ UNCHANGED <<recorded, fannedOut, phase, stopped>>

FanOut(e) ==
  /\ ~stopped
  /\ e \in recorded \ fannedOut
  /\ fannedOut' = fannedOut \cup {e}
  /\ phase' = [p \in Subs \X Events |->
                 IF p \in {s \in subscribed : e \in Wants[s]} \X {e}
                 THEN "active" ELSE phase[p]]
  /\ UNCHANGED <<recorded, subscribed, stopped>>

End(p) ==
  /\ phase[p] = "active"
  /\ phase' = [phase EXCEPT ![p] = "ended"]
  /\ UNCHANGED <<recorded, subscribed, fannedOut, stopped>>

Stop ==
  /\ \A p \in Subs \X Events : phase[p] # "active"
  /\ stopped' = TRUE
  /\ UNCHANGED <<recorded, subscribed, fannedOut, phase>>

Next == \/ \E e \in Events : Record(e) \/ FanOut(e)
        \/ \E s \in Subs : Subscribe(s) \/ Unsubscribe(s)
        \/ \E p \in Subs \X Events : End(p)
        \/ Stop

Spec == Init /\ [][Next]_cvars
=============================================================================
