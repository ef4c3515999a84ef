------------------------------- MODULE MCAgent -------------------------------
(* A small instance of Agent: two attempts, the second of which may be a retry
   of the first, on one cart that other sessions fill and empty.           *)
EXTENDS Agent, TLC

CONSTANTS a1, a2, c1, t1, empty, small

TwoAttempts == {a1, a2}
Ids == (a1 :> "m1") @@ (a2 :> "m2")
Calls == TwoAttempts \X {"create", "confirm"}

OneCart == {c1}
OneToken == {t1}
TwoLists == {empty, small}
Totals == (empty :> 0) @@ (small :> 2)
Limits == [t \in OneToken |-> 5]

AgentMandates == {MandateFor(a, c, x) : a \in TwoAttempts, c \in OneCart, x \in TwoLists}
=============================================================================
