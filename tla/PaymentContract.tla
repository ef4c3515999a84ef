-------------------------- MODULE PaymentContract --------------------------
(***************************************************************************)
(* What the payment component promises, without tokens, carts, mandates or *)
(* handlers: each payment intent walks the graph of README section 2       *)
(*                                                                         *)
(*    absent -> created -> requires_confirmation -> succeeded | failed     *)
(*                                                                         *)
(* success and failure are final, an intent succeeds only after the bank   *)
(* captured money for it, and success is announced to the subscribers only *)
(* after it is recorded.  The promise is deliberately silent on how often  *)
(* the bank captures: the code does not limit it (see the findings).       *)
(***************************************************************************)
CONSTANT Ids              \* identifiers of payment intents

VARIABLES status,         \* the recorded status of every intent
          paid,           \* the intents the bank captured money for
          announced       \* the intents whose success was announced

vars == <<status, paid, announced>>

Statuses == {"absent", "created", "requires_confirmation", "succeeded", "failed"}

TypeOK == /\ status \in [Ids -> Statuses]
          /\ paid \subseteq Ids
          /\ announced \subseteq Ids

Init == /\ status = [i \in Ids |-> "absent"]
        /\ paid = {}
        /\ announced = {}

Move(i, from, to) == /\ status[i] = from
                     /\ status' = [status EXCEPT ![i] = to]

Create(i)  == Move(i, "absent", "created") /\ UNCHANGED <<paid, announced>>

Open(i)    == /\ Move(i, "created", "requires_confirmation")
              /\ UNCHANGED <<paid, announced>>

\* Money is captured only for an intent that was opened for confirmation.
Capture(i) == /\ status[i] \notin {"absent", "created"}
              /\ paid' = paid \cup {i}
              /\ UNCHANGED <<status, announced>>

Succeed(i) == /\ i \in paid
              /\ Move(i, "requires_confirmation", "succeeded")
              /\ UNCHANGED <<paid, announced>>

Fail(i)    == /\ Move(i, "requires_confirmation", "failed")
              /\ UNCHANGED <<paid, announced>>

Announce(i) == /\ status[i] = "succeeded"
               /\ announced' = announced \cup {i}
               /\ UNCHANGED <<status, paid>>

Next == \E i \in Ids : \/ Create(i) \/ Open(i) \/ Capture(i)
                       \/ Succeed(i) \/ Fail(i) \/ Announce(i)

Spec == Init /\ [][Next]_vars
=============================================================================
