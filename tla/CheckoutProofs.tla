--------------------------- MODULE CheckoutProofs ---------------------------
(***************************************************************************)
(* Machine-checked proofs about Checkout, for every set of requests,       *)
(* tokens, carts, mandates and every assignment of limits and totals.      *)
(***************************************************************************)
EXTENDS Checkout, Sums, TLAPS

-----------------------------------------------------------------------------
(* Which request can be where, and what its handler may rely on.           *)

CreateLabels == {"load_cart", "verify", "create", "open", "reply_created",
                 "emit_created"}

\* The labels of ConfirmIntent after it has found the intent.
HoldLabels == {"record_spend", "charge", "succeed", "fail", "reply_succeeded",
               "emit_succeeded", "emit_failed"}

\* A request is served by the handler of its route, and ConfirmIntent goes on
\* only with an id that names an intent.
Routed ==
  \A r \in Requests :
    /\ pc[r] = "auth" => req[r] \in CreateReq \cup ConfirmReq
    /\ pc[r] \in CreateLabels => req[r] \in CreateReq
    /\ pc[r] \in HoldLabels \cup {"load_intent"} => req[r] \in ConfirmReq
    /\ pc[r] \in HoldLabels => req[r].id # UnknownId

TypeInv == TypeOK /\ Routed

\* What PaymentStore.TransitionStatus does to the map of intents.
LEMMA TransitionFacts ==
  ASSUME intents \in [Requests -> Intent], NEW i \in Requests,
         NEW to \in Status, TransitionStatus(i, to)
  PROVE  /\ intents' \in [Requests -> Intent]
         /\ \A j \in Requests : j # i => intents'[j] = intents[j]
         /\ intents'[i].status = IF CanTransition(intents[i].status, to)
                                 THEN to ELSE intents[i].status
         /\ intents'[i].cart = intents[i].cart
         /\ intents'[i].amount = intents[i].amount
         /\ intents'[i].mandate = intents[i].mandate
<1> DEFINE moved == [intents[i] EXCEPT !.status = to]
<1>1. /\ moved \in Intent
      /\ moved.status = to
      /\ moved.cart = intents[i].cart
      /\ moved.amount = intents[i].amount
      /\ moved.mandate = intents[i].mandate
  <2>1. intents[i] \in Intent
    OBVIOUS
  <2> QED BY <2>1 DEF Intent
<1>2. intents' = IF CanTransition(intents[i].status, to)
                 THEN [intents EXCEPT ![i] = moved] ELSE intents
  BY Zenon DEF TransitionStatus
<1> HIDE DEF moved
<1> QED BY <1>1, <1>2

\* The initial state is well typed and routed.
LEMMA TypeInvInit == Init => TypeInv
BY TotalsAssumption, ContentsAssumption
DEF Init, Quiet, TypeInv, TypeOK, Routed, NoIntent, Intent, Status, Labels, Codes,
    CreateLabels, HoldLabels, Event

\* Every step keeps the types and the routes.
LEMMA TypeInvStep == TypeInv /\ [Next]_vars => TypeInv'
<1> SUFFICES ASSUME TypeInv, [Next]_vars PROVE TypeInv'
  OBVIOUS
<1> USE LimitsAssumption, TotalsAssumption, ContentsAssumption,
        SentinelsAssumption
    DEF TypeInv, TypeOK, Routed, CreateLabels, HoldLabels, Labels, Codes,
        Status, Goto, Send, Refuse
<1>1. ASSUME NEW t \in Tokens, IssueToken(t) PROVE TypeInv'
  BY <1>1 DEF IssueToken
<1>2. ASSUME NEW t \in Tokens, ExpireToken(t) PROVE TypeInv'
  BY <1>2 DEF ExpireToken
<1>3. ASSUME NEW m \in Mandates, ExpireMandate(m) PROVE TypeInv'
  BY <1>3 DEF ExpireMandate
<1>4. ASSUME NEW c \in CartIds, CreateCart(c) PROVE TypeInv'
  BY <1>4 DEF CreateCart
<1>5. ASSUME NEW c \in CartIds, NEW x \in Contents, SaveCart(c, x) PROVE TypeInv'
  BY <1>5 DEF SaveCart
<1>6. ASSUME NEW r \in Requests, ReceiveCreate(r) PROVE TypeInv'
  BY <1>6 DEF ReceiveCreate, Receive, CreateReq
<1>7. ASSUME NEW r \in Requests, ReceiveConfirm(r) PROVE TypeInv'
  BY <1>7 DEF ReceiveConfirm, Receive, ConfirmReq, Disclosed
<1>8. ASSUME NEW r \in Requests, Authorize(r) PROVE TypeInv'
  BY <1>8 DEF Authorize, CreateReq, ConfirmReq
<1>9. ASSUME NEW r \in Requests, CreateIntent(r) PROVE TypeInv'
  <2>1. CASE LoadCart(r)
    BY <2>1 DEF LoadCart, CreateReq
  <2>2. CASE VerifyMandate(r)
    BY <2>2 DEF VerifyMandate
  <2>3. CASE CreateStored(r)
    BY <2>3 DEF CreateStored, CreateReq, Intent
  <2>4. CASE OpenIntent(r)
    <3>1. r \in Requests /\ TransitionStatus(r, "requires_confirmation")
      BY <2>4 DEF OpenIntent
    <3>2. intents' \in [Requests -> Intent]
      BY <3>1, TransitionFacts
    <3> QED BY <2>4, <3>2 DEF OpenIntent
  <2>5. CASE ReplyCreated(r)
    BY <2>5 DEF ReplyCreated
  <2>6. CASE EmitCreated(r)
    BY <2>6 DEF EmitCreated, RecordEvent, Event, Intent
  <2> QED BY <1>9, <2>1, <2>2, <2>3, <2>4, <2>5, <2>6 DEF CreateIntent
<1>10. ASSUME NEW r \in Requests, ConfirmIntent(r) PROVE TypeInv'
  <2>1. CASE LoadIntent(r)
    BY <2>1 DEF LoadIntent, ConfirmReq
  <2>2. CASE RecordSpend(r)
    <3>1. intentCopy[r].amount \in Int /\ req[r].token \in Tokens
      BY <2>2 DEF RecordSpend, Intent, ConfirmReq
    <3>2. spend' \in [Tokens -> Int]
      BY <2>2, <3>1 DEF RecordSpend
    <3> QED BY <2>2, <3>2 DEF RecordSpend
  <2>3. CASE Charge(r)
    BY <2>3 DEF Charge
  <2>4. CASE MarkSucceeded(r)
    <3>1. req[r].id \in Requests /\ TransitionStatus(req[r].id, "succeeded")
      BY <2>4 DEF MarkSucceeded, ConfirmReq
    <3>2. intents' \in [Requests -> Intent]
      BY <3>1, TransitionFacts
    <3> QED BY <2>4, <3>2 DEF MarkSucceeded
  <2>5. CASE ReplySucceeded(r)
    BY <2>5 DEF ReplySucceeded, ConfirmReq
  <2>6. CASE EmitSucceeded(r)
    BY <2>6 DEF EmitSucceeded, RecordEvent, Event, Intent, ConfirmReq
  <2>7. CASE MarkFailed(r)
    <3>1. req[r].id \in Requests /\ TransitionStatus(req[r].id, "failed")
      BY <2>7 DEF MarkFailed, ConfirmReq
    <3>2. intents' \in [Requests -> Intent]
      BY <3>1, TransitionFacts
    <3>3. /\ pc' = [pc EXCEPT ![r] = "emit_failed"] /\ pc[r] = "fail"
          /\ code' = [code EXCEPT ![r] = 402]
          /\ UNCHANGED <<tokenState, spend, carts, stale, req, cartCopy,
                         intentCopy, captured, events>>
      BY <2>7 DEF MarkFailed
    <3>4. TypeOK'
      BY <3>2, <3>3
    <3>5. Routed'
      BY <3>3
    <3> QED BY <3>4, <3>5
  <2>8. CASE EmitFailed(r)
    BY <2>8 DEF EmitFailed, RecordEvent, Event, Intent, ConfirmReq
  <2> QED BY <1>10, <2>1, <2>2, <2>3, <2>4, <2>5, <2>6, <2>7, <2>8 DEF ConfirmIntent
<1>11. CASE UNCHANGED vars
  BY <1>11 DEF vars
<1> QED
  BY <1>1, <1>2, <1>3, <1>4, <1>5, <1>6, <1>7, <1>8, <1>9, <1>10, <1>11
  DEF Next, Serve

\* Type correctness of the checkout path.
THEOREM TypeCorrect == Spec => []TypeOK
<1>1. Spec => []TypeInv
  BY TypeInvInit, TypeInvStep, PTL DEF Spec
<1>2. TypeInv => TypeOK
  BY DEF TypeInv
<1> QED BY <1>1, <1>2, PTL

\* The environment touches no handler, so a step is either such a step or one of
\* a request: its arrival, or a step of its goroutine.
HandlerVars == <<intents, pc, req, cartCopy, intentCopy, code, captured, events>>

Arrivals == CreateReq \cup {q \in ConfirmReq : q.id \in Disclosed \cup {UnknownId}}

\* Every step is one action of one request, a token's or a mandate's end, a cart's
\* making, or a stutter.
LEMMA NextCases ==
  ASSUME [Next]_vars
  PROVE  \/ UNCHANGED HandlerVars
         \/ \E r \in Requests : \/ \E q \in Arrivals : Receive(r, q)
                                \/ Authorize(r)
                                \/ CreateIntent(r)
                                \/ ConfirmIntent(r)
<1>1. ASSUME NEW t \in Tokens, IssueToken(t) \/ ExpireToken(t)
      PROVE  UNCHANGED HandlerVars
  BY <1>1 DEF IssueToken, ExpireToken, HandlerVars
<1>2. ASSUME NEW m \in Mandates, ExpireMandate(m) PROVE UNCHANGED HandlerVars
  BY <1>2 DEF ExpireMandate, HandlerVars
<1>3. ASSUME NEW c \in CartIds, CreateCart(c) \/ (\E x \in Contents : SaveCart(c, x))
      PROVE  UNCHANGED HandlerVars
  BY <1>3 DEF CreateCart, SaveCart, HandlerVars
<1>4. ASSUME NEW r \in Requests, ReceiveCreate(r) \/ ReceiveConfirm(r)
      PROVE  \E q \in Arrivals : Receive(r, q)
  <2>1. CASE ReceiveCreate(r)
    <3>1. PICK t \in Tokens, c \in CartIds, m \in Mandates :
            Receive(r, [op |-> "create", token |-> t, cart |-> c, mandate |-> m])
      BY <2>1 DEF ReceiveCreate
    <3>2. [op |-> "create", token |-> t, cart |-> c, mandate |-> m] \in Arrivals
      BY DEF Arrivals, CreateReq
    <3> QED BY <3>1, <3>2
  <2>2. CASE ReceiveConfirm(r)
    <3>1. PICK t \in Tokens, i \in Disclosed \cup {UnknownId} :
            Receive(r, [op |-> "confirm", token |-> t, id |-> i])
      BY <2>2 DEF ReceiveConfirm
    <3>2. [op |-> "confirm", token |-> t, id |-> i] \in Arrivals
      BY DEF Arrivals, ConfirmReq, Disclosed
    <3> QED BY <3>1, <3>2
  <2> QED BY <1>4, <2>1, <2>2
<1>5. CASE UNCHANGED vars
  BY <1>5 DEF vars, HandlerVars
<1> QED
  BY <1>1, <1>2, <1>3, <1>4, <1>5 DEF Next, Serve

-----------------------------------------------------------------------------
(* How the label, the answer and the charge of a request go together.      *)

Unanswered == Labels \ {"emit_created", "emit_succeeded", "emit_failed", "done"}

Answered ==
  \A r \in Requests :
    /\ pc[r] \in Unanswered => code[r] = 0
    /\ pc[r] = "emit_created" => code[r] = 201
    /\ pc[r] = "emit_succeeded" => code[r] = 200
    /\ pc[r] = "emit_failed" => code[r] = 402
    /\ pc[r] \in {"succeed", "reply_succeeded"} => r \in captured
    /\ r \in captured =>
         /\ pc[r] \in {"succeed", "reply_succeeded", "emit_succeeded", "done"}
         /\ req[r] \in ConfirmReq /\ req[r].id # UnknownId
    /\ code[r] \in {200, 409} => r \in captured
    /\ code[r] = 402 =>
         /\ r \notin captured
         /\ req[r] \in ConfirmReq /\ req[r].id # UnknownId

\* At first nothing is answered.
LEMMA AnsweredInit == Init => Answered
BY DEF Init, Quiet, Answered, Unanswered, Labels

\* Every step keeps the bookkeeping of answers and charges.
LEMMA AnsweredStep == TypeInv /\ Answered /\ [Next]_vars => Answered'
<1> SUFFICES ASSUME TypeInv, Answered, [Next]_vars PROVE Answered'
  OBVIOUS
<1> DEFINE Types == /\ pc \in [Requests -> Labels]
                    /\ code \in [Requests -> Codes]
                    /\ req \in [Requests -> CreateReq \cup ConfirmReq \cup {NoReq}]
                    /\ captured \subseteq Requests
<1>1. Types /\ Routed
  BY DEF TypeInv, TypeOK
<1> USE DEF Answered, Unanswered, Labels, Goto, Send, Refuse
<1>2. CASE UNCHANGED HandlerVars
  BY <1>2 DEF HandlerVars
<1>3. ASSUME NEW r \in Requests, NEW q, Receive(r, q) PROVE Answered'
  BY <1>1, <1>3 DEF Receive
<1>4. ASSUME NEW r \in Requests, Authorize(r) PROVE Answered'
  BY <1>1, <1>4 DEF Authorize
<1>5. ASSUME NEW r \in Requests, CreateIntent(r) PROVE Answered'
  BY <1>1, <1>5 DEF CreateIntent, LoadCart, VerifyMandate, CreateStored,
                    OpenIntent, ReplyCreated, EmitCreated
<1>6. ASSUME NEW r \in Requests, ConfirmIntent(r) PROVE Answered'
  <2> USE <1>1 DEF Routed, HoldLabels
  <2>1. CASE LoadIntent(r)
    BY <2>1 DEF LoadIntent
  <2>2. CASE RecordSpend(r)
    BY <2>2 DEF RecordSpend
  <2>3. CASE Charge(r)
    BY <2>3 DEF Charge
  <2>4. CASE MarkSucceeded(r)
    BY <2>4 DEF MarkSucceeded
  <2>5. CASE ReplySucceeded(r)
    BY <2>5 DEF ReplySucceeded
  <2>6. CASE EmitSucceeded(r)
    BY <2>6 DEF EmitSucceeded
  <2>7. CASE MarkFailed(r)
    BY <2>7 DEF MarkFailed
  <2>8. CASE EmitFailed(r)
    BY <2>8 DEF EmitFailed
  <2> QED BY <1>6, <2>1, <2>2, <2>3, <2>4, <2>5, <2>6, <2>7, <2>8 DEF ConfirmIntent
<1> QED
  BY <1>2, <1>3, <1>4, <1>5, <1>6, NextCases

-----------------------------------------------------------------------------
(* The stage of the intent a request mints, and of the intents confirms name.*)

Opened(i) == intents[i].status \notin {"absent", "created"}

Staged ==
  \A r \in Requests :
    /\ pc[r] \in {"idle", "auth", "load_cart", "verify", "create"} =>
         intents[r].status = "absent"
    /\ pc[r] = "open" => intents[r].status = "created"
    /\ pc[r] \in {"reply_created", "emit_created"} => Opened(r)
    /\ code[r] = 201 => Opened(r)
    /\ req[r] \in ConfirmReq /\ req[r].id # UnknownId => Opened(req[r].id)
    /\ code[r] # 500

\* At first no handler is past a stage.
LEMMA StagedInit == Init => Staged
BY NoReqAssumption DEF Init, Quiet, Staged, Opened, NoIntent

\* Every step keeps the stages: a client learns an id only after the intent was
\* opened, and an opened intent stays open.
LEMMA StagedStep == TypeInv /\ Answered /\ Staged /\ [Next]_vars => Staged'
<1> SUFFICES ASSUME TypeInv, Answered, Staged, [Next]_vars PROVE Staged'
  OBVIOUS
<1>1. /\ pc \in [Requests -> Labels]
      /\ code \in [Requests -> Codes]
      /\ req \in [Requests -> CreateReq \cup ConfirmReq \cup {NoReq}]
      /\ intents \in [Requests -> Intent]
      /\ \A r \in Requests : req[r] \in ConfirmReq => req[r].id \in Requests \cup {UnknownId}
      /\ Routed
  BY DEF TypeInv, TypeOK, ConfirmReq
<1>2. CASE UNCHANGED HandlerVars
  BY <1>2 DEF HandlerVars, Staged, Opened
<1> USE <1>1 DEF Staged, Opened, Goto, Send, Refuse
<1>3. ASSUME NEW r \in Requests, NEW q \in Arrivals, Receive(r, q) PROVE Staged'
  <2>1. q \in ConfirmReq /\ q.id # UnknownId => Opened(q.id)
    BY DEF Arrivals, Disclosed, CreateReq, ConfirmReq
  <2> QED BY <1>3, <2>1 DEF Receive
<1>4. ASSUME NEW r \in Requests, Authorize(r) PROVE Staged'
  BY <1>4 DEF Authorize
<1>5. ASSUME NEW r \in Requests, CreateIntent(r) PROVE Staged'
  <2>1. CASE LoadCart(r)
    BY <2>1 DEF LoadCart
  <2>2. CASE VerifyMandate(r)
    BY <2>2 DEF VerifyMandate
  <2>3. CASE CreateStored(r)
    BY <2>3, SentinelsAssumption DEF CreateStored
  <2>4. CASE OpenIntent(r)
    <3>1. TransitionStatus(r, "requires_confirmation")
      BY <2>4 DEF OpenIntent
    <3>2. /\ intents' \in [Requests -> Intent]
          /\ \A j \in Requests : j # r => intents'[j] = intents[j]
          /\ intents'[r].status = "requires_confirmation"
      BY <3>1, <2>4, TransitionFacts DEF OpenIntent, CanTransition, Status
    <3> QED BY <2>4, <3>2 DEF OpenIntent, CanTransition
  <2>5. CASE ReplyCreated(r)
    BY <2>5 DEF ReplyCreated
  <2>6. CASE EmitCreated(r)
    BY <2>6 DEF EmitCreated
  <2> QED BY <1>5, <2>1, <2>2, <2>3, <2>4, <2>5, <2>6 DEF CreateIntent
<1>6. ASSUME NEW r \in Requests, ConfirmIntent(r) PROVE Staged'
  <2> DEFINE i == req[r].id
  <2>1. CASE \/ LoadIntent(r) \/ RecordSpend(r) \/ Charge(r)
             \/ ReplySucceeded(r) \/ EmitSucceeded(r) \/ EmitFailed(r)
    BY <2>1 DEF LoadIntent, RecordSpend, Charge, ReplySucceeded, EmitSucceeded,
                EmitFailed
  <2>2. ASSUME NEW to \in {"succeeded", "failed"}, i \in Requests,
               TransitionStatus(i, to), Opened(i)
        PROVE  \A j \in Requests : /\ intents[j].status = "absent" => intents'[j].status = "absent"
                                   /\ intents[j].status = "created" => intents'[j].status = "created"
                                   /\ Opened(j) => Opened(j)'
    <3> HIDE DEF i
    <3> QED BY <2>2, TransitionFacts DEF Status
  <2>3. CASE MarkSucceeded(r)
    <3>1. i \in Requests /\ Opened(i) /\ TransitionStatus(i, "succeeded")
      BY <2>3 DEF MarkSucceeded, Routed, HoldLabels
    <3> QED BY <2>2, <2>3, <3>1 DEF MarkSucceeded
  <2>4. CASE MarkFailed(r)
    <3>1. i \in Requests /\ Opened(i) /\ TransitionStatus(i, "failed")
      BY <2>4 DEF MarkFailed, Routed, HoldLabels
    <3> QED BY <2>2, <2>4, <3>1 DEF MarkFailed
  <2> QED BY <1>6, <2>1, <2>3, <2>4 DEF ConfirmIntent
<1> QED
  BY <1>2, <1>3, <1>4, <1>5, <1>6, NextCases

-----------------------------------------------------------------------------
(* Every intent in the store was signed for, and a confirm works on a copy  *)
(* of its intent that agrees with the store on the amount.                  *)

SignedFor(m, cart, amount) == /\ m \in Mandates
                              /\ m.signed
                              /\ m.hash.items # EmptyItems
                              /\ m.hash.cart = cart
                              /\ m.amount = amount
                              /\ m.amount = Total[m.hash.items]

StoredSigned ==
  \A i \in Requests : intents[i].status # "absent" =>
    SignedFor(intents[i].mandate, intents[i].cart, intents[i].amount)

CopyFaithful ==
  \A r \in Requests :
    /\ pc[r] = "verify" => cartCopy[r] # EmptyItems
    /\ pc[r] = "create" => SignedFor(req[r].mandate, req[r].cart, Total[cartCopy[r]])
    /\ pc[r] \in HoldLabels \/ r \in captured =>
         intentCopy[r].amount = intents[req[r].id].amount

Signed == StoredSigned /\ CopyFaithful

\* At first nothing is signed off.
LEMMA SignedInit == Init => Signed
BY DEF Init, Quiet, Signed, StoredSigned, CopyFaithful, HoldLabels, NoIntent

\* Every step keeps the intents signed for and the copies faithful.
LEMMA SignedStep ==
  TypeInv /\ Answered /\ Staged /\ Signed /\ [Next]_vars => Signed'
<1> SUFFICES ASSUME TypeInv, Answered, Staged, Signed, [Next]_vars PROVE Signed'
  OBVIOUS
<1>1. /\ pc \in [Requests -> Labels]
      /\ req \in [Requests -> CreateReq \cup ConfirmReq \cup {NoReq}]
      /\ intents \in [Requests -> Intent]
      /\ intentCopy \in [Requests -> Intent]
      /\ cartCopy \in [Requests -> Contents]
      /\ Routed
  BY DEF TypeInv, TypeOK
<1>2. \A r \in Requests : pc[r] \in HoldLabels \/ r \in captured =>
        req[r].id \in Requests /\ Opened(req[r].id)
  BY <1>1 DEF Routed, Answered, Staged, ConfirmReq
<1>3. \A r \in Requests : r \in captured =>
        pc[r] \in {"succeed", "reply_succeeded", "emit_succeeded", "done"}
  BY DEF Answered
<1>4. CASE UNCHANGED HandlerVars
  BY <1>4 DEF HandlerVars, Signed, StoredSigned, CopyFaithful
<1> USE <1>1, <1>2, <1>3
    DEF Signed, StoredSigned, CopyFaithful, HoldLabels, Goto, Send, Refuse
<1>5. ASSUME NEW r \in Requests, NEW q \in Arrivals, Receive(r, q) PROVE Signed'
  BY <1>5 DEF Receive
<1>6. ASSUME NEW r \in Requests, Authorize(r) PROVE Signed'
  BY <1>6 DEF Authorize
<1>7. ASSUME NEW r \in Requests, CreateIntent(r) PROVE Signed'
  <2>1. CASE LoadCart(r)
    BY <2>1 DEF LoadCart
  <2>2. CASE VerifyMandate(r)
    <3>1. req[r] \in CreateReq
      BY <2>2 DEF VerifyMandate, Routed, CreateLabels
    <3>2. MandateAccepted(req[r].mandate, req[r].cart, cartCopy[r])
            => SignedFor(req[r].mandate, req[r].cart, Total[cartCopy[r]])
      BY <2>2, <3>1 DEF VerifyMandate, MandateAccepted, SignedFor, CartHash, CreateReq
    <3> QED BY <2>2, <3>2 DEF VerifyMandate
  <2>3. CASE CreateStored(r)
    <3>1. intents[r].status = "absent"
      BY <2>3 DEF CreateStored, Staged
    <3>2. \A s \in Requests : pc[s] \in HoldLabels \/ s \in captured => req[s].id # r
      BY <3>1 DEF Opened
    <3> QED BY <2>3, <3>2 DEF CreateStored
  <2>4. CASE OpenIntent(r)
    <3>1. TransitionStatus(r, "requires_confirmation") /\ intents[r].status = "created"
      BY <2>4 DEF OpenIntent, Staged
    <3>2. \A j \in Requests : /\ intents'[j].cart = intents[j].cart
                              /\ intents'[j].amount = intents[j].amount
                              /\ intents'[j].mandate = intents[j].mandate
                              /\ intents[j].status = "absent" => intents'[j].status = "absent"
      BY <3>1, TransitionFacts DEF Status
    <3> QED BY <2>4, <3>2 DEF OpenIntent
  <2>5. CASE ReplyCreated(r)
    BY <2>5 DEF ReplyCreated
  <2>6. CASE EmitCreated(r)
    BY <2>6 DEF EmitCreated
  <2> QED BY <1>7, <2>1, <2>2, <2>3, <2>4, <2>5, <2>6 DEF CreateIntent
<1>8. ASSUME NEW r \in Requests, ConfirmIntent(r) PROVE Signed'
  <2> DEFINE i == req[r].id
  <2>1. CASE LoadIntent(r)
    BY <2>1 DEF LoadIntent
  <2>2. CASE RecordSpend(r)
    BY <2>2 DEF RecordSpend
  <2>3. CASE Charge(r)
    BY <2>3 DEF Charge
  <2>4. CASE ReplySucceeded(r)
    BY <2>4 DEF ReplySucceeded
  <2>5. CASE EmitSucceeded(r) \/ EmitFailed(r)
    BY <2>5 DEF EmitSucceeded, EmitFailed
  <2>6. ASSUME NEW to \in {"succeeded", "failed"}, i \in Requests,
               TransitionStatus(i, to), Opened(i)
        PROVE  \A j \in Requests : /\ intents'[j].cart = intents[j].cart
                                   /\ intents'[j].amount = intents[j].amount
                                   /\ intents'[j].mandate = intents[j].mandate
                                   /\ intents[j].status = "absent" => intents'[j].status = "absent"
    <3> HIDE DEF i
    <3> QED BY <2>6, TransitionFacts DEF Status, Opened
  <2>7. CASE MarkSucceeded(r)
    <3>1. i \in Requests /\ Opened(i) /\ TransitionStatus(i, "succeeded")
      BY <2>7 DEF MarkSucceeded
    <3> QED BY <2>6, <2>7, <3>1 DEF MarkSucceeded
  <2>8. CASE MarkFailed(r)
    <3>1. i \in Requests /\ Opened(i) /\ TransitionStatus(i, "failed")
      BY <2>8 DEF MarkFailed
    <3> QED BY <2>6, <2>8, <3>1 DEF MarkFailed
  <2> QED BY <1>8, <2>1, <2>2, <2>3, <2>4, <2>5, <2>7, <2>8 DEF ConfirmIntent
<1> QED
  BY <1>4, <1>5, <1>6, <1>7, <1>8, NextCases

-----------------------------------------------------------------------------
(* The confirm that made an intent succeed: there is one for each succeeded *)
(* intent, it is the only one, and its charge went through.                 *)

Winner(r) == pc[r] = "reply_succeeded" \/ code[r] = 200

Settled ==
  /\ \A r \in Requests : Winner(r) => intents[req[r].id].status = "succeeded"
  /\ \A r, s \in Requests :
       Winner(r) /\ Winner(s) /\ req[r].id = req[s].id => r = s
  /\ \A i \in Requests : intents[i].status = "succeeded" =>
       \E r \in captured : Winner(r) /\ req[r].id = i
  /\ \A r \in Requests : code[r] = 409 => intents[req[r].id].status = "succeeded"

\* At first no intent is charged or settled.
LEMMA SettledInit == Init => Settled
BY DEF Init, Quiet, Settled, Winner, NoIntent

\* Winners are in a final state of their own: nothing a step of another request
\* does takes the status, the charge or the answer away from them.
LEMMA SettledStep ==
  TypeInv /\ Answered /\ Staged /\ Settled /\ [Next]_vars => Settled'
<1> SUFFICES ASSUME TypeInv, Answered, Staged, Settled, [Next]_vars PROVE Settled'
  OBVIOUS
<1>1. /\ pc \in [Requests -> Labels]
      /\ code \in [Requests -> Codes]
      /\ req \in [Requests -> CreateReq \cup ConfirmReq \cup {NoReq}]
      /\ intents \in [Requests -> Intent]
      /\ captured \subseteq Requests
      /\ Routed
  BY DEF TypeInv, TypeOK
<1>2. \A r \in Requests : pc[r] \in HoldLabels \/ r \in captured =>
        req[r].id \in Requests /\ Opened(req[r].id)
  BY <1>1 DEF Routed, Answered, Staged, ConfirmReq
<1>3. \A r \in Requests :
        /\ Winner(r) \/ code[r] = 409 => r \in captured /\ req[r].id \in Requests
        /\ pc[r] \in Unanswered => code[r] = 0
  BY <1>1, <1>2 DEF Winner, Answered
<1>4. CASE UNCHANGED HandlerVars
  BY <1>4 DEF HandlerVars, Settled, Winner
<1> USE <1>1, <1>2, <1>3
    DEF Settled, Winner, HoldLabels, Unanswered, Labels, Goto, Send, Refuse
<1>5. ASSUME NEW r \in Requests, NEW q \in Arrivals, Receive(r, q) PROVE Settled'
  <2>1. ~Winner(r) /\ ~Winner(r)' /\ r \notin captured
    BY <1>5 DEF Receive, Answered
  <2> QED BY <1>5, <2>1 DEF Receive
<1>6. ASSUME NEW r \in Requests, Authorize(r) PROVE Settled'
  BY <1>6 DEF Authorize
<1>7. ASSUME NEW r \in Requests, CreateIntent(r) PROVE Settled'
  <2>1. CASE LoadCart(r)
    BY <2>1 DEF LoadCart
  <2>2. CASE VerifyMandate(r)
    BY <2>2 DEF VerifyMandate
  <2>3. CASE CreateStored(r)
    <3>1. intents[r].status = "absent" /\ intents'[r].status = "created"
      BY <2>3 DEF CreateStored, Staged
    <3> QED BY <2>3, <3>1 DEF CreateStored
  <2>4. CASE OpenIntent(r)
    <3>1. TransitionStatus(r, "requires_confirmation") /\ intents[r].status = "created"
      BY <2>4 DEF OpenIntent, Staged
    <3>2. \A j \in Requests : intents'[j].status = "succeeded" <=> intents[j].status = "succeeded"
      BY <3>1, TransitionFacts DEF Status
    <3> QED BY <2>4, <3>2 DEF OpenIntent
  <2>5. CASE ReplyCreated(r)
    BY <2>5 DEF ReplyCreated
  <2>6. CASE EmitCreated(r)
    BY <2>6 DEF EmitCreated
  <2> QED BY <1>7, <2>1, <2>2, <2>3, <2>4, <2>5, <2>6 DEF CreateIntent
<1>8. ASSUME NEW r \in Requests, ConfirmIntent(r) PROVE Settled'
  <2> DEFINE i == req[r].id
  <2>1. CASE LoadIntent(r)
    BY <2>1 DEF LoadIntent
  <2>2. CASE RecordSpend(r)
    BY <2>2 DEF RecordSpend
  <2>3. CASE Charge(r)
    BY <2>3 DEF Charge
  <2>4. CASE MarkSucceeded(r)
    <3>1. i \in Requests /\ r \in captured /\ ~Winner(r) /\ TransitionStatus(i, "succeeded")
      BY <2>4 DEF MarkSucceeded, Answered
    <3>2. CASE CanTransition(intents[i].status, "succeeded")
      <4>1. /\ intents[i].status = "requires_confirmation"
            /\ intents'[i].status = "succeeded"
            /\ \A j \in Requests : j # i => intents'[j] = intents[j]
        BY <3>1, <3>2, TransitionFacts DEF Status, CanTransition
      <4>2. /\ pc' = [pc EXCEPT ![r] = "reply_succeeded"]
            /\ UNCHANGED <<req, code, captured>>
        BY <2>4, <3>2 DEF MarkSucceeded
      <4>3. \A s \in Requests : Winner(s) => req[s].id # i
        BY <4>1
      <4>4. \A s \in Requests : Winner(s)' <=> Winner(s) \/ s = r
        BY <3>1, <4>2
      <4> HIDE DEF i, Winner
      <4> QED BY <3>1, <4>1, <4>2, <4>3, <4>4 DEF i
    <3>3. CASE ~CanTransition(intents[i].status, "succeeded")
      <4>1. intents' = intents
        BY <3>1, <3>3 DEF TransitionStatus
      <4> QED BY <2>4, <3>1, <3>3, <4>1 DEF MarkSucceeded
    <3> QED BY <3>2, <3>3
  <2>5. CASE ReplySucceeded(r)
    BY <2>5 DEF ReplySucceeded
  <2>6. CASE EmitSucceeded(r)
    BY <2>6 DEF EmitSucceeded, Answered
  <2>7. CASE EmitFailed(r)
    BY <2>7 DEF EmitFailed
  <2>8. CASE MarkFailed(r)
    <3>1. i \in Requests /\ r \notin captured /\ TransitionStatus(i, "failed")
      BY <2>8 DEF MarkFailed, Answered
    <3>2. \A j \in Requests : intents'[j].status = "succeeded" <=> intents[j].status = "succeeded"
      BY <3>1, TransitionFacts DEF Status, CanTransition
    <3> QED BY <2>8, <3>1, <3>2 DEF MarkFailed
  <2> QED BY <1>8, <2>1, <2>2, <2>3, <2>4, <2>5, <2>6, <2>7, <2>8 DEF ConfirmIntent
<1> QED
  BY <1>4, <1>5, <1>6, <1>7, <1>8, NextCases

-----------------------------------------------------------------------------
(* Announcements of success come from winners.                              *)

Announced ==
  /\ \A r \in Requests : pc[r] = "emit_succeeded" => intentCopy[r].status = "succeeded"
  /\ \A e \in events : e.type = "succeeded" =>
       code[e.by] = 200 /\ req[e.by].id = e.id /\ e.status = "succeeded"

\* At first nothing is announced.
LEMMA AnnouncedInit == Init => Announced
BY DEF Init, Quiet, Announced

\* Every step announces a success for a winner only.
LEMMA AnnouncedStep ==
  TypeInv /\ Answered /\ Settled /\ Announced /\ [Next]_vars => Announced'
<1> SUFFICES ASSUME TypeInv, Answered, Settled, Announced, [Next]_vars
             PROVE  Announced'
  OBVIOUS
<1>1. /\ pc \in [Requests -> Labels]
      /\ code \in [Requests -> Codes]
      /\ req \in [Requests -> CreateReq \cup ConfirmReq \cup {NoReq}]
      /\ intentCopy \in [Requests -> Intent]
      /\ \A e \in events : e.by \in Requests
  BY DEF TypeInv, TypeOK, Event
<1>2. \A r \in Requests : pc[r] \in Unanswered => code[r] = 0
  BY DEF Answered
<1>3. CASE UNCHANGED HandlerVars
  BY <1>3 DEF HandlerVars, Announced
<1> USE <1>1, <1>2 DEF Announced, Unanswered, Labels, Goto, Send, Refuse
<1>4. ASSUME NEW r \in Requests, NEW q \in Arrivals, Receive(r, q) PROVE Announced'
  BY <1>4 DEF Receive
<1>5. ASSUME NEW r \in Requests, Authorize(r) PROVE Announced'
  BY <1>5 DEF Authorize
<1>6. ASSUME NEW r \in Requests, CreateIntent(r) PROVE Announced'
  <2>1. CASE LoadCart(r) \/ VerifyMandate(r) \/ CreateStored(r) \/ OpenIntent(r)
    BY <2>1 DEF LoadCart, VerifyMandate, CreateStored, OpenIntent
  <2>2. CASE ReplyCreated(r)
    BY <2>2 DEF ReplyCreated
  <2>3. CASE EmitCreated(r)
    BY <2>3 DEF EmitCreated, RecordEvent
  <2> QED BY <1>6, <2>1, <2>2, <2>3 DEF CreateIntent
<1>7. ASSUME NEW r \in Requests, ConfirmIntent(r) PROVE Announced'
  <2>1. CASE LoadIntent(r)
    BY <2>1 DEF LoadIntent
  <2>2. CASE RecordSpend(r) \/ Charge(r)
    BY <2>2 DEF RecordSpend, Charge
  <2>3. CASE MarkSucceeded(r) \/ MarkFailed(r)
    BY <2>3 DEF MarkSucceeded, MarkFailed
  <2>4. CASE ReplySucceeded(r)
    <3>1. intents[req[r].id].status = "succeeded"
      BY <2>4 DEF ReplySucceeded, Settled, Winner
    <3> QED BY <2>4, <3>1 DEF ReplySucceeded
  <2>5. CASE EmitSucceeded(r)
    BY <2>5 DEF EmitSucceeded, RecordEvent, Answered
  <2>6. CASE EmitFailed(r)
    BY <2>6 DEF EmitFailed, RecordEvent
  <2> QED BY <1>7, <2>1, <2>2, <2>3, <2>4, <2>5, <2>6 DEF ConfirmIntent
<1> QED
  BY <1>3, <1>4, <1>5, <1>6, <1>7, NextCases

-----------------------------------------------------------------------------
(* The inductive invariant and the theorems.                                *)

IInv == TypeInv /\ Answered /\ Staged /\ Signed /\ Settled /\ Announced

\* The inductive invariant holds in every reachable state.
THEOREM Inductive == Spec => []IInv
<1>1. Init => IInv
  BY TypeInvInit, AnsweredInit, StagedInit, SignedInit, SettledInit, AnnouncedInit
  DEF IInv
<1>2. IInv /\ [Next]_vars => IInv'
  BY TypeInvStep, AnsweredStep, StagedStep, SignedStep, SettledStep, AnnouncedStep
  DEF IInv
<1> QED BY <1>1, <1>2, PTL DEF Spec

\* The invariant says of a captured charge what its mandate was signed over.
LEMMA Authorized == IInv => ChargedIsAuthorized
<1> SUFFICES ASSUME IInv, NEW r \in captured
             PROVE  LET i == intents[req[r].id]
                    IN  /\ SignedFor(i.mandate, i.cart, i.amount)
                        /\ intentCopy[r].amount = i.amount
  <2> SUFFICES \A m, c, n : SignedFor(m, c, n) =>
                 /\ m \in Mandates /\ m.signed /\ m.hash.items # EmptyItems
                 /\ m.hash.cart = c /\ n = m.amount /\ m.amount = Total[m.hash.items]
    BY DEF ChargedIsAuthorized
  <2> QED BY DEF SignedFor
<1>1. r \in Requests /\ req[r].id \in Requests /\ Opened(req[r].id)
  BY DEF IInv, TypeInv, TypeOK, Answered, Staged, ConfirmReq
<1> QED BY <1>1 DEF IInv, Signed, StoredSigned, CopyFaithful, Opened

\* Every captured charge is for an amount, a cart and items a genuine mandate
\* was signed over.
THEOREM ChargesAuthorized == Spec => []ChargedIsAuthorized
BY Authorized, Inductive, PTL

\* The invariant names one winner of an intent, and one event for it.
LEMMA Unique == IInv => OneSuccessPerIntent
<1> SUFFICES ASSUME IInv PROVE OneSuccessPerIntent
  OBVIOUS
<1>1. \A r, s \in Requests :
        code[r] = 200 /\ code[s] = 200 /\ req[r].id = req[s].id => r = s
  BY DEF IInv, Settled, Winner
<1>2. ASSUME NEW e \in events, NEW f \in events, e.type = "succeeded",
             f.type = "succeeded", e.id = f.id
      PROVE  e = f
  <2>1. e \in Event /\ f \in Event
    BY DEF IInv, TypeInv, TypeOK
  <2>2. e.by = f.by /\ e.status = f.status
    BY <1>1, <1>2, <2>1 DEF IInv, Announced, Event
  <2> QED BY <1>2, <2>1, <2>2 DEF Event
<1> QED BY <1>1, <1>2 DEF OneSuccessPerIntent

\* At most one 200 and one announcement of success for an intent.
THEOREM SuccessUnique == Spec => []OneSuccessPerIntent
BY Unique, Inductive, PTL

\* The invariant bears out the answers that were given.
LEMMA Truthful == IInv => AnswersTruthful
<1> SUFFICES ASSUME IInv, NEW r \in Requests
             PROVE  /\ code[r] = 200 => r \in captured /\ intents[req[r].id].status = "succeeded"
                    /\ code[r] = 402 => r \notin captured
                    /\ code[r] = 409 => \E s \in captured \ {r} :
                                          /\ req[s].id = req[r].id
                                          /\ pc[s] = "reply_succeeded" \/ code[s] = 200
  BY DEF AnswersTruthful
<1>1. code[r] = 200 => r \in captured /\ intents[req[r].id].status = "succeeded"
  BY DEF IInv, Answered, Settled, Winner
<1>2. code[r] = 402 => r \notin captured
  BY DEF IInv, Answered
<1>3. ASSUME code[r] = 409
      PROVE  \E s \in captured \ {r} :
               req[s].id = req[r].id /\ (pc[s] = "reply_succeeded" \/ code[s] = 200)
  <2>1. r \in captured /\ req[r].id \in Requests
    BY <1>3 DEF IInv, Answered, TypeInv, TypeOK, ConfirmReq
  <2>2. intents[req[r].id].status = "succeeded"
    BY <1>3 DEF IInv, Settled
  <2>3. PICK s \in captured : Winner(s) /\ req[s].id = req[r].id
    BY <2>1, <2>2 DEF IInv, Settled
  <2>4. pc[r] # "reply_succeeded"
    BY <1>3 DEF IInv, Answered, Unanswered, Labels
  <2> QED BY <1>3, <2>3, <2>4 DEF Winner
<1> QED BY <1>1, <1>2, <1>3

\* 200, 402 and 409 stay true answers.
THEOREM AnswersStayTrue == Spec => []AnswersTruthful
BY Truthful, Inductive, PTL

\* The invariant opens every intent whose id was told.
LEMMA Confirmable == IInv => DisclosedIsConfirmable
BY DEF IInv, Staged, Opened, DisclosedIsConfirmable, Disclosed

\* A disclosed intent can be confirmed, and no request ends in a 500.
THEOREM DisclosedConfirmable == Spec => []DisclosedIsConfirmable
BY Confirmable, Inductive, PTL

\* Only an issue of a token and RecordSpend touch the counters.
LEMMA SpendSteps ==
  ASSUME [Next]_vars
  PROVE  \/ UNCHANGED spend
         \/ \E t \in Tokens : IssueToken(t)
         \/ \E r \in Requests : RecordSpend(r)
<1>1. ASSUME NEW r \in Requests, Serve(r), ~RecordSpend(r) PROVE UNCHANGED spend
  BY <1>1 DEF Serve, Authorize, CreateIntent, LoadCart, VerifyMandate, CreateStored,
              OpenIntent, ReplyCreated, EmitCreated, ConfirmIntent, LoadIntent, Charge,
              MarkSucceeded, ReplySucceeded, EmitSucceeded, MarkFailed, EmitFailed
<1>2. ASSUME NEW r \in Requests, ReceiveCreate(r) \/ ReceiveConfirm(r)
      PROVE  UNCHANGED spend
  BY <1>2 DEF ReceiveCreate, ReceiveConfirm, Receive
<1> QED BY <1>1, <1>2 DEF Next, vars, ExpireToken, ExpireMandate, CreateCart, SaveCart

\* Only a spend that fits under the limit is recorded.
LEMMA SpendStep == TypeInv /\ SpendWithinLimit /\ [Next]_vars => SpendWithinLimit'
<1> SUFFICES ASSUME TypeInv, SpendWithinLimit, [Next]_vars
             PROVE  SpendWithinLimit'
  OBVIOUS
<1>1. spend \in [Tokens -> Int]
  BY DEF TypeInv, TypeOK
<1> USE <1>1, LimitsAssumption DEF SpendWithinLimit
<1>2. CASE UNCHANGED spend
  BY <1>2
<1>3. ASSUME NEW t \in Tokens, IssueToken(t) PROVE SpendWithinLimit'
  BY <1>3 DEF IssueToken
<1>4. ASSUME NEW r \in Requests, RecordSpend(r) PROVE SpendWithinLimit'
  <2>1. CASE Spendable(req[r].token, intentCopy[r].amount)
    <3>1. spend' = [spend EXCEPT ![req[r].token] = @ + intentCopy[r].amount]
      BY <1>4, <2>1 DEF RecordSpend
    <3> QED BY <2>1, <3>1 DEF Spendable
  <2>2. CASE ~Spendable(req[r].token, intentCopy[r].amount)
    BY <1>2, <1>4, <2>2 DEF RecordSpend
  <2> QED BY <2>1, <2>2
<1> QED BY <1>2, <1>3, <1>4, SpendSteps

\* At first nothing is spent.
LEMMA SpendInit == Quiet => SpendWithinLimit
BY LimitsAssumption DEF Quiet, SpendWithinLimit

\* The counter of a limited token never passes its limit.
THEOREM SpendLimited == Spec => []SpendWithinLimit
<1>1. Init => SpendWithinLimit
  BY SpendInit DEF Init
<1>2. IInv => TypeInv
  BY DEF IInv
<1> QED BY <1>1, <1>2, SpendStep, Inductive, PTL DEF Spec

-----------------------------------------------------------------------------
(* The money a token pays for, against its counter.                         *)

\* The charges of token t: those captured, and those the bank is yet to decide.
Owing(t) == {r \in Requests : (pc[r] = "charge" \/ r \in captured) /\ req[r].token = t}

Amounts == [r \in Requests |-> intentCopy[r].amount]

Charges(t) == SumFunctionOnSet(Amounts, Owing(t))

\* Every charge was recorded before it was asked for.
Budgeted ==
  \A t \in Tokens : /\ tokenState[t] = "unissued" => spend[t] = 0
                    /\ IsFiniteSet(Owing(t))
                    /\ Charges(t) <= spend[t]

\* The amount a confirm holds is that of a genuine mandate, a total.
LEMMA HeldAmounts ==
  ASSUME IInv, NEW r \in Requests, pc[r] \in HoldLabels \/ r \in captured
  PROVE  intentCopy[r].amount \in Nat
<1>1. req[r].id \in Requests /\ Opened(req[r].id)
  <2>1. req[r] \in ConfirmReq /\ req[r].id # UnknownId
    BY DEF IInv, TypeInv, Routed, Answered
  <2> QED BY <2>1 DEF ConfirmReq, IInv, Staged
<1>2. PICK m \in Mandates : m.amount = intentCopy[r].amount /\ m.amount = Total[m.hash.items]
  BY <1>1 DEF IInv, Signed, StoredSigned, CopyFaithful, SignedFor, Opened
<1>3. m.hash.items \in Contents
  BY MandatesAssumption DEF Hashes
<1> QED BY <1>2, <1>3, TotalsAssumption

\* The amounts owed sum to a natural number.
LEMMA OwingFacts ==
  ASSUME IInv, NEW t \in Tokens, IsFiniteSet(Owing(t))
  PROVE  /\ \A r \in Owing(t) : Amounts[r] \in Nat
         /\ Charges(t) \in Nat
<1>1. ASSUME NEW r \in Owing(t) PROVE Amounts[r] \in Nat
  BY HeldAmounts DEF Owing, Amounts, HoldLabels
<1>2. Owing(t) \in SUBSET Owing(t)
  OBVIOUS
<1> QED BY <1>1, <1>2, SumOfPart DEF Charges

\* A step that owes no more, for amounts that stay, keeps the charges recorded.
LEMMA OwingShrinks ==
  ASSUME IInv, Budgeted, NEW t \in Tokens, Owing(t)' \subseteq Owing(t),
         \A r \in Owing(t)' : Amounts'[r] = Amounts[r]
  PROVE  IsFiniteSet(Owing(t)') /\ Charges(t)' <= Charges(t)
<1> DEFINE now == Owing(t)
           next == Owing(t)'
<1>1. IsFiniteSet(now) /\ next \in SUBSET now
  BY DEF Budgeted
<1>2. \A r \in now : Amounts[r] \in Nat
  BY <1>1, OwingFacts
<1>3. IsFiniteSet(next)
  BY <1>1, FS_Subset
<1>4. SumFunctionOnSet(Amounts, next) <= SumFunctionOnSet(Amounts, now)
  <2> HIDE DEF now, next
  <2> QED BY <1>1, <1>2, SumOfPart
<1>5. \A r \in next : Amounts[r] \in Int /\ Amounts[r] = Amounts'[r]
  BY <1>1, <1>2
<1>6. SumFunctionOnSet(Amounts, next) = SumFunctionOnSet(Amounts', next)
  <2> HIDE DEF next
  <2> QED BY <1>3, <1>5, SumOfEqual
<1> QED BY <1>3, <1>4, <1>6 DEF Charges

\* Every step keeps the charges recorded.
LEMMA BudgetedStep == IInv /\ Budgeted /\ [Next]_vars => Budgeted'
<1> SUFFICES ASSUME IInv, Budgeted, [Next]_vars PROVE Budgeted'
  OBVIOUS
<1>0. /\ spend \in [Tokens -> Int] /\ pc \in [Requests -> Labels]
      /\ intentCopy \in [Requests -> Intent]
      /\ \A r \in Requests : pc[r] = "record_spend" => req[r] \in ConfirmReq
      /\ captured \subseteq Requests
      /\ \A r \in captured :
           pc[r] \in {"succeed", "reply_succeeded", "emit_succeeded", "done"}
  BY DEF IInv, TypeInv, TypeOK, Routed, HoldLabels, Answered
<1>a. \A t \in Tokens : Charges(t) \in Nat /\ spend[t] \in Int /\ Charges(t) <= spend[t]
  BY <1>0, OwingFacts DEF Budgeted
<1>b. ASSUME UNCHANGED <<tokenState, spend>> \/ \E u \in Tokens : IssueToken(u) \/ ExpireToken(u),
             \A r \in Requests :
               (pc'[r] = "charge" \/ r \in captured') =>
                 /\ pc[r] = "charge" \/ r \in captured
                 /\ req'[r].token = req[r].token
                 /\ intentCopy'[r].amount = intentCopy[r].amount
      PROVE  Budgeted'
  <2> SUFFICES ASSUME NEW t \in Tokens
               PROVE  /\ tokenState'[t] = "unissued" => spend'[t] = 0
                      /\ IsFiniteSet(Owing(t)') /\ Charges(t)' <= spend'[t]
    BY DEF Budgeted
  <2>1. Owing(t)' \subseteq Owing(t) /\ \A r \in Owing(t)' : Amounts'[r] = Amounts[r]
    BY <1>b DEF Owing, Amounts
  <2>2. IsFiniteSet(Owing(t)') /\ Charges(t)' <= Charges(t)
    BY <2>1, OwingShrinks
  <2>3. /\ tokenState'[t] = "unissued" => tokenState[t] = "unissued"
        /\ spend'[t] = spend[t]
    BY <1>0, <1>b DEF IssueToken, ExpireToken, Budgeted, IInv, TypeInv, TypeOK
  <2>4. Charges(t)' \in Int
    <3>1. \A r \in Owing(t)' : Amounts'[r] \in Int
      BY <1>a, <2>1, OwingFacts DEF Budgeted
    <3> QED BY <2>2, <3>1, SumOfEqual DEF Charges
  <2> QED BY <1>a, <2>2, <2>3, <2>4 DEF Budgeted
<1>1. ASSUME NEW t \in Tokens, IssueToken(t) \/ ExpireToken(t) PROVE Budgeted'
  BY <1>1, <1>b DEF IssueToken, ExpireToken
<1>2. ASSUME NEW r \in Requests, RecordSpend(r) PROVE Budgeted'
  <2> DEFINE n == intentCopy[r].amount
             u == req[r].token
  <2>1. CASE ~Spendable(u, n)
    BY <1>0, <1>2, <1>b, <2>1 DEF RecordSpend, Refuse, Goto, Send
  <2>2. CASE Spendable(u, n)
    <3>1. /\ spend' = [spend EXCEPT ![u] = @ + n]
          /\ pc[r] = "record_spend" /\ pc' = [pc EXCEPT ![r] = "charge"]
          /\ UNCHANGED <<tokenState, req, intentCopy, captured>>
      BY <1>2, <2>2 DEF RecordSpend, Goto
    <3>2. n \in Nat /\ u \in Tokens
      BY <1>0, <3>1, HeldAmounts DEF HoldLabels, ConfirmReq
    <3>3. r \notin Owing(u) /\ Owing(u)' = Owing(u) \cup {r} /\ Amounts' = Amounts
      BY <1>0, <3>1 DEF Owing, Amounts
    <3>4. /\ IsFiniteSet(Owing(u)) /\ spend[u] \in Int
          /\ Charges(u) \in Nat /\ Charges(u) <= spend[u]
      BY <1>a, <3>2 DEF Budgeted
    <3>5. \A s \in Owing(u) \cup {r} : Amounts[s] \in Int
      BY <3>2, <3>4, OwingFacts DEF Amounts
    <3>6. IsFiniteSet(Owing(u)') /\ Charges(u)' = Amounts[r] + Charges(u)
      <4>1. SumFunctionOnSet(Amounts, Owing(u) \cup {r})
              = Amounts[r] + SumFunctionOnSet(Amounts, Owing(u))
        BY <3>3, <3>4, <3>5, SumWith
      <4>2. Charges(u)' = SumFunctionOnSet(Amounts, Owing(u) \cup {r})
        BY <3>3 DEF Charges
      <4> QED BY <3>3, <3>4, <4>1, <4>2, FS_AddElement DEF Charges
    <3>7. spend'[u] = spend[u] + n /\ Amounts[r] = n /\ tokenState[u] = "live"
      BY <1>0, <2>2, <3>1, <3>2 DEF Amounts, Spendable
    <3>8. Charges(u)' <= spend'[u]
      BY <3>2, <3>4, <3>6, <3>7
    <3>9. ASSUME NEW t \in Tokens, t # u
          PROVE  /\ tokenState'[t] = "unissued" => spend'[t] = 0
                 /\ IsFiniteSet(Owing(t)') /\ Charges(t)' <= spend'[t]
      <4>1. Owing(t)' = Owing(t) /\ spend'[t] = spend[t]
        BY <1>0, <3>1, <3>9 DEF Owing
      <4>2. Charges(t)' = Charges(t)
        BY <3>3, <4>1 DEF Charges
      <4> QED BY <3>1, <4>1, <4>2 DEF Budgeted
    <3> QED BY <3>1, <3>6, <3>7, <3>8, <3>9 DEF Budgeted
  <2> QED BY <2>1, <2>2
<1>3. CASE UNCHANGED <<tokenState, spend>> /\ UNCHANGED <<pc, req, intentCopy, captured>>
  BY <1>3, <1>b
<1>4. ASSUME NEW r \in Requests, \E q \in CreateReq \cup ConfirmReq : Receive(r, q)
      PROVE  Budgeted'
  BY <1>0, <1>4, <1>b DEF Receive, Goto
<1>5. ASSUME NEW r \in Requests, Authorize(r) \/ CreateIntent(r) PROVE Budgeted'
  BY <1>0, <1>5, <1>b
  DEF Authorize, CreateIntent, LoadCart, VerifyMandate, CreateStored, OpenIntent,
      ReplyCreated, EmitCreated, Goto, Refuse, Send
<1>6. ASSUME NEW r \in Requests, LoadIntent(r) \/ Charge(r) PROVE Budgeted'
  BY <1>0, <1>6, <1>b DEF LoadIntent, Charge, Goto, Refuse, Send
<1>7. ASSUME NEW r \in Requests,
             \/ MarkSucceeded(r) \/ ReplySucceeded(r) \/ EmitSucceeded(r)
             \/ MarkFailed(r) \/ EmitFailed(r)
      PROVE  Budgeted'
  <2> SUFFICES /\ UNCHANGED <<tokenState, spend, req, captured>>
               /\ \A s \in Requests :
                    /\ pc'[s] = "charge" => pc[s] = "charge"
                    /\ intentCopy'[s].amount = intentCopy[s].amount
    BY <1>b
  <2>1. CASE MarkSucceeded(r)
    <3>1. /\ UNCHANGED <<tokenState, spend, req, intentCopy, captured>>
          /\ \/ pc' = [pc EXCEPT ![r] = "reply_succeeded"]
             \/ pc' = [pc EXCEPT ![r] = "done"]
      BY <2>1, Zenon DEF MarkSucceeded, Goto, Refuse, Send
    <3> QED BY <1>0, <3>1
  <2>2. CASE ReplySucceeded(r)
    <3>1. intentCopy[r].amount = intents[req[r].id].amount
      BY <2>2 DEF ReplySucceeded, IInv, Signed, CopyFaithful, HoldLabels
    <3> QED BY <1>0, <2>2, <3>1 DEF ReplySucceeded, Goto, Refuse, Send
  <2>3. CASE EmitSucceeded(r)
    BY <1>0, <2>3 DEF EmitSucceeded, Goto, Refuse, Send
  <2>4. CASE MarkFailed(r)
    BY <1>0, <2>4 DEF MarkFailed, Goto, Refuse, Send
  <2>5. CASE EmitFailed(r)
    BY <1>0, <2>5 DEF EmitFailed, Goto, Refuse, Send
  <2> QED BY <1>7, <2>1, <2>2, <2>3, <2>4, <2>5
<1>8. ASSUME NEW r \in Requests, ReceiveCreate(r) \/ ReceiveConfirm(r) PROVE Budgeted'
  <2>1. CASE ReceiveCreate(r)
    <3>1. PICK t \in Tokens, c \in CartIds, m \in Mandates :
            Receive(r, [op |-> "create", token |-> t, cart |-> c, mandate |-> m])
      BY <2>1 DEF ReceiveCreate
    <3>2. [op |-> "create", token |-> t, cart |-> c, mandate |-> m] \in CreateReq
      BY DEF CreateReq
    <3> QED BY <1>4, <3>1, <3>2
  <2>2. CASE ReceiveConfirm(r)
    <3>1. PICK t \in Tokens, i \in Disclosed \cup {UnknownId} :
            Receive(r, [op |-> "confirm", token |-> t, id |-> i])
      BY <2>2 DEF ReceiveConfirm
    <3>2. [op |-> "confirm", token |-> t, id |-> i] \in ConfirmReq
      BY DEF ConfirmReq, Disclosed
    <3> QED BY <1>4, <3>1, <3>2
  <2> QED BY <1>8, <2>1, <2>2
<1>9. ASSUME \/ \E m \in Mandates : ExpireMandate(m)
             \/ \E c \in CartIds : CreateCart(c) \/ (\E x \in Contents : SaveCart(c, x))
             \/ UNCHANGED vars
      PROVE  Budgeted'
  <2>1. UNCHANGED <<tokenState, spend, pc, req, intentCopy, captured>>
    BY <1>9 DEF ExpireMandate, CreateCart, SaveCart, vars
  <2> QED BY <1>3, <2>1
<1>10. ASSUME NEW r \in Requests, Serve(r) PROVE Budgeted'
  BY <1>2, <1>5, <1>6, <1>7, <1>10 DEF Serve, ConfirmIntent
<1> QED
  BY <1>1, <1>8, <1>9, <1>10 DEF Next

\* At first no token owes anything.
LEMMA BudgetedInit == Quiet => Budgeted
<1> SUFFICES ASSUME Quiet, NEW t \in Tokens
             PROVE  spend[t] = 0 /\ IsFiniteSet(Owing(t)) /\ Charges(t) <= spend[t]
  BY DEF Budgeted
<1>1. Owing(t) = {} /\ spend[t] = 0
  BY DEF Quiet, Owing
<1> QED BY <1>1, FS_EmptySet, SumOfNone DEF Charges

\* What the bank took for a token is covered by its counter.
Covered == \A t \in Tokens : Taken(t) \in Nat /\ Taken(t) <= spend[t]

\* What the bank took of a token is part of what the token owes, which was recorded.
LEMMA TakenCovered == IInv /\ Budgeted => Covered
<1> SUFFICES ASSUME IInv, Budgeted, NEW t \in Tokens
             PROVE  Taken(t) \in Nat /\ Taken(t) <= spend[t]
  BY DEF Covered
<1> DEFINE paid == {r \in captured : req[r].token = t}
<1>1. paid \in SUBSET Owing(t) /\ Taken(t) = SumFunctionOnSet(Amounts, paid)
  BY DEF Owing, Taken, Amounts, IInv, TypeInv, TypeOK
<1>2. /\ IsFiniteSet(Owing(t)) /\ Charges(t) \in Nat /\ Charges(t) <= spend[t]
      /\ \A r \in Owing(t) : Amounts[r] \in Nat
  BY OwingFacts DEF Budgeted
<1>3. Taken(t) \in Nat /\ Taken(t) <= Charges(t)
  <2> HIDE DEF paid
  <2> QED BY <1>1, <1>2, SumOfPart DEF Charges
<1>4. spend[t] \in Int
  BY DEF IInv, TypeInv, TypeOK
<1> QED BY <1>2, <1>3, <1>4

\* What the counter covers is within the limit, as the counter is.
LEMMA TakenWithinLimit == IInv /\ Budgeted /\ SpendWithinLimit => BudgetRespected
<1> SUFFICES ASSUME IInv, Budgeted, SpendWithinLimit, NEW t \in Tokens, SpendLimit[t] > 0
             PROVE  Taken(t) <= SpendLimit[t]
  BY DEF BudgetRespected
<1>1. Taken(t) \in Nat /\ Taken(t) <= spend[t]
  BY TakenCovered DEF Covered
<1>2. spend[t] \in Int /\ SpendLimit[t] \in Int /\ spend[t] <= SpendLimit[t]
  BY LimitsAssumption DEF SpendWithinLimit, IInv, TypeInv, TypeOK
<1> QED BY <1>1, <1>2

\* What the bank took for a limited token never passes its limit.
THEOREM BudgetKept == Spec => []BudgetRespected
<1>1. Init => Budgeted
  BY BudgetedInit DEF Init
<1> QED BY <1>1, TakenWithinLimit, BudgetedStep, Inductive, SpendLimited, PTL DEF Spec

\* No step moves the counter of a token that has expired.
LEMMA ExpiredStandsStill ==
  ASSUME TypeInv, [Next]_vars, NEW t \in Tokens, tokenState[t] = "expired"
  PROVE  spend'[t] = spend[t]
<1>1. spend \in [Tokens -> Int]
  BY DEF TypeInv, TypeOK
<1>2. CASE UNCHANGED spend
  BY <1>2
<1>3. ASSUME NEW u \in Tokens, IssueToken(u) PROVE spend'[t] = spend[t]
  BY <1>1, <1>3 DEF IssueToken
<1>4. ASSUME NEW r \in Requests, RecordSpend(r) PROVE spend'[t] = spend[t]
  BY <1>1, <1>4 DEF RecordSpend, Spendable
<1> QED BY <1>2, <1>3, <1>4, SpendSteps

\* After its end a token pays only for what was recorded before.
THEOREM ExpiredSpendsNothing == Spec => NothingSpentAfterExpiry
<1>1. Init => Budgeted
  BY BudgetedInit DEF Init
<1>2. IInv /\ Covered' /\ [Next]_vars =>
        [\A t \in Tokens : tokenState[t] = "expired" =>
           spend'[t] = spend[t] /\ Taken(t)' <= spend[t]]_vars
  <2> SUFFICES ASSUME IInv, Covered', [Next]_vars, NEW t \in Tokens, tokenState[t] = "expired"
               PROVE  spend'[t] = spend[t] /\ Taken(t)' <= spend[t]
    OBVIOUS
  <2>1. spend'[t] = spend[t]
    BY ExpiredStandsStill DEF IInv
  <2>2. Taken(t)' <= spend'[t]
    BY DEF Covered, Taken
  <2> QED BY <2>1, <2>2
<1> QED
  BY <1>1, <1>2, TakenCovered, BudgetedStep, Inductive, PTL DEF Spec, NothingSpentAfterExpiry

-----------------------------------------------------------------------------
(* Where an intent comes from, and what failed it.                          *)

\* An intent is the one its create request asked for, and a failed one was failed by
\* a confirm that was told so.
Traced ==
  /\ \A i \in Requests : intents[i].status # "absent" =>
       /\ req[i] \in CreateReq
       /\ intents[i].cart = req[i].cart
       /\ intents[i].mandate = req[i].mandate
  /\ \A i \in Requests : intents[i].status = "failed" =>
       \E q \in Requests : code[q] = 402 /\ req[q].id = i

\* At first there is no intent.
LEMMA TracedInit == Quiet => Traced
BY DEF Quiet, Traced, NoIntent

\* Every step keeps intents traced to their requests.
LEMMA TracedStep == IInv /\ Traced /\ [Next]_vars => Traced'
<1> SUFFICES ASSUME IInv, Traced, [Next]_vars PROVE Traced'
  OBVIOUS
<1>1. /\ pc \in [Requests -> Labels] /\ code \in [Requests -> Codes]
      /\ req \in [Requests -> CreateReq \cup ConfirmReq \cup {NoReq}]
      /\ intents \in [Requests -> Intent]
  BY DEF IInv, TypeInv, TypeOK
<1>2. \A r \in Requests :
        /\ pc[r] \in Unanswered => code[r] = 0
        /\ pc[r] \in {"idle", "create"} => intents[r].status = "absent"
        /\ pc[r] = "create" => req[r] \in CreateReq
        /\ pc[r] \in HoldLabels => req[r].id \in Requests /\ Opened(req[r].id)
  BY DEF IInv, TypeInv, Routed, Answered, Staged, CreateLabels, HoldLabels, ConfirmReq
\* A step that keeps the requests and what intents are for, takes back no 402, and
\* has one for the failure it makes.
<1>3. ASSUME req' = req,
             \A q \in Requests : code[q] = 402 => code'[q] = 402,
             \A i \in Requests :
               /\ intents'[i].status # "absent" => intents[i].status # "absent"
               /\ intents'[i].cart = intents[i].cart
               /\ intents'[i].mandate = intents[i].mandate
               /\ intents'[i].status = "failed" =>
                    \/ intents[i].status = "failed"
                    \/ \E q \in Requests : code'[q] = 402 /\ req[q].id = i
      PROVE  Traced'
  BY <1>3 DEF Traced
<1>4. CASE UNCHANGED HandlerVars
  BY <1>3, <1>4 DEF HandlerVars
<1>5. ASSUME NEW r \in Requests, NEW q \in Arrivals, Receive(r, q) PROVE Traced'
  <2>1. /\ intents[r].status = "absent" /\ code[r] = 0
        /\ UNCHANGED <<intents, code>> /\ \A s \in Requests \ {r} : req'[s] = req[s]
    BY <1>1, <1>2, <1>5 DEF Receive, Unanswered, Labels
  <2> QED BY <2>1 DEF Traced
<1>6. ASSUME NEW r \in Requests, pc[r] \in Unanswered, UNCHANGED <<req, intents>>,
             \A s \in Requests \ {r} : code'[s] = code[s]
      PROVE  Traced'
  BY <1>2, <1>3, <1>6
<1>7. ASSUME NEW r \in Requests, CreateStored(r) PROVE Traced'
  <2>1. /\ pc[r] = "create" /\ UNCHANGED <<req, code>>
        /\ \A i \in Requests \ {r} : intents'[i] = intents[i]
        /\ intents'[r].status = "created" /\ intents'[r].cart = req[r].cart
        /\ intents'[r].mandate = req[r].mandate
    BY <1>1, <1>7 DEF CreateStored
  <2> QED BY <1>2, <2>1 DEF Traced
<1>8. ASSUME NEW r \in Requests, NEW i \in Requests, intents[i].status # "absent",
             NEW to \in Status \ {"absent"}, TransitionStatus(i, to), req' = req,
             pc[r] \in Unanswered, \A s \in Requests \ {r} : code'[s] = code[s],
             to = "failed" => code'[r] = 402 /\ req[r].id = i
      PROVE  Traced'
  <2>1. /\ \A j \in Requests \ {i} : intents'[j] = intents[j]
        /\ intents'[i].status \in {to, intents[i].status}
        /\ intents'[i].cart = intents[i].cart /\ intents'[i].mandate = intents[i].mandate
    BY <1>1, <1>8, TransitionFacts
  <2> QED BY <1>2, <1>3, <1>8, <2>1
<1>9. ASSUME NEW r \in Requests, Authorize(r) PROVE Traced'
  BY <1>1, <1>6, <1>9 DEF Authorize, Refuse, Goto, Send, Unanswered, Labels
<1>10. ASSUME NEW r \in Requests, CreateIntent(r) PROVE Traced'
  <2>1. CASE LoadCart(r) \/ VerifyMandate(r) \/ ReplyCreated(r)
    BY <1>1, <1>6, <2>1
    DEF LoadCart, VerifyMandate, ReplyCreated, Refuse, Goto, Send, Unanswered, Labels
  <2>2. CASE OpenIntent(r)
    <3>1. /\ pc[r] = "open" /\ req' = req /\ TransitionStatus(r, "requires_confirmation")
          /\ \A s \in Requests \ {r} : code'[s] = code[s]
      BY <1>1, <2>2 DEF OpenIntent, Refuse, Goto, Send
    <3>2. intents[r].status = "created"
      BY <3>1 DEF IInv, Staged
    <3> QED BY <1>8, <3>1, <3>2 DEF Status, Unanswered, Labels
  <2>3. CASE EmitCreated(r)
    BY <1>3, <2>3 DEF EmitCreated
  <2> QED BY <1>7, <1>10, <2>1, <2>2, <2>3 DEF CreateIntent
<1>11. ASSUME NEW r \in Requests, ConfirmIntent(r) PROVE Traced'
  <2>1. CASE LoadIntent(r) \/ RecordSpend(r) \/ Charge(r) \/ ReplySucceeded(r)
    BY <1>1, <1>6, <2>1
    DEF LoadIntent, RecordSpend, Charge, ReplySucceeded, Refuse, Goto, Send, Unanswered, Labels
  <2>2. CASE MarkSucceeded(r)
    <3>1. /\ pc[r] = "succeed" /\ req' = req /\ TransitionStatus(req[r].id, "succeeded")
          /\ \A s \in Requests \ {r} : code'[s] = code[s]
      BY <1>1, <2>2 DEF MarkSucceeded, Refuse, Goto, Send
    <3> QED BY <1>2, <1>8, <3>1 DEF Status, Unanswered, Labels, HoldLabels, Opened
  <2>3. CASE MarkFailed(r)
    <3>1. /\ pc[r] = "fail" /\ req' = req /\ TransitionStatus(req[r].id, "failed")
          /\ \A s \in Requests \ {r} : code'[s] = code[s]
          /\ code'[r] = 402
      BY <1>1, <2>3 DEF MarkFailed, Goto, Send
    <3> QED BY <1>2, <1>8, <3>1 DEF Status, Unanswered, Labels, HoldLabels, Opened
  <2>4. CASE EmitSucceeded(r) \/ EmitFailed(r)
    BY <1>3, <2>4 DEF EmitSucceeded, EmitFailed
  <2> QED BY <1>11, <2>1, <2>2, <2>3, <2>4 DEF ConfirmIntent
<1> QED BY <1>4, <1>5, <1>9, <1>10, <1>11, NextCases

-----------------------------------------------------------------------------
(* What the terminal events say of the intent.                              *)

Final == {"succeeded", "failed"}

Reported ==
  /\ \A r \in Requests : pc[r] = "emit_failed" => intents[req[r].id].status \in Final
  /\ \A e \in events : e.type # "created" =>
       e.status \in Final /\ intents[e.id].status = e.status

\* A final status is never left.
LEMMA FinalStays ==
  ASSUME IInv, [Next]_vars, NEW i \in Requests, intents[i].status \in Final
  PROVE  intents'[i].status = intents[i].status
<1>1. /\ intents \in [Requests -> Intent]
      /\ req \in [Requests -> CreateReq \cup ConfirmReq \cup {NoReq}]
      /\ Routed /\ Staged
  BY DEF IInv, TypeInv, TypeOK
<1>2. CASE UNCHANGED intents
  BY <1>2
<1>3. ASSUME NEW j \in Requests, NEW to \in Status, TransitionStatus(j, to)
      PROVE  intents'[i].status = intents[i].status
  BY <1>1, <1>3, TransitionFacts DEF Final, CanTransition
<1>4. ASSUME NEW r \in Requests, CreateStored(r)
      PROVE  intents'[i].status = intents[i].status
  <2>1. r # i
    BY <1>1, <1>4 DEF CreateStored, Staged, Final
  <2> QED BY <1>1, <1>4, <2>1 DEF CreateStored
<1>5. ASSUME NEW r \in Requests, CreateIntent(r)
      PROVE  intents'[i].status = intents[i].status
  <2>1. OpenIntent(r) => TransitionStatus(r, "requires_confirmation")
    BY DEF OpenIntent
  <2> QED
    BY <1>2, <1>3, <1>4, <1>5, <2>1
    DEF CreateIntent, LoadCart, VerifyMandate, ReplyCreated, EmitCreated, Status
<1>6. ASSUME NEW r \in Requests, ConfirmIntent(r)
      PROVE  intents'[i].status = intents[i].status
  <2>1. MarkSucceeded(r) => req[r].id \in Requests /\ TransitionStatus(req[r].id, "succeeded")
    BY <1>1 DEF MarkSucceeded, Routed, HoldLabels, ConfirmReq
  <2>2. MarkFailed(r) => req[r].id \in Requests /\ TransitionStatus(req[r].id, "failed")
    BY <1>1 DEF MarkFailed, Routed, HoldLabels, ConfirmReq
  <2> QED
    BY <1>2, <1>3, <1>6, <2>1, <2>2
    DEF ConfirmIntent, LoadIntent, RecordSpend, Charge, ReplySucceeded,
        EmitSucceeded, EmitFailed, Status
<1> QED
  BY <1>2, <1>5, <1>6, NextCases DEF HandlerVars, Receive, Authorize

\* Every step reports the status there is, and no status reported is left.
LEMMA ReportedStep == IInv /\ Reported /\ [Next]_vars => Reported'
<1> SUFFICES ASSUME IInv, Reported, [Next]_vars PROVE Reported'
  OBVIOUS
<1>1. /\ pc \in [Requests -> Labels]
      /\ req \in [Requests -> CreateReq \cup ConfirmReq \cup {NoReq}]
      /\ intents \in [Requests -> Intent]
      /\ events \subseteq Event
      /\ \A r \in Requests : pc[r] \in HoldLabels =>
           req[r].id \in Requests /\ Opened(req[r].id)
  BY DEF IInv, TypeInv, TypeOK, Routed, Staged, HoldLabels, ConfirmReq
<1>2. \A i \in Requests : intents[i].status \in Final =>
        intents'[i].status = intents[i].status
  BY FinalStays
<1>3. \A e \in events : e.type # "created" =>
        e.status \in Final /\ intents'[e.id].status = e.status
  BY <1>1, <1>2 DEF Reported, Event
<1>4. \A r \in Requests :
        pc[r] = "emit_failed" /\ req'[r] = req[r] => intents'[req'[r].id].status \in Final
  BY <1>1, <1>2 DEF Reported, HoldLabels
<1>5. CASE UNCHANGED <<pc, req, events>>
  BY <1>3, <1>4, <1>5 DEF Reported
<1>6. ASSUME NEW r \in Requests, UNCHANGED events, pc'[r] # "emit_failed",
             \A s \in Requests \ {r} : pc'[s] = pc[s] /\ req'[s] = req[s]
      PROVE  Reported'
  BY <1>3, <1>4, <1>6 DEF Reported
<1>7. ASSUME NEW r \in Requests, NEW q, Receive(r, q) PROVE Reported'
  BY <1>1, <1>6, <1>7 DEF Receive, Goto
<1>8. ASSUME NEW r \in Requests, Authorize(r) PROVE Reported'
  BY <1>1, <1>6, <1>8 DEF Authorize, Goto, Refuse
<1>9. ASSUME NEW r \in Requests, CreateIntent(r) PROVE Reported'
  <2>1. CASE EmitCreated(r)
    BY <1>1, <1>3, <1>4, <2>1 DEF EmitCreated, RecordEvent, Goto, Reported
  <2> QED
    BY <1>1, <1>6, <1>9, <2>1
    DEF CreateIntent, LoadCart, VerifyMandate, CreateStored, OpenIntent,
        ReplyCreated, Goto, Refuse
<1>10. ASSUME NEW r \in Requests, ConfirmIntent(r) PROVE Reported'
  <2>1. CASE EmitSucceeded(r)
    <3>1. intents[req[r].id].status = "succeeded" /\ intentCopy[r].status = "succeeded"
      BY <2>1 DEF EmitSucceeded, IInv, Answered, Announced, Settled, Winner
    <3> QED
      BY <1>1, <1>3, <1>4, <2>1, <3>1
      DEF EmitSucceeded, RecordEvent, Goto, Reported, Final
  <2>2. CASE EmitFailed(r)
    <3>1. intents[req[r].id].status \in Final
      BY <2>2 DEF EmitFailed, Reported
    <3> QED
      BY <1>1, <1>3, <1>4, <2>2, <3>1 DEF EmitFailed, RecordEvent, Goto, Reported
  <2>3. CASE MarkFailed(r)
    <3>1. req[r].id \in Requests /\ Opened(req[r].id) /\ TransitionStatus(req[r].id, "failed")
      BY <1>1, <2>3 DEF MarkFailed, HoldLabels
    <3>2. intents[req[r].id].status \in Status
      BY <1>1, <3>1 DEF Intent
    <3>3. intents'[req[r].id].status \in Final
      BY <1>1, <3>1, <3>2, TransitionFacts DEF Opened, Status, Final, CanTransition
    <3> QED BY <1>1, <1>3, <1>4, <2>3, <3>3 DEF MarkFailed, Goto, Reported
  <2> QED
    BY <1>1, <1>6, <1>10, <2>1, <2>2, <2>3
    DEF ConfirmIntent, LoadIntent, RecordSpend, Charge, MarkSucceeded,
        ReplySucceeded, Goto, Refuse
<1> QED
  BY <1>5, <1>7, <1>8, <1>9, <1>10, NextCases, <1>3, <1>4 DEF HandlerVars, Reported

\* The terminal events of an intent agree with each other and with the intent.
THEOREM EventsAgree == Spec => []TerminalEventsAgree
<1>1. Init => Reported
  BY DEF Init, Quiet, Reported
<1>2. Reported => TerminalEventsAgree
  BY DEF Reported, TerminalEventsAgree
<1> QED BY <1>1, <1>2, Inductive, ReportedStep, PTL DEF Spec

-----------------------------------------------------------------------------
(* Refinement.                                                              *)

\* The abstract state of the contract.
AbsStatus == [i \in Requests |-> intents[i].status]
AbsPaid == {req[r].id : r \in captured}
AbsAnnounced == {e.id : e \in {f \in events : f.type = "succeeded"}}

\* A step that leaves the abstract state alone is a stuttering step of the contract.
AbsUnchanged == AbsStatus' = AbsStatus /\ AbsPaid' = AbsPaid /\ AbsAnnounced' = AbsAnnounced

\* The initial state of Checkout is that of the contract.
LEMMA ContractInit == Init => Contract!Init
BY DEF Init, Quiet, Contract!Init, NoIntent

\* Every step of Checkout is a step of the contract or leaves its state alone.
LEMMA ContractStep == IInv /\ [Next]_vars => [Contract!Next]_(Contract!vars)
<1> SUFFICES ASSUME IInv, [Next]_vars
             PROVE  \/ \E i \in Requests :
                         \/ Contract!Create(i) \/ Contract!Open(i) \/ Contract!Capture(i)
                         \/ Contract!Succeed(i) \/ Contract!Fail(i) \/ Contract!Announce(i)
                    \/ AbsUnchanged
  BY DEF Contract!Next, Contract!vars, AbsUnchanged, AbsStatus, AbsPaid, AbsAnnounced
<1> DEFINE Goal == \E i \in Requests :
                     \/ Contract!Create(i) \/ Contract!Open(i) \/ Contract!Capture(i)
                     \/ Contract!Succeed(i) \/ Contract!Fail(i) \/ Contract!Announce(i)
<1>1. /\ intents \in [Requests -> Intent]
      /\ pc \in [Requests -> Labels]
      /\ req \in [Requests -> CreateReq \cup ConfirmReq \cup {NoReq}]
      /\ captured \subseteq Requests
      /\ \A r \in Requests : pc[r] \in HoldLabels =>
           req[r].id \in Requests /\ Opened(req[r].id)
  BY DEF IInv, TypeInv, TypeOK, Routed, Staged, ConfirmReq, HoldLabels
<1> USE DEF AbsUnchanged, AbsStatus, AbsPaid, AbsAnnounced
<1>2. CASE UNCHANGED HandlerVars
  BY <1>2 DEF HandlerVars
<1>3. ASSUME NEW r \in Requests, NEW q \in Arrivals, Receive(r, q) PROVE AbsUnchanged
  <2>1. r \notin captured
    BY <1>3 DEF Receive, IInv, Answered
  <2>2. \A s \in captured : req'[s] = req[s]
    BY <1>1, <1>3, <2>1 DEF Receive
  <2> QED BY <1>3, <2>2 DEF Receive
<1>4. ASSUME NEW r \in Requests, Authorize(r) PROVE AbsUnchanged
  BY <1>4 DEF Authorize
<1>5. ASSUME NEW r \in Requests, CreateIntent(r) PROVE Goal \/ AbsUnchanged
  <2>1. CASE LoadCart(r) \/ VerifyMandate(r) \/ ReplyCreated(r)
    BY <2>1 DEF LoadCart, VerifyMandate, ReplyCreated
  <2>2. CASE CreateStored(r)
    <3>1. AbsStatus[r] = "absent" /\ AbsStatus' = [AbsStatus EXCEPT ![r] = "created"]
      <4>1. intents[r].status = "absent"
        BY <2>2 DEF CreateStored, IInv, Staged
      <4> QED BY <1>1, <2>2, <4>1 DEF CreateStored
    <3>2. Contract!Create(r)
      BY <2>2, <3>1 DEF Contract!Create, Contract!Move, CreateStored
    <3> QED BY <3>2
  <2>3. CASE OpenIntent(r)
    <3>1. TransitionStatus(r, "requires_confirmation") /\ intents[r].status = "created"
      BY <2>3 DEF OpenIntent, IInv, Staged
    <3>2. AbsStatus' = [AbsStatus EXCEPT ![r] = "requires_confirmation"]
      BY <1>1, <3>1, TransitionFacts DEF CanTransition, Status
    <3>3. Contract!Open(r)
      BY <2>3, <3>1, <3>2 DEF Contract!Open, Contract!Move, OpenIntent
    <3> QED BY <3>3
  <2>4. CASE EmitCreated(r)
    <3>1. {e \in events' : e.type = "succeeded"} = {e \in events : e.type = "succeeded"}
      BY <2>4 DEF EmitCreated, RecordEvent
    <3> QED BY <2>4, <3>1 DEF EmitCreated
  <2> QED BY <1>5, <2>1, <2>2, <2>3, <2>4 DEF CreateIntent
<1>6. ASSUME NEW r \in Requests, ConfirmIntent(r) PROVE Goal \/ AbsUnchanged
  <2>1. CASE LoadIntent(r) \/ RecordSpend(r) \/ ReplySucceeded(r)
    BY <2>1 DEF LoadIntent, RecordSpend, ReplySucceeded
  <2>2. CASE Charge(r)
    <3>1. PICK i \in Requests : i = req[r].id /\ Opened(i)
      BY <1>1, <2>2 DEF Charge, HoldLabels
    <3>2. CASE captured' = captured
      BY <2>2, <3>2 DEF Charge
    <3>3. CASE captured' = captured \cup {r}
      <4>1. AbsPaid' = AbsPaid \cup {i}
        BY <2>2, <3>1, <3>3 DEF Charge
      <4>2. Contract!Capture(i)
        BY <2>2, <3>1, <4>1 DEF Contract!Capture, Charge, Opened
      <4> QED BY <3>1, <4>2
    <3> QED BY <2>2, <3>2, <3>3 DEF Charge
  <2>3. CASE MarkSucceeded(r)
    <3>1. PICK i \in Requests : /\ i = req[r].id /\ r \in captured
                                /\ TransitionStatus(i, "succeeded")
      BY <1>1, <2>3 DEF MarkSucceeded, HoldLabels, IInv, Answered
    <3>2. UNCHANGED <<req, captured, events>>
      BY <2>3 DEF MarkSucceeded
    <3>3. CASE CanTransition(intents[i].status, "succeeded")
      <4>1. AbsStatus[i] = "requires_confirmation" /\ AbsStatus' = [AbsStatus EXCEPT ![i] = "succeeded"]
        BY <1>1, <3>1, <3>3, TransitionFacts DEF CanTransition, Status
      <4>2. i \in AbsPaid
        BY <3>1
      <4>3. Contract!Succeed(i)
        BY <3>2, <4>1, <4>2 DEF Contract!Succeed, Contract!Move
      <4> QED BY <3>1, <4>3
    <3>4. CASE ~CanTransition(intents[i].status, "succeeded")
      BY <3>1, <3>2, <3>4 DEF TransitionStatus
    <3> QED BY <3>3, <3>4
  <2>4. CASE MarkFailed(r)
    <3>1. PICK i \in Requests : i = req[r].id /\ TransitionStatus(i, "failed")
      BY <1>1, <2>4 DEF MarkFailed, HoldLabels
    <3>2. UNCHANGED <<req, captured, events>>
      BY <2>4 DEF MarkFailed
    <3>3. CASE CanTransition(intents[i].status, "failed")
      <4>1. AbsStatus[i] = "requires_confirmation" /\ AbsStatus' = [AbsStatus EXCEPT ![i] = "failed"]
        BY <1>1, <3>1, <3>3, TransitionFacts DEF CanTransition, Status
      <4>2. Contract!Fail(i)
        BY <3>2, <4>1 DEF Contract!Fail, Contract!Move
      <4> QED BY <3>1, <4>2
    <3>4. CASE ~CanTransition(intents[i].status, "failed")
      BY <3>1, <3>2, <3>4 DEF TransitionStatus
    <3> QED BY <3>3, <3>4
  <2>5. CASE EmitSucceeded(r)
    <3>1. PICK i \in Requests : i = req[r].id /\ intents[i].status = "succeeded"
      BY <1>1, <2>5 DEF EmitSucceeded, HoldLabels, IInv, Answered, Settled, Winner
    <3>2. AbsAnnounced' = AbsAnnounced \cup {i}
      <4> DEFINE new == [type |-> "succeeded", id |-> i,
                         status |-> intentCopy[r].status, by |-> r]
      <4>1. new.type = "succeeded" /\ new.id = i
        OBVIOUS
      <4>2. events' = events \cup {new}
        BY <2>5, <3>1 DEF EmitSucceeded, RecordEvent
      <4> HIDE DEF new
      <4>3. {e \in events' : e.type = "succeeded"}
              = {e \in events : e.type = "succeeded"} \cup {new}
        BY <4>1, <4>2
      <4> QED BY <4>1, <4>3
    <3>3. Contract!Announce(i)
      BY <2>5, <3>1, <3>2 DEF Contract!Announce, EmitSucceeded
    <3> QED BY <3>1, <3>3
  <2>6. CASE EmitFailed(r)
    <3>1. {e \in events' : e.type = "succeeded"} = {e \in events : e.type = "succeeded"}
      BY <2>6 DEF EmitFailed, RecordEvent
    <3> QED BY <2>6, <3>1 DEF EmitFailed
  <2> QED BY <1>6, <2>1, <2>2, <2>3, <2>4, <2>5, <2>6 DEF ConfirmIntent
<1> QED
  BY <1>2, <1>3, <1>4, <1>5, <1>6, NextCases

\* The checkout path implements its contract: the status graph of the README,
\* final states, success of paid intents only, true announcements.
THEOREM Implements == Spec => ImplementsContract
<1>1. Spec => Contract!Init /\ [][Contract!Next]_(Contract!vars)
  BY ContractInit, ContractStep, Inductive, PTL DEF Spec
<1> QED BY <1>1 DEF ImplementsContract, Contract!Spec

CP == INSTANCE PaymentContractProofs WITH
  Ids <- Requests,
  status <- [i \in Requests |-> intents[i].status],
  paid <- {req[r].id : r \in captured},
  announced <- {e.id : e \in {f \in events : f.type = "succeeded"}}

\* So the checkout has what is proved of the contract: no handler, however late, takes an
\* intent out of a final status or back before the confirm, or undoes a payment or an
\* announcement.
THEOREM CheckoutSettles == Spec => []CP!Honest /\ [][CP!Settles]_(CP!vars)
<1>1. Contract!Init => CP!Init
  BY DEF Contract!Init, CP!Init
<1>2. [Contract!Next]_(Contract!vars) => [CP!Next]_(CP!vars)
  <2> SUFFICES ASSUME [Contract!Next]_(Contract!vars) PROVE [CP!Next]_(CP!vars)
    OBVIOUS
  <2>1. CASE UNCHANGED Contract!vars
    BY <2>1 DEF Contract!vars, CP!vars
  <2>2. ASSUME NEW i \in Requests,
               \/ Contract!Create(i) \/ Contract!Open(i) \/ Contract!Capture(i)
               \/ Contract!Succeed(i) \/ Contract!Fail(i) \/ Contract!Announce(i)
        PROVE  CP!Next
    <3>1. \/ CP!Create(i) \/ CP!Open(i) \/ CP!Capture(i)
          \/ CP!Succeed(i) \/ CP!Fail(i) \/ CP!Announce(i)
      BY <2>2
      DEF Contract!Create, Contract!Open, Contract!Capture, Contract!Succeed, Contract!Fail,
          Contract!Announce, Contract!Move, CP!Create, CP!Open, CP!Capture, CP!Succeed,
          CP!Fail, CP!Announce, CP!Move
    <3> QED BY <3>1 DEF CP!Next
  <2> QED BY <2>1, <2>2 DEF Contract!Next
<1>3. Spec => CP!Init /\ [][CP!Next]_(CP!vars)
  BY <1>1, <1>2, Implements, PTL DEF ImplementsContract, Contract!Spec
<1>4. Spec => CP!Spec
  BY <1>3 DEF CP!Spec
<1> QED BY <1>4, CP!ContractHonest, CP!ContractSettles, PTL

-----------------------------------------------------------------------------
(* Liveness.  ENABLED is beyond the provers, so the theorems name what       *)
(* Fairness says with the states in which Serve(r) is enabled put in its     *)
(* place: those in which the goroutine is under way.                         *)

\* WF_vars(Serve(r)): r is at rest again and again, or it takes steps for ever.
Scheduled(r) == \/ []<>(pc[r] \in {"idle", "done"})
                \/ []<><<Serve(r)>>_vars

\* The Go scheduler runs every goroutine.
FairSchedule == \A r \in Requests : Scheduled(r)

\* How many steps the goroutine may still take, at most.
StepsLeft ==
  [auth |-> 7, load_cart |-> 6, load_intent |-> 6, verify |-> 5, record_spend |-> 5,
   create |-> 4, charge |-> 4, open |-> 3, succeed |-> 3, fail |-> 2,
   reply_created |-> 2, reply_succeeded |-> 2, emit_created |-> 1,
   emit_succeeded |-> 1, emit_failed |-> 1, done |-> 0]

\* The request has arrived and its goroutine ends in n steps or fewer.
Within(r, n) == pc[r] # "idle" /\ StepsLeft[pc[r]] <= n

\* What a handler has left behind when it returns.
Concluded ==
  \A r \in Requests :
    /\ pc[r] = "done" => code[r] # 0
    /\ pc[r] = "done" /\ code[r] = 200 =>
         \E e \in events : e.type = "succeeded" /\ e.id = req[r].id /\ e.status = "succeeded"
    /\ r \in captured /\ pc[r] # "succeed" => intents[req[r].id].status \in Final

\* What the server does for one request leaves the others alone, and an answer stays.
LEMMA ServeFacts ==
  ASSUME IInv, NEW r \in Requests, Serve(r)
  PROVE  /\ pc[r] # "idle" /\ pc'[r] # "idle" /\ req' = req
         /\ \A s \in Requests \ {r} : /\ pc'[s] = pc[s] /\ code'[s] = code[s]
                                      /\ s \in captured' <=> s \in captured
         /\ code[r] # 0 => code'[r] = code[r]
<1>1. pc \in [Requests -> Labels] /\ code \in [Requests -> Codes]
  BY DEF IInv, TypeInv, TypeOK
<1>2. /\ pc[r] \in Unanswered => code[r] = 0
      /\ pc[r] = "done" \/ pc[r] \in Labels
  BY <1>1 DEF IInv, Answered
<1> USE <1>1, <1>2 DEF Goto, Send, Refuse, Unanswered, Labels
<1>3. CASE Authorize(r)
  BY <1>3 DEF Authorize
<1>4. CASE CreateIntent(r)
  BY <1>4 DEF CreateIntent, LoadCart, VerifyMandate, CreateStored, OpenIntent, ReplyCreated,
              EmitCreated
<1>5. CASE ConfirmIntent(r)
  BY <1>5 DEF ConfirmIntent, LoadIntent, RecordSpend, Charge, MarkSucceeded, ReplySucceeded,
              EmitSucceeded, MarkFailed, EmitFailed
<1> QED BY <1>3, <1>4, <1>5 DEF Serve

\* Each step of a goroutine brings it nearer to its end, and no step of another
\* actor takes it back.
LEMMA Nearer ==
  ASSUME NEW r \in Requests, NEW n \in 1..7, NEW m \in 0..6, n = m + 1
  PROVE  /\ IInv /\ [Next]_vars /\ Within(r, n) => Within(r, n)'
         /\ IInv /\ <<Serve(r)>>_vars /\ Within(r, n) => Within(r, m)'
<1> SUFFICES ASSUME IInv, [Next]_vars \/ Serve(r), Within(r, n)
             PROVE  /\ Within(r, n)'
                    /\ Serve(r) => Within(r, m)'
  OBVIOUS
<1>1. pc \in [Requests -> Labels]
  BY DEF IInv, TypeInv, TypeOK
<1>2. ASSUME NEW s \in Requests, Serve(s) PROVE pc'[s] # "idle" /\ StepsLeft[pc'[s]] < StepsLeft[pc[s]]
  <2> USE <1>1 DEF Goto, Send, Refuse, StepsLeft
  <2>1. CASE Authorize(s)
    BY <2>1 DEF Authorize
  <2>2. CASE CreateIntent(s)
    BY <2>2 DEF CreateIntent, LoadCart, VerifyMandate, CreateStored, OpenIntent,
                ReplyCreated, EmitCreated
  <2>3. CASE ConfirmIntent(s)
    BY <2>3 DEF ConfirmIntent, LoadIntent, RecordSpend, Charge, MarkSucceeded,
                ReplySucceeded, EmitSucceeded, MarkFailed, EmitFailed
  <2> QED BY <1>2, <2>1, <2>2, <2>3 DEF Serve
<1>3. \A l \in Labels \ {"idle"} : StepsLeft[l] \in 0..7
  BY DEF StepsLeft, Labels
<1>4. ASSUME NEW s \in Requests, Serve(s), s # r PROVE pc'[r] = pc[r]
  BY <1>4, ServeFacts
<1>5. ASSUME NEW s \in Requests, NEW q, Receive(s, q) PROVE pc'[r] = pc[r]
  BY <1>1, <1>5 DEF Receive, Goto, Within
<1>6. CASE Serve(r)
  <2>1. pc'[r] \in Labels
    BY <1>1, <1>6 DEF Serve, Authorize, CreateIntent, LoadCart, VerifyMandate, CreateStored,
                OpenIntent, ReplyCreated, EmitCreated, ConfirmIntent, LoadIntent,
                RecordSpend, Charge, MarkSucceeded, ReplySucceeded, EmitSucceeded,
                MarkFailed, EmitFailed, Goto, Refuse, Labels
  <2> QED BY <1>1, <1>2, <1>3, <1>6, <2>1 DEF Within
<1>7. CASE ~Serve(r) /\ [Next]_vars
  <2>1. pc'[r] = pc[r]
    BY <1>4, <1>5, <1>7, NextCases DEF HandlerVars, Serve
  <2> QED BY <1>7, <2>1 DEF Within
<1> QED BY <1>6, <1>7

LeadsDown(r, n, m) == Within(r, n) ~> Within(r, m)

\* A scheduled goroutine gets from n steps before its end to m.
LEMMA Advances ==
  ASSUME NEW r \in Requests, NEW n \in 1..7, NEW m \in 0..6, n = m + 1
  PROVE  Spec /\ Scheduled(r) => LeadsDown(r, n, m)
<1>1. /\ IInv /\ [Next]_vars /\ Within(r, n) => Within(r, n)'
      /\ IInv /\ <<Serve(r)>>_vars /\ Within(r, n) => Within(r, m)'
  BY Nearer
<1>2. Within(r, n) /\ pc[r] \in {"idle", "done"} => Within(r, m)
  BY DEF Within, StepsLeft
<1> QED BY <1>1, <1>2, Inductive, PTL DEF Spec, Scheduled, LeadsDown

\* A scheduled goroutine that is under way ends.
LEMMA Returns ==
  ASSUME NEW r \in Requests
  PROVE  Spec /\ Scheduled(r) => (pc[r] # "idle" ~> pc[r] = "done")
<1>1. IInv => (pc[r] # "idle" => Within(r, 7))
  BY DEF IInv, TypeInv, TypeOK, Labels, Within, StepsLeft
<1>2. IInv => (Within(r, 0) => pc[r] = "done")
  BY DEF IInv, TypeInv, TypeOK, Labels, Within, StepsLeft
<1>3. Spec /\ Scheduled(r) => LeadsDown(r, 7, 6)
  BY Advances, SMT
<1>4. Spec /\ Scheduled(r) => LeadsDown(r, 6, 5)
  BY Advances, SMT
<1>5. Spec /\ Scheduled(r) => LeadsDown(r, 5, 4)
  BY Advances, SMT
<1>6. Spec /\ Scheduled(r) => LeadsDown(r, 4, 3)
  BY Advances, SMT
<1>7. Spec /\ Scheduled(r) => LeadsDown(r, 3, 2)
  BY Advances, SMT
<1>8. Spec /\ Scheduled(r) => LeadsDown(r, 2, 1)
  BY Advances, SMT
<1>9. Spec /\ Scheduled(r) => LeadsDown(r, 1, 0)
  BY Advances, SMT
<1> QED BY <1>1, <1>2, <1>3, <1>4, <1>5, <1>6, <1>7, <1>8, <1>9, Inductive, PTL
   DEF LeadsDown

\* At first no handler has returned.
LEMMA ConcludedInit == Init => Concluded
BY DEF Init, Quiet, Concluded

\* Every handler that returns has answered; one that answered 200 has announced the
\* success; one that is past the transition leaves a final status.
LEMMA ConcludedStep == IInv /\ Concluded /\ [Next]_vars => Concluded'
<1> SUFFICES ASSUME IInv, Concluded, [Next]_vars PROVE Concluded'
  OBVIOUS
<1>1. /\ pc \in [Requests -> Labels]
      /\ code \in [Requests -> Codes]
      /\ req \in [Requests -> CreateReq \cup ConfirmReq \cup {NoReq}]
      /\ intents \in [Requests -> Intent]
      /\ captured \subseteq Requests
      /\ Answered
      /\ \A r \in Requests : pc[r] \in HoldLabels \/ r \in captured =>
           req[r].id \in Requests /\ Opened(req[r].id)
  BY DEF IInv, TypeInv, TypeOK, Routed, Staged, Answered, ConfirmReq
<1>2. \A i \in Requests : intents[i].status \in Final =>
        intents'[i].status = intents[i].status
  BY FinalStays
\* What holds of the requests a step leaves alone.
<1> DEFINE Done(s) == /\ pc[s] = "done" => code[s] # 0
                      /\ pc[s] = "done" /\ code[s] = 200 =>
                           \E e \in events : /\ e.type = "succeeded" /\ e.id = req[s].id
                                             /\ e.status = "succeeded"
                      /\ s \in captured /\ pc[s] # "succeed" => intents[req[s].id].status \in Final
<1>3. ASSUME NEW s \in Requests, pc'[s] = pc[s], code'[s] = code[s], req'[s] = req[s],
             events \subseteq events', s \in captured' <=> s \in captured
      PROVE  Done(s)'
  BY <1>1, <1>2, <1>3 DEF Concluded
<1>4. CASE UNCHANGED HandlerVars
  BY <1>4 DEF HandlerVars, Concluded
<1>5. ASSUME NEW r \in Requests, NEW q, Receive(r, q) PROVE Concluded'
  <2>1. r \notin captured /\ pc'[r] = "auth" /\ \A s \in Requests \ {r} : pc'[s] = pc[s] /\ req'[s] = req[s]
    BY <1>1, <1>5 DEF Receive, Goto, Answered
  <2>2. UNCHANGED <<events, captured, code, intents>>
    BY <1>5 DEF Receive
  <2>3. Done(r)'
    BY <2>1, <2>2
  <2> QED BY <1>3, <2>1, <2>2, <2>3 DEF Concluded
<1>6. ASSUME NEW r \in Requests, Serve(r) PROVE Concluded'
  <2>1. /\ req' = req
        /\ \A s \in Requests \ {r} : /\ pc'[s] = pc[s] /\ code'[s] = code[s]
                                     /\ s \in captured' <=> s \in captured
    BY <1>6, ServeFacts
  <2>2. events \subseteq events'
    BY <1>6 DEF Serve, Authorize, CreateIntent, LoadCart, VerifyMandate, CreateStored,
                OpenIntent, ReplyCreated, EmitCreated, ConfirmIntent, LoadIntent,
                RecordSpend, Charge, MarkSucceeded, ReplySucceeded, EmitSucceeded,
                MarkFailed, EmitFailed, RecordEvent
  <2>3. Done(r)'
    <3> USE <1>1 DEF Goto, Send, Refuse, Answered, Unanswered, Labels
    <3>1. CASE Authorize(r)
      BY <3>1 DEF Authorize
    <3>2. CASE CreateIntent(r)
      BY <3>2 DEF CreateIntent, LoadCart, VerifyMandate, CreateStored, OpenIntent,
                  ReplyCreated, EmitCreated
    <3>3. CASE LoadIntent(r) \/ RecordSpend(r) \/ Charge(r) \/ MarkFailed(r) \/ EmitFailed(r)
      BY <3>3 DEF LoadIntent, RecordSpend, Charge, MarkFailed, EmitFailed
    <3>4. CASE MarkSucceeded(r)
      <4>1. req[r].id \in Requests /\ Opened(req[r].id) /\ TransitionStatus(req[r].id, "succeeded")
        BY <3>4 DEF MarkSucceeded, HoldLabels
      <4>2. intents[req[r].id].status \in Status
        BY <4>1 DEF Intent
      <4>3. intents'[req[r].id].status \in Final
        BY <4>1, <4>2, TransitionFacts DEF Opened, Status, Final, CanTransition
      <4> QED BY <2>1, <3>4, <4>3 DEF MarkSucceeded
    <3>5. CASE ReplySucceeded(r)
      BY <3>5 DEF ReplySucceeded, Concluded
    <3>6. CASE EmitSucceeded(r)
      <4>1. intentCopy[r].status = "succeeded"
        BY <3>6 DEF EmitSucceeded, IInv, Announced
      <4> DEFINE new == [type |-> "succeeded", id |-> req[r].id,
                         status |-> intentCopy[r].status, by |-> r]
      <4>2. new \in events' /\ new.type = "succeeded" /\ new.id = req'[r].id /\ new.status = "succeeded"
        BY <2>1, <3>6, <4>1 DEF EmitSucceeded, RecordEvent
      <4>3. code'[r] = 200 /\ UNCHANGED <<captured, intents, req>>
        BY <3>6 DEF EmitSucceeded
      <4>4. r \in captured => intents[req[r].id].status \in Final
        BY <3>6 DEF EmitSucceeded, Concluded
      <4> HIDE DEF new
      <4>5. \E e \in events' : /\ e.type = "succeeded" /\ e.id = req'[r].id
                                /\ e.status = "succeeded"
        BY <4>2
      <4> QED BY <4>3, <4>4, <4>5
    <3> QED BY <1>6, <3>1, <3>2, <3>3, <3>4, <3>5, <3>6 DEF Serve, ConfirmIntent
  <2>4. ASSUME NEW s \in Requests, s # r PROVE Done(s)'
    <3>1. s \in Requests \ {r} /\ req'[s] = req[s]
      BY <2>1, <2>4
    <3> QED BY <1>3, <2>1, <2>2, <3>1
  <2>5. \A s \in Requests : Done(s)'
    <3> HIDE DEF Done
    <3> QED BY <2>3, <2>4
  <2> QED BY <2>5 DEF Concluded
<1> QED BY <1>4, <1>5, <1>6, NextCases DEF Serve

\* The conclusion of handlers holds in every reachable state.
LEMMA ConcludedAlways == Spec => []Concluded
BY ConcludedInit, ConcludedStep, Inductive, PTL DEF Spec

\* If every goroutine is scheduled, every request that arrived is answered and its
\* goroutine ends.
THEOREM RequestsServed ==
  Spec /\ FairSchedule => EveryRequestServed
<1> DEFINE Served(r) == pc[r] = "auth" ~> pc[r] = "done" /\ code[r] # 0
<1>1. ASSUME NEW r \in Requests PROVE Spec /\ Scheduled(r) => Served(r)
  <2>1. Concluded => (pc[r] = "done" => code[r] # 0)
    BY DEF Concluded
  <2>2. pc[r] = "auth" => pc[r] # "idle"
    OBVIOUS
  <2> QED BY <2>1, <2>2, Returns, ConcludedAlways, PTL
<1> QED BY <1>1 DEF EveryRequestServed, FairSchedule

\* Once captured, captured.
LEMMA CapturedStays ==
  ASSUME NEW r \in Requests
  PROVE  IInv /\ r \in captured /\ [Next]_vars => (r \in captured)'
<1> SUFFICES ASSUME IInv, r \in captured, [Next]_vars PROVE r \in captured'
  OBVIOUS
<1>1. ASSUME NEW s \in Requests, Authorize(s) \/ CreateIntent(s) \/ ConfirmIntent(s)
      PROVE  captured \subseteq captured'
  BY <1>1 DEF Authorize, CreateIntent, LoadCart, VerifyMandate, CreateStored,
              OpenIntent, ReplyCreated, EmitCreated, ConfirmIntent, LoadIntent,
              RecordSpend, Charge, MarkSucceeded, ReplySucceeded, EmitSucceeded,
              MarkFailed, EmitFailed
<1> QED BY <1>1, NextCases DEF HandlerVars, Receive

\* If every goroutine is scheduled, every intent money was captured for reaches a
\* final status.
THEOREM CapturedSettles ==
  Spec /\ FairSchedule => CapturedIsSettled
<1> DEFINE Landed(r) == r \in captured ~>
                          r \in captured /\ intents[req[r].id].status \in {"succeeded", "failed"}
<1>1. ASSUME NEW r \in Requests PROVE Spec /\ Scheduled(r) => Landed(r)
  <2>1. IInv /\ r \in captured => pc[r] # "idle"
    BY DEF IInv, Answered
  <2>2. Concluded /\ pc[r] = "done" =>
          (r \in captured => intents[req[r].id].status \in {"succeeded", "failed"})
    BY DEF Concluded, Final
  <2> QED BY <2>1, <2>2, Returns, CapturedStays, Inductive, ConcludedAlways, PTL DEF Spec
<1> QED BY <1>1 DEF CapturedIsSettled, FairSchedule

\* The handlers that may still announce the success of intent i.
Wins(r, i) == r \in captured /\ Winner(r) /\ req[r].id = i

Told(i) == \E e \in events : e.type = "succeeded" /\ e.id = i /\ e.status = "succeeded"

\* The winner goes on until it has announced.
LEMMA WinnerTells ==
  ASSUME NEW r \in Requests, NEW i \in Requests
  PROVE  Spec /\ Scheduled(r) => (Wins(r, i) ~> Told(i))
<1>1. IInv /\ Wins(r, i) /\ [Next]_vars => Wins(r, i)'
  <2> SUFFICES ASSUME IInv, r \in captured, Winner(r), [Next]_vars
               PROVE  r \in captured' /\ Winner(r)' /\ req'[r] = req[r]
    BY DEF Wins
  <2>1. /\ pc \in [Requests -> Labels] /\ code \in [Requests -> Codes] /\ Answered
        /\ req \in [Requests -> CreateReq \cup ConfirmReq \cup {NoReq}]
    BY DEF IInv, TypeInv, TypeOK
  <2>2. r \in captured'
    BY CapturedStays
  <2>3. pc[r] # "idle"
    BY <2>1 DEF Answered
  <2>4. CASE UNCHANGED HandlerVars
    BY <2>2, <2>4 DEF HandlerVars, Winner
  <2>5. ASSUME NEW s \in Requests, NEW q, Receive(s, q)
        PROVE  pc'[r] = pc[r] /\ req'[r] = req[r] /\ code' = code
    BY <2>1, <2>3, <2>5 DEF Receive, Goto
  <2>6. ASSUME NEW s \in Requests, Serve(s)
        PROVE  Winner(r)' /\ req'[r] = req[r]
    <3>1. CASE s # r
      BY <2>6, <3>1, ServeFacts DEF Winner
    <3>2. CASE s = r /\ code[r] = 200
      BY <2>6, <3>2, ServeFacts DEF Winner
    <3>3. CASE s = r /\ pc[r] = "reply_succeeded"
      <4>1. ReplySucceeded(r)
        BY <2>6, <3>3 DEF Serve, Authorize, CreateIntent, LoadCart, VerifyMandate,
             CreateStored, OpenIntent, ReplyCreated, EmitCreated, ConfirmIntent,
             LoadIntent, RecordSpend, Charge, MarkSucceeded, EmitSucceeded,
             MarkFailed, EmitFailed
      <4> QED BY <2>1, <4>1 DEF ReplySucceeded, Send, Winner
    <3> QED BY <3>1, <3>2, <3>3 DEF Winner
  <2> QED BY <2>2, <2>4, <2>5, <2>6, NextCases DEF Winner, Serve, HandlerVars
<1>2. IInv /\ Wins(r, i) => pc[r] # "idle"
  BY DEF IInv, Answered, Wins
<1>3. IInv /\ Concluded /\ Wins(r, i) /\ pc[r] = "done" => Told(i)
  BY DEF Concluded, Wins, Winner, Told
<1> QED BY <1>1, <1>2, <1>3, Returns, Inductive, ConcludedAlways, PTL DEF Spec

NeverWins(r, i) == ~Wins(r, i)

NobodyWins(i) == \A r \in Requests : NeverWins(r, i)

Spoken(i) == intents[i].status = "succeeded" ~> Told(i)

\* What is told stays told, for events are only added.
LEMMA ToldStays ==
  ASSUME NEW i \in Requests
  PROVE  Told(i) /\ [Next]_vars => Told(i)'
<1> SUFFICES ASSUME [Next]_vars PROVE events \subseteq events'
  BY DEF Told
<1>1. ASSUME NEW s \in Requests, Authorize(s) \/ CreateIntent(s) \/ ConfirmIntent(s)
      PROVE  events \subseteq events'
  BY <1>1 DEF Authorize, CreateIntent, LoadCart, VerifyMandate, CreateStored,
              OpenIntent, ReplyCreated, EmitCreated, ConfirmIntent, LoadIntent,
              RecordSpend, Charge, MarkSucceeded, ReplySucceeded, EmitSucceeded,
              MarkFailed, EmitFailed, RecordEvent
<1> QED BY <1>1, NextCases DEF HandlerVars, Receive

\* If every goroutine is scheduled, every success is announced.
THEOREM SuccessAnnounced ==
  Spec /\ FairSchedule => SuccessIsAnnounced
<1>1. ASSUME NEW i \in Requests
      PROVE  Spec /\ FairSchedule => Spoken(i)
  <2>1. Told(i) /\ [Next]_vars => Told(i)'
    BY ToldStays
  <2>2. IInv /\ NobodyWins(i) => ~(intents[i].status = "succeeded")
    BY DEF IInv, TypeInv, TypeOK, Settled, Wins, NeverWins, NobodyWins
  <2>3. Spec /\ FairSchedule /\ []~Told(i) => []NobodyWins(i)
    <3>1. ASSUME NEW r \in Requests
          PROVE  Spec /\ Scheduled(r) /\ []~Told(i) => []NeverWins(r, i)
      BY WinnerTells, PTL DEF NeverWins
    <3>2. (\A r \in Requests : []NeverWins(r, i)) => []NobodyWins(i)
      BY Zenon DEF NobodyWins
    <3> QED BY <3>1, <3>2 DEF FairSchedule
  <2> QED BY <2>1, <2>2, <2>3, Inductive, PTL DEF Spec, Spoken
<1>2. (\A i \in Requests : Spoken(i)) => SuccessIsAnnounced
  BY Zenon DEF SuccessIsAnnounced, Spoken, Told
<1> QED BY <1>1, <1>2
=============================================================================
