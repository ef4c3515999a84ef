------------------------------ MODULE Checkout ------------------------------
(***************************************************************************)
(* The checkout path of the API: the token store and its spend limits, the *)
(* payment store and its state machine, the handlers CreateIntent and      *)
(* ConfirmIntent, each one goroutine per HTTP request, and the payment     *)
(* gateway.  The mutex of a store makes each of its calls atomic; a        *)
(* handler may be interleaved with others between any two of its calls.    *)
(*                                                                         *)
(* A request is served once, and the intent a create request mints is      *)
(* named by that request (the code draws a fresh uuid).  Everything lives  *)
(* in memory; nothing survives the process, so there is no crash here.     *)
(*                                                                         *)
(* The operators whose name starts with Bad are not part of the model: each*)
(* is a plausible mistake in the operator that follows it, and shows which *)
(* property would notice it.                                               *)
(***************************************************************************)
EXTENDS Integers, FiniteSets, Functions

CONSTANTS
  Requests,         \* the HTTP requests the clients send; also intent ids
  Tokens,           \* bearer tokens (secrets); may stay unissued
  SpendLimit,       \* [Tokens -> Int], paise; <= 0 means unlimited
  PaymentsWriters,  \* the tokens with scope payments:write
  CartIds,
  Contents,         \* the item lists a cart may hold
  EmptyItems,       \* the list without items
  Total,            \* [Contents -> Nat], the price of a list in paise
  Mandates,         \* the mandate JWTs clients present
  NoCart,           \* "cart not found"
  NoMandate,        \* the mandate of no intent
  NoReq,            \* the request before it is sent
  UnknownId         \* an intent id the server never minted

Hashes == [cart : CartIds, items : Contents, total : Int]

\* The named parts of what the code takes for granted: limits and amounts are
\* int64, a cart total is a sum of prices times positive quantities.
ASSUME LimitsAssumption == SpendLimit \in [Tokens -> Int]
ASSUME TotalsAssumption == Total \in [Contents -> Nat]
ASSUME ContentsAssumption == EmptyItems \in Contents
ASSUME MandatesAssumption ==
  Mandates \subseteq [id : STRING, hash : Hashes, amount : Int, signed : BOOLEAN]
ASSUME SentinelsAssumption == /\ NoCart \notin CartIds
                              /\ NoCart \notin Contents
                              /\ NoMandate \notin Mandates
                              /\ UnknownId \notin Requests

VARIABLES
  tokenState,   \* unissued, live or expired (TokenStore.tokens, ExpiresAt)
  spend,        \* CurrentSpendPaise of each token
  carts,        \* what CartStore holds: the items of each cart
  intents,      \* PaymentStore.intents
  stale,        \* the mandates whose exp claim has passed
  pc,           \* where the goroutine of each request is
  req,          \* the request's token and parameters
  cartCopy,     \* handler's local copy of the cart's items
  intentCopy,   \* handler's local copy of the intent
  code,         \* the HTTP status sent, 0 while none
  captured,     \* the requests whose charge the bank captured
  events        \* the payment_intent.* entries of the event log

vars == <<tokenState, spend, carts, intents, stale, pc, req,
          cartCopy, intentCopy, code, captured, events>>

-----------------------------------------------------------------------------
(* Values.                                                                 *)

Status == {"absent", "created", "requires_confirmation", "succeeded", "failed"}

Intent == [status : Status, cart : CartIds \cup {NoCart}, amount : Int,
           mandate : Mandates \cup {NoMandate}]

NoIntent == [status |-> "absent", cart |-> NoCart, amount |-> 0,
             mandate |-> NoMandate]

CreateReq  == [op : {"create"}, token : Tokens, cart : CartIds, mandate : Mandates]
ConfirmReq == [op : {"confirm"}, token : Tokens, id : Requests \cup {UnknownId}]

ASSUME NoReqAssumption == NoReq \notin CreateReq \cup ConfirmReq

Labels == {"idle", "auth", "load_cart", "verify", "create", "open",
           "reply_created", "emit_created", "load_intent", "record_spend",
           "charge", "succeed", "fail", "reply_succeeded", "emit_succeeded",
           "emit_failed", "done"}

Codes == {0, 200, 201, 400, 401, 402, 403, 404, 409, 500}

Event == [type : {"created", "succeeded", "failed"}, id : Requests,
          status : Status, by : Requests]

TypeOK ==
  /\ tokenState \in [Tokens -> {"unissued", "live", "expired"}]
  /\ spend \in [Tokens -> Int]
  /\ carts \in [CartIds -> Contents \cup {NoCart}]
  /\ intents \in [Requests -> Intent]
  /\ stale \subseteq Mandates
  /\ pc \in [Requests -> Labels]
  /\ req \in [Requests -> CreateReq \cup ConfirmReq \cup {NoReq}]
  /\ cartCopy \in [Requests -> Contents]
  /\ intentCopy \in [Requests -> Intent]
  /\ code \in [Requests -> Codes]
  /\ captured \subseteq Requests
  /\ events \subseteq Event

\* No request has been sent.
Quiet ==
  /\ spend = [t \in Tokens |-> 0]
  /\ intents = [i \in Requests |-> NoIntent]
  /\ stale = {}
  /\ pc = [r \in Requests |-> "idle"]
  /\ req = [r \in Requests |-> NoReq]
  /\ cartCopy = [r \in Requests |-> EmptyItems]
  /\ intentCopy = [r \in Requests |-> NoIntent]
  /\ code = [r \in Requests |-> 0]
  /\ captured = {}
  /\ events = {}

Init ==
  /\ Quiet
  /\ tokenState = [t \in Tokens |-> "unissued"]
  /\ carts = [c \in CartIds |-> NoCart]

\* A shop at work: the tokens are issued and the carts filled.  A state of Spec in
\* which the smaller instances may begin.
Ready ==
  /\ Quiet
  /\ tokenState = [t \in Tokens |-> "live"]
  /\ carts \in [CartIds -> Contents \ {EmptyItems}]

-----------------------------------------------------------------------------
(* Steps shared by the handlers.                                           *)

Goto(r, label) == pc' = [pc EXCEPT ![r] = label]

Send(r, c) == code' = [code EXCEPT ![r] = c]

\* The handler answers with an error and returns.
Refuse(r, c) == /\ Goto(r, "done")
                /\ Send(r, c)

\* Repeating the current status is let through.
BadCanTransitionRepeat(from, to) ==
  \/ from = to
  \/ from = "created" /\ to = "requires_confirmation"
  \/ from = "requires_confirmation" /\ to \in {"succeeded", "failed"}

\* The edge to succeeded is missing.
BadCanTransitionNoSuccess(from, to) ==
  \/ from = "created" /\ to = "requires_confirmation"
  \/ from = "requires_confirmation" /\ to = "failed"

\* The transitions PaymentStore.TransitionStatus lets through.
CanTransition(from, to) ==
  \/ from = "created" /\ to = "requires_confirmation"
  \/ from = "requires_confirmation" /\ to \in {"succeeded", "failed"}

\* PaymentStore.TransitionStatus: an illegal transition leaves the intent alone.
TransitionStatus(i, to) ==
  intents' = IF CanTransition(intents[i].status, to)
             THEN [intents EXCEPT ![i].status = to]
             ELSE intents

\* EventStore.RecordEvent of a copy of intent i, by request r.
RecordEvent(r, type, i, status) ==
  events' = events \cup {[type |-> type, id |-> i, status |-> status, by |-> r]}

\* The hash CreateIntent recomputes of cart c with items x; SHA-256 of the
\* cart's id, lines and total is taken to be injective.
CartHash(c, x) == [cart |-> c, items |-> x, total |-> Total[x]]

\* The checks of a mandate against the loaded cart: RS256 signature, issuer
\* and expiry, then the hash, then the amount.
MandateAccepted(m, c, x) == /\ m.signed
                            /\ m \notin stale
                            /\ m.hash = CartHash(c, x)
                            /\ m.amount = Total[x]

\* The limit is compared with what was spent before this amount.
BadSpendable(t, n) == /\ tokenState[t] = "live"
                      /\ SpendLimit[t] > 0 => spend[t] <= SpendLimit[t]

\* An expired token is not refused a second time.
BadSpendableUnchecked(t, n) == SpendLimit[t] > 0 => spend[t] + n <= SpendLimit[t]

\* TokenStore.RecordSpend accepts the amount: it looks the token up again, and
\* compares the limit with what will then be spent.
Spendable(t, n) == /\ tokenState[t] = "live"
                   /\ SpendLimit[t] > 0 => spend[t] + n <= SpendLimit[t]

\* The intents some client was told of.
Disclosed == {i \in Requests : code[i] = 201}

-----------------------------------------------------------------------------
(* The rest of the system: the admin who issues tokens, the cart handlers, *)
(* the clock, and the arrival of requests.                                 *)

IssueToken(t) ==
  /\ tokenState[t] = "unissued"
  /\ tokenState' = [tokenState EXCEPT ![t] = "live"]
  /\ spend' = [spend EXCEPT ![t] = 0]
  /\ UNCHANGED <<carts, intents, stale, pc, req, cartCopy, intentCopy, code,
                 captured, events>>

ExpireToken(t) ==
  /\ tokenState[t] = "live"
  /\ tokenState' = [tokenState EXCEPT ![t] = "expired"]
  /\ UNCHANGED <<spend, carts, intents, stale, pc, req, cartCopy, intentCopy,
                 code, captured, events>>

ExpireMandate(m) ==
  /\ m \notin stale
  /\ stale' = stale \cup {m}
  /\ UNCHANGED <<tokenState, spend, carts, intents, pc, req, cartCopy,
                 intentCopy, code, captured, events>>

CreateCart(c) ==
  /\ carts[c] = NoCart
  /\ carts' = [carts EXCEPT ![c] = EmptyItems]
  /\ UNCHANGED <<tokenState, spend, intents, stale, pc, req, cartCopy,
                 intentCopy, code, captured, events>>

SaveCart(c, x) ==
  /\ carts[c] # NoCart
  /\ carts' = [carts EXCEPT ![c] = x]
  /\ UNCHANGED <<tokenState, spend, intents, stale, pc, req, cartCopy,
                 intentCopy, code, captured, events>>

Receive(r, q) ==
  /\ pc[r] = "idle"
  /\ req' = [req EXCEPT ![r] = q]
  /\ Goto(r, "auth")
  /\ UNCHANGED <<tokenState, spend, carts, intents, stale, cartCopy,
                 intentCopy, code, captured, events>>

\* POST /v1/payment-intents arrives.
ReceiveCreate(r) ==
  \E t \in Tokens, c \in CartIds, m \in Mandates :
    Receive(r, [op |-> "create", token |-> t, cart |-> c, mandate |-> m])

\* POST /v1/payment-intents/:id/confirm arrives; a client knows only the ids
\* of the intents it was told of.
ReceiveConfirm(r) ==
  \E t \in Tokens, i \in Disclosed \cup {UnknownId} :
    Receive(r, [op |-> "confirm", token |-> t, id |-> i])

\* RequireScope(payments:write): the token is looked up once, before the
\* handler runs.
Authorize(r) ==
  /\ pc[r] = "auth"
  /\ \/ /\ tokenState[req[r].token] # "live"
        /\ Refuse(r, 401)
     \/ /\ tokenState[req[r].token] = "live"
        /\ req[r].token \notin PaymentsWriters
        /\ Refuse(r, 403)
     \/ /\ tokenState[req[r].token] = "live"
        /\ req[r].token \in PaymentsWriters
        /\ Goto(r, IF req[r].op = "create" THEN "load_cart" ELSE "load_intent")
        /\ UNCHANGED code
  /\ UNCHANGED <<tokenState, spend, carts, intents, stale, req, cartCopy,
                 intentCopy, captured, events>>

-----------------------------------------------------------------------------
(* CreateIntent.                                                           *)

\* A missing cart is not reported.
BadLoadCart(r) ==
  /\ pc[r] = "load_cart"
  /\ \/ /\ Refuse(r, 400)
        /\ UNCHANGED cartCopy
     \/ /\ cartCopy' = [cartCopy EXCEPT ![r] = carts[req[r].cart]]
        /\ IF carts[req[r].cart] = EmptyItems
           THEN Refuse(r, 400)
           ELSE Goto(r, "verify") /\ UNCHANGED code
  /\ UNCHANGED <<tokenState, spend, carts, intents, stale, req, intentCopy,
                 captured, events>>

\* The body may fail to bind, for its currency or for a missing field; then the
\* cart is not looked at.
LoadCart(r) ==
  /\ pc[r] = "load_cart"
  /\ \/ /\ Refuse(r, 400)
        /\ UNCHANGED cartCopy
     \/ /\ carts[req[r].cart] = NoCart
        /\ Refuse(r, 404)
        /\ UNCHANGED cartCopy
     \/ /\ carts[req[r].cart] # NoCart
        /\ cartCopy' = [cartCopy EXCEPT ![r] = carts[req[r].cart]]
        /\ IF carts[req[r].cart] = EmptyItems
           THEN Refuse(r, 400)
           ELSE Goto(r, "verify") /\ UNCHANGED code
  /\ UNCHANGED <<tokenState, spend, carts, intents, stale, req, intentCopy,
                 captured, events>>

VerifyMandate(r) ==
  /\ pc[r] = "verify"
  /\ IF MandateAccepted(req[r].mandate, req[r].cart, cartCopy[r])
     THEN Goto(r, "create") /\ UNCHANGED code
     ELSE Refuse(r, 400)
  /\ UNCHANGED <<tokenState, spend, carts, intents, stale, req, cartCopy,
                 intentCopy, captured, events>>

\* The total is taken from the cart as it is now, not from the verified copy.
BadCreateStoredRereads(r) ==
  /\ pc[r] = "create"
  /\ intents' = [intents EXCEPT ![r] =
                   [status |-> "created", cart |-> req[r].cart,
                    amount |-> Total[carts[req[r].cart]],
                    mandate |-> req[r].mandate]]
  /\ Goto(r, "open")
  /\ UNCHANGED <<tokenState, spend, carts, stale, req, cartCopy, intentCopy,
                 code, captured, events>>

\* The client is answered before the intent is opened for confirmation.
BadCreateStoredUnopened(r) ==
  /\ pc[r] = "create"
  /\ intents' = [intents EXCEPT ![r] =
                   [status |-> "created", cart |-> req[r].cart,
                    amount |-> Total[cartCopy[r]], mandate |-> req[r].mandate]]
  /\ Goto(r, "reply_created")
  /\ UNCHANGED <<tokenState, spend, carts, stale, req, cartCopy, intentCopy,
                 code, captured, events>>

CreateStored(r) ==
  /\ pc[r] = "create"
  /\ intents' = [intents EXCEPT ![r] =
                   [status |-> "created", cart |-> req[r].cart,
                    amount |-> Total[cartCopy[r]], mandate |-> req[r].mandate]]
  /\ Goto(r, "open")
  /\ UNCHANGED <<tokenState, spend, carts, stale, req, cartCopy, intentCopy,
                 code, captured, events>>

OpenIntent(r) ==
  /\ pc[r] = "open"
  /\ TransitionStatus(r, "requires_confirmation")
  /\ IF CanTransition(intents[r].status, "requires_confirmation")
     THEN Goto(r, "reply_created") /\ UNCHANGED code
     ELSE Refuse(r, 500)
  /\ UNCHANGED <<tokenState, spend, carts, stale, req, cartCopy, intentCopy,
                 captured, events>>

\* The reply leaves before the event is recorded.
ReplyCreated(r) ==
  /\ pc[r] = "reply_created"
  /\ intentCopy' = [intentCopy EXCEPT ![r] = intents[r]]
  /\ Send(r, 201)
  /\ Goto(r, "emit_created")
  /\ UNCHANGED <<tokenState, spend, carts, intents, stale, req, cartCopy,
                 captured, events>>

EmitCreated(r) ==
  /\ pc[r] = "emit_created"
  /\ RecordEvent(r, "created", r, intentCopy[r].status)
  /\ Goto(r, "done")
  /\ UNCHANGED <<tokenState, spend, carts, intents, stale, req, cartCopy,
                 intentCopy, code, captured>>

-----------------------------------------------------------------------------
(* ConfirmIntent.                                                          *)

LoadIntent(r) ==
  /\ pc[r] = "load_intent"
  /\ \/ /\ req[r].id = UnknownId
        /\ Refuse(r, 404)
        /\ UNCHANGED intentCopy
     \/ /\ req[r].id # UnknownId
        /\ intentCopy' = [intentCopy EXCEPT ![r] = intents[req[r].id]]
        /\ Goto(r, "record_spend")
        /\ UNCHANGED code
  /\ UNCHANGED <<tokenState, spend, carts, intents, stale, req, cartCopy,
                 captured, events>>

\* The limit is checked for each charge, but the spend is not accumulated.
BadRecordSpend(r) ==
  /\ pc[r] = "record_spend"
  /\ IF Spendable(req[r].token, intentCopy[r].amount)
     THEN Goto(r, "charge") /\ UNCHANGED code
     ELSE Refuse(r, 403)
  /\ UNCHANGED <<tokenState, spend, carts, intents, stale, req, cartCopy,
                 intentCopy, captured, events>>

RecordSpend(r) ==
  /\ pc[r] = "record_spend"
  /\ IF Spendable(req[r].token, intentCopy[r].amount)
     THEN /\ spend' = [spend EXCEPT ![req[r].token] = @ + intentCopy[r].amount]
          /\ Goto(r, "charge")
          /\ UNCHANGED code
     ELSE /\ Refuse(r, 403)
          /\ UNCHANGED spend
  /\ UNCHANGED <<tokenState, carts, intents, stale, req, cartCopy, intentCopy,
                 captured, events>>

\* The gateway's error is dropped.
BadCharge(r) ==
  /\ pc[r] = "charge"
  /\ captured' \in {captured, captured \cup {r}}
  /\ Goto(r, "succeed")
  /\ UNCHANGED <<tokenState, spend, carts, intents, stale, req, cartCopy,
                 intentCopy, code, events>>

\* Gateway.Charge gets an amount and a currency, no intent id: the bank cannot
\* tell a second charge for the same intent from a new one.
Charge(r) ==
  /\ pc[r] = "charge"
  /\ \/ captured' = captured \cup {r} /\ Goto(r, "succeed")
     \/ Goto(r, "fail") /\ UNCHANGED captured
  /\ UNCHANGED <<tokenState, spend, carts, intents, stale, req, cartCopy,
                 intentCopy, code, events>>

\* A refused transition is not handled.
BadMarkSucceeded(r) ==
  /\ pc[r] = "succeed"
  /\ CanTransition(intents[req[r].id].status, "succeeded")
  /\ TransitionStatus(req[r].id, "succeeded")
  /\ Goto(r, "reply_succeeded")
  /\ UNCHANGED <<tokenState, spend, carts, stale, req, cartCopy, intentCopy,
                 code, captured, events>>

MarkSucceeded(r) ==
  LET current == intents[req[r].id].status IN
  /\ pc[r] = "succeed"
  /\ TransitionStatus(req[r].id, "succeeded")
  /\ \/ /\ CanTransition(current, "succeeded")
        /\ Goto(r, "reply_succeeded")
        /\ UNCHANGED code
     \/ /\ ~CanTransition(current, "succeeded")
        /\ Refuse(r, IF current = "succeeded" THEN 409 ELSE 400)
  /\ UNCHANGED <<tokenState, spend, carts, stale, req, cartCopy, intentCopy,
                 captured, events>>

\* The handler returns after its answer.
BadReplySucceeded(r) ==
  /\ pc[r] = "reply_succeeded"
  /\ intentCopy' = [intentCopy EXCEPT ![r] = intents[req[r].id]]
  /\ Refuse(r, 200)
  /\ UNCHANGED <<tokenState, spend, carts, intents, stale, req, cartCopy,
                 captured, events>>

ReplySucceeded(r) ==
  /\ pc[r] = "reply_succeeded"
  /\ intentCopy' = [intentCopy EXCEPT ![r] = intents[req[r].id]]
  /\ Send(r, 200)
  /\ Goto(r, "emit_succeeded")
  /\ UNCHANGED <<tokenState, spend, carts, intents, stale, req, cartCopy,
                 captured, events>>

EmitSucceeded(r) ==
  /\ pc[r] = "emit_succeeded"
  /\ RecordEvent(r, "succeeded", req[r].id, intentCopy[r].status)
  /\ Goto(r, "done")
  /\ UNCHANGED <<tokenState, spend, carts, intents, stale, req, cartCopy,
                 intentCopy, code, captured>>

\* The intent is set to failed whatever its status.
BadMarkFailed(r) ==
  /\ pc[r] = "fail"
  /\ intents' = [intents EXCEPT ![req[r].id].status = "failed"]
  /\ Send(r, 402)
  /\ Goto(r, "emit_failed")
  /\ UNCHANGED <<tokenState, spend, carts, stale, req, cartCopy, intentCopy,
                 captured, events>>

\* The result of the transition to failed is ignored.
MarkFailed(r) ==
  /\ pc[r] = "fail"
  /\ TransitionStatus(req[r].id, "failed")
  /\ Send(r, 402)
  /\ Goto(r, "emit_failed")
  /\ UNCHANGED <<tokenState, spend, carts, stale, req, cartCopy, intentCopy,
                 captured, events>>

\* The intent is read again for the event (and its status is final by now).
EmitFailed(r) ==
  /\ pc[r] = "emit_failed"
  /\ RecordEvent(r, "failed", req[r].id, intents[req[r].id].status)
  /\ Goto(r, "done")
  /\ UNCHANGED <<tokenState, spend, carts, intents, stale, req, cartCopy,
                 intentCopy, code, captured>>

-----------------------------------------------------------------------------
CreateIntent(r) == \/ LoadCart(r) \/ VerifyMandate(r) \/ CreateStored(r)
                   \/ OpenIntent(r) \/ ReplyCreated(r) \/ EmitCreated(r)

ConfirmIntent(r) == \/ LoadIntent(r) \/ RecordSpend(r) \/ Charge(r)
                    \/ MarkSucceeded(r) \/ ReplySucceeded(r) \/ EmitSucceeded(r)
                    \/ MarkFailed(r) \/ EmitFailed(r)

\* What the goroutine of request r does once the request has arrived.
Serve(r) == Authorize(r) \/ CreateIntent(r) \/ ConfirmIntent(r)

Next == \/ \E t \in Tokens : IssueToken(t) \/ ExpireToken(t)
        \/ \E m \in Mandates : ExpireMandate(m)
        \/ \E c \in CartIds : CreateCart(c) \/ (\E x \in Contents : SaveCart(c, x))
        \/ \E r \in Requests : ReceiveCreate(r) \/ ReceiveConfirm(r) \/ Serve(r)

Spec == Init /\ [][Next]_vars

\* The Go scheduler runs every ready goroutine, the store mutexes are held for
\* a bounded time, and Gateway.Charge returns (mock.go answers at once).
Fairness == \A r \in Requests : WF_vars(Serve(r))

FairSpec == Spec /\ Fairness

-----------------------------------------------------------------------------
(* Safety.                                                                 *)

\* The accounting of RecordSpend never exceeds a token's lifetime limit, also
\* when requests of one token confirm at the same time (token_store.go 67-87).
SpendWithinLimit ==
  \A t \in Tokens : SpendLimit[t] > 0 => spend[t] <= SpendLimit[t]

\* What the bank took on behalf of token t.
Taken(t) == SumFunctionOnSet([r \in Requests |-> intentCopy[r].amount],
                             {r \in captured : req[r].token = t})

\* The budget is about money, not about the counter: all that the bank took
\* for a limited token, over concurrent, repeated and refused confirms, is
\* within its limit (payment_handler.go 190-202).
BudgetRespected ==
  \A t \in Tokens : SpendLimit[t] > 0 => Taken(t) <= SpendLimit[t]

\* A token is looked up for its scope when a confirm begins, and may expire before
\* the spend is recorded and before the charge is made.  From its end on its counter
\* stands still, and what the bank still takes for it was recorded before that end:
\* a confirm that lost the race with the clock takes nothing (token_store.go 71-79,
\* payment_handler.go 190-202).
NothingSpentAfterExpiry ==
  [][\A t \in Tokens : tokenState[t] = "expired" =>
       spend'[t] = spend[t] /\ Taken(t)' <= spend[t]]_vars

\* Every rupee captured was signed for: the amount charged is the amount of a
\* genuine mandate for the cart and the non-empty list of items it was signed
\* over, whatever happened to the cart between the Get, the check, the store
\* and the charge (payment_handler.go 91-138, 180-202).
ChargedIsAuthorized ==
  \A r \in captured :
    LET i == intents[req[r].id]
        m == i.mandate
    IN  /\ m \in Mandates
        /\ m.signed
        /\ m.hash.items # EmptyItems
        /\ m.hash.cart = i.cart
        /\ intentCopy[r].amount = m.amount
        /\ m.amount = Total[m.hash.items]

\* However many confirms race for an intent, one of them at most is answered
\* 200 and one at most announces the success (payment_store.go 91-117,
\* payment_handler.go 216-241).
OneSuccessPerIntent ==
  /\ \A r, s \in Requests :
       code[r] = 200 /\ code[s] = 200 /\ req[r].id = req[s].id => r = s
  /\ \A e, f \in events :
       e.type = "succeeded" /\ f.type = "succeeded" /\ e.id = f.id => e = f

\* What a confirm answers stays true whatever the other confirms do later: 200,
\* this request's charge went through and the intent is succeeded for good;
\* 402, the bank took nothing for this request; 409, another request's charge
\* is the one that made the intent succeed (payment_handler.go 202-237).
AnswersTruthful ==
  \A r \in Requests :
    /\ code[r] = 200 => r \in captured /\ intents[req[r].id].status = "succeeded"
    /\ code[r] = 402 => r \notin captured
    /\ code[r] = 409 => \E s \in captured \ {r} :
                          /\ req[s].id = req[r].id
                          /\ pc[s] = "reply_succeeded" \/ code[s] = 200

\* The payload of a terminal event can be trusted: all the payment_intent.succeeded
\* and payment_intent.failed events of one intent carry the same, final status,
\* though the handlers re-read it at different times (payment_handler.go 205-212,
\* 231-241).
TerminalEventsAgree ==
  \A e, f \in {g \in events : g.type # "created"} :
    e.id = f.id => e.status = f.status /\ e.status = intents[e.id].status

\* A client that was told of an intent can confirm it at once: no disclosed
\* intent is missing or still in created, and the error paths the handlers keep
\* for those cases (500) are never taken (payment_handler.go 137-151, 180-188).
DisclosedIsConfirmable ==
  /\ \A i \in Disclosed : intents[i].status \notin {"absent", "created"}
  /\ \A r \in Requests : code[r] # 500

\* The promises of PaymentContract: the status graph, terminal states, success
\* only of a captured payment, announcement only of a success.
Contract == INSTANCE PaymentContract WITH
  Ids <- Requests,
  status <- [i \in Requests |-> intents[i].status],
  paid <- {req[r].id : r \in captured},
  announced <- {e.id : e \in {f \in events : f.type = "succeeded"}}

\* Checkout implements PaymentContract.
ImplementsContract == Contract!Spec

-----------------------------------------------------------------------------
(* Liveness, under Fairness.                                               *)

\* Every request that arrived is answered and its goroutine ends, on every
\* error path too.
EveryRequestServed ==
  \A r \in Requests : pc[r] = "auth" ~> pc[r] = "done" /\ code[r] # 0

\* Captured money does not stay in limbo: the intent it was captured for
\* reaches a final status (payment_handler.go 202-230).
CapturedIsSettled ==
  \A r \in Requests :
    r \in captured ~>
      r \in captured /\ intents[req[r].id].status \in {"succeeded", "failed"}

\* Every success is announced (payment_handler.go 232-241).
SuccessIsAnnounced ==
  \A i \in Requests :
    intents[i].status = "succeeded" ~>
      \E e \in events : e.type = "succeeded" /\ e.id = i /\ e.status = "succeeded"

-----------------------------------------------------------------------------
(* What the documentation, comments and tests say and the code does not do. *)

\* README.md 39, "to prevent duplicate checkouts": an intent is charged once.
\* ConfirmIntent charges first and looks at the status afterwards.
ChargedAtMostOnce ==
  \A r, s \in captured : req[r].id = req[s].id => r = s

\* payment_handler.go 204, "Gateway rejected the charge. Mark status as failed
\* and emit failure webhook event": the event reports a failed payment.  The
\* refusal of the transition is ignored, so a payment that succeeded is
\* announced as failed.
FailedEventMatchesStatus ==
  \A e \in events : e.type = "failed" => e.status = "failed"
=============================================================================
