------------------------------- MODULE Retries -------------------------------
(***************************************************************************)
(* The checkout behind the idempotency middleware, for clients that repeat *)
(* a call under the same Idempotency-Key: Idempotency runs around Checkout,*)
(* whose handlers take the place of the arbitrary handler of Idempotency.  *)
(* The middleware comes before the token is looked at, so a replay is not  *)
(* authorized again.  before is ghost state.                               *)
(***************************************************************************)
EXTENDS Checkout

CONSTANTS Keys, NoKey, TTL, NoReply

ASSUME RetriesAssumption == /\ TTL \in Nat /\ TTL >= 2
                            /\ NoKey \notin Keys
                            /\ NoReply \notin [by : Requests, ok : BOOLEAN]

VARIABLES
  mwPc, mwReq, reply, cache, tick, since, raced, evicted,  \* those of Idempotency
  before   \* the requests that had been answered when each request arrived

M == INSTANCE Idempotency WITH pc <- mwPc, req <- mwReq

mwVars == <<mwPc, mwReq, reply, cache, tick, since, raced, evicted>>

\* The shop is at work when the clients come.
RetriesInit ==
  /\ Ready
  /\ M!Init
  /\ before = [r \in Requests |-> {}]

\* The status codes the middleware keeps.
Successful(c) == c >= 200 /\ c < 300

Replied == {r \in Requests : mwPc[r] = "done"}

\* A payment call arrives, with or without a key.
Arrive(r) ==
  /\ M!Receive(r)
  /\ mwReq'[r].post
  /\ ReceiveCreate(r) \/ ReceiveConfirm(r)
  /\ before' = [before EXCEPT ![r] = Replied]

\* The middleware, before and after the handler.
Middleware(r) ==
  /\ M!Replay(r) \/ M!Miss(r) \/ M!Store(r) \/ M!Skip(r)
  /\ UNCHANGED <<vars, before>>

\* The handler runs inside c.Next().
Handler(r) ==
  /\ mwPc[r] = "run"
  /\ Serve(r)
  /\ UNCHANGED <<mwVars, before>>

\* The handler returned: what it wrote is the reply.
Return(r) ==
  /\ pc[r] = "done"
  /\ M!Run(r)
  /\ reply'[r].ok = Successful(code[r])
  /\ UNCHANGED <<vars, before>>

\* The cleanup goroutine and its clock.
Clock == (M!Advance \/ M!Cleanup) /\ UNCHANGED <<vars, before>>

Call(r) == Arrive(r) \/ Middleware(r) \/ Handler(r) \/ Return(r)

\* Carts and mandates do not change here: a retry does not look at them, and
\* Checkout's own runs cover the first call.
RetriesNext == \/ \E r \in Requests : Call(r)
               \/ Clock
               \/ \E t \in Tokens : ExpireToken(t) /\ UNCHANGED <<mwVars, before>>

RetriesSpec == RetriesInit /\ [][RetriesNext]_<<vars, mwVars, before>>

-----------------------------------------------------------------------------
SameKey(r, s) == M!Keyed(mwReq[r]) /\ mwReq[r] = mwReq[s]

\* A client that was answered 2xx and repeats the call under the same key does
\* nothing a second time: no token is looked up, no intent made, no spend recorded,
\* nothing charged and no event sent, as long as the key was not evicted
\* (idempotency.go 63-111, payment_handler.go 83-242).
RetryLeavesNoTrace ==
  \A r, s \in Requests :
    /\ s \in before[r]
    /\ SameKey(r, s)
    /\ M!Stored(s)
    /\ s \notin evicted
    => pc[r] = "auth"

\* A replay is an old answer.  What a client that repeats the very call it made
\* (the same token and the same body) may still believe of it:
\*   200 stays true for good: the call it repeats captured the money, and the intent
\*   is succeeded;
\*   201 names an intent that exists, for the cart and the mandate of the call.  The
\*   status in it, requires_confirmation, may be out of date, because the answer and
\*   not the intent is kept, but only by a confirm of that intent: one that took the
\*   money, or one that marked it failed, whose answer is 402.
\* Nothing else is replayed to it (idempotency.go 76-109).  Nothing is said of
\* another call sent under a key in use, which gets the answer of the first: a key
\* is tied to no call.
ReplayStillTrue ==
  \A r \in Replied :
    LET s == reply[r].by
        i == intents[s]
    IN  s # r /\ req[r] = req[s] =>
          \/ /\ code[s] = 200
             /\ s \in captured
             /\ intents[req[r].id].status = "succeeded"
          \/ /\ code[s] = 201
             /\ i.cart = req[r].cart
             /\ i.mandate = req[r].mandate
             /\ \/ i.status = "requires_confirmation"
                \/ i.status = "succeeded" /\ \E q \in captured : req[q].id = s
                \/ i.status = "failed" /\ \E q \in Requests : code[q] = 402 /\ req[q].id = s
=============================================================================
