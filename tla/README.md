# A verification of the agentic commerce API

TLA+ modules for the Go server of this repository (`src/`), the TLC
configurations that check them on small instances, and theorems about them that
TLAPS checks for every value of the constants. File names below are relative to
`src/`.

## 1. The system

The server is one process. Every HTTP request is a goroutine that goes through
the middleware (`request_id`, `idempotency`, then `auth` or `admin` by route) and
ends in a handler. Handlers share in-memory stores, each behind one mutex, and
nothing else; a store call is atomic, a handler is not. Two more goroutines run
for the life of the process, the webhook worker and the cleanup of the
idempotency store, and one is born for every delivery of an event.

| Component | State | Operations | Talks to |
|---|---|---|---|
| Tokens and scopes (`store/token_store.go`, `handlers/token_handler.go`, `middleware/auth.go`) | tokens: scopes, spend limit, current spend, expiry | Create, Get (expiry checked), RecordSpend; RequireScope | called by every route under `/v1` but `/tokens` |
| Carts (`handlers/cart_handler.go`, `store/cart_store.go`) | carts: lines, total | CreateCart, GetCart, AddItem, UpdateItem, RemoveItem; Create, Get and Save copy | catalog for stock and price; event log |
| Payments (`handlers/payment_handler.go`, `store/payment_store.go`) | intents: status, cart, amount, mandate | CreateIntent, GetIntent, ConfirmIntent; Create, Get, TransitionStatus | carts (read), tokens (spend), gateway, event log |
| Payment gateway (`gateway/`) | none | Charge(amount, currency) | outside; may refuse |
| Idempotency (`middleware/idempotency.go`) | map from key to saved response | lookup before, store after the handler; cleanup each half TTL | wraps every POST |
| Event log and webhooks (`store/event_store.go`, `webhook/dispatcher.go`) | subscriptions, log; channel of 100 events, worker, deliveries, context, wait group | Create/List/DeleteSubscription, RecordEvent, Dispatch, fanOut, deliverWithRetry, Stop | called by cart and payment handlers; posts to subscribers |
| Server lifecycle (`main.go`) | none of its own | start, signal, Shutdown with a time-out, Stop | dispatcher, HTTP server |
| Catalog (`store/product_store.go`) | fixed products, prices, stock | List, GetById | read by carts |
| Request id, admin key, configuration | none | stateless checks; environment read once | |
| Shopping agent (`commerce_agent/`, Python) | bearer token, cart id, memory of a dialogue | checkout_and_pay_cart: get the cart, sign a mandate, create, confirm; one HTTP request at a time, each with a time-out of 10 seconds | a client of the API |

### What is hard here

* *Interleaving.* Two confirms of one intent run side by side; the status is
  looked at only after the charge. A cart edit is Get, edit, Save with anything
  in between. The idempotency lookup and store have the whole handler between.
* *Stale values.* A mandate is checked against a copy of the cart; the cart may
  be edited before the intent is stored and before it is confirmed; token and
  mandate may expire on the way.
* *Partial failure.* The spend is recorded before the charge and never given
  back; the error of the transition to `failed` is dropped.
* *Ordering.* Answers go out before events are recorded (intents) or after
  (carts); the dispatcher may be stopped only when no handler runs.
* *Limits.* The event channel drops when full; a token's budget is shared by
  concurrent confirms; time to live of cached responses.
* *Retries.* A client may repeat a call whose answer it has, or has lost. Only the
  idempotency middleware tells a repetition from a new call, only for a client
  that sends a key, and only until the next cleanup. A replay asks neither the
  token store nor the handler.
* *A client that gives up.* The agent's call, or its answer, may be lost or late
  while the server goes on to charge; its token may expire between two calls; it
  signs over a cart it read before, and other sessions edit that cart.
* *Shutdown.* The worker, the deliveries (posting or in their backoff) and
  `Stop` meet on a context, a channel and a wait group.

### What makes each component correct

* *Tokens*: neither the counter nor the money taken passes the limit; after its end a
  token pays only for what was recorded before.
* *Payments*: the status graph; terminal states stay; one success and one
  announcement per intent; answers that stay true; only signed amounts charged.
* *Carts*: edits lost only by overlap; without one, a cart holds and costs exactly what
  the answers promised.
* *Idempotency*: only successes replayed, only under their own key; a second
  run has a cause.
* *Webhooks*: no send on a closed channel; nothing after Stop; losses only where
  the code means to lose; no delivery for a deleted subscription; an event fanned
  out once; everything ends.
* *Checkout behind the middleware*: a repeated call leaves no trace; a replayed 200 is
  true for good, and a replayed 201 still names the intent the call asked for.
* *Agent*: what the tool reports of a payment is true; no intent is charged twice;
  the tool returns.

## 2. The modules

    PaymentContract        the abstract promise of the payment component
      |                    PaymentContractProofs
      ^ refined by
    Checkout               tokens, mandates, CreateIntent, ConfirmIntent, gateway
      |                    MCCheckout, CheckoutProofs
      +-- Retries          Checkout behind Idempotency
      |                    MCRetries, RetriesProofs
      +-- Agent            Checkout with the shopping agent as its client
                           MCAgent, AgentProofs
    Carts                  cart store and cart handlers
                           MCCarts, CartsProofs
    Idempotency            middleware and cleanup
                           MCIdempotency, IdempotencyProofs
    WebhookContract        the abstract promise of the dispatcher
      ^ refined by
    Webhooks               event log, dispatcher, shutdown
                           MCWebhooks, WebhooksProofs
    Sums                   lemmas about the sum of a function over a set

The operators whose names begin with `Bad`, each placed before the definition it
is a mistaken form of, are no part of the models. They say which plausible
mistake each property would notice, and PROJECT.json pairs them (`mutants`).

### Checkout

One action per store or gateway call, between which the goroutine of a request
may be overtaken. `pc[r]` is the next call; `cartCopy[r]` and `intentCopy[r]` are
the handler's local variables; `code[r]` is the status it answered.

* CreateIntent: `LoadCart` (400 for a body that does not bind, 404, 400 when empty), `VerifyMandate` (signature,
  expiry, hash, amount), `CreateStored`, `OpenIntent`, `ReplyCreated`,
  `EmitCreated`.
* ConfirmIntent: `LoadIntent`, `RecordSpend`, `Charge`, then either
  `MarkSucceeded`, `ReplySucceeded`, `EmitSucceeded`, or `MarkFailed`,
  `EmitFailed`.
* Around them: `IssueToken`, `ExpireToken`, `ExpireMandate`, and the cart
  handlers as seen from here, `CreateCart` and `SaveCart`, at any moment.

Abstracted: an item list is a value with a total; a mandate is a record of the
hash it was signed over (SHA-256 of cart id, lines and total is taken as
injective), its amount, and whether the RS256 signature is genuine; an intent is
named by the request that made it. The read-only GetIntent is left out.

`PaymentContract` keeps only the status of each intent, the set of intents money
was captured for, and the set announced. `ImplementsContract` maps `paid` to the
intents of captured charges and `announced` to the `succeeded` events.

### Carts

CreateCart is `CreateStored`, `RecordCreated` (the event log entry and its hand-over)
and `AnswerCreated`. `Load` is `CartStore.Get`, the first call of every other handler;
`Save` is the edit of the copy and `CartStore.Save`; `Reject` is the error paths in the
order the handlers have them. `WithAdded`, `WithQuantity` and `Without` are the three
edits. Three ghosts say whose edits a cart contains (`edits`), who held a copy when
another saved (`raced`), and what the accepted edits ask for, each done at once on a
plain count of pieces (`wanted`). UpdateItem's 422 for a product that is gone from the
catalog is left out: the catalog never changes, and lines hold its products only.

### Idempotency

The middleware around any handler: `Replay` or `Miss`, `Run`, `Store` or `Skip`.
Time is counted in ages up to `TTL + 1`. `Store` gives an entry the age
`TTL + 1` at once: the code sets no `CreatedAt`, and the zero time is older than
any TTL. `since` (the true age), `raced` and `evicted` are ghosts.

### Retries

`Idempotency` is instantiated (`M`) around Checkout: its `Run`, there an arbitrary
handler, is here the handler of Checkout. `Arrive` is the middleware's receipt of a
payment call together with the request Checkout will see; `Middleware` is the
lookup, and what follows the handler; `Handler` is `Serve` of Checkout, possible
only inside `c.Next()`; `Return` hands the status code to the middleware, which
keeps 2xx answers; `Clock` is time and the cleanup. `before[r]` is a ghost: who had
been answered when `r` arrived, which is what makes `r` a repetition rather than a
race. As in `main.go`, the middleware comes before the token is looked at. What a replay
is worth is asked of a client that repeats its very call (`ReplayStillTrue`): a key is
tied to no call, and another call under a key in use is answered with the first's
answer, of which nothing is promised.

### Agent

An attempt is one call of `checkout_and_pay_cart`. `agent[a]` is the answer it waits
for (`cart`, `create`, `confirm`) or what it reported: `success`, `refused` for an
error the server answered, `lost` for anything else. `bearer` is the token of the
client object, fetched once (`Bootstrap`, which the server may refuse); `signed[a]` is the mandate; `sent` are the
calls on the wire. `GetCart` reads the cart and signs what it read; `HearCreated` and
`HearConfirmed` take an answer; `TimeOut` may come at any moment. A call in `sent`
may arrive at any later moment or never (`ArriveCreate`, `ArriveConfirm`), also when
the attempt has given it up. `Others` is time and the other sessions. The server is
Checkout itself.

`refused` and `lost` are both told to the language model in a line that begins
"Checkout failed" (`tools.py` 46); only the detail after it tells them apart, an
answer's status and body or a connection failure. The model keeps the two apart as the
client's exceptions do, so `RefusalReportIsTrue` speaks of a reader who looks at it.

Abstracted: which cart the tool is told to pay for, the wording of its reports, and
what the language model does between two attempts, which is left open. The key
the client draws for a create is used once, so the middleware lets the call through. The agent's
reads of products and its cart tools are among the other sessions.

### Webhooks

`RecordEvent` and `Dispatch` by the handlers, the worker's `Take`, `FanOut`,
`WorkerExit`, the deliveries' `Post`, `Delivered`, `AttemptFailed`, `Retry`,
`Abort`, and `main` from `Signal` through `Drained` or `DrainTimeout` (exit) to
`Cancel`, `Close`, `Wait`; or `ListenFails`, the exit on a listener's error. Go's
select picks any ready branch, so a worker with a cancelled context may still take
an event, and a delivery may retry once more. `FanOut` lists the subscriptions and
begins the goroutines in one step: the loop works on the list it was given, and nobody
else begins a delivery. Left out: payloads, HMAC, wording, the
lengths of the backoff, and the returns of a delivery whose payload or request
cannot be built (the payload is a struct of strings and integers, and nothing about
the URL is known here).

`WebhookContract` knows the log, the subscriptions there are, the events fanned out,
the phase of each delivery and whether Stop has returned; not the channel, the
worker, the wait group or the retries. `ImplementsDelivery` maps the three active and
the three ended places of a delivery goroutine to one phase each.

## 3. The runs

| Run | Instance | Shows |
|---|---|---|
| `checkout_create` | 2 requests, 1 cart, 3 item lists, 4 mandates (two genuine, one with a wrong amount, one unsigned), 2 tokens (limit 3; limit 0 and without the scope) | `TypeOK`; `ChargedIsAuthorized`; `DisclosedIsConfirmable` |
| `checkout_confirm` | 3 requests, 1 mandate of 2 paise, 2 tokens (limit 3 and limit 0), fairness; starts with the tokens issued and the cart filled (`RaceSpec` of MCCheckout) | `SpendWithinLimit`; `BudgetRespected`; `OneSuccessPerIntent`; `AnswersTruthful`; `TerminalEventsAgree`; `NothingSpentAfterExpiry`; `ImplementsContract`; `EveryRequestServed`; `CapturedIsSettled`; `SuccessIsAnnounced` |
| `retries` | 3 requests with one key or none, TTL 2, 1 token of limit 5; starts as `checkout_confirm` does | `RetryLeavesNoTrace`; `ReplayStillTrue` |
| `agent` | 2 attempts (4 requests), 1 cart with 2 item lists, 1 token of limit 5, fairness | `AgentTypeOK`; `SuccessReportIsTrue`; `RefusalReportIsTrue`; `ChargedAtMostOnce`; `UsesCheckout`; `ToolReturns` |
| `carts` | 3 requests, 2 products of stock 2 and 1, quantities -1, 1, 2, fairness | `TypeOK`; `LinesWellFormed`; `LostOnlyByOverlap`; `EditsApplied`; `EveryRequestServed` |
| `idempotency` | 3 requests, 2 keys, TTL 2, fairness | `TypeOK`; `ReplayIsFaithful`; `SecondRunExplained`; `EveryRequestServed`; `EntriesLeave` |
| `webhooks` | 2 events, 2 subscriptions, channel of 1, 1 retry, fairness | `TypeOK`; `NeverPanics`; `QuietAfterStop`; `NothingAfterDeletion`; `LossExplained`; `ImplementsDelivery`; `StopReturns`; `DeliveriesEnd` |

Why the bounds are enough. *Requests.* Every checkout hazard is a meeting of one
create and two confirms of its intent, and three requests hold it. The mandate
allows any number of intents, so two creates and a confirm are among the
behaviours too. Two are enough where the question is what happens between the
calls of one create or one confirm, because carts, tokens and mandates are then
changed by actions of their own; the steps that only lead up to a race are left
out of `checkout_confirm` and `retries`, whose first states are states of `Spec`. A
cart race takes a create and two edits. A lost idempotency race takes two requests,
and the third is the late retry; in `retries` the three are a create, a confirm of
its intent and the repetition of either. The agent's second attempt is the retry of
its first, or the first again after another outcome. *Limits.* 3 covers one charge
of 2 and not two, so that the budget is both spent and refused when two confirms
race; 5 covers two; 0 stands for every limit at or below zero, for which the code
checks nothing. *Channel.* One slot in place of 100: what matters is full and not
full, and two events reach both. *Retries.* One in place of 3 in `webhooks`, where a
delivery then is at its first attempt, at its last, and in between; `webhooks_stop`
has 3. *TTL.* 2 is the least for which half the TTL is a period. The theorems of
section 5 hold without these bounds. Symmetry of requests is used in safety runs
only. Deadlock is not checked where requests are finite and the instance ends by
design; it is checked in the runs of Idempotency, where time never stops.

### What the code does and the text says otherwise

Each is a run that TLC must find violated; PROJECT.json (`findings`) quotes the
sentence.

| Run | Property | What happens |
|---|---|---|
| `checkout_charged_twice` | `ChargedAtMostOnce` | two confirms charge the same intent; the second is refused after the bank took the money |
| `checkout_failed_event` | `FailedEventMatchesStatus` | a refused charge announces `payment_intent.failed` for an intent that another confirm made succeed |
| `carts_stock` | `CartWithinStock` | two additions within the stock put more than the stock in one line |
| `idempotency_ttl` | `EvictedOnlyWhenExpired` | every cleanup takes every entry, however new |
| `webhooks_stop` | `StopFinishesDeliveries` | Stop makes deliveries in their backoff return |

## 4. Fairness

`FairSpec` of each module asks for weak fairness of the goroutines that exist,
and of nothing a client or the clock decides to do.

* Checkout, Carts: `Serve(r)` of each request that arrived. Go schedules every
  ready goroutine, a store's mutex is held for one call, and `Charge` returns
  (`gateway/mock.go` answers at once). Which outcome the gateway picks is free.
* Idempotency: the same, and time passes (`Advance`) and the ticker's goroutine
  runs (`Cleanup`). A handler under the middleware ends because those above do.
* Webhooks: handlers, worker and each delivery; the client's time-out of 5
  seconds bounds an attempt, and a timer bounds the backoff. Nothing is fair
  after the process exited. Main's `Stopping` is fair; the signal, the time-out and
  a failing listener are not.
* Agent: the server's goroutines, and the tool's thread (`Tool(a)`), whose time-out
  is a timer of its own. The network promises nothing: a call need not arrive, and
  `ToolReturns` holds all the same.
* Retries states safety only, and its run has no fairness; that every call is answered
  there too is a theorem (`CallsReplied`, section 5).

No liveness property rests on a request that must arrive or a charge that must
succeed.

## 5. What is proved

Every safety invariant of the passing runs is a theorem, and so are the three
refinements and all the liveness properties but one. Each holds for any sets of requests, tokens, keys, carts, products,
mandates, attempts, events and subscriptions, and any limits, prices, stock,
channel size, number of retries and TTL; the assumptions are the named `ASSUME`s of
the modules (types of the constants, that the sentinels are none of the values,
finiteness where something is counted or summed).

**CheckoutProofs.** The properties are not inductive. `AnswersTruthful`, for one,
says that 409 was sent for another's success, and this needs to know that a
`succeeded` intent has a request that is past `MarkSucceeded`, at
`reply_succeeded` or answered 200. The inductive invariant `IInv` is

* `TypeInv`: `TypeOK`, and each `pc` belongs to the handler of its request;
* `Answered`: what `pc`, the answer and the charge of a request say of each other
  (a request past `MarkSucceeded` was charged, one answered 402 was not);
* `Staged`: the status of the intent a create request is making at each `pc`, and
  that an intent a confirm names is open;
* `Signed`: every stored intent is covered by a genuine mandate, the accepted
  copy of a cart is too, and the amount a confirm holds is still the intent's;
* `Settled`: an intent has succeeded exactly when one request, and only one, is
  past `MarkSucceeded` for it;
* `Announced`: a success is announced by that request.

From `IInv` (theorem `Inductive`) follow `TypeCorrect`, `ChargesAuthorized`,
`SuccessUnique`, `AnswersStayTrue`, `DisclosedConfirmable`, `SpendLimited`, and
`Implements`: each step is a step of PaymentContract or leaves its variables alone.
Two need an invariant more. `EventsAgree`: what a handler is about to report of an
intent is the final status it has (`Reported`), and a final status stays
(`FinalStays`). `BudgetKept`: the charges made or about to be made for a token add
up to no more than its counter (`Budgeted`), since `RecordSpend` raises the counter
by the amount the request will charge, and no later step changes either. The same
invariant gives `ExpiredSpendsNothing`: what was taken is covered by the counter
(`TakenCovered`), and the counter of an expired token stands still
(`ExpiredStandsStill`). `Traced`, which RetriesProofs rests on, says where an intent
comes from: its cart and mandate are those of its create call, and if it failed, a
confirm of it was answered 402.

What the contract amounts to is proved of the contract itself, in
PaymentContractProofs: its states are honest (`ContractHonest`: an intent succeeds only
if it was paid, is announced only if it succeeded) and nothing settled is undone
(`ContractSettles`). `CheckoutSettles` carries both over to Checkout through
`Implements`: no handler, however late, takes an intent out of a final status.

`SpendLimited` and `BudgetKept` use that amounts are totals, hence natural numbers,
and that integers are unbounded (section 7).

**Sums.** `BudgetKept` and the totals of carts are about sums over a set. The sum of
the community modules takes the elements in an order of its own choice, and what it
computes needs induction; the library's induction theorems take an operator as a
parameter, which the provers cannot instantiate. So the induction is done with sets
in place of operators: the naturals at which a claim holds, whose complement has no
least element (`NaturalsInductively`, from `WFMin`), then the subsets of a finite
set for which it holds (`SubsetsInductively`). The lemmas used elsewhere are
`SumOfEqual`, `SumOfNone`, `SumWith`, `SumWithout`, `SumOfPart` and `SumOfRenamed`.

**CartsProofs.** `CartsTyped` and `CartsWellFormed`: lemmas say what `FindItemIndex`, `WithAdded`, `WithQuantity` and `Without` do to a
well-formed list, and `TotalFacts` that a total of such a list is a natural number.
The invariant `CartsInv` adds that handlers hold copies as well formed as the
carts, and name a cart that exists. `LostByOverlapOnly`: an acknowledged edit is in
the stored cart or overwritten by an overlapping save (`StoreExplained`), which is
inductive with the same for the copies still to be saved (`CopyExplained`): what
such a copy lacks was saved while it was held, or overwritten before. `EditsAreApplied`:
while no save has overwritten another, each stored cart holds what is `wanted` of it,
and so does each copy still to be saved unless a save since has outdated it (`Holds`),
in which case that copy's own save would be the overlap. `AddedHolds`, `UpdatedHolds`
and `RemovedHolds` say so of the three edits, and `TotalIsWorth` that the total, summed
over lines, is the price of the pieces, summed over products.

**IdempotencyProofs.** `IdempotencyTyped`, `ReplaysFaithful` and
`SecondRunsExplained`. The invariant says that an entry was stored by a finished run
under its key (`Backed`), that a stored answer is in the cache until it is evicted
(`Kept`), and that a request which runs nevertheless overlapped that run or came
after the eviction (`RunExplained`).

**RetriesProofs.** A step of Retries is a step of Checkout or leaves it alone
(`OneCheckoutStep`), and likewise for Idempotency (`OneMiddlewareStep`), so the
invariants of both hold (`Both`) by the lemmas already proved of each. What is
added couples them: the handler works only while the middleware is in `c.Next()`,
and the reply of a request that ran is its own status code (`Coupled`); a
repetition whose key still lives has not entered its handler (`Late`).
`RetriesTraceless` is the latter; `ReplaysTrue` takes the stored request from
`ReplayIsFaithful`, its code from `Coupled` (`ReplayedRan`), and what has become of that
answer (`AnswerAged`) from the invariant of Checkout and from `Traced`. The parts keep their promises in the composition:
`RetriesUseMiddleware` (it is Idempotency around some handler), with it
`RetriesReplayFaithfully`; `RetriesImplement` (still PaymentContract),
`RetriesKeepAnswers` and `RetriesKeepBudget`, which need only that a shop at work
(`Ready`), from which clients come here, satisfies the same invariants as `Init`.

**AgentProofs.** `AgentUsesCheckout`: every step of Agent is one of Checkout or
leaves Checkout alone, so all theorems of CheckoutProofs hold of it (`AgentInherits`
states three of them, `AgentMoneySettles` what becomes of a payment the agent has given
up). The invariant
`AInv` adds that a call is sent with a token and a mandate, and a confirm only after
201 (`Prepared`); that what arrived is what was sent (`Arrived`); what each place of
an attempt says of its calls and their codes (`Labelled`); that an intent is minted
by its create call with the mandate of its attempt (`Minted`); and that only the
attempt's own confirm touches its intent (`Sole`). From it follow `AgentTypes`,
`AgentChargedOnce` (which Checkout alone does not have, see `checkout_charged_twice`:
the agent confirms an intent once), `RefusalsTrue` and `SuccessesTrue`.

**WebhooksProofs.** The invariant says what main, worker, channel and deliveries say
of each other (`Placed`), in which order an event is recorded, queued and fanned out
(`Ordered`), what the ghosts say of the subscriptions (`Subscribed`), and that the
wait group counts the worker and the live deliveries (`Counted`, the cardinality of a
finite set). `NoPanic` is that no handler is alive once main is past draining;
`StopIsQuiet`, that a counter of zero leaves nobody alive, so that `Wait` returns to
silence and nothing is born after; `DeletedGetNothing` and `LossesExplained` follow
the ghosts through `FanOut`, the only step that begins a delivery. `Implements`: each
step is a step of WebhookContract or leaves its variables alone. `DeliveredOnce`: a
delivery that ended stays as it ended, and none that began begins anew.

**Liveness.** The provers know nothing of ENABLED, which is what `WF` is made of, so
the theorems replace it by the states in which the action is enabled. For the
goroutine of request `r` these are the states in which `r` has arrived and has not
ended: `Scheduled(r)` says that again and again `r` is at rest, or that it takes steps
for ever, and `FairSchedule` says so of all requests. That a goroutine under way always
has a step is what this replacement rests on and what is not proved: it can be read
off the guards (every label has an action, and at each label the outcomes cover all
cases), and TLC shows it on the instances, where `FairSpec` itself implies the
properties. The same is done for the agent (`FairTools`; a waiting attempt can always
time out), for the deliveries (`FairDeliveries`; `Post`, `AttemptFailed`, `Delivered` and
`Retry` cover the active places) and for the calls of Retries (`FairCalls`).

The argument is the same in each module. A measure of the steps left (`StepsLeft`,
`CallsLeft`, `DeliveryLeft`, `CallLeft`) goes down at each step of the actor and is not
raised by anybody else (`Nearer`, `DeliveryNearer` and `DeliveryKept`, ...); so the actor gets
from `n` to `n - 1` (`Advances`), and a chain of these, one for each value, reaches zero.

* `RequestsServed` in CheckoutProofs, CartsProofs and IdempotencyProofs: every request
  is answered and its goroutine ends. Checkout needs one more invariant
  (`Concluded`): a handler that returns has answered, has announced the success it
  answered, and leaves an intent it took money for in a final status.
* `CapturedSettles` and `SuccessAnnounced`: from `Concluded`, with the charge
  (`CapturedStays`) and the announcement (`ToldStays`) staying. For the second the
  announcer must be known: if it never happens, nobody is ever the winner of
  the intent, which therefore has not succeeded.
* `CallsReplied`: the same through middleware and handler together, up to ten steps
  from the lookup to the store.
* `ToolsReturn`: the agent waits for four answers at most (the token's only once, for
  it keeps its token), and each wait ends.
* `DeliveriesConclude`: for up to three retries. The bound is the code's own
  (`maxRetries := 3`, `webhook/dispatcher.go` 117); for any number the chain would be
  an induction.
* `EntriesGo`: for any TTL, an entry is old as soon as it is stored (`Aged`, because
  `CreatedAt` is never set), so the next cleanup takes it, provided that the ticker
  fires again and again (`Ticking`). That fair `Advance` steps bring the ticker to zero
  is left to TLC: it is an induction over the length of a period.

**What is only model-checked.** `StopReturns`: the channel must run empty and every
delivery must end before the wait group reaches zero, an induction over a count within
a temporal formula, which the provers cannot do. The ENABLED parts named above, and
that the ticker fires. The liveness properties are checked with the fairness of
section 4, and proved with the hypotheses above in its place.

## 6. The plan

1. *Done*: PaymentContract, Checkout, Carts, Idempotency, Webhooks, their runs and
   proofs; WebhookContract and its refinement; the compositions Retries (a client
   that repeats a call under one key, across overlaps and evictions) and Agent (the
   calls of one checkout in sequence, lost and late, with the cart edited by another
   session), with their proofs; liveness, as far as section 5 says.
2. *A composition* of Checkout with Webhooks: the order in which the events of one
   intent reach the channel, and what a full channel does to it. The code promises
   no order (an answer goes out before the event of the intent, so a confirm may
   overtake it), so the first question is which weaker promise a subscriber has.
3. *Numbers*: the int64 sum of `RecordSpend` and the product of `duration_hours` and
   an hour, with their width, against mathematical integers.
4. *The agent with keys*: what Agent and Retries together would promise if the agent
   repeated a lost call under its key. Today it draws a fresh key for each create
   and sends none with a confirm, so the middleware never replays anything to it.

## 7. Limits

Not modelled, and why:

* Request id, admin key, configuration: stateless checks, and values read once that
  are constants here. `WEBHOOK_*` and the HTTP time-outs are read from the
  environment, but the dispatcher uses values of its own, and it is those the models
  stand for.
* GetIntent and the reads of products and subscriptions: they change no state.
* The agent's dialogue, memory and settings: no payment depends on them.
* Logging, payloads, HMAC, replayed headers: no property is about them.

Known limits of the models and of the code:

* Integers are mathematical. `CurrentSpendPaise + amount` and `duration_hours`
  times an hour are int64 in the code and may wrap for values no test uses.
* State is volatile by design (README.md, "Data Persistence"), so no property
  speaks of a restart. The exits on a shutdown time-out and on a listener's error are
  in Webhooks.
* The code keeps no record of mandates used. README.md (section 5 there) has the
  comparison of hashes "prevent tampering or replay attacks", and it does keep a mandate
  from paying for another cart or other lines (`ChargedIsAuthorized`); but one mandate
  may open and pay two intents of the same cart while it lives.
* An idempotency key is tied to no route, client or body: another call under a key in
  use is answered with the first's answer. README.md speaks of duplicates only. A key is
  entered when its handler has returned: a duplicate that comes earlier runs too
  (`SecondRunExplained` names the overlap).
* A replay is the old answer. A client that repeats its create after the intent was
  paid, or after its confirm was refused, is told `requires_confirmation` all the same;
  `ReplayStillTrue` says how far such an answer may be out of date. If it then confirms,
  the bank is charged before the confirm is refused (`checkout_charged_twice` shows the
  charge).
* Spend recorded for a confirm that is then refused is never given back; no text
  says that it is.
* TTL is at least 2 units. The code checks nothing of the value it is given, and
  a ticker of zero length panics.
* An event whose attempt timed out may have reached the subscriber, which then gets
  it again: the subscriber's side is not modelled.
