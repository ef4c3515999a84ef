------------------------------ MODULE Webhooks ------------------------------
(***************************************************************************)
(* The event log, the dispatcher and the shutdown of main, which orders    *)
(* the end of the HTTP handlers and the stop of the dispatcher.            *)
(*                                                                         *)
(* An event is recorded by one HTTP handler and named by it; a subscription*)
(* id is used once (the code draws random ids).  A delivery is the         *)
(* goroutine that posts one event to one subscription.  deleted, steady,   *)
(* late and dropped are ghost state.                                       *)
(*                                                                         *)
(* The operators whose name starts with Bad are not part of the model: each*)
(* is a plausible mistake in the operator that follows it.                 *)
(***************************************************************************)
EXTENDS Integers, Sequences, FiniteSets

CONSTANTS
  Events,      \* the events the handlers record
  Subs,        \* the subscription ids
  Wants,       \* [Subs -> SUBSET Events], by type or by the wildcard
  Buffer,      \* the capacity of eventChan
  MaxRetries,  \* attempts after the first
  NoEvent

ASSUME FiniteAssumption == IsFiniteSet(Events) /\ IsFiniteSet(Subs)
ASSUME WantsAssumption == Wants \in [Subs -> SUBSET Events]
ASSUME BufferAssumption == Buffer \in Nat
ASSUME RetriesAssumption == MaxRetries \in Nat
ASSUME NoEventAssumption == NoEvent \notin Events

VARIABLES
  handler,     \* the HTTP handler that makes each event
  subs,        \* EventStore.subs
  queue,       \* the buffer of eventChan
  closed,      \* eventChan is closed
  cancelled,   \* the dispatcher's context is cancelled
  worker,      \* where the worker is: at select, in fanOut, or gone
  taken,       \* the event the worker fans out
  delivery,    \* each delivery goroutine, by subscription and event
  wg,          \* the counter of the wait group
  main,        \* where main is
  deleted,     \* the subscriptions deleted so far
  steady,      \* the pairs <<s, e>>: s has been subscribed since e was recorded
  late,        \* the pairs <<s, e>>: s was deleted before e was recorded
  dropped      \* the events Dispatch found no room for

vars == <<handler, subs, queue, closed, cancelled, worker, taken, delivery, wg,
          main, deleted, steady, late, dropped>>

Pairs == Subs \X Events

Unborn == [at |-> "none", attempt |-> 0]

Active == {"starting", "posting", "backoff"}
Ended == {"delivered", "gaveUp", "aborted"}

TypeOK ==
  /\ handler \in [Events -> {"idle", "active", "recorded", "done", "panicked"}]
  /\ subs \subseteq Subs
  /\ queue \in Seq(Events) /\ Len(queue) <= Buffer
  /\ closed \in BOOLEAN /\ cancelled \in BOOLEAN
  /\ worker \in {"select", "fanOut", "exited"}
  /\ taken \in Events \cup {NoEvent}
  /\ delivery \in [Pairs -> [at : {"none"} \cup Active \cup Ended, attempt : 0..MaxRetries]]
  /\ wg \in Nat
  /\ main \in {"serving", "draining", "cancel", "close", "wait", "stopped", "killed"}
  /\ deleted \subseteq Subs
  /\ steady \subseteq Pairs /\ late \subseteq Pairs
  /\ dropped \subseteq Events

\* NewDispatcher and Start: the worker is in the wait group.
Init ==
  /\ handler = [e \in Events |-> "idle"]
  /\ subs = {}
  /\ queue = <<>>
  /\ closed = FALSE
  /\ cancelled = FALSE
  /\ worker = "select"
  /\ taken = NoEvent
  /\ delivery = [p \in Pairs |-> Unborn]
  /\ wg = 1
  /\ main = "serving"
  /\ deleted = {}
  /\ steady = {}
  /\ late = {}
  /\ dropped = {}

dispatcherVars == <<closed, cancelled, worker, taken, delivery, wg>>
ghosts == <<deleted, steady, late, dropped>>

-----------------------------------------------------------------------------
(* The HTTP side.                                                          *)

\* Shutdown closes the listeners, but a request on a connection that was accepted
\* before, or is being served, may still be handled.
Listening == main \in {"serving", "draining"}

AddSubscription(s) == subs' = subs \cup {s}

CreateSubscription(s) ==
  /\ Listening
  /\ s \notin subs \cup deleted
  /\ AddSubscription(s)
  /\ UNCHANGED <<handler, queue, main, dispatcherVars, ghosts>>

RemoveSubscription(s) == s \in subs /\ subs' = subs \ {s}

DeleteSubscription(s) ==
  /\ Listening
  /\ RemoveSubscription(s)
  /\ deleted' = deleted \cup {s}
  /\ steady' = {p \in steady : p[1] # s}
  /\ UNCHANGED <<handler, queue, main, dispatcherVars, late, dropped>>

ListSubscriptions == subs

\* A request arrives whose handler will record event e.
Arrive(e) ==
  /\ Listening
  /\ handler[e] = "idle"
  /\ handler' = [handler EXCEPT ![e] = "active"]
  /\ UNCHANGED <<subs, queue, main, dispatcherVars, ghosts>>

RecordEvent(e) ==
  /\ handler[e] = "active"
  /\ handler' = [handler EXCEPT ![e] = "recorded"]
  /\ steady' = steady \cup (subs \X {e})
  /\ late' = late \cup (deleted \X {e})
  /\ UNCHANGED <<subs, queue, main, dispatcherVars, deleted, dropped>>

\* Without room in the channel the oldest event makes way.
BadDispatch(e) ==
  /\ handler[e] = "recorded"
  /\ handler' = [handler EXCEPT ![e] = IF closed THEN "panicked" ELSE "done"]
  /\ queue' = Append(IF Len(queue) < Buffer THEN queue ELSE Tail(queue), e)
  /\ UNCHANGED <<subs, main, dispatcherVars, ghosts>>

\* Dispatch never blocks: without room in the channel the event is dropped.  A
\* send on a closed channel panics.
Dispatch(e) ==
  /\ handler[e] = "recorded"
  /\ handler' = [handler EXCEPT ![e] = IF closed THEN "panicked" ELSE "done"]
  /\ IF ~closed /\ Len(queue) < Buffer
     THEN queue' = Append(queue, e) /\ UNCHANGED dropped
     ELSE dropped' = dropped \cup {e} /\ UNCHANGED queue
  /\ UNCHANGED <<subs, main, dispatcherVars, deleted, steady, late>>

-----------------------------------------------------------------------------
(* The worker.  When several branches of its select are ready, Go picks any.*)

\* The event is read and not removed.
BadTake ==
  /\ worker = "select"
  /\ queue # <<>>
  /\ taken' = Head(queue)
  /\ worker' = "fanOut"
  /\ UNCHANGED <<handler, subs, queue, closed, cancelled, delivery, wg, main, ghosts>>

Take ==
  /\ worker = "select"
  /\ queue # <<>>
  /\ taken' = Head(queue)
  /\ queue' = Tail(queue)
  /\ worker' = "fanOut"
  /\ UNCHANGED <<handler, subs, closed, cancelled, delivery, wg, main, ghosts>>

\* A deleted subscription is listed too.
BadTargets(e) == {s \in subs \cup deleted : e \in Wants[s]} \X {e}

\* The subscriptions there are now and that want event e.
Targets(e) == {s \in ListSubscriptions : e \in Wants[s]} \X {e}

\* The goroutines add themselves to the wait group, when they run.
BadSpawn(ps) ==
  /\ delivery' = [p \in Pairs |-> IF p \in ps THEN [at |-> "starting", attempt |-> 0]
                                             ELSE delivery[p]]
  /\ UNCHANGED wg

\* One goroutine for each pair, in the wait group before it runs.
Spawn(ps) ==
  /\ delivery' = [p \in Pairs |-> IF p \in ps THEN [at |-> "starting", attempt |-> 0]
                                             ELSE delivery[p]]
  /\ wg' = wg + Cardinality(ps)

\* The list of subscriptions and the loop that begins the goroutines: one step,
\* because the loop works on the list as it was read and only the worker begins
\* deliveries.  A subscription deleted during the loop is one deleted right after.
FanOut ==
  /\ worker = "fanOut"
  /\ Spawn(Targets(taken))
  /\ taken' = NoEvent
  /\ worker' = "select"
  /\ UNCHANGED <<handler, subs, queue, closed, cancelled, main, ghosts>>

\* The worker ends when the context is cancelled, or the channel is closed and empty.
WorkerExit ==
  /\ worker = "select"
  /\ cancelled \/ (closed /\ queue = <<>>)
  /\ worker' = "exited"
  /\ wg' = wg - 1
  /\ UNCHANGED <<handler, subs, queue, closed, cancelled, taken, delivery, main, ghosts>>

-----------------------------------------------------------------------------
(* The delivery goroutines.                                                *)

End(p, at) ==
  /\ delivery' = [delivery EXCEPT ![p].at = at]
  /\ wg' = wg - 1

Others == <<handler, subs, queue, closed, cancelled, worker, taken, main, ghosts>>

\* client.Do: a request is not sent under a cancelled context.
Post(p) ==
  /\ delivery[p].at = "starting"
  /\ ~cancelled
  /\ delivery' = [delivery EXCEPT ![p].at = "posting"]
  /\ UNCHANGED <<Others, wg>>

\* The subscriber answers 2xx.
Delivered(p) ==
  /\ delivery[p].at = "posting"
  /\ End(p, "delivered")
  /\ UNCHANGED Others

\* One attempt too many.
BadLast(p) == delivery[p].attempt > MaxRetries

\* The attempt under way is the last.
Last(p) == delivery[p].attempt = MaxRetries

\* The attempt fails: another status, a network error, the client's time-out, or
\* the cancelled context.  Then the backoff, or the end of the attempts.
AttemptFailed(p) ==
  /\ delivery[p].at = "posting" \/ (delivery[p].at = "starting" /\ cancelled)
  /\ \/ /\ ~Last(p)
        /\ delivery' = [delivery EXCEPT ![p].at = "backoff"]
        /\ UNCHANGED wg
     \/ /\ Last(p)
        /\ End(p, "gaveUp")
  /\ UNCHANGED Others

\* Failures are not counted.
BadAgain(d) == [d EXCEPT !.at = "starting"]

\* The next attempt.
Again(d) == [at |-> "starting", attempt |-> d.attempt + 1]

Retry(p) ==
  /\ delivery[p].at = "backoff"
  /\ delivery' = [delivery EXCEPT ![p] = Again(@)]
  /\ UNCHANGED <<Others, wg>>

\* The goroutine returns without Done.
BadAbort(p) ==
  /\ delivery[p].at = "backoff"
  /\ cancelled
  /\ delivery' = [delivery EXCEPT ![p].at = "aborted"]
  /\ UNCHANGED <<Others, wg>>

\* The context is cancelled during the backoff.
Abort(p) ==
  /\ delivery[p].at = "backoff"
  /\ cancelled
  /\ End(p, "aborted")
  /\ UNCHANGED Others

-----------------------------------------------------------------------------
(* main, from the signal to its end.                                       *)

rest == <<handler, subs, queue, worker, taken, delivery, wg, ghosts>>

\* ListenAndServe fails, at the start or later: main exits the process.
ListenFails ==
  /\ main = "serving"
  /\ main' = "killed"
  /\ UNCHANGED <<rest, closed, cancelled>>

\* A signal: srv.Shutdown closes the listener.
Signal ==
  /\ main = "serving"
  /\ main' = "draining"
  /\ UNCHANGED <<rest, closed, cancelled>>

\* It does not wait for the handlers (srv.Close).
BadDrained ==
  /\ main = "draining"
  /\ main' = "cancel"
  /\ UNCHANGED <<rest, closed, cancelled>>

\* It returns when no handler runs.
Drained ==
  /\ main = "draining"
  /\ \A e \in Events : handler[e] \in {"idle", "done"}
  /\ main' = "cancel"
  /\ UNCHANGED <<rest, closed, cancelled>>

\* Its time-out: main exits the process.
DrainTimeout ==
  /\ main = "draining"
  /\ main' = "killed"
  /\ UNCHANGED <<rest, closed, cancelled>>

\* dispatcher.Stop.
Cancel ==
  /\ main = "cancel"
  /\ main' = "close"
  /\ cancelled' = TRUE
  /\ UNCHANGED <<rest, closed>>

Close ==
  /\ main = "close"
  /\ main' = "wait"
  /\ closed' = TRUE
  /\ UNCHANGED <<rest, cancelled>>

Wait ==
  /\ main = "wait"
  /\ wg = 0
  /\ main' = "stopped"
  /\ UNCHANGED <<rest, closed, cancelled>>

-----------------------------------------------------------------------------
Handle(e) == RecordEvent(e) \/ Dispatch(e)

Work == Take \/ FanOut \/ WorkerExit

Deliver(p) == Post(p) \/ Delivered(p) \/ AttemptFailed(p) \/ Retry(p) \/ Abort(p)

Stopping == Drained \/ Cancel \/ Close \/ Wait

\* Nothing runs in a process that exited.
Next ==
  /\ main # "killed"
  /\ \/ \E s \in Subs : CreateSubscription(s) \/ DeleteSubscription(s)
     \/ \E e \in Events : Arrive(e) \/ Handle(e)
     \/ Work
     \/ \E p \in Pairs : Deliver(p)
     \/ ListenFails \/ Signal \/ DrainTimeout \/ Stopping

Spec == Init /\ [][Next]_vars

\* Handlers, the worker and main run when they can; an attempt ends, at the latest
\* by the client's time-out of 5 seconds, and so does a backoff.
FairSpec ==
  /\ Spec
  /\ \A e \in Events : WF_vars(main # "killed" /\ Handle(e))
  /\ WF_vars(main # "killed" /\ Work)
  /\ \A p \in Pairs : WF_vars(main # "killed" /\ Deliver(p))
  /\ WF_vars(Stopping)

-----------------------------------------------------------------------------
\* No handler sends on the closed channel, which would panic: Stop runs after
\* the handlers (dispatcher.go 71-84, main.go 94-98).
NeverPanics == \A e \in Events : handler[e] # "panicked"

\* Once Stop has returned, nothing of the dispatcher runs any more, whatever it
\* was doing when it was told to stop (dispatcher.go 48-106).
QuietAfterStop ==
  main = "stopped" =>
    worker = "exited" /\ \A p \in Pairs : delivery[p].at \notin Active

\* An event is done with when no handler, channel or worker holds it.
Handled(e) == /\ handler[e] = "done"
              /\ taken # e
              /\ \A n \in DOMAIN queue : queue[n] # e

\* A handled event has a delivery for every subscription that wanted it from before
\* it was recorded, unless the channel was full: an event is lost only there, or
\* in the channel of a dispatcher that was stopped (dispatcher.go 71-106).
LossExplained ==
  \A s \in Subs, e \in Events :
    /\ <<s, e>> \in steady
    /\ e \in Wants[s]
    /\ Handled(e)
    /\ delivery[<<s, e>>].at = "none"
    => e \in dropped

\* Nothing is posted to a subscription for an event recorded after its deletion
\* (dispatcher.go 88-106, event_store.go 66-75).
NothingAfterDeletion == \A p \in late : delivery[p].at = "none"

\* The abstract state: an event has been fanned out when it was neither dropped nor
\* is held by a handler, the channel or the worker.
Phase(d) == IF d.at \in Active THEN "active" ELSE IF d.at = "none" THEN "none" ELSE "ended"

Contract == INSTANCE WebhookContract WITH
  recorded <- {e \in Events : handler[e] \in {"recorded", "done", "panicked"}},
  subscribed <- subs,
  fannedOut <- {e \in Events : Handled(e) /\ e \notin dropped},
  phase <- [p \in Pairs |-> Phase(delivery[p])],
  stopped <- main = "stopped"

\* The dispatcher keeps the promises of WebhookContract, over subscriptions that
\* come and go, a full channel, failed attempts and the shutdown.
ImplementsDelivery == Contract!Spec

\* The shutdown comes to an end, and so does Stop (dispatcher.go 80-84).
StopReturns == main # "serving" ~> main \in {"stopped", "killed"}

\* Every delivery comes to an end (dispatcher.go 111-194).
DeliveriesEnd ==
  \A p \in Pairs : delivery[p].at \in Active ~> delivery[p].at \in Ended \/ main = "killed"

\* dispatcher.go 79, Stop "blocks until all active webhooks are finished
\* delivering": a delivery under way when Stop is called is not cut short.
StopFinishesDeliveries == \A p \in Pairs : delivery[p].at # "aborted"
=============================================================================
