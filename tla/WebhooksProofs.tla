--------------------------- MODULE WebhooksProofs ---------------------------
(***************************************************************************)
(* Machine-checked proofs about Webhooks, for any finite sets of events and*)
(* subscriptions, any subscriptions' wishes, channel size and number of    *)
(* retries.                                                                *)
(***************************************************************************)
EXTENDS Webhooks, FiniteSetTheorems, TLAPS

-----------------------------------------------------------------------------
(* The inductive invariant, in named parts.                                *)

Delivery == [at : {"none"} \cup Active \cup Ended, attempt : 0..MaxRetries]

\* TypeOK but for the counter of the wait group, which is a natural number only
\* because of what it counts; and a delivery waits only for an attempt it has left.
Types ==
  /\ handler \in [Events -> {"idle", "active", "recorded", "done", "panicked"}]
  /\ subs \subseteq Subs
  /\ queue \in Seq(Events) /\ Len(queue) <= Buffer
  /\ closed \in BOOLEAN /\ cancelled \in BOOLEAN
  /\ worker \in {"select", "fanOut", "exited"}
  /\ taken \in Events \cup {NoEvent}
  /\ delivery \in [Pairs -> Delivery]
  /\ \A p \in Pairs : delivery[p].at = "backoff" => delivery[p].attempt # MaxRetries
  /\ main \in {"serving", "draining", "cancel", "close", "wait", "stopped", "killed"}
  /\ deleted \subseteq Subs
  /\ steady \subseteq Pairs /\ late \subseteq Pairs
  /\ dropped \subseteq Events

\* The events in the channel, and those no delivery was begun for.
Queued == {queue[n] : n \in DOMAIN queue}
Undelivered == {e \in Events : \A s \in Subs : delivery[<<s, e>>].at = "none"}

\* An event is in one place at a time, and its deliveries begin when it has left
\* them all.
Placed ==
  /\ \A e \in Events :
       /\ e \in Queued \/ taken = e \/ e \in dropped => handler[e] = "done"
       /\ e \in Queued \/ taken = e \/ e \in dropped => e \in Undelivered
       /\ handler[e] # "done" => e \in Undelivered
       /\ e \in Queued => taken # e
       /\ e \in dropped => e \notin Queued /\ taken # e
  /\ \A m, n \in DOMAIN queue : queue[m] = queue[n] => m = n
  /\ worker = "fanOut" <=> taken # NoEvent

\* The channel is closed after the last handler.
Ordered ==
  /\ closed => main \in {"wait", "stopped"}
  /\ main \in {"cancel", "close", "wait", "stopped"} =>
       \A e \in Events : handler[e] \in {"idle", "done"}
  /\ \A e \in Events : handler[e] # "panicked"

\* A deleted subscription does not come back.
Subscribed ==
  /\ subs \cap deleted = {}
  /\ \A p \in late : p[1] \in deleted
  /\ \A p \in steady : p[1] \in subs

ActivePairs == {p \in Pairs : delivery[p].at \in Active}

\* The wait group counts the deliveries under way and the worker.
Counted == wg = Cardinality(ActivePairs) + (IF worker = "exited" THEN 0 ELSE 1)

Inv == Types /\ Placed /\ Ordered /\ Subscribed /\ Counted

-----------------------------------------------------------------------------
(* The steps, by who takes them.                                           *)

\* The variables the main goroutine leaves alone are all but these.
Mains == Signal \/ ListenFails \/ DrainTimeout \/ Stopping

LEMMA NextCases ==
  ASSUME [Next]_vars
  PROVE  \/ \E s \in Subs : CreateSubscription(s) \/ DeleteSubscription(s)
         \/ \E e \in Events : Arrive(e) \/ RecordEvent(e) \/ Dispatch(e)
         \/ Take \/ FanOut \/ WorkerExit
         \/ \E p \in Pairs : Post(p) \/ Delivered(p) \/ AttemptFailed(p)
                             \/ Retry(p) \/ Abort(p)
         \/ Mains
         \/ UNCHANGED vars
BY DEF Next, Handle, Work, Deliver, Mains

\* What a step of one delivery does to the map of deliveries.
LEMMA MoveFacts ==
  ASSUME Types, NEW p \in Pairs, NEW at \in {"none"} \cup Active \cup Ended,
         delivery' = [delivery EXCEPT ![p].at = at]
  PROVE  /\ delivery' \in [Pairs -> Delivery]
         /\ delivery'[p].at = at
         /\ delivery'[p].attempt = delivery[p].attempt
         /\ \A q \in Pairs \ {p} : delivery'[q] = delivery[q]
<1> DEFINE moved == [delivery[p] EXCEPT !.at = at]
<1>1. delivery[p] \in Delivery
  BY DEF Types
<1>2. moved \in Delivery /\ moved.at = at /\ moved.attempt = delivery[p].attempt
  BY <1>1 DEF Delivery
<1>3. delivery' = [delivery EXCEPT ![p] = moved]
  BY Zenon
<1> HIDE DEF moved
<1> QED BY <1>2, <1>3 DEF Types

\* Every step keeps the types.
LEMMA TypesStep == Types /\ Placed /\ [Next]_vars => Types'
<1> SUFFICES ASSUME Types, Placed, [Next]_vars PROVE Types'
  OBVIOUS
<1> USE BufferAssumption, RetriesAssumption DEF Types, Pairs
<1>1. ASSUME NEW s \in Subs, CreateSubscription(s) \/ DeleteSubscription(s) PROVE Types'
  BY <1>1 DEF CreateSubscription, DeleteSubscription, AddSubscription, RemoveSubscription,
              dispatcherVars, ghosts
<1>2. ASSUME NEW e \in Events, Arrive(e) \/ RecordEvent(e) PROVE Types'
  BY <1>2 DEF Arrive, RecordEvent, dispatcherVars, ghosts
<1>3. ASSUME NEW e \in Events, Dispatch(e) PROVE Types'
  <2>1. handler' \in [Events -> {"idle", "active", "recorded", "done", "panicked"}]
    BY <1>3 DEF Dispatch
  <2>2. queue' \in Seq(Events) /\ Len(queue') <= Buffer /\ dropped' \subseteq Events
    <3>1. CASE ~closed /\ Len(queue) < Buffer
      <4>1. queue' = Append(queue, e) /\ UNCHANGED dropped
        BY <1>3, <3>1 DEF Dispatch
      <4>2. Len(queue') = Len(queue) + 1 /\ queue' \in Seq(Events)
        BY <4>1
      <4> QED BY <3>1, <4>1, <4>2
    <3>2. CASE ~(~closed /\ Len(queue) < Buffer)
      BY <1>3, <3>2 DEF Dispatch
    <3> QED BY <3>1, <3>2
  <2> QED BY <1>3, <2>1, <2>2 DEF Dispatch, dispatcherVars
<1>4. CASE Take
  BY <1>4 DEF Take, ghosts
<1>5. CASE FanOut
  BY <1>5 DEF FanOut, Spawn, ghosts, Active, Delivery
<1>6. CASE WorkerExit
  BY <1>6 DEF WorkerExit, ghosts
<1>7. ASSUME NEW p \in Pairs, Post(p) \/ Delivered(p) \/ AttemptFailed(p) \/ Abort(p)
      PROVE  Types'
  <2>1. PICK at \in Active \cup Ended :
          /\ delivery' = [delivery EXCEPT ![p].at = at]
          /\ at = "backoff" => delivery[p].attempt # MaxRetries
    BY <1>7 DEF Post, Delivered, AttemptFailed, Abort, End, Last, Active, Ended
  <2>2. /\ delivery' \in [Pairs -> Delivery]
        /\ \A q \in Pairs : delivery'[q].at = "backoff" => delivery'[q].attempt # MaxRetries
    BY <2>1, MoveFacts
  <2>3. UNCHANGED Others
    BY <1>7 DEF Post, Delivered, AttemptFailed, Abort, End
  <2> QED BY <2>2, <2>3 DEF Others, ghosts
<1>8. ASSUME NEW p \in Pairs, Retry(p) PROVE Types'
  <2>1. Again(delivery[p]) \in Delivery /\ Again(delivery[p]).at = "starting"
    BY <1>8 DEF Retry, Again, Delivery, Active
  <2>2. delivery' = [delivery EXCEPT ![p] = Again(delivery[p])]
    BY <1>8, Zenon DEF Retry
  <2>3. /\ delivery' \in [Pairs -> Delivery]
        /\ \A q \in Pairs : delivery'[q].at = "backoff" => delivery'[q].attempt # MaxRetries
    BY <2>1, <2>2
  <2> QED BY <1>8, <2>3 DEF Retry, Others, ghosts
<1>9. CASE Mains
  BY <1>9 DEF Mains, Signal, ListenFails, DrainTimeout, Stopping, Drained, Cancel, Close,
              Wait, rest, ghosts
<1>10. CASE UNCHANGED vars
  BY <1>10 DEF vars
<1> QED
  BY <1>1, <1>2, <1>3, <1>4, <1>5, <1>6, <1>7, <1>8, <1>9, <1>10, NextCases

\* An event that is dispatched is queued or dropped; the others stay where they are.
LEMMA DispatchFacts ==
  ASSUME Types, Placed, Ordered, NEW e \in Events, Dispatch(e)
  PROVE  /\ handler[e] = "recorded" /\ handler' = [handler EXCEPT ![e] = "done"]
         /\ UNCHANGED <<worker, taken, delivery>>
         /\ \A d \in Events \ {e} : /\ d \in Queued' <=> d \in Queued
                                    /\ d \in dropped' <=> d \in dropped
         /\ e \in Queued' <=> e \notin dropped'
         /\ \A m, n \in DOMAIN queue' : queue'[m] = queue'[n] => m = n
<1> USE DEF Types, Placed, Queued
<1>1. /\ handler[e] = "recorded" /\ handler' = [handler EXCEPT ![e] = "done"]
      /\ UNCHANGED <<worker, taken, delivery>>
  <2>1. ~closed
    BY DEF Dispatch, Ordered
  <2> QED BY <2>1 DEF Dispatch, dispatcherVars
<1>2. e \notin Queued /\ taken # e /\ e \notin dropped
  BY <1>1
<1>3. CASE queue' = Append(queue, e) /\ UNCHANGED dropped
  <2>1. /\ DOMAIN queue' = 1..Len(queue) + 1
        /\ DOMAIN queue = 1..Len(queue)
        /\ queue'[Len(queue) + 1] = e
        /\ \A n \in DOMAIN queue : queue'[n] = queue[n]
    BY <1>3
  <2>2. DOMAIN queue' = DOMAIN queue \cup {Len(queue) + 1}
    BY <2>1
  <2>3. \A d \in Events \ {e} : d \in Queued' <=> d \in Queued
    BY <2>1, <2>2
  <2>4. \A m, n \in DOMAIN queue' : queue'[m] = queue'[n] => m = n
    BY <2>1, <1>2
  <2>5. e \in Queued'
    BY <2>1, <2>2
  <2> HIDE DEF Queued
  <2> QED BY <1>1, <1>2, <1>3, <2>3, <2>4, <2>5
<1>4. CASE UNCHANGED queue /\ dropped' = dropped \cup {e}
  BY <1>1, <1>2, <1>4
<1> QED BY <1>3, <1>4 DEF Dispatch

\* The worker takes the first event and leaves the others queued.
LEMMA TakeFacts ==
  ASSUME Types, Placed, Take
  PROVE  /\ worker' = "fanOut" /\ taken = NoEvent /\ taken' \in Events
         /\ UNCHANGED <<handler, delivery, dropped>>
         /\ taken' \in Queued
         /\ \A d \in Events : d \in Queued' <=> d \in Queued /\ d # taken'
         /\ \A m, n \in DOMAIN queue' : queue'[m] = queue'[n] => m = n
<1> USE DEF Types, Placed, Queued
<1>1. /\ queue # <<>> /\ taken' = Head(queue) /\ queue' = Tail(queue)
      /\ worker = "select" /\ worker' = "fanOut"
      /\ UNCHANGED <<handler, delivery, dropped>>
  BY DEF Take, ghosts
<1>2. /\ DOMAIN queue = 1..Len(queue) /\ Len(queue) \in Nat \ {0}
      /\ DOMAIN queue' = 1..Len(queue) - 1
      /\ \A n \in DOMAIN queue' : queue'[n] = queue[n + 1]
      /\ taken' = queue[1] /\ taken' \in Events
  BY <1>1
<1>3. \A d \in Events : d \in Queued' <=> d \in Queued /\ d # taken'
  <2>1. ASSUME NEW d \in Events, d \in Queued, d # taken' PROVE d \in Queued'
    <3>1. PICK n \in DOMAIN queue : queue[n] = d
      BY <2>1
    <3>2. n # 1 /\ n - 1 \in DOMAIN queue'
      BY <1>2, <2>1, <3>1
    <3> QED BY <1>2, <3>1, <3>2
  <2>2. ASSUME NEW d \in Events, d \in Queued' PROVE d \in Queued /\ d # taken'
    <3>1. PICK n \in DOMAIN queue' : queue'[n] = d
      BY <2>2
    <3>2. n + 1 \in DOMAIN queue /\ queue[n + 1] = d /\ n + 1 # 1 /\ 1 \in DOMAIN queue
      BY <1>2, <3>1
    <3> QED BY <1>2, <3>2
  <2> QED BY <2>1, <2>2
<1>4. taken' \in Queued
  BY <1>2
<1>5. \A m, n \in DOMAIN queue' : queue'[m] = queue'[n] => m = n
  <2> SUFFICES ASSUME NEW m \in DOMAIN queue', NEW n \in DOMAIN queue', queue'[m] = queue'[n]
               PROVE  m = n
    OBVIOUS
  <2>1. m + 1 \in DOMAIN queue /\ n + 1 \in DOMAIN queue /\ queue[m + 1] = queue[n + 1]
    BY <1>2
  <2>2. m + 1 = n + 1
    BY <2>1
  <2> QED BY <1>2, <2>2
<1> HIDE DEF Queued
<1> QED BY <1>1, <1>2, <1>3, <1>4, <1>5

\* What an action that touches neither an event's place nor a delivery keeps.
LEMMA PlacedKept ==
  Placed /\ UNCHANGED <<handler, queue, worker, taken, delivery, dropped>> => Placed'
BY DEF Placed, Queued, Undelivered

\* Every step keeps each event in one place.
LEMMA PlacedStep == Types /\ Placed /\ Ordered /\ [Next]_vars => Placed'
<1> SUFFICES ASSUME Types, Placed, Ordered, [Next]_vars PROVE Placed'
  OBVIOUS
<1> USE DEF Types, Placed, Queued, Undelivered, Pairs
<1>1. ASSUME NEW s \in Subs, CreateSubscription(s) \/ DeleteSubscription(s) PROVE Placed'
  BY <1>1, PlacedKept DEF CreateSubscription, DeleteSubscription, dispatcherVars, ghosts
<1>2. ASSUME NEW e \in Events, Arrive(e) \/ RecordEvent(e) PROVE Placed'
  BY <1>2 DEF Arrive, RecordEvent, dispatcherVars, ghosts
<1>3. ASSUME NEW e \in Events, Dispatch(e) PROVE Placed'
  <2>1. \A d \in Events : d \in Undelivered' <=> d \in Undelivered
    BY <1>3, DispatchFacts
  <2>2. e \notin Queued /\ taken # e /\ e \notin dropped /\ e \in Undelivered
    BY <1>3, DispatchFacts
  <2>3. /\ handler' = [handler EXCEPT ![e] = "done"] /\ UNCHANGED <<worker, taken>>
        /\ \A d \in Events \ {e} : /\ d \in Queued' <=> d \in Queued
                                   /\ d \in dropped' <=> d \in dropped
        /\ e \in Queued' <=> e \notin dropped'
        /\ \A m, n \in DOMAIN queue' : queue'[m] = queue'[n] => m = n
    BY <1>3, DispatchFacts
  <2> HIDE DEF Queued, Undelivered
  <2> QED BY <2>1, <2>2, <2>3
<1>4. CASE Take
  <2> HIDE DEF Queued
  <2> QED BY <1>4, TakeFacts, NoEventAssumption
<1>5. CASE FanOut
  <2>1. /\ taken \in Events /\ taken' = NoEvent /\ worker' = "select"
        /\ UNCHANGED <<handler, queue, dropped>>
    BY <1>5 DEF FanOut, ghosts
  <2>2. \A p \in Pairs : p[2] # taken => delivery'[p] = delivery[p]
    BY <1>5 DEF FanOut, Spawn, Targets
  <2>3. \A e \in Events \ {taken} : e \in Undelivered => e \in Undelivered'
    BY <2>2
  <2> HIDE DEF Undelivered
  <2> QED BY <2>1, <2>3, NoEventAssumption
<1>6. CASE WorkerExit
  BY <1>6 DEF WorkerExit, ghosts
<1>7. ASSUME NEW p \in Pairs,
             Post(p) \/ Delivered(p) \/ AttemptFailed(p) \/ Retry(p) \/ Abort(p)
      PROVE  Placed'
  <2>1. /\ delivery[p].at \in Active
        /\ \A q \in Pairs \ {p} : delivery'[q] = delivery[q]
        /\ UNCHANGED Others
    BY <1>7 DEF Post, Delivered, AttemptFailed, Retry, Abort, End, Active
  <2>2. PICK s \in Subs, e \in Events : p = <<s, e>>
    OBVIOUS
  <2>3. e \notin Undelivered
    BY <2>1, <2>2 DEF Active
  <2>4. \A d \in Events \ {e} : d \in Undelivered => d \in Undelivered'
    BY <2>1, <2>2
  <2> HIDE DEF Undelivered
  <2> QED BY <2>1, <2>3, <2>4 DEF Others, ghosts
<1>8. CASE Mains
  <2>1. UNCHANGED <<handler, queue, worker, taken, delivery, dropped>>
    BY <1>8 DEF Mains, Signal, ListenFails, DrainTimeout, Stopping, Drained, Cancel, Close,
                Wait, rest, ghosts
  <2> QED BY <2>1, PlacedKept
<1>9. CASE UNCHANGED vars
  BY <1>9, PlacedKept DEF vars
<1> QED
  BY <1>1, <1>2, <1>3, <1>4, <1>5, <1>6, <1>7, <1>8, <1>9, NextCases

\* Every step keeps the order of the shutdown, and no handler meets a closed channel.
LEMMA OrderedStep == Types /\ Ordered /\ [Next]_vars => Ordered'
<1> SUFFICES ASSUME Types, Ordered, [Next]_vars PROVE Ordered'
  OBVIOUS
<1> USE DEF Types, Ordered
<1>1. ASSUME NEW s \in Subs, CreateSubscription(s) \/ DeleteSubscription(s) PROVE Ordered'
  BY <1>1 DEF CreateSubscription, DeleteSubscription, dispatcherVars, ghosts
<1>2. ASSUME NEW e \in Events, Arrive(e) \/ RecordEvent(e) PROVE Ordered'
  BY <1>2 DEF Arrive, RecordEvent, Listening, dispatcherVars, ghosts
<1>3. ASSUME NEW e \in Events, Dispatch(e) PROVE Ordered'
  <2>1. ~closed
    BY <1>3 DEF Dispatch
  <2> QED BY <1>3, <2>1 DEF Dispatch, dispatcherVars
<1>4. CASE Take \/ FanOut \/ WorkerExit
  BY <1>4 DEF Take, FanOut, WorkerExit, ghosts
<1>5. ASSUME NEW p \in Pairs,
             Post(p) \/ Delivered(p) \/ AttemptFailed(p) \/ Retry(p) \/ Abort(p)
      PROVE  Ordered'
  BY <1>5 DEF Post, Delivered, AttemptFailed, Retry, Abort, Others
<1>6. CASE Mains
  BY <1>6 DEF Mains, Signal, ListenFails, DrainTimeout, Stopping, Drained, Cancel, Close,
              Wait, rest
<1>7. CASE UNCHANGED vars
  BY <1>7 DEF vars
<1> QED BY <1>1, <1>2, <1>3, <1>4, <1>5, <1>6, <1>7, NextCases

\* Every step keeps the ghost pairs true to the subscriptions there are.
LEMMA SubscribedStep == Types /\ Subscribed /\ [Next]_vars => Subscribed'
<1> SUFFICES ASSUME Types, Subscribed, [Next]_vars PROVE Subscribed'
  OBVIOUS
<1> USE DEF Types, Subscribed, Pairs
<1>1. ASSUME NEW s \in Subs, CreateSubscription(s) PROVE Subscribed'
  BY <1>1 DEF CreateSubscription, AddSubscription, ghosts
<1>2. ASSUME NEW s \in Subs, DeleteSubscription(s) PROVE Subscribed'
  BY <1>2 DEF DeleteSubscription, RemoveSubscription
<1>3. ASSUME NEW e \in Events, RecordEvent(e) PROVE Subscribed'
  BY <1>3 DEF RecordEvent
<1>4. ASSUME NEW e \in Events, Arrive(e) \/ Dispatch(e) PROVE Subscribed'
  BY <1>4 DEF Arrive, Dispatch, ghosts
<1>5. CASE Take \/ FanOut \/ WorkerExit
  BY <1>5 DEF Take, FanOut, WorkerExit, ghosts
<1>6. ASSUME NEW p \in Pairs,
             Post(p) \/ Delivered(p) \/ AttemptFailed(p) \/ Retry(p) \/ Abort(p)
      PROVE  Subscribed'
  BY <1>6 DEF Post, Delivered, AttemptFailed, Retry, Abort, Others, ghosts
<1>7. CASE Mains
  BY <1>7 DEF Mains, Signal, ListenFails, DrainTimeout, Stopping, Drained, Cancel, Close,
              Wait, rest, ghosts
<1>8. CASE UNCHANGED vars
  BY <1>8 DEF vars
<1> QED BY <1>1, <1>2, <1>3, <1>4, <1>5, <1>6, <1>7, <1>8, NextCases

-----------------------------------------------------------------------------
(* The wait group.                                                         *)

\* There are finitely many deliveries, as many of them as a number under way.
LEMMA PairsFinite == IsFiniteSet(Pairs)
BY FiniteAssumption, FS_Product DEF Pairs

LEMMA ActiveFinite == IsFiniteSet(ActivePairs) /\ Cardinality(ActivePairs) \in Nat
<1>1. ActivePairs \subseteq Pairs
  BY DEF ActivePairs
<1> QED BY <1>1, PairsFinite, FS_Subset, FS_CardinalityType

\* The end of a delivery leaves one fewer under way.
LEMMA EndFacts ==
  ASSUME Types, NEW p \in Pairs, NEW at \in Ended, delivery[p].at \in Active, End(p, at)
  PROVE  /\ Cardinality(ActivePairs)' = Cardinality(ActivePairs) - 1
         /\ wg' = wg - 1
<1>1. /\ delivery'[p].at = at
      /\ \A q \in Pairs \ {p} : delivery'[q] = delivery[q]
  BY MoveFacts DEF End
<1>2. ActivePairs' = ActivePairs \ {p}
  BY <1>1 DEF ActivePairs, Active, Ended
<1>3. p \in ActivePairs
  BY DEF ActivePairs
<1> QED BY <1>2, <1>3, ActiveFinite, FS_RemoveElement DEF End

\* The deliveries a fan-out begins were not under way, and it counts them all.
LEMMA FanOutFacts ==
  ASSUME Types, Placed, FanOut
  PROVE  /\ Cardinality(ActivePairs)' = Cardinality(ActivePairs) + Cardinality(Targets(taken))
         /\ wg' = wg + Cardinality(Targets(taken))
         /\ Cardinality(Targets(taken)) \in Nat
<1> DEFINE T == Targets(taken)
<1>1. taken \in Events /\ T \subseteq Pairs
  BY DEF FanOut, Placed, Types, Targets, ListSubscriptions, Pairs
<1>2. IsFiniteSet(T)
  BY <1>1, PairsFinite, FS_Subset
<1>3. \A p \in T : delivery[p].at = "none"
  BY <1>1 DEF Placed, Undelivered, Targets, ListSubscriptions, Types
<1>4. T \cap ActivePairs = {}
  BY <1>3 DEF ActivePairs, Active
<1>5. ActivePairs' = ActivePairs \cup T
  BY <1>1 DEF FanOut, Spawn, ActivePairs, Active
<1>6. Cardinality(T) \in Nat
  BY <1>2, FS_CardinalityType
<1>7. Cardinality(ActivePairs \cup T) =
        Cardinality(ActivePairs) + Cardinality(T) - Cardinality(ActivePairs \cap T)
  BY <1>2, ActiveFinite, FS_Union
<1>8. Cardinality(ActivePairs \cap T) = 0
  BY <1>4, FS_EmptySet
<1>9. wg' = wg + Cardinality(T)
  BY DEF FanOut, Spawn
<1> HIDE DEF T
<1>10. Cardinality(ActivePairs)' = Cardinality(ActivePairs) + Cardinality(T)
  BY <1>5, <1>6, <1>7, <1>8, ActiveFinite
<1> QED BY <1>6, <1>9, <1>10 DEF T

\* Every step keeps the count.
LEMMA CountedStep == Types /\ Placed /\ Counted /\ [Next]_vars => Counted'
<1> SUFFICES ASSUME Types, Placed, Counted, [Next]_vars PROVE Counted'
  OBVIOUS
<1>1. ASSUME UNCHANGED <<delivery, wg, worker>> PROVE Counted'
  BY <1>1 DEF Counted, ActivePairs
<1>2. ASSUME NEW s \in Subs, CreateSubscription(s) \/ DeleteSubscription(s) PROVE Counted'
  BY <1>1, <1>2 DEF CreateSubscription, DeleteSubscription, dispatcherVars
<1>3. ASSUME NEW e \in Events, Arrive(e) \/ RecordEvent(e) \/ Dispatch(e) PROVE Counted'
  BY <1>1, <1>3 DEF Arrive, RecordEvent, Dispatch, dispatcherVars
<1>4. CASE Take
  <2>1. Cardinality(ActivePairs)' = Cardinality(ActivePairs)
    BY <1>4 DEF Take, ActivePairs
  <2> QED BY <1>4, <2>1 DEF Take, Counted
<1>5. CASE FanOut
  <2>1. worker # "exited" /\ worker' # "exited"
    BY <1>5 DEF FanOut
  <2> QED BY <1>5, <2>1, FanOutFacts, ActiveFinite DEF Counted
<1>6. CASE WorkerExit
  <2>1. Cardinality(ActivePairs)' = Cardinality(ActivePairs)
    BY <1>6 DEF WorkerExit, ActivePairs
  <2>2. worker # "exited" /\ worker' = "exited" /\ wg' = wg - 1
    BY <1>6 DEF WorkerExit
  <2> QED BY <2>1, <2>2, ActiveFinite DEF Counted
<1>7. ASSUME NEW p \in Pairs, Delivered(p) \/ AttemptFailed(p) \/ Abort(p),
             NEW at \in Ended, End(p, at)
      PROVE  Counted'
  <2>1. delivery[p].at \in Active /\ UNCHANGED worker
    BY <1>7 DEF Delivered, AttemptFailed, Abort, Active, Others
  <2> QED BY <1>7, <2>1, EndFacts, ActiveFinite DEF Counted
<1>8. ASSUME NEW p \in Pairs, Post(p) \/ AttemptFailed(p) \/ Retry(p), UNCHANGED wg
      PROVE  Counted'
  <2>1. /\ delivery[p].at \in Active /\ delivery'[p].at \in Active
        /\ \A q \in Pairs \ {p} : delivery'[q] = delivery[q]
        /\ UNCHANGED worker
    <3>1. CASE Retry(p)
      BY <3>1 DEF Retry, Again, Active, Others, Types
    <3>2. CASE Post(p) \/ AttemptFailed(p)
      <4>1. PICK at \in Active \cup Ended :
              /\ delivery' = [delivery EXCEPT ![p].at = at]
              /\ at \in Active \/ End(p, at)
        BY <3>2 DEF Post, AttemptFailed, Active, Ended, End
      <4>2. at \in Active
        BY <1>8, <4>1, ActiveFinite DEF End, Counted
      <4> QED BY <3>2, <4>1, <4>2, MoveFacts DEF Post, AttemptFailed, Active, Others
    <3> QED BY <1>8, <3>1, <3>2
  <2>2. ActivePairs' = ActivePairs
    BY <2>1 DEF ActivePairs
  <2> QED BY <1>8, <2>1, <2>2 DEF Counted
<1>9. ASSUME NEW p \in Pairs,
             Post(p) \/ Delivered(p) \/ AttemptFailed(p) \/ Retry(p) \/ Abort(p)
      PROVE  Counted'
  BY <1>7, <1>8, <1>9 DEF Post, Delivered, AttemptFailed, Retry, Abort, End, Ended
<1>10. CASE Mains
  BY <1>1, <1>10 DEF Mains, Signal, ListenFails, DrainTimeout, Stopping, Drained, Cancel,
                     Close, Wait, rest
<1>11. CASE UNCHANGED vars
  BY <1>1, <1>11 DEF vars
<1> QED BY <1>2, <1>3, <1>4, <1>5, <1>6, <1>9, <1>10, <1>11, NextCases

-----------------------------------------------------------------------------
(* The theorems.                                                           *)

LEMMA InvInit == Init => Inv
<1> SUFFICES ASSUME Init PROVE Inv
  OBVIOUS
<1>1. Types
  <2>1. Unborn \in Delivery /\ Unborn.at = "none"
    BY RetriesAssumption DEF Unborn, Delivery
  <2>2. delivery \in [Pairs -> Delivery] /\ \A p \in Pairs : delivery[p].at = "none"
    BY <2>1 DEF Init
  <2>3. queue \in Seq(Events) /\ Len(queue) <= Buffer
    BY BufferAssumption DEF Init
  <2> QED BY <2>2, <2>3 DEF Init, Types
<1>2. Placed /\ Ordered /\ Subscribed
  <2>1. DOMAIN queue = {} /\ \A e \in Events : handler[e] = "idle" /\ e \in Undelivered
    BY DEF Init, Undelivered, Unborn, Pairs
  <2>2. \A e \in Events : e \notin Queued /\ taken # e
    BY <2>1, NoEventAssumption DEF Queued, Init
  <2> QED BY <2>1, <2>2 DEF Init, Placed, Ordered, Subscribed
<1>3. ActivePairs = {}
  BY DEF Init, ActivePairs, Active, Unborn
<1>4. Counted
  BY <1>3, FS_EmptySet DEF Counted, Init
<1> QED BY <1>1, <1>2, <1>4 DEF Inv

\* The invariant is inductive: events are in one place at a time, the channel is
\* closed after the last handler, and the wait group counts what runs.
THEOREM Inductive == Spec => []Inv
<1>1. Inv /\ [Next]_vars => Inv'
  BY TypesStep, PlacedStep, OrderedStep, SubscribedStep, CountedStep DEF Inv
<1> QED BY InvInit, <1>1, PTL DEF Spec

\* Type correctness; the wait group never falls below zero, which would panic.
THEOREM TypeCorrect == Spec => []TypeOK
<1>1. Inv => TypeOK
  BY ActiveFinite DEF Inv, Types, Counted, TypeOK, Delivery
<1> QED BY <1>1, Inductive, PTL

\* No handler sends on the closed channel.
THEOREM NoPanic == Spec => []NeverPanics
<1>1. Inv => NeverPanics
  BY DEF Inv, Ordered, NeverPanics
<1> QED BY <1>1, Inductive, PTL

\* A step of the deliveries begins none but those of a fan-out.
LEMMA BornInFanOut ==
  ASSUME Types, [Next]_vars, ~FanOut, NEW p \in Pairs, delivery[p].at = "none"
  PROVE  delivery'[p].at = "none"
<1>1. ASSUME NEW q \in Pairs,
             Post(q) \/ Delivered(q) \/ AttemptFailed(q) \/ Retry(q) \/ Abort(q)
      PROVE  delivery'[p] = delivery[p]
  BY <1>1 DEF Post, Delivered, AttemptFailed, Retry, Abort, End, Types
<1> QED
  BY <1>1, NextCases
  DEF CreateSubscription, DeleteSubscription, Arrive, RecordEvent, Dispatch, Take,
      WorkerExit, Mains, Signal, ListenFails, DrainTimeout, Stopping, Drained, Cancel,
      Close, Wait, rest, dispatcherVars, vars

\* A deleted subscription gets nothing for an event recorded later.
THEOREM DeletedGetNothing == Spec => []NothingAfterDeletion
<1>1. Init => NothingAfterDeletion
  BY DEF Init, NothingAfterDeletion
<1>2. ASSUME Inv, NothingAfterDeletion, [Next]_vars PROVE NothingAfterDeletion'
  <2> SUFFICES ASSUME NEW p \in late' PROVE delivery'[p].at = "none"
    BY DEF NothingAfterDeletion
  <2>1. p \in Pairs /\ p[1] \in deleted' /\ Types /\ Types'
    BY <1>2, TypesStep, SubscribedStep DEF Inv, Types, Subscribed
  <2>2. delivery[p].at = "none"
    <3>1. CASE p \in late
      BY <1>2, <3>1 DEF NothingAfterDeletion
    <3>2. CASE p \notin late
      <4>1. PICK e \in Events : RecordEvent(e)
        BY <1>2, <3>2, NextCases
        DEF CreateSubscription, DeleteSubscription, Arrive, Dispatch, Take, FanOut, WorkerExit,
            Post, Delivered, AttemptFailed, Retry, Abort, Others, Mains, Signal, ListenFails,
            DrainTimeout, Stopping, Drained, Cancel, Close, Wait, rest, ghosts, vars
      <4>2. p[2] = e /\ p = <<p[1], e>> /\ p[1] \in Subs /\ handler[e] # "done"
        BY <2>1, <3>2, <4>1 DEF RecordEvent, Types, Pairs
      <4> QED BY <1>2, <4>2 DEF Inv, Placed, Undelivered
    <3> QED BY <3>1, <3>2
  <2>3. CASE FanOut
    <3>1. p[1] \in deleted /\ deleted \cap subs = {}
      BY <1>2, <2>1, <2>3 DEF FanOut, ghosts, Inv, Subscribed
    <3>2. p \notin Targets(taken)
      BY <3>1 DEF Targets, ListSubscriptions
    <3> QED BY <2>1, <2>2, <2>3, <3>2 DEF FanOut, Spawn
  <2>4. CASE ~FanOut
    BY <1>2, <2>1, <2>2, <2>4, BornInFanOut
  <2> QED BY <2>3, <2>4
<1>3. Inv /\ NothingAfterDeletion /\ [Next]_vars => NothingAfterDeletion'
  BY <1>2
<1> QED BY <1>1, <1>3, Inductive, PTL DEF Spec

\* What has ended when Stop returns stays ended.
THEOREM StopIsQuiet == Spec => []QuietAfterStop
<1> DEFINE Gone == worker = "exited" /\ ActivePairs = {}
<1>1. QuietAfterStop <=> (main = "stopped" => Gone)
  BY DEF QuietAfterStop, ActivePairs
<1>2. Init => QuietAfterStop
  BY DEF Init, QuietAfterStop
<1>3. ASSUME Inv, wg = 0 PROVE Gone
  <2>1. Cardinality(ActivePairs) = 0 /\ worker = "exited"
    BY <1>3, ActiveFinite DEF Inv, Counted
  <2> QED BY <2>1, ActiveFinite, FS_EmptySet
<1>4. ASSUME Inv, Gone, [Next]_vars PROVE Gone'
  <2>1. worker' = "exited"
    BY <1>4, NextCases
    DEF CreateSubscription, DeleteSubscription, Arrive, RecordEvent, Dispatch, Take, FanOut,
        WorkerExit, Post, Delivered, AttemptFailed, Retry, Abort, Others, Mains, Signal,
        ListenFails, DrainTimeout, Stopping, Drained, Cancel, Close, Wait, rest,
        dispatcherVars, vars
  <2>2. UNCHANGED delivery
    <3>1. \A p \in Pairs : delivery[p].at \notin Active
      BY <1>4 DEF ActivePairs
    <3> QED
      BY <1>4, <3>1, NextCases
      DEF CreateSubscription, DeleteSubscription, Arrive, RecordEvent, Dispatch, Take, FanOut,
          WorkerExit, Post, Delivered, AttemptFailed, Retry, Abort, Mains, Signal,
          ListenFails, DrainTimeout, Stopping, Drained, Cancel, Close, Wait, rest,
          dispatcherVars, vars, Active
  <2> QED BY <1>4, <2>1, <2>2 DEF ActivePairs
<1>5. ASSUME main # "stopped", main' = "stopped", [Next]_vars PROVE Wait
  BY <1>5, NextCases
  DEF CreateSubscription, DeleteSubscription, Arrive, RecordEvent, Dispatch, Take, FanOut,
      WorkerExit, Post, Delivered, AttemptFailed, Retry, Abort, Others, Mains, Signal,
      ListenFails, DrainTimeout, Stopping, Drained, Cancel, Close, vars
<1>6. ASSUME Inv, QuietAfterStop, [Next]_vars PROVE QuietAfterStop'
  <2>1. CASE main = "stopped"
    BY <1>1, <1>4, <1>6, <2>1 DEF QuietAfterStop, ActivePairs
  <2>2. CASE main # "stopped" /\ main' = "stopped"
    <3>1. Wait
      BY <1>5, <1>6, <2>2
    <3>2. Gone
      BY <1>3, <1>6, <3>1 DEF Wait
    <3> QED BY <1>4, <1>6, <3>2 DEF QuietAfterStop, ActivePairs
  <2>3. CASE main' # "stopped"
    BY <2>3 DEF QuietAfterStop
  <2> QED BY <2>1, <2>2, <2>3
<1>7. Inv /\ QuietAfterStop /\ [Next]_vars => QuietAfterStop'
  BY <1>6
<1> QED BY <1>2, <1>7, Inductive, PTL DEF Spec

-----------------------------------------------------------------------------
(* No event is lost without a reason, and the refinement.                  *)

\* The events whose deliveries have begun.
FannedOut == {e \in Events : Handled(e) /\ e \notin dropped}

\* Only a fan-out adds to them, and it adds the event the worker holds.
LEMMA FannedOutStep ==
  ASSUME Inv, [Next]_vars
  PROVE  /\ FanOut => taken \in Events \ FannedOut /\ FannedOut' = FannedOut \cup {taken}
         /\ ~FanOut => FannedOut' = FannedOut
<1> USE DEF Inv
<1>1. FannedOut = {e \in Events : /\ handler[e] = "done" /\ taken # e
                                  /\ e \notin Queued /\ e \notin dropped}
  BY DEF FannedOut, Handled, Queued
<1>2. FannedOut' = {e \in Events : /\ handler'[e] = "done" /\ taken' # e
                                   /\ e \notin Queued' /\ e \notin dropped'}
  BY DEF FannedOut, Handled, Queued
<1>3. ASSUME FanOut
      PROVE  taken \in Events \ FannedOut /\ FannedOut' = FannedOut \cup {taken}
  <2>1. /\ taken \in Events /\ taken' = NoEvent
        /\ handler' = handler /\ Queued' = Queued /\ dropped' = dropped
    BY <1>3 DEF FanOut, ghosts, Placed, Types, Queued
  <2>2. handler[taken] = "done" /\ taken \notin Queued /\ taken \notin dropped
    BY <2>1 DEF Placed
  <2> QED BY <1>1, <1>2, <2>1, <2>2, NoEventAssumption
<1>4. ASSUME UNCHANGED <<handler, taken, queue, dropped>> PROVE FannedOut' = FannedOut
  BY <1>1, <1>2, <1>4 DEF Queued
<1>5. ASSUME NEW e \in Events, Arrive(e) \/ RecordEvent(e) PROVE FannedOut' = FannedOut
  <2>1. /\ UNCHANGED <<taken, queue, dropped>>
        /\ \A d \in Events : handler'[d] = "done" <=> handler[d] = "done"
    BY <1>5 DEF Arrive, RecordEvent, dispatcherVars, ghosts, Types
  <2> QED BY <1>1, <1>2, <2>1 DEF Queued
<1>6. ASSUME NEW e \in Events, Dispatch(e) PROVE FannedOut' = FannedOut
  <2>1. e \notin FannedOut /\ e \notin FannedOut'
    BY <1>1, <1>2, <1>6, DispatchFacts
  <2>2. \A d \in Events \ {e} : d \in FannedOut' <=> d \in FannedOut
    BY <1>1, <1>2, <1>6, DispatchFacts DEF Types
  <2> QED BY <1>1, <1>2, <2>1, <2>2
<1>7. ASSUME Take PROVE FannedOut' = FannedOut
  <2>1. \A d \in Events : d \in FannedOut' <=> d \in FannedOut
    BY <1>1, <1>2, <1>7, TakeFacts, NoEventAssumption DEF Placed
  <2> QED BY <1>1, <1>2, <2>1
<1>8. ASSUME ~FanOut PROVE FannedOut' = FannedOut
  <2>1. CASE UNCHANGED <<handler, taken, queue, dropped>>
    BY <1>4, <2>1
  <2>2. CASE ~UNCHANGED <<handler, taken, queue, dropped>>
    <3>1. \/ \E e \in Events : Arrive(e) \/ RecordEvent(e) \/ Dispatch(e)
          \/ Take
      BY <1>8, <2>2, NextCases
      DEF CreateSubscription, DeleteSubscription, WorkerExit, Post, Delivered, AttemptFailed,
          Retry, Abort, Others, Mains, Signal, ListenFails, DrainTimeout, Stopping, Drained,
          Cancel, Close, Wait, rest, ghosts, dispatcherVars, vars
    <3> QED BY <1>5, <1>6, <1>7, <3>1
  <2> QED BY <2>1, <2>2
<1> QED BY <1>3, <1>8

\* A delivery that has begun stays begun.
LEMMA BegunStays ==
  ASSUME Types, [Next]_vars, NEW p \in Pairs, delivery[p].at # "none"
  PROVE  delivery'[p].at # "none"
<1>1. ASSUME NEW q \in Pairs,
             Post(q) \/ Delivered(q) \/ AttemptFailed(q) \/ Retry(q) \/ Abort(q)
      PROVE  delivery'[p].at # "none"
  <2>1. CASE Retry(q)
    BY <2>1 DEF Retry, Again, Types
  <2>2. CASE ~Retry(q)
    <3>1. PICK at \in Active \cup Ended : delivery' = [delivery EXCEPT ![q].at = at]
      BY <1>1, <2>2 DEF Post, Delivered, AttemptFailed, Abort, End, Active, Ended
    <3> QED BY <3>1, MoveFacts DEF Active, Ended
  <2> QED BY <2>1, <2>2
<1>2. CASE FanOut
  BY <1>2 DEF FanOut, Spawn
<1> QED
  BY <1>1, <1>2, NextCases
  DEF CreateSubscription, DeleteSubscription, Arrive, RecordEvent, Dispatch, Take,
      WorkerExit, Mains, Signal, ListenFails, DrainTimeout, Stopping, Drained, Cancel,
      Close, Wait, rest, dispatcherVars, vars

\* An event is lost to a steady subscription only in a full channel.
THEOREM LossesExplained == Spec => []LossExplained
<1>1. LossExplained <=> \A s \in Subs, e \in FannedOut :
        <<s, e>> \in steady /\ e \in Wants[s] => delivery[<<s, e>>].at # "none"
  BY DEF LossExplained, FannedOut
<1>2. Init => LossExplained
  BY DEF Init, LossExplained
<1>3. ASSUME Inv, LossExplained, [Next]_vars PROVE LossExplained'
  <2> SUFFICES ASSUME NEW s \in Subs, NEW e \in FannedOut',
                      <<s, e>> \in steady', e \in Wants[s]
               PROVE  delivery'[<<s, e>>].at # "none"
    BY DEF LossExplained, FannedOut
  <2>1. e \in Events /\ <<s, e>> \in Pairs
    BY DEF FannedOut, Pairs
  <2>2. CASE FanOut /\ e = taken
    <3>1. s \in subs
      BY <1>3, <2>2 DEF FanOut, ghosts, Inv, Subscribed
    <3>2. <<s, e>> \in Targets(taken)
      BY <2>2, <3>1 DEF Targets, ListSubscriptions
    <3> QED BY <2>1, <2>2, <3>2 DEF FanOut, Spawn
  <2>3. CASE ~(FanOut /\ e = taken)
    <3>1. e \in FannedOut
      BY <1>3, <2>3, FannedOutStep
    <3>2. <<s, e>> \in steady
      <4>1. ~RecordEvent(e)
        BY <3>1 DEF RecordEvent, FannedOut, Handled
      <4>2. ASSUME NEW d \in Events, RecordEvent(d) PROVE <<s, e>> \in steady
        BY <2>1, <4>1, <4>2 DEF RecordEvent
      <4> QED
        BY <1>3, <2>1, <4>2, NextCases
        DEF CreateSubscription, DeleteSubscription, Arrive, Dispatch, Take, FanOut, WorkerExit,
            Post, Delivered, AttemptFailed, Retry, Abort, Others, Mains, Signal, ListenFails,
            DrainTimeout, Stopping, Drained, Cancel, Close, Wait, rest, ghosts, vars
    <3>3. delivery[<<s, e>>].at # "none"
      BY <1>1, <1>3, <3>1, <3>2
    <3> QED BY <1>3, <2>1, <3>3, BegunStays DEF Inv
  <2> QED BY <2>2, <2>3
<1>4. Inv /\ LossExplained /\ [Next]_vars => LossExplained'
  BY <1>3
<1> QED BY <1>2, <1>4, Inductive, PTL DEF Spec

\* The parts of the refinement mapping.
Recorded == {e \in Events : handler[e] \in {"recorded", "done", "panicked"}}

Phases == [p \in Pairs |-> Phase(delivery[p])]

\* The log grows only when a handler records its event, once.
LEMMA RecordedStep ==
  ASSUME Types, [Next]_vars
  PROVE  \/ Recorded' = Recorded
         \/ \E e \in Events : /\ RecordEvent(e)
                              /\ e \notin Recorded /\ Recorded' = Recorded \cup {e}
<1>1. ASSUME NEW e \in Events, RecordEvent(e)
      PROVE  e \notin Recorded /\ Recorded' = Recorded \cup {e}
  BY <1>1 DEF RecordEvent, Recorded, Types
<1>2. ASSUME NEW e \in Events, Arrive(e) \/ Dispatch(e) PROVE Recorded' = Recorded
  BY <1>2 DEF Arrive, Dispatch, Recorded, Types
<1>3. ASSUME UNCHANGED handler PROVE Recorded' = Recorded
  BY <1>3 DEF Recorded
<1> QED
  BY <1>1, <1>2, <1>3, NextCases
  DEF CreateSubscription, DeleteSubscription, Take, FanOut, WorkerExit, Post, Delivered,
      AttemptFailed, Retry, Abort, Others, Mains, Signal, ListenFails, DrainTimeout, Stopping,
      Drained, Cancel, Close, Wait, rest, vars

\* A step of a delivery is invisible, or ends it.
LEMMA DeliverPhases ==
  ASSUME Types, NEW p \in Pairs,
         Post(p) \/ Delivered(p) \/ AttemptFailed(p) \/ Retry(p) \/ Abort(p)
  PROVE  \/ Phases' = Phases
         \/ Phases[p] = "active" /\ Phases' = [Phases EXCEPT ![p] = "ended"]
<1>1. delivery[p].at \in Active
  BY DEF Post, Delivered, AttemptFailed, Retry, Abort, Active
<1>2. /\ \A q \in Pairs \ {p} : delivery'[q] = delivery[q]
      /\ delivery'[p].at \in Active \cup Ended
  <2>1. CASE Retry(p)
    BY <2>1 DEF Retry, Again, Active, Types
  <2>2. CASE ~Retry(p)
    <3>1. PICK at \in Active \cup Ended : delivery' = [delivery EXCEPT ![p].at = at]
      BY <2>2 DEF Post, Delivered, AttemptFailed, Abort, End, Active, Ended
    <3> QED BY <3>1, MoveFacts
  <2> QED BY <2>1, <2>2
<1>3. Phases[p] = "active" /\ \A q \in Pairs \ {p} : Phases'[q] = Phases[q]
  BY <1>1, <1>2 DEF Phases, Phase
<1>4. Phases'[p] \in {"active", "ended"}
  BY <1>2 DEF Phases, Phase, Active, Ended
<1>5. Phases = [q \in Pairs |-> Phases[q]] /\ Phases' = [q \in Pairs |-> Phases'[q]]
  BY DEF Phases
<1> HIDE DEF Phases
<1>6. CASE Phases'[p] = "active"
  <2>1. \A q \in Pairs : Phases'[q] = Phases[q]
    BY <1>3, <1>6
  <2> QED BY <1>5, <2>1
<1>7. CASE Phases'[p] = "ended"
  <2>1. \A q \in Pairs : Phases'[q] = [Phases EXCEPT ![p] = "ended"][q]
    BY <1>3, <1>5, <1>7
  <2> QED BY <1>3, <1>5, <2>1
<1> QED BY <1>4, <1>6, <1>7

\* A fan-out begins the deliveries to the subscriptions that want the event.
LEMMA FanOutPhases ==
  ASSUME Types, FanOut
  PROVE  Phases' = [p \in Pairs |->
                      IF p \in {s \in subs : taken \in Wants[s]} \X {taken}
                      THEN "active" ELSE Phases[p]]
<1>1. \A p \in Pairs :
        Phase(delivery'[p]) = IF p \in {s \in subs : taken \in Wants[s]} \X {taken}
                              THEN "active" ELSE Phase(delivery[p])
  BY DEF FanOut, Spawn, Targets, ListSubscriptions, Phase, Active
<1> QED BY <1>1 DEF Phases

\* The initial states of Webhooks are initial states of WebhookContract.
LEMMA ContractInit == Init => Contract!Init
<1> SUFFICES ASSUME Init PROVE Contract!Init
  OBVIOUS
<1>1. Recorded = {} /\ FannedOut = {}
  BY DEF Init, Recorded, FannedOut, Handled
<1>2. Phases = [p \in Subs \X Events |-> "none"]
  BY DEF Init, Phases, Phase, Unborn, Active, Pairs
<1> QED BY <1>1, <1>2 DEF Init, Contract!Init, Recorded, FannedOut, Phases

\* Every step of Webhooks is a step of WebhookContract, or invisible in it.
LEMMA ContractStep == Inv /\ Inv' /\ QuietAfterStop /\ [Next]_vars =>
                        [Contract!Next]_(Contract!cvars)
<1> SUFFICES ASSUME Inv, Inv', QuietAfterStop, [Next]_vars
             PROVE  [Contract!Next]_(Contract!cvars)
  OBVIOUS
<1> DEFINE Stopped == main = "stopped"
<1>1. ASSUME UNCHANGED <<Recorded, subs, FannedOut, Phases, Stopped>>
      PROVE  UNCHANGED Contract!cvars
  BY <1>1 DEF Contract!cvars, Recorded, FannedOut, Phases
<1>2. ASSUME NEW s \in Subs, CreateSubscription(s) PROVE Contract!Subscribe(s)
  <2>1. UNCHANGED <<Recorded, FannedOut, Phases, Stopped>> /\ subs' = subs \cup {s}
    BY <1>2 DEF CreateSubscription, AddSubscription, dispatcherVars, ghosts, Recorded,
                FannedOut, Handled, Phases
  <2> QED BY <2>1 DEF Contract!Subscribe, Recorded, FannedOut, Phases
<1>3. ASSUME NEW s \in Subs, DeleteSubscription(s) PROVE Contract!Unsubscribe(s)
  <2>1. UNCHANGED <<Recorded, FannedOut, Phases, Stopped>> /\ subs' = subs \ {s}
    BY <1>3 DEF DeleteSubscription, RemoveSubscription, dispatcherVars, Recorded,
                FannedOut, Handled, Phases
  <2> QED BY <2>1 DEF Contract!Unsubscribe, Recorded, FannedOut, Phases
<1>4. ASSUME NEW e \in Events, RecordEvent(e) PROVE Contract!Record(e)
  <2>1. e \notin Recorded /\ Recorded' = Recorded \cup {e}
    BY <1>4 DEF RecordEvent, Recorded, Inv, Types
  <2>2. FannedOut' = FannedOut
    BY <1>4, FannedOutStep DEF RecordEvent, FanOut, dispatcherVars, Inv, Placed
  <2>3. UNCHANGED <<subs, Phases, Stopped>>
    BY <1>4 DEF RecordEvent, dispatcherVars, Phases
  <2> QED BY <2>1, <2>2, <2>3 DEF Contract!Record, Recorded, FannedOut, Phases
<1>5. CASE FanOut
  <2>1. PICK e \in Events : e = taken
    BY <1>5, FannedOutStep
  <2>2. /\ e \notin FannedOut /\ FannedOut' = FannedOut \cup {e}
        /\ UNCHANGED <<Recorded, subs, Stopped>>
    BY <1>5, <2>1, FannedOutStep DEF FanOut, Recorded
  <2>3. e \in Recorded
    BY <2>1, <1>5 DEF Inv, Placed, Recorded
  <2>4. ~Stopped
    BY <1>5 DEF FanOut, QuietAfterStop
  <2>5. Phases' = [p \in Subs \X Events |->
                     IF p \in {s \in subs : e \in Wants[s]} \X {e}
                     THEN "active" ELSE Phases[p]]
    BY <1>5, <2>1, FanOutPhases DEF Inv, Pairs
  <2>6. Contract!FanOut(e)
    BY <2>2, <2>3, <2>4, <2>5 DEF Contract!FanOut, Recorded, FannedOut, Phases
  <2> QED BY <2>6 DEF Contract!Next
<1>6. ASSUME ~FanOut, UNCHANGED <<Recorded, subs, Phases, Stopped>>
      PROVE  UNCHANGED Contract!cvars
  BY <1>1, <1>6, FannedOutStep
<1>7. ASSUME NEW e \in Events, Arrive(e) \/ Dispatch(e) PROVE UNCHANGED Contract!cvars
  <2>1. ~FanOut
    BY <1>7 DEF Arrive, Dispatch, FanOut, dispatcherVars, Inv, Placed
  <2>2. UNCHANGED <<Recorded, subs, Phases, Stopped>>
    BY <1>7 DEF Arrive, Dispatch, dispatcherVars, Recorded, Phases, Inv, Types
  <2> QED BY <1>6, <2>1, <2>2
<1>8. ASSUME ~FanOut, Take \/ WorkerExit PROVE UNCHANGED Contract!cvars
  BY <1>6, <1>8 DEF Take, WorkerExit, ghosts, Recorded, Phases
<1>9. ASSUME NEW p \in Pairs,
             Post(p) \/ Delivered(p) \/ AttemptFailed(p) \/ Retry(p) \/ Abort(p)
      PROVE  Contract!End(p) \/ UNCHANGED Contract!cvars
  <2>1. UNCHANGED <<Recorded, subs, Stopped>> /\ ~FanOut
    BY <1>9 DEF Post, Delivered, AttemptFailed, Retry, Abort, Others, Recorded, FanOut, Inv,
                Placed
  <2>2. FannedOut' = FannedOut
    BY <2>1, FannedOutStep
  <2>3. CASE Phases' = Phases
    BY <1>6, <2>1, <2>3
  <2>4. CASE Phases[p] = "active" /\ Phases' = [Phases EXCEPT ![p] = "ended"]
    BY <2>1, <2>2, <2>4 DEF Contract!End, Recorded, FannedOut, Phases
  <2> QED BY <1>9, <2>3, <2>4, DeliverPhases DEF Inv
<1>10. ASSUME Mains PROVE Contract!Stop \/ UNCHANGED Contract!cvars
  <2>1. UNCHANGED <<Recorded, subs, FannedOut, Phases>>
    BY <1>10 DEF Mains, Signal, ListenFails, DrainTimeout, Stopping, Drained, Cancel, Close,
                 Wait, rest, ghosts, Recorded, FannedOut, Handled, Phases
  <2>2. CASE Wait
    <3>1. Stopped'
      BY <2>2 DEF Wait
    <3>2. \A p \in Subs \X Events : Phases[p] # "active"
      <4>1. ActivePairs = {}
        BY <2>2, ActiveFinite, FS_EmptySet DEF Wait, Inv, Counted
      <4> QED BY <4>1 DEF ActivePairs, Phases, Phase, Pairs
    <3> QED BY <2>1, <3>1, <3>2 DEF Contract!Stop, Recorded, FannedOut, Phases
  <2>3. CASE ~Wait
    <3>1. UNCHANGED Stopped
      BY <1>10, <2>3 DEF Mains, Signal, ListenFails, DrainTimeout, Stopping, Drained, Cancel,
                         Close
    <3> QED BY <1>1, <2>1, <3>1
  <2> QED BY <2>2, <2>3
<1>11. ASSUME UNCHANGED vars PROVE UNCHANGED Contract!cvars
  BY <1>1, <1>11 DEF vars, Recorded, FannedOut, Handled, Phases
<1> QED
  BY <1>2, <1>3, <1>4, <1>5, <1>7, <1>8, <1>9, <1>10, <1>11, NextCases
  DEF Contract!Next, Pairs

\* The dispatcher keeps the promises of WebhookContract.
THEOREM Implements == Spec => ImplementsDelivery
BY ContractInit, ContractStep, Inductive, StopIsQuiet, PTL DEF Spec, ImplementsDelivery, Contract!Spec
-----------------------------------------------------------------------------
(* Liveness.  ENABLED is beyond the provers, so the theorem names what weak  *)
(* fairness says: a delivery under way always has a step.  How many retries  *)
(* there are takes an induction they cannot do either, so it is stated for   *)
(* up to three; the code has three (dispatcher.go 117).                      *)

\* WF_vars(main # "killed" /\ Deliver(p)): again and again p is not under way or the
\* process has ended, or it takes steps for ever.
DeliveryScheduled(p) ==
  \/ []<>(~(delivery[p].at \in Active) \/ main = "killed")
  \/ []<><<main # "killed" /\ Deliver(p)>>_vars

\* Attempts and backoffs end.
FairDeliveries == \A p \in Pairs : DeliveryScheduled(p)

\* How many steps a delivery may still take, at most: three for each attempt.
DeliveryLeft(p) ==
  IF delivery[p].at \in Active
  THEN 3 * (MaxRetries - delivery[p].attempt)
       + [starting |-> 3, posting |-> 2, backoff |-> 1][delivery[p].at]
  ELSE 0

Begun(p, n) == delivery[p].at # "none" /\ DeliveryLeft(p) <= n

BegunDown(p, n, m) == Begun(p, n) ~> Begun(p, m) \/ main = "killed"

\* A step of a delivery brings it nearer to its end.
LEMMA DeliveryNearer ==
  ASSUME Types, NEW p \in Pairs, Deliver(p)
  PROVE  /\ delivery'[p].at # "none"
         /\ DeliveryLeft(p) \in Nat /\ DeliveryLeft(p)' \in Nat
         /\ DeliveryLeft(p)' < DeliveryLeft(p)
<1>1. /\ delivery[p] \in Delivery
      /\ delivery[p].at = "backoff" => delivery[p].attempt # MaxRetries
  BY DEF Types
<1>2. delivery[p].attempt \in 0..MaxRetries /\ MaxRetries \in Nat
  BY <1>1, RetriesAssumption DEF Delivery
<1> USE <1>1, <1>2 DEF DeliveryLeft, Active, Ended
<1>3. ASSUME NEW at \in {"posting", "backoff"} \cup Ended, delivery[p].at \in {"starting", "posting"},
             at # delivery[p].at, delivery' = [delivery EXCEPT ![p].at = at]
      PROVE  /\ delivery'[p].at # "none"
             /\ DeliveryLeft(p) \in Nat /\ DeliveryLeft(p)' \in Nat
             /\ DeliveryLeft(p)' < DeliveryLeft(p)
  <2>1. delivery'[p].at = at /\ delivery'[p].attempt = delivery[p].attempt
    BY <1>3, MoveFacts
  <2> QED BY <1>3, <2>1
<1>4. CASE Post(p)
  BY <1>3, <1>4 DEF Post
<1>5. CASE Delivered(p)
  BY <1>3, <1>5 DEF Delivered, End
<1>6. CASE AttemptFailed(p)
  BY <1>3, <1>6 DEF AttemptFailed, End
<1>7. CASE Retry(p)
  <2>1. delivery[p].at = "backoff" /\ delivery[p].attempt + 1 \in 0..MaxRetries
    BY <1>7 DEF Retry
  <2>2. delivery'[p].at = "starting" /\ delivery'[p].attempt = delivery[p].attempt + 1
    BY <1>7 DEF Retry, Again, Types
  <2> QED BY <2>1, <2>2
<1>8. CASE Abort(p)
  <2>1. delivery[p].at = "backoff" /\ delivery' = [delivery EXCEPT ![p].at = "aborted"]
    BY <1>8 DEF Abort, End
  <2>2. delivery'[p].at = "aborted"
    BY <2>1, MoveFacts
  <2> QED BY <2>1, <2>2
<1> QED BY <1>4, <1>5, <1>6, <1>7, <1>8 DEF Deliver

\* No other step touches a delivery that has begun, for an event is fanned out once.
LEMMA DeliveryKept ==
  ASSUME Inv, [Next]_vars, NEW p \in Pairs, delivery[p].at # "none", ~Deliver(p)
  PROVE  delivery'[p] = delivery[p]
<1>1. ASSUME NEW q \in Pairs, Deliver(q) PROVE delivery'[p] = delivery[p]
  BY <1>1 DEF Deliver, Post, Delivered, AttemptFailed, Retry, Abort, End, Inv, Types
<1>2. CASE FanOut
  <2>1. taken \in Events /\ taken \in Undelivered
    BY <1>2 DEF FanOut, Inv, Types, Placed
  <2>2. p \notin Targets(taken)
    BY <2>1 DEF Targets, ListSubscriptions, Undelivered, Inv, Types
  <2> QED BY <1>2, <2>2 DEF FanOut, Spawn
<1> QED
  BY <1>1, <1>2, NextCases
  DEF CreateSubscription, DeleteSubscription, Arrive, RecordEvent, Dispatch, Take, Deliver,
      WorkerExit, Mains, Signal, ListenFails, DrainTimeout, Stopping, Drained, Cancel,
      Close, Wait, rest, dispatcherVars, vars

\* A delivery that has ended stays as it ended, and one that has begun is not begun anew:
\* no event is fanned out twice, whatever becomes of the subscription (dispatcher.go 48-106).
EndsOnce ==
  \A p \in Pairs :
    /\ delivery[p].at \in Ended => delivery'[p] = delivery[p]
    /\ delivery[p].at # "none" => delivery'[p].attempt >= delivery[p].attempt

\* No step begins a delivery anew or takes it out of its end.
THEOREM DeliveredOnce == Spec => [][EndsOnce]_vars
<1>1. ASSUME Inv, [Next]_vars, NEW p \in Pairs, delivery[p].at # "none"
      PROVE  /\ delivery[p].at \in Ended => delivery'[p] = delivery[p]
             /\ delivery'[p].attempt >= delivery[p].attempt
  <2>1. delivery[p].attempt \in Int /\ Types
    BY <1>1, RetriesAssumption DEF Inv, Types, Delivery
  <2>2. CASE ~Deliver(p)
    BY <1>1, <2>1, <2>2, DeliveryKept
  <2>3. CASE Post(p) \/ Delivered(p) \/ AttemptFailed(p) \/ Abort(p)
    <3>1. PICK at \in Active \cup Ended : delivery' = [delivery EXCEPT ![p].at = at]
      BY <2>3 DEF Post, Delivered, AttemptFailed, Abort, End, Active, Ended
    <3>2. delivery'[p].attempt = delivery[p].attempt
      BY <2>1, <3>1, MoveFacts
    <3>3. delivery[p].at \notin Ended
      BY <2>3 DEF Post, Delivered, AttemptFailed, Abort, Ended
    <3> QED BY <2>1, <3>2, <3>3
  <2>4. CASE Retry(p)
    <3>1. delivery'[p].attempt = delivery[p].attempt + 1 /\ delivery[p].at \notin Ended
      BY <2>1, <2>4 DEF Retry, Again, Types, Ended
    <3> QED BY <2>1, <3>1
  <2> QED BY <2>2, <2>3, <2>4 DEF Deliver
<1>2. Inv /\ [Next]_vars => EndsOnce
  BY <1>1 DEF EndsOnce, Ended
<1> QED BY <1>2, Inductive, PTL DEF Spec

\* A scheduled delivery gets from n steps before its end to m, or the process ends.
LEMMA DeliveryAdvances ==
  ASSUME NEW p \in Pairs, NEW n \in 1..12, NEW m \in 0..11, n = m + 1
  PROVE  Spec /\ DeliveryScheduled(p) => BegunDown(p, n, m)
<1>1. Inv /\ [Next]_vars /\ Begun(p, n) => Begun(p, n)'
  <2> SUFFICES ASSUME Inv, [Next]_vars, Begun(p, n)
               PROVE  delivery'[p].at # "none" /\ DeliveryLeft(p)' <= n
    BY DEF Begun
  <2>1. CASE Deliver(p)
    BY <2>1, DeliveryNearer DEF Inv, Begun
  <2>2. CASE ~Deliver(p)
    BY <2>2, DeliveryKept DEF Begun, DeliveryLeft
  <2> QED BY <2>1, <2>2
<1>2. Inv /\ <<main # "killed" /\ Deliver(p)>>_vars /\ Begun(p, n) => Begun(p, m)'
  <2> SUFFICES ASSUME Inv, Deliver(p), Begun(p, n)
               PROVE  delivery'[p].at # "none" /\ DeliveryLeft(p)' <= m
    BY DEF Begun
  <2> QED BY DeliveryNearer DEF Inv, Begun
<1>3. Begun(p, n) /\ ~(delivery[p].at \in Active) => Begun(p, m)
  BY DEF Begun, DeliveryLeft
<1> QED BY <1>1, <1>2, <1>3, Inductive, PTL DEF Spec, DeliveryScheduled, BegunDown

\* With the retries the code has, every delivery that begins comes to an end, unless
\* the process ends first.
THEOREM DeliveriesConclude ==
  ASSUME MaxRetries <= 3
  PROVE  Spec /\ FairDeliveries => DeliveriesEnd
<1> DEFINE Ends(p) == delivery[p].at \in Active ~> delivery[p].at \in Ended \/ main = "killed"
           Down(p, n, m) == Spec /\ DeliveryScheduled(p) => BegunDown(p, n, m)
<1>1. ASSUME NEW p \in Pairs PROVE Spec /\ DeliveryScheduled(p) => Ends(p)
  <2>1. Inv => (delivery[p].at \in Active => Begun(p, 12))
    <3> SUFFICES ASSUME Inv, delivery[p].at \in Active PROVE Begun(p, 12)
      OBVIOUS
    <3>1. delivery[p].attempt \in 0..MaxRetries /\ MaxRetries \in Nat
      BY RetriesAssumption DEF Inv, Types, Delivery
    <3> QED BY <3>1 DEF Begun, DeliveryLeft, Active
  <2>2. Inv => (Begun(p, 0) => delivery[p].at \in Ended)
    <3> SUFFICES ASSUME Inv, Begun(p, 0) PROVE delivery[p].at \in Ended
      OBVIOUS
    <3>1. delivery[p] \in Delivery /\ MaxRetries \in Nat
      BY RetriesAssumption DEF Inv, Types
    <3> QED BY <3>1 DEF Begun, DeliveryLeft, Active, Ended, Delivery
  <2>3. Down(p, 12, 11) /\ Down(p, 11, 10) /\ Down(p, 10, 9) /\ Down(p, 9, 8)
    BY DeliveryAdvances, SMT
  <2>4. Down(p, 8, 7) /\ Down(p, 7, 6) /\ Down(p, 6, 5) /\ Down(p, 5, 4)
    BY DeliveryAdvances, SMT
  <2>5. Down(p, 4, 3) /\ Down(p, 3, 2) /\ Down(p, 2, 1) /\ Down(p, 1, 0)
    BY DeliveryAdvances, SMT
  <2>6. main = "killed" /\ [Next]_vars => (main = "killed")'
    BY DEF Next, vars
  <2> QED BY <2>1, <2>2, <2>3, <2>4, <2>5, <2>6, Inductive, PTL DEF Spec, BegunDown
<1> QED BY <1>1 DEF DeliveriesEnd, FairDeliveries
=============================================================================
