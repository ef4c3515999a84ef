------------------------- MODULE IdempotencyProofs --------------------------
(***************************************************************************)
(* Proofs about Idempotency, for every set of requests, keys and every TTL:*)
(* what is replayed is a success that a run under the key gave, and two    *)
(* successful runs under a key overlapped or were parted by an eviction.   *)
(***************************************************************************)
EXTENDS Idempotency, TLAPS

Typed ==
  /\ pc \in [Requests -> {"idle", "lookup", "run", "store", "done"}]
  /\ req \in [Requests -> [post : BOOLEAN, key : Keys \cup {NoKey}] \cup {NoReq}]
  /\ reply \in [Requests -> Reply \cup {NoReply}]

\* Where a request is tells what its method, key and answer are.
Placed ==
  \A r \in Requests :
    /\ pc[r] # "idle" => req[r] \in [post : BOOLEAN, key : Keys \cup {NoKey}]
    /\ pc[r] \in {"lookup", "store"} => Keyed(req[r])
    /\ pc[r] = "store" => reply[r] \in Reply /\ reply[r].by = r
    /\ pc[r] = "done" => reply[r] \in Reply

SuccessEntry == [by : Requests, ok : {TRUE}, age : Int]

\* A cached answer is one that a run under its key stored.
Backed == \A k \in DOMAIN cache : /\ cache[k] \in SuccessEntry
                                  /\ Stored(cache[k].by)
                                  /\ req[cache[k].by].key = k

\* The key of a stored answer is in the cache until it is evicted.
Kept == \A r \in Requests : Stored(r) => req[r].key \in DOMAIN cache \/ r \in evicted

\* A request that runs although an answer is stored for its key overlapped the run
\* that gave it, or started after an eviction.
RunExplained ==
  \A r \in Requests, s \in Requests :
    Stored(r) /\ s \in Running(req[r].key) => <<r, s>> \in raced \/ r \in evicted

IInv == Typed /\ Placed /\ Backed /\ Kept /\ RunExplained /\ ReplayIsFaithful /\ SecondRunExplained

\* Stored, spelled out.
LEMMA StoredFacts ==
  ASSUME NEW r \in Requests, Placed
  PROVE  Stored(r) <=> pc[r] = "done" /\ Keyed(req[r]) /\ reply[r].by = r /\ reply[r].ok
BY DEF Stored, StoredFor, Placed, Keyed

\* At first nothing runs and nothing is cached.
LEMMA IInvInit == Init => IInv
<1> SUFFICES ASSUME Init PROVE IInv
  OBVIOUS
<1>1. \A r \in Requests : pc[r] = "idle" /\ ~Stored(r)
  BY DEF Init, Stored, StoredFor
<1>2. DOMAIN cache = {}
  BY DEF Init
<1>3. \A k : Running(k) = {}
  BY <1>1 DEF Running
<1>4. Typed
  BY DEF Init, Typed
<1>5. Placed /\ Backed /\ Kept
  BY <1>1, <1>2 DEF Placed, Backed, Kept
<1>6. RunExplained /\ ReplayIsFaithful /\ SecondRunExplained
  BY <1>1, <1>3 DEF RunExplained, ReplayIsFaithful, SecondRunExplained
<1> QED BY <1>4, <1>5, <1>6 DEF IInv

\* A step after which the same answers are stored, no new request runs, no ghost
\* shrinks and the cache only loses answers that get evicted, keeps all but types.
LEMMA Undisturbed ==
  ASSUME IInv, Typed', Placed', ReplayIsFaithful',
         \A r \in Requests : Stored(r)' = Stored(r),
         \A r \in Requests : Stored(r) => req'[r] = req[r],
         \A r, s \in Requests : Stored(r) /\ s \in Running(req[r].key)' =>
           s \in Running(req[r].key) \/ req[r].key \notin DOMAIN cache,
         DOMAIN cache' \subseteq DOMAIN cache,
         \A k \in DOMAIN cache' : cache'[k] \in SuccessEntry /\ cache'[k].by = cache[k].by,
         \A r \in Requests : Stored(r) /\ req[r].key \in DOMAIN cache =>
           req[r].key \in DOMAIN cache' \/ r \in evicted',
         raced \subseteq raced', evicted \subseteq evicted'
  PROVE  IInv'
<1>1. Backed'
  <2>1. \A k \in DOMAIN cache : cache[k].by \in Requests
    BY DEF IInv, Backed, SuccessEntry
  <2> QED BY <2>1 DEF IInv, Backed
<1>2. Kept'
  BY DEF IInv, Kept
<1>3. RunExplained'
  BY DEF IInv, RunExplained, Kept
<1>4. SecondRunExplained'
  BY DEF IInv, SecondRunExplained
<1> QED BY <1>1, <1>2, <1>3, <1>4 DEF IInv

\* Every step keeps the invariant.
LEMMA IInvStep == IInv /\ [Next]_vars => IInv'
<1> SUFFICES ASSUME IInv, [Next]_vars PROVE IInv'
  OBVIOUS
<1> USE NoReplyAssumption
<1>0. Typed /\ Placed /\ Backed /\ Kept /\ RunExplained /\ ReplayIsFaithful /\ SecondRunExplained
  BY DEF IInv
<1>a. \A k \in DOMAIN cache : cache[k] \in SuccessEntry
  BY <1>0 DEF Backed
<1>1. ASSUME NEW r \in Requests, Receive(r) PROVE IInv'
  <2>1. PICK q \in [post : BOOLEAN, key : Keys \cup {NoKey}] :
          /\ req' = [req EXCEPT ![r] = q]
          /\ pc' = [pc EXCEPT ![r] = IF Keyed(q) THEN "lookup" ELSE "run"]
    BY <1>1 DEF Receive
  <2>2. pc[r] = "idle" /\ UNCHANGED <<reply, cache, tick, since, raced, evicted>>
    BY <1>1 DEF Receive
  <2>3. Typed'
    BY <1>0, <2>1, <2>2 DEF Typed
  <2>4. Placed'
    BY <1>0, <2>1, <2>2 DEF Placed, Typed
  <2>5. \A s \in Requests : s # r => pc'[s] = pc[s] /\ req'[s] = req[s]
    BY <1>0, <2>1 DEF Typed
  <2>6. ~Stored(r) /\ ~Stored(r)' /\ pc'[r] # "done"
    BY <1>0, <2>1, <2>2 DEF Stored, StoredFor, Typed
  <2>7. \A s \in Requests : Stored(s)' = Stored(s)
    BY <2>2, <2>5, <2>6 DEF Stored, StoredFor
  <2>8. ReplayIsFaithful'
    BY <1>0, <2>2, <2>5, <2>6, <2>7 DEF ReplayIsFaithful, Placed, Reply
  <2>9. \A k : r \notin Running(k)'
    BY <1>0, <2>1, <2>2 DEF Running, Typed
  <2>10. \A k : Running(k)' \subseteq Running(k)
    BY <2>5, <2>9 DEF Running
  <2> QED BY <1>0, <1>a, <2>2, <2>3, <2>4, <2>5, <2>6, <2>7, <2>8, <2>10, Undisturbed
<1>2. ASSUME NEW r \in Requests, Replay(r) PROVE IInv'
  <2> DEFINE k == req[r].key
             answer == [by |-> cache[k].by, ok |-> cache[k].ok]
  <2>1. /\ pc[r] = "lookup" /\ k \in DOMAIN cache
        /\ reply' = [reply EXCEPT ![r] = answer]
        /\ pc' = [pc EXCEPT ![r] = "done"]
        /\ UNCHANGED <<req, cache, tick, since, raced, evicted>>
    BY <1>2 DEF Replay
  <2>2. /\ answer \in Reply /\ answer.ok /\ answer.by \in Requests
        /\ Stored(answer.by) /\ req[answer.by].key = k
    BY <1>0, <2>1 DEF Backed, SuccessEntry, Reply
  <2>3. reply[answer.by] = answer
    BY <1>0, <2>2, StoredFacts DEF Placed, Reply
  <2> HIDE DEF answer
  <2>4. answer.by # r
    BY <1>0, <2>1, <2>2, StoredFacts
  <2>5. Typed' /\ Placed'
    BY <1>0, <2>1, <2>2 DEF Typed, Placed
  <2>6. \A s \in Requests : Stored(s)' = Stored(s)
    BY <1>0, <2>1, <2>4, <2>5, StoredFacts DEF Stored, StoredFor, Typed
  <2>7. ReplayIsFaithful'
    <3>1. reply'[r] = answer /\ reply'[answer.by] = answer /\ Keyed(req[r])
      BY <1>0, <2>1, <2>2, <2>3, <2>4 DEF Typed, Placed
    <3>2. \A s \in Requests : s # r => reply'[s] = reply[s] /\ pc'[s] = pc[s]
      BY <1>0, <2>1 DEF Typed
    <3>3. ~Stored(r)
      BY <1>0, <2>1, StoredFacts
    <3> QED BY <1>0, <2>1, <2>2, <2>6, <3>1, <3>2, <3>3 DEF ReplayIsFaithful, Placed, Reply
  <2>8. \A l : Running(l)' \subseteq Running(l)
    BY <1>0, <2>1 DEF Running, Typed
  <2> QED BY <1>0, <1>a, <2>1, <2>5, <2>6, <2>7, <2>8, Undisturbed
<1>3. ASSUME NEW r \in Requests, Miss(r) PROVE IInv'
  <2>1. /\ pc[r] = "lookup" /\ req[r].key \notin DOMAIN cache
        /\ pc' = [pc EXCEPT ![r] = "run"]
        /\ UNCHANGED <<req, reply, cache, tick, since, raced, evicted>>
    BY <1>3 DEF Miss
  <2>2. Typed' /\ Placed'
    BY <1>0, <2>1 DEF Typed, Placed
  <2>3. \A s \in Requests : Stored(s)' = Stored(s)
    BY <1>0, <2>1 DEF Stored, StoredFor, Typed
  <2>4. ReplayIsFaithful'
    BY <1>0, <2>1, <2>3 DEF ReplayIsFaithful, Typed, Placed, Reply
  <2>5. \A l : Running(l)' \subseteq Running(l) \cup {r}
    BY <1>0, <2>1 DEF Running, Typed
  <2>6. \A s \in Requests : r \in Running(req[s].key)' => req[s].key \notin DOMAIN cache
    BY <2>1 DEF Running
  <2> QED BY <1>0, <1>a, <2>1, <2>2, <2>3, <2>4, <2>5, <2>6, Undisturbed
<1>4. ASSUME NEW r \in Requests, Run(r) PROVE IInv'
  <2>1. PICK ok \in BOOLEAN : reply' = [reply EXCEPT ![r] = [by |-> r, ok |-> ok]]
    BY <1>4 DEF Run
  <2>2. /\ pc[r] = "run"
        /\ pc' = [pc EXCEPT ![r] = IF Keyed(req[r]) THEN "store" ELSE "done"]
        /\ UNCHANGED <<req, cache, tick, since, raced, evicted>>
    BY <1>4 DEF Run
  <2>3. [by |-> r, ok |-> ok] \in Reply
    BY DEF Reply
  <2>4. Typed' /\ Placed'
    BY <1>0, <2>1, <2>2, <2>3 DEF Typed, Placed
  <2>5. \A s \in Requests : Stored(s)' = Stored(s)
    BY <1>0, <2>1, <2>2 DEF Stored, StoredFor, Typed
  <2>6. ReplayIsFaithful'
    BY <1>0, <2>1, <2>2, <2>5, StoredFacts DEF ReplayIsFaithful, Typed, Placed, Reply
  <2>7. \A l : Running(l)' \subseteq Running(l)
    BY <1>0, <2>2 DEF Running, Typed
  <2> QED BY <1>0, <1>a, <2>1, <2>2, <2>4, <2>5, <2>6, <2>7, Undisturbed
<1>5. ASSUME NEW r \in Requests, Store(r) PROVE IInv'
  <2> DEFINE k == req[r].key
             entry == [by |-> r, ok |-> TRUE, age |-> Expired]
  <2>1. /\ pc[r] = "store" /\ reply[r].ok
        /\ cache' = [l \in DOMAIN cache \cup {k} |-> IF l = k THEN entry ELSE cache[l]]
        /\ raced' = raced \cup ({r} \X Running(k))
        /\ pc' = [pc EXCEPT ![r] = "done"]
        /\ UNCHANGED <<req, reply, tick, evicted>>
    BY <1>5 DEF Store
  <2>2. Keyed(req[r]) /\ reply[r].by = r /\ reply[r] \in Reply
    BY <1>0, <2>1 DEF Placed
  <2>3. Typed' /\ Placed'
    BY <1>0, <2>1, <2>2 DEF Typed, Placed
  <2>4. Stored(r)' /\ ~Stored(r)
    BY <1>0, <2>1, <2>2, <2>3, StoredFacts DEF Stored, StoredFor, Typed, Placed, Keyed
  <2>5. \A s \in Requests : s # r => Stored(s)' = Stored(s)
    BY <1>0, <2>1 DEF Stored, StoredFor, Typed
  <2>6. entry.by = r /\ entry \in SuccessEntry
    BY TTLAssumption DEF SuccessEntry, Expired
  <2> HIDE DEF entry
  <2>7. Backed'
    <3>1. \A l \in DOMAIN cache : cache[l].by \in Requests /\ cache[l].by # r
      BY <1>0, <2>4 DEF Backed, SuccessEntry
    <3>2. ASSUME NEW l \in DOMAIN cache \cup {k}
          PROVE  /\ cache'[l] \in SuccessEntry
                 /\ \E s \in Requests : cache'[l].by = s /\ Stored(s)' /\ req[s].key = l
      <4>1. CASE l = k
        <5>1. cache'[l] = entry
          BY <2>1, <4>1
        <5> QED BY <2>4, <2>6, <4>1, <5>1
      <4>2. CASE l # k
        <5>1. cache'[l] = cache[l] /\ l \in DOMAIN cache
          BY <2>1, <4>2
        <5>2. PICK s \in Requests : cache[l].by = s /\ Stored(s) /\ req[s].key = l
          BY <1>0, <3>1, <5>1 DEF Backed
        <5>3. Stored(s)'
          BY <2>5, <3>1, <5>1, <5>2
        <5> QED BY <1>a, <5>1, <5>2, <5>3
      <4> QED BY <4>1, <4>2
    <3> QED BY <2>1, <3>2 DEF Backed
  <2>8. Kept'
    BY <1>0, <2>1, <2>5 DEF Kept
  <2>9. ReplayIsFaithful'
    BY <1>0, <2>1, <2>2, <2>4, <2>5 DEF ReplayIsFaithful, Typed, Placed, Reply
  <2>10. \A l : Running(l)' = Running(l) \ {r}
    BY <1>0, <2>1 DEF Running, Typed
  <2>11. RunExplained'
    BY <1>0, <2>1, <2>4, <2>5, <2>10 DEF RunExplained
  <2>12. \A s \in Requests : Stored(s) /\ req[s].key = k => <<s, r>> \in raced \/ s \in evicted
    <3>1. r \in Running(k)
      BY <2>1, <2>2 DEF Running
    <3> QED BY <1>0, <3>1 DEF RunExplained
  <2>13. SecondRunExplained'
    BY <1>0, <2>1, <2>5, <2>12 DEF SecondRunExplained
  <2> QED BY <2>3, <2>7, <2>8, <2>9, <2>11, <2>13 DEF IInv
<1>6. ASSUME NEW r \in Requests, Skip(r) PROVE IInv'
  <2>1. /\ pc[r] = "store" /\ ~reply[r].ok
        /\ pc' = [pc EXCEPT ![r] = "done"]
        /\ UNCHANGED <<req, reply, cache, tick, since, raced, evicted>>
    BY <1>6 DEF Skip
  <2>2. reply[r] \in Reply /\ reply[r].by = r
    BY <1>0, <2>1 DEF Placed
  <2>3. Typed' /\ Placed'
    BY <1>0, <2>1, <2>2 DEF Typed, Placed
  <2>4. \A s \in Requests : Stored(s)' = Stored(s)
    BY <1>0, <2>1 DEF Stored, StoredFor, Typed
  <2>5. ReplayIsFaithful'
    BY <1>0, <2>1, <2>2, <2>4 DEF ReplayIsFaithful, Typed, Placed, Reply
  <2>6. \A l : Running(l)' \subseteq Running(l)
    BY <1>0, <2>1 DEF Running, Typed
  <2> QED BY <1>0, <1>a, <2>1, <2>3, <2>4, <2>5, <2>6, Undisturbed
<1>7. CASE Advance
  <2>1. /\ DOMAIN cache' = DOMAIN cache
        /\ \A k \in DOMAIN cache : cache'[k] = [cache[k] EXCEPT !.age = Older(@)]
        /\ UNCHANGED <<pc, req, reply, raced, evicted>>
    BY <1>7 DEF Advance
  <2>2. Typed' /\ Placed'
    BY <1>0, <2>1 DEF Typed, Placed
  <2>3. \A s \in Requests : Stored(s)' = Stored(s)
    BY <2>1 DEF Stored, StoredFor
  <2>4. ReplayIsFaithful'
    BY <1>0, <2>1, <2>3 DEF ReplayIsFaithful, Placed, Reply
  <2>5. \A l : Running(l)' = Running(l)
    BY <2>1 DEF Running
  <2>6. \A k \in DOMAIN cache : cache'[k] \in SuccessEntry /\ cache'[k].by = cache[k].by
    <3>1. \A a \in Int : Older(a) \in Int
      BY TTLAssumption DEF Older, Expired
    <3>2. ASSUME NEW entry \in SuccessEntry, NEW a \in Int
          PROVE  /\ [entry EXCEPT !.age = a] \in SuccessEntry
                 /\ [entry EXCEPT !.age = a].by = entry.by
      BY DEF SuccessEntry
    <3>3. \A k \in DOMAIN cache : cache[k].age \in Int
      BY <1>a DEF SuccessEntry
    <3>4. ASSUME NEW k \in DOMAIN cache
          PROVE  cache'[k] \in SuccessEntry /\ cache'[k].by = cache[k].by
      <4>1. cache'[k] = [cache[k] EXCEPT !.age = Older(cache[k].age)]
        BY <2>1
      <4>2. cache[k] \in SuccessEntry /\ Older(cache[k].age) \in Int
        BY <1>a, <3>1, <3>3
      <4> QED BY <3>2, <4>1, <4>2
    <3> QED BY <3>4
  <2> QED BY <1>0, <1>a, <2>1, <2>2, <2>3, <2>4, <2>5, <2>6, Undisturbed
<1>8. CASE Cleanup
  <2>1. /\ cache' = [k \in DOMAIN cache \ Outdated |-> cache[k]]
        /\ evicted' = evicted \cup StoredFor(Outdated)
        /\ UNCHANGED <<pc, req, reply, since, raced>>
    BY <1>8 DEF Cleanup, Restrict
  <2>2. Typed' /\ Placed'
    BY <1>0, <2>1 DEF Typed, Placed
  <2>3. \A s \in Requests : Stored(s)' = Stored(s)
    BY <2>1 DEF Stored, StoredFor
  <2>4. ReplayIsFaithful'
    BY <1>0, <2>1, <2>3 DEF ReplayIsFaithful, Placed, Reply
  <2>5. \A l : Running(l)' = Running(l)
    BY <2>1 DEF Running
  <2>6. \A s \in Requests : Stored(s) /\ req[s].key \in Outdated => s \in evicted'
    BY <2>1 DEF Stored, StoredFor
  <2> QED BY <1>0, <1>a, <2>1, <2>2, <2>3, <2>4, <2>5, <2>6, Undisturbed
<1>9. CASE UNCHANGED vars
  BY <1>9 DEF vars, IInv, Typed, Placed, Backed, Kept, RunExplained, ReplayIsFaithful,
              SecondRunExplained, Stored, StoredFor, Running
<1> QED
  BY <1>1, <1>2, <1>3, <1>4, <1>5, <1>6, <1>7, <1>8, <1>9 DEF Next, Serve

\* Every step keeps the types.
LEMMA TypeOKStep == IInv /\ TypeOK /\ [Next]_vars => TypeOK'
<1> SUFFICES ASSUME IInv, TypeOK, [Next]_vars PROVE TypeOK'
  OBVIOUS
<1> USE TTLAssumption DEF TypeOK
<1>0. Placed /\ Typed' /\ Expired \in Nat /\ Period \in Nat
  BY IInvStep DEF IInv, Expired, Period
<1>a. ASSUME UNCHANGED <<cache, tick, since, raced, evicted>> PROVE TypeOK'
  BY <1>0, <1>a DEF Typed
<1>1. ASSUME NEW r \in Requests, Receive(r) \/ Replay(r) \/ Miss(r) \/ Run(r) \/ Skip(r)
      PROVE  TypeOK'
  BY <1>1, <1>a DEF Receive, Replay, Miss, Run, Skip
<1>2. ASSUME NEW r \in Requests, Store(r) PROVE TypeOK'
  <2> DEFINE k == req[r].key
             entry == [by |-> r, ok |-> TRUE, age |-> Expired]
  <2>1. /\ cache' = [l \in DOMAIN cache \cup {k} |-> IF l = k THEN entry ELSE cache[l]]
        /\ since' = [since EXCEPT ![k] = 0]
        /\ raced' = raced \cup ({r} \X Running(k))
        /\ UNCHANGED <<tick, evicted>>
    BY <1>2 DEF Store
  <2>2. k \in Keys /\ entry \in Entry
    BY <1>0, <1>2 DEF Store, Placed, Keyed, Entry
  <2>3. Running(k) \subseteq Requests
    BY DEF Running
  <2> HIDE DEF k, entry
  <2>4. DOMAIN cache' \subseteq Keys /\ \A l \in DOMAIN cache' : cache'[l] \in Entry
    BY <2>1, <2>2
  <2>5. since' \in [Keys -> 0..Expired] /\ raced' \subseteq Requests \X Requests
    BY <1>0, <2>1, <2>2, <2>3
  <2> QED BY <1>0, <2>1, <2>4, <2>5 DEF Typed
<1>3. CASE Advance
  <2>1. \A a \in 0..Expired : Older(a) \in 0..Expired
    BY <1>0 DEF Older
  <2>2. ASSUME NEW l \in DOMAIN cache' PROVE cache'[l] \in Entry
    <3>1. l \in DOMAIN cache /\ cache'[l] = [cache[l] EXCEPT !.age = Older(cache[l].age)]
      BY <1>3, <2>2 DEF Advance
    <3>2. cache[l] \in Entry /\ cache[l].age \in 0..Expired
      BY <3>1 DEF Entry
    <3>3. Older(cache[l].age) \in 0..Expired
      BY <2>1, <3>2
    <3> HIDE DEF Older
    <3> QED BY <3>1, <3>2, <3>3 DEF Entry
  <2>3. DOMAIN cache' \subseteq Keys
    BY <1>3 DEF Advance
  <2>4. since' \in [Keys -> 0..Expired] /\ tick' \in 0..Period
    BY <1>0, <1>3, <2>1 DEF Advance
  <2> QED BY <1>0, <1>3, <2>2, <2>3, <2>4 DEF Advance, Typed
<1>4. CASE Cleanup
  <2>1. /\ cache' = [k \in DOMAIN cache \ Outdated |-> cache[k]]
        /\ evicted' = evicted \cup StoredFor(Outdated)
        /\ tick' \in 0..Period
        /\ UNCHANGED <<since, raced>>
    BY <1>4 DEF Cleanup, Restrict
  <2>2. StoredFor(Outdated) \subseteq Requests
    BY DEF StoredFor
  <2> QED BY <1>0, <2>1, <2>2 DEF Typed
<1>5. CASE UNCHANGED vars
  BY <1>5, <1>a DEF vars
<1> QED
  BY <1>1, <1>2, <1>3, <1>4, <1>5 DEF Next, Serve

\* The variables of Idempotency keep their types.
THEOREM IdempotencyTyped == Spec => []TypeOK
<1>1. Init => TypeOK
  BY TTLAssumption DEF Init, TypeOK, Expired, Period
<1> QED BY <1>1, IInvInit, IInvStep, TypeOKStep, PTL DEF Spec

\* What is replayed is a success that a run under the same key gave.
THEOREM ReplaysFaithful == Spec => []ReplayIsFaithful
<1>1. IInv => ReplayIsFaithful
  BY DEF IInv
<1> QED BY <1>1, IInvInit, IInvStep, PTL DEF Spec

\* A key runs successfully twice only by an overlap or an eviction.
THEOREM SecondRunsExplained == Spec => []SecondRunExplained
<1>1. IInv => SecondRunExplained
  BY DEF IInv
<1> QED BY <1>1, IInvInit, IInvStep, PTL DEF Spec

-----------------------------------------------------------------------------
(* Liveness.  ENABLED is beyond the provers, so the theorems name what weak  *)
(* fairness says, with the states in which the action is enabled put in its  *)
(* place.                                                                    *)

\* WF_vars(Serve(r)): r is at rest again and again, or it takes steps for ever.
Scheduled(r) == \/ []<>(pc[r] \in {"idle", "done"})
                \/ []<><<Serve(r)>>_vars

\* The Go scheduler runs every goroutine, and handlers end.
FairSchedule == \A r \in Requests : Scheduled(r)

\* How many steps a request may still take, at most.
StepsLeft == [lookup |-> 3, run |-> 2, store |-> 1, done |-> 0]

Within(r, n) == pc[r] # "idle" /\ StepsLeft[pc[r]] <= n

LeadsDown(r, n, m) == Within(r, n) ~> Within(r, m)

\* Each step of a request brings it nearer to its end, and no step of another actor
\* takes it back.
LEMMA Nearer ==
  ASSUME NEW r \in Requests, NEW n \in 1..3, NEW m \in 0..2, n = m + 1
  PROVE  /\ IInv /\ [Next]_vars /\ Within(r, n) => Within(r, n)'
         /\ IInv /\ <<Serve(r)>>_vars /\ Within(r, n) => Within(r, m)'
<1> SUFFICES ASSUME IInv, [Next]_vars \/ Serve(r), Within(r, n)
             PROVE  /\ Within(r, n)'
                    /\ Serve(r) => Within(r, m)'
  OBVIOUS
<1>1. pc \in [Requests -> {"idle", "lookup", "run", "store", "done"}]
  BY DEF IInv, Typed
<1>2. CASE Serve(r)
  BY <1>1, <1>2 DEF Serve, Replay, Miss, Run, Store, Skip, Within, StepsLeft
<1>3. CASE ~Serve(r) /\ [Next]_vars
  <2>1. ASSUME NEW s \in Requests, Receive(s) \/ Serve(s) PROVE pc'[r] = pc[r]
    <3>1. s # r
      BY <1>3, <2>1 DEF Receive, Within
    <3> QED BY <1>1, <2>1, <3>1 DEF Receive, Serve, Replay, Miss, Run, Store, Skip
  <2>2. pc'[r] = pc[r]
    BY <1>3, <2>1 DEF Next, Advance, Cleanup, vars
  <2> QED BY <1>3, <2>2 DEF Within
<1> QED BY <1>2, <1>3

\* A scheduled request gets from n steps before its end to m.
LEMMA Advances ==
  ASSUME NEW r \in Requests, NEW n \in 1..3, NEW m \in 0..2, n = m + 1
  PROVE  Spec /\ Scheduled(r) => LeadsDown(r, n, m)
<1>1. /\ IInv /\ [Next]_vars /\ Within(r, n) => Within(r, n)'
      /\ IInv /\ <<Serve(r)>>_vars /\ Within(r, n) => Within(r, m)'
  BY Nearer
<1>2. Within(r, n) /\ pc[r] \in {"idle", "done"} => Within(r, m)
  BY DEF Within, StepsLeft
<1> QED BY <1>1, <1>2, IInvInit, IInvStep, PTL DEF Spec, Scheduled, LeadsDown

\* If every request is scheduled, every request is answered.
THEOREM RequestsServed == Spec /\ FairSchedule => EveryRequestServed
<1> DEFINE Served(r) == pc[r] # "idle" ~> pc[r] = "done"
<1>1. ASSUME NEW r \in Requests PROVE Spec /\ Scheduled(r) => Served(r)
  <2>1. /\ IInv => (pc[r] # "idle" => Within(r, 3))
        /\ IInv => (Within(r, 0) => pc[r] = "done")
    BY DEF IInv, Typed, Within, StepsLeft
  <2>2. Spec /\ Scheduled(r) => LeadsDown(r, 3, 2)
    BY Advances, SMT
  <2>3. Spec /\ Scheduled(r) => LeadsDown(r, 2, 1)
    BY Advances, SMT
  <2>4. Spec /\ Scheduled(r) => LeadsDown(r, 1, 0)
    BY Advances, SMT
  <2> QED BY <2>1, <2>2, <2>3, <2>4, IInvInit, IInvStep, PTL DEF Spec, LeadsDown
<1> QED BY <1>1 DEF EveryRequestServed, FairSchedule

\* WF_vars(Cleanup): the ticker's channel is emptied again and again.
CleanupScheduled == \/ []<>~(tick = 0)
                    \/ []<><<Cleanup>>_vars

\* Time passes: the ticker fires again and again.
Ticking == []<>(tick = 0)

\* Whatever is in the cache looks older than the TTL, for its CreatedAt is not set.
Aged == \A k \in DOMAIN cache : cache[k].age = Expired

\* Every step keeps entries aged.
LEMMA AgedStep == IInv /\ Aged /\ [Next]_vars => Aged'
<1> SUFFICES ASSUME IInv, Aged, [Next]_vars PROVE Aged'
  OBVIOUS
<1>1. CASE Advance
  <2>1. /\ DOMAIN cache' = DOMAIN cache
        /\ \A k \in DOMAIN cache : cache'[k] = [cache[k] EXCEPT !.age = Older(cache[k].age)]
    BY <1>1 DEF Advance
  <2>2. Older(Expired) = Expired
    BY TTLAssumption DEF Older, Expired
  <2> SUFFICES ASSUME NEW k \in DOMAIN cache PROVE cache'[k].age = Expired
    BY <2>1 DEF Aged
  <2>3. cache[k] \in SuccessEntry /\ cache[k].age = Expired
    BY DEF IInv, Backed, Aged
  <2>4. cache'[k] = [cache[k] EXCEPT !.age = Expired]
    BY <2>1, <2>2, <2>3
  <2> QED BY <2>3, <2>4 DEF SuccessEntry
<1>2. CASE Cleanup
  <2>1. cache' = [k \in DOMAIN cache \ Outdated |-> cache[k]]
    BY <1>2 DEF Cleanup, Restrict
  <2> QED BY <2>1 DEF Aged
<1>3. ASSUME NEW r \in Requests, Store(r) PROVE Aged'
  <2>1. PICK entry : /\ entry = [by |-> r, ok |-> TRUE, age |-> Expired]
                     /\ cache' = [l \in DOMAIN cache \cup {req[r].key} |->
                                    IF l = req[r].key THEN entry ELSE cache[l]]
    BY <1>3, Zenon DEF Store
  <2>2. entry.age = Expired
    BY <2>1
  <2> QED BY <2>1, <2>2 DEF Aged
<1>4. CASE UNCHANGED cache
  BY <1>4 DEF Aged
<1>5. ASSUME NEW r \in Requests, Receive(r) \/ Replay(r) \/ Miss(r) \/ Run(r) \/ Skip(r)
      PROVE  UNCHANGED cache
  BY <1>5 DEF Receive, Replay, Miss, Run, Skip
<1>6. UNCHANGED vars => UNCHANGED cache
  BY DEF vars
<1> QED
  BY <1>1, <1>2, <1>3, <1>4, <1>5, <1>6 DEF Next, Serve

\* If time passes and the cleanup is scheduled, no entry stays in the cache for ever.
THEOREM EntriesGo == Spec /\ Ticking /\ CleanupScheduled => EntriesLeave
<1> DEFINE Leaves(k) == k \in DOMAIN cache ~> k \notin DOMAIN cache
<1>1. ASSUME NEW k \in Keys PROVE Spec /\ Ticking /\ CleanupScheduled => Leaves(k)
  <2>1. Init => Aged
    BY DEF Init, Aged
  <2>2. Aged /\ Cleanup => (k \notin DOMAIN cache)'
    <3> SUFFICES ASSUME Aged, Cleanup PROVE k \notin DOMAIN cache'
      OBVIOUS
    <3>1. cache' = [l \in DOMAIN cache \ Outdated |-> cache[l]]
      BY DEF Cleanup, Restrict
    <3>2. DOMAIN cache \subseteq Outdated
      BY TTLAssumption DEF Aged, Outdated, Expired
    <3> QED BY <3>1, <3>2
  <2>3. tick = 0 /\ [Next]_vars => (tick = 0)' \/ Cleanup
    <3>1. ASSUME NEW r \in Requests, Receive(r) \/ Serve(r) PROVE tick' = tick
      BY <3>1 DEF Receive, Serve, Replay, Miss, Run, Store, Skip
    <3>2. tick = 0 /\ Advance => tick' = 0
      BY DEF Advance
    <3>3. UNCHANGED vars => tick' = tick
      BY DEF vars
    <3> QED BY <3>1, <3>2, <3>3 DEF Next
  <2>4. Aged /\ <<Cleanup>>_vars => (k \notin DOMAIN cache)'
    BY <2>2
  <2>5. Aged /\ tick = 0 /\ [Next]_vars => (tick = 0)' \/ (k \notin DOMAIN cache)'
    <3> HIDE DEF Aged
    <3> QED BY <2>2, <2>3
  <2> QED
    BY <2>1, <2>4, <2>5, AgedStep, IInvInit, IInvStep, PTL
    DEF Spec, Ticking, CleanupScheduled
<1> QED BY <1>1 DEF EntriesLeave
=============================================================================
