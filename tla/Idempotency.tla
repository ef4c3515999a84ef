---------------------------- MODULE Idempotency -----------------------------
(***************************************************************************)
(* The idempotency middleware: a map from the Idempotency-Key header to    *)
(* the response of the first successful run, looked up before the handler  *)
(* and written after it, with nothing that holds the key in between; and   *)
(* the goroutine that evicts old entries each half TTL.                    *)
(*                                                                         *)
(* The handler behind the middleware is any handler: it runs and answers   *)
(* 2xx or not.  Time is counted in ages, which stop at Expired, one more   *)
(* than the TTL.  since, raced and evicted are ghost state.                *)
(*                                                                         *)
(* The operators whose name starts with Bad are not part of the model: each*)
(* is a plausible mistake in the operator that follows it.                 *)
(***************************************************************************)
EXTENDS Integers, Functions

CONSTANTS
  Requests,   \* the HTTP requests the clients send
  Keys,       \* the values of Idempotency-Key they use
  NoKey,      \* the header is absent
  TTL,        \* cfg.IdempotencyTTL
  NoReq,
  NoReply

ASSUME TTLAssumption == TTL \in Nat /\ TTL >= 2
ASSUME NoKeyAssumption == NoKey \notin Keys
ASSUME NoReplyAssumption == NoReply \notin [by : Requests, ok : BOOLEAN]

VARIABLES
  pc,         \* where the goroutine of each request is in the middleware
  req,        \* its method and key
  reply,      \* what it was answered: whose run made it, and whether 2xx
  cache,      \* IdempotencyStore.cache, a map over the keys stored
  tick,       \* time until the ticker of the cleanup fires
  since,      \* the true age of each key's entry
  raced,      \* the pairs <<r, s>>: s was past its lookup when r stored its answer
  evicted     \* the requests whose key was evicted after they stored

vars == <<pc, req, reply, cache, tick, since, raced, evicted>>

Expired == TTL + 1
Period == TTL \div 2

Reply == [by : Requests, ok : BOOLEAN]

\* SavedResponse: the age of its CreatedAt rather than CreatedAt.
Entry == [by : Requests, ok : BOOLEAN, age : 0..Expired]

TypeOK ==
  /\ pc \in [Requests -> {"idle", "lookup", "run", "store", "done"}]
  /\ req \in [Requests -> [post : BOOLEAN, key : Keys \cup {NoKey}] \cup {NoReq}]
  /\ reply \in [Requests -> Reply \cup {NoReply}]
  /\ DOMAIN cache \subseteq Keys
  /\ \A k \in DOMAIN cache : cache[k] \in Entry
  /\ tick \in 0..Period
  /\ since \in [Keys -> 0..Expired]
  /\ raced \subseteq Requests \X Requests
  /\ evicted \subseteq Requests

Init ==
  /\ pc = [r \in Requests |-> "idle"]
  /\ req = [r \in Requests |-> NoReq]
  /\ reply = [r \in Requests |-> NoReply]
  /\ cache = [k \in {} |-> NoReply]
  /\ tick = Period
  /\ since = [k \in Keys |-> 0]
  /\ raced = {}
  /\ evicted = {}

\* A missing header is taken for a key, the empty one.
BadKeyed(q) == q.post

\* The middleware looks only at a POST that carries a key.
Keyed(q) == q.post /\ q.key # NoKey

-----------------------------------------------------------------------------
Receive(r) ==
  /\ pc[r] = "idle"
  /\ \E q \in [post : BOOLEAN, key : Keys \cup {NoKey}] :
       /\ req' = [req EXCEPT ![r] = q]
       /\ pc' = [pc EXCEPT ![r] = IF Keyed(q) THEN "lookup" ELSE "run"]
  /\ UNCHANGED <<reply, cache, tick, since, raced, evicted>>

Replay(r) ==
  /\ pc[r] = "lookup"
  /\ req[r].key \in DOMAIN cache
  /\ reply' = [reply EXCEPT ![r] = [by |-> cache[req[r].key].by,
                                    ok |-> cache[req[r].key].ok]]
  /\ pc' = [pc EXCEPT ![r] = "done"]
  /\ UNCHANGED <<req, cache, tick, since, raced, evicted>>

\* An entry that is found counts only if it is still new.
BadMiss(r) ==
  /\ pc[r] = "lookup"
  /\ req[r].key \in DOMAIN cache => cache[req[r].key].age > TTL
  /\ pc' = [pc EXCEPT ![r] = "run"]
  /\ UNCHANGED <<req, reply, cache, tick, since, raced, evicted>>

Miss(r) ==
  /\ pc[r] = "lookup"
  /\ req[r].key \notin DOMAIN cache
  /\ pc' = [pc EXCEPT ![r] = "run"]
  /\ UNCHANGED <<req, reply, cache, tick, since, raced, evicted>>

\* c.Next(): the handler does its work and writes a response.
Run(r) ==
  /\ pc[r] = "run"
  /\ \E ok \in BOOLEAN : reply' = [reply EXCEPT ![r] = [by |-> r, ok |-> ok]]
  /\ pc' = [pc EXCEPT ![r] = IF Keyed(req[r]) THEN "store" ELSE "done"]
  /\ UNCHANGED <<req, cache, tick, since, raced, evicted>>

\* The requests past the lookup of key k that have not finished.
Running(k) ==
  {s \in Requests : pc[s] \in {"run", "store"} /\ Keyed(req[s]) /\ req[s].key = k}

\* Any answer is kept.
BadStore(r) ==
  /\ pc[r] = "store"
  /\ LET k == req[r].key
         entry == [by |-> r, ok |-> reply[r].ok, age |-> Expired]
     IN  /\ cache' = [l \in DOMAIN cache \cup {k} |-> IF l = k THEN entry ELSE cache[l]]
         /\ since' = [since EXCEPT ![k] = 0]
         /\ raced' = raced \cup ({r} \X Running(k))
  /\ pc' = [pc EXCEPT ![r] = "done"]
  /\ UNCHANGED <<req, reply, tick, evicted>>

\* A 2xx answer is kept.  CreatedAt is not among the fields set, so the entry's
\* age is that of the zero time: older than any TTL.
Store(r) ==
  /\ pc[r] = "store"
  /\ reply[r].ok
  /\ LET k == req[r].key
         entry == [by |-> r, ok |-> TRUE, age |-> Expired]
     IN  /\ cache' = [l \in DOMAIN cache \cup {k} |-> IF l = k THEN entry ELSE cache[l]]
         /\ since' = [since EXCEPT ![k] = 0]
         /\ raced' = raced \cup ({r} \X Running(k))
  /\ pc' = [pc EXCEPT ![r] = "done"]
  /\ UNCHANGED <<req, reply, tick, evicted>>

\* Any other answer is not; the next request with the key runs again.
BadSkip(r) ==
  /\ pc[r] = "store"
  /\ ~reply[r].ok
  /\ pc' = [pc EXCEPT ![r] = "lookup"]
  /\ UNCHANGED <<req, reply, cache, tick, since, raced, evicted>>

Skip(r) ==
  /\ pc[r] = "store"
  /\ ~reply[r].ok
  /\ pc' = [pc EXCEPT ![r] = "done"]
  /\ UNCHANGED <<req, reply, cache, tick, since, raced, evicted>>

\* The requests that stored an answer for one of the keys in ks.
StoredFor(ks) ==
  {r \in Requests : /\ pc[r] = "done" /\ Keyed(req[r]) /\ req[r].key \in ks
                    /\ reply[r].by = r /\ reply[r].ok}

Older(age) == IF age < Expired THEN age + 1 ELSE Expired

\* Time passes; the ticker does not wait for the cleanup.
Advance ==
  /\ cache' = [k \in DOMAIN cache |-> [cache[k] EXCEPT !.age = Older(@)]]
  /\ since' = [k \in Keys |-> Older(since[k])]
  /\ tick' = IF tick > 0 THEN tick - 1 ELSE 0
  /\ UNCHANGED <<pc, req, reply, raced, evicted>>

\* Entries are compared with the TTL for equality.
BadOutdated == {k \in DOMAIN cache : cache[k].age = TTL}

Outdated == {k \in DOMAIN cache : cache[k].age > TTL}

\* The ticker fired.  Its ticks keep their schedule, so the next one may come
\* sooner than a period after a cleanup that was late.
Cleanup ==
  /\ tick = 0
  /\ cache' = Restrict(cache, DOMAIN cache \ Outdated)
  /\ evicted' = evicted \cup StoredFor(Outdated)
  /\ tick' \in 0..Period
  /\ UNCHANGED <<pc, req, reply, since, raced>>

Serve(r) == Replay(r) \/ Miss(r) \/ Run(r) \/ Store(r) \/ Skip(r)

Next == \/ \E r \in Requests : Receive(r) \/ Serve(r)
        \/ Advance
        \/ Cleanup

Spec == Init /\ [][Next]_vars

\* The Go scheduler runs every ready goroutine, handlers end, and time passes.
FairSpec == /\ Spec
            /\ \A r \in Requests : WF_vars(Serve(r))
            /\ WF_vars(Advance)
            /\ WF_vars(Cleanup)

-----------------------------------------------------------------------------
\* The handler of r ran, answered 2xx, and the answer was stored.
Stored(r) == r \in StoredFor(Keys)

\* A replayed response is one that a run under the same key gave and that was a
\* success: errors are never replayed, and no key is answered with the response
\* of another (idempotency.go 76-109).
ReplayIsFaithful ==
  \A r \in Requests :
    pc[r] = "done" /\ reply[r].by # r =>
      LET s == reply[r].by
      IN  Stored(s) /\ Keyed(req[r]) /\ req[s].key = req[r].key /\ reply[s] = reply[r]

\* Two successful runs under one key: the later had looked the key up before the
\* earlier stored its answer, or the key was evicted in between.  A client that
\* waits for the answer before it retries runs twice only by eviction: README.md 66,
\* "Incoming duplicate requests are intercepted", holds once the answer is stored, not
\* while the first handler runs (idempotency.go 76-109).
SecondRunExplained ==
  \A r, s \in Requests :
    r # s /\ Stored(r) /\ Stored(s) /\ req[r].key = req[s].key =>
      <<r, s>> \in raced \/ <<s, r>> \in raced \/ r \in evicted \/ s \in evicted

\* Every request is answered (idempotency.go 63-111).
EveryRequestServed == \A r \in Requests : pc[r] # "idle" ~> pc[r] = "done"

\* The cache does not keep an entry for ever (idempotency.go 41-61).
EntriesLeave == \A k \in Keys : k \in DOMAIN cache ~> k \notin DOMAIN cache

\* README.md 66, "periodically evicts expired entries using a configurable
\* Time-To-Live": an entry leaves no earlier than its TTL.  CreatedAt is never
\* set, so each cleanup takes every entry.
EvictedOnlyWhenExpired ==
  [][\A k \in DOMAIN cache : k \notin DOMAIN cache' => since[k] > TTL]_vars
=============================================================================
