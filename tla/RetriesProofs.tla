---------------------------- MODULE RetriesProofs ----------------------------
(***************************************************************************)
(* Machine-checked proofs about Retries, for any requests, keys and TTL: a *)
(* retry under a key that was not evicted leaves no trace, and a replay is *)
(* still true.  A step is a step of Checkout or leaves it alone, and a step*)
(* of Idempotency or leaves that alone, so the invariants of both hold.    *)
(***************************************************************************)
EXTENDS Retries, CheckoutProofs

MP == INSTANCE IdempotencyProofs WITH pc <- mwPc, req <- mwReq

-----------------------------------------------------------------------------
(* The two sides.                                                           *)

\* A shop at work satisfies the invariant of Checkout.
LEMMA ReadyIInv == Ready => IInv
<1> SUFFICES ASSUME Ready PROVE IInv
  OBVIOUS
<1>1. TypeInv
  BY TotalsAssumption, ContentsAssumption
  DEF Ready, Quiet, TypeInv, TypeOK, Routed, NoIntent, Intent, Status, Labels, Codes,
      CreateLabels, HoldLabels, Event
<1>2. Answered /\ Staged
  BY NoReqAssumption
  DEF Ready, Quiet, Answered, Unanswered, Labels, Staged, NoIntent, Opened
<1>3. Signed
  BY DEF Ready, Quiet, Signed, StoredSigned, CopyFaithful, HoldLabels, NoIntent
<1>4. Settled /\ Announced
  BY DEF Ready, Quiet, Settled, Winner, Announced, NoIntent
<1> QED BY <1>1, <1>2, <1>3, <1>4 DEF IInv

\* Each step is one of these.
LEMMA RetriesCases ==
  ASSUME [RetriesNext]_<<vars, mwVars, before>>
  PROVE  \/ \E r \in Requests : Arrive(r) \/ Middleware(r) \/ Handler(r) \/ Return(r)
         \/ M!Advance \/ M!Cleanup
         \/ UNCHANGED <<mwVars, before>>
BY DEF RetriesNext, Call, Clock

\* A step is a step of Checkout, or leaves its variables alone.
LEMMA OneCheckoutStep == [RetriesNext]_<<vars, mwVars, before>> => [Next]_vars
<1> SUFFICES ASSUME [RetriesNext]_<<vars, mwVars, before>> PROVE [Next]_vars
  OBVIOUS
<1>1. ASSUME NEW r \in Requests, Arrive(r) PROVE Next
  BY <1>1 DEF Arrive, Next
<1>2. ASSUME NEW r \in Requests, Handler(r) PROVE Next
  BY <1>2 DEF Handler, Next
<1>3. ASSUME NEW r \in Requests, Middleware(r) \/ Return(r) PROVE UNCHANGED vars
  BY <1>3 DEF Middleware, Return
<1>4. CASE Clock
  BY <1>4 DEF Clock
<1>5. ASSUME NEW t \in Tokens, ExpireToken(t) PROVE Next
  BY <1>5 DEF Next
<1> QED BY <1>1, <1>2, <1>3, <1>4, <1>5 DEF RetriesNext, Call

\* A step is a step of Idempotency, or leaves its variables alone.
LEMMA OneMiddlewareStep ==
  [RetriesNext]_<<vars, mwVars, before>> => [MP!Next]_(MP!vars)
<1> SUFFICES ASSUME [RetriesNext]_<<vars, mwVars, before>> PROVE [MP!Next]_(MP!vars)
  OBVIOUS
<1>1. ASSUME NEW r \in Requests, Arrive(r) PROVE MP!Next
  BY <1>1 DEF Arrive, M!Receive, MP!Receive, MP!Next, M!Keyed, MP!Keyed
<1>2. ASSUME NEW r \in Requests, Middleware(r) PROVE MP!Next
  BY <1>2 DEF Middleware, MP!Next, MP!Serve, M!Replay, MP!Replay, M!Miss, MP!Miss,
    M!Store, MP!Store, M!Skip, MP!Skip, M!Running, MP!Running, M!Keyed, MP!Keyed,
    M!Expired, MP!Expired
<1>3. ASSUME NEW r \in Requests, Return(r) PROVE MP!Next
  BY <1>3 DEF Return, MP!Next, MP!Serve, M!Run, MP!Run, M!Keyed, MP!Keyed
<1>4. CASE M!Advance
  <2>1. MP!Advance
    BY <1>4, Zenon DEF M!Advance, MP!Advance, M!Older, MP!Older, M!Expired, MP!Expired
  <2> QED BY <2>1 DEF MP!Next
<1>5. CASE M!Cleanup
  <2>1. MP!Cleanup
    BY <1>5, Zenon
    DEF M!Cleanup, MP!Cleanup, M!Outdated, MP!Outdated, M!StoredFor, MP!StoredFor,
        M!Period, MP!Period, M!Keyed, MP!Keyed, M!Restrict, MP!Restrict
  <2> QED BY <2>1 DEF MP!Next
<1>6. ASSUME NEW r \in Requests, Handler(r) PROVE UNCHANGED MP!vars
  BY <1>6 DEF Handler, mwVars, MP!vars
<1>7. CASE UNCHANGED <<mwVars, before>>
  BY <1>7 DEF mwVars, MP!vars
<1> QED BY <1>1, <1>2, <1>3, <1>4, <1>5, <1>6, <1>7, RetriesCases

Both == IInv /\ MP!IInv

\* Every step keeps the invariants of both sides.
LEMMA BothStep == Both /\ [RetriesNext]_<<vars, mwVars, before>> => Both'
<1>1. IInv /\ [RetriesNext]_<<vars, mwVars, before>> => IInv'
  BY OneCheckoutStep, TypeInvStep, AnsweredStep, StagedStep, SignedStep, SettledStep,
     AnnouncedStep
  DEF IInv
<1>2. MP!IInv /\ [RetriesNext]_<<vars, mwVars, before>> => MP!IInv'
  BY OneMiddlewareStep, MP!IInvStep, RetriesAssumption
<1> QED BY <1>1, <1>2 DEF Both

\* They hold at first.
LEMMA BothInit == RetriesInit => Both
<1>1. RetriesInit => IInv
  BY ReadyIInv DEF RetriesInit
<1>2. RetriesInit => MP!Init
  BY DEF RetriesInit, M!Init, MP!Init, M!Period, MP!Period
<1> QED BY <1>1, <1>2, MP!IInvInit, RetriesAssumption DEF Both

-----------------------------------------------------------------------------
(* The handler under the middleware.                                        *)

\* Request r was answered by its own run.
Ran(r) == reply[r].by = r

\* Where a handler is, by where the middleware is, and what it answered.
Coupled ==
  \A r \in Requests :
    /\ mwPc[r] = "idle" <=> pc[r] = "idle"
    /\ mwPc[r] = "lookup" => pc[r] = "auth"
    /\ mwPc[r] = "store" \/ (mwPc[r] = "done" /\ Ran(r)) =>
         pc[r] = "done" /\ reply[r].ok = Successful(code[r])
    /\ mwPc[r] = "done" /\ ~Ran(r) => pc[r] = "auth"

\* A handler's step moves its own request alone.
LEMMA HandlerSteps ==
  ASSUME TypeInv, NEW r \in Requests, Serve(r)
  PROVE  /\ pc[r] # "idle" /\ pc'[r] # "idle"
         /\ \A s \in Requests : s # r => pc'[s] = pc[s] /\ code'[s] = code[s]
<1> USE DEF TypeInv, TypeOK, Goto, Send, Refuse
<1>1. CASE Authorize(r)
  BY <1>1 DEF Authorize
<1>2. CASE CreateIntent(r)
  BY <1>2 DEF CreateIntent, LoadCart, VerifyMandate, CreateStored, OpenIntent,
    ReplyCreated, EmitCreated
<1>3. CASE LoadIntent(r) \/ RecordSpend(r) \/ Charge(r)
  BY <1>3 DEF LoadIntent, RecordSpend, Charge
<1>4. CASE MarkSucceeded(r) \/ ReplySucceeded(r) \/ EmitSucceeded(r)
  BY <1>4 DEF MarkSucceeded, ReplySucceeded, EmitSucceeded
<1>5. CASE MarkFailed(r) \/ EmitFailed(r)
  BY <1>5 DEF MarkFailed, EmitFailed
<1> QED BY <1>1, <1>2, <1>3, <1>4, <1>5 DEF Serve, ConfirmIntent

\* Every step keeps the handlers coupled to the middleware.
LEMMA CoupledStep ==
  Both /\ Coupled /\ [RetriesNext]_<<vars, mwVars, before>> => Coupled'
<1> SUFFICES ASSUME Both, Coupled, [RetriesNext]_<<vars, mwVars, before>>
             PROVE  Coupled'
  OBVIOUS
<1>0. /\ pc \in [Requests -> Labels] /\ code \in [Requests -> Codes]
      /\ mwPc \in [Requests -> {"idle", "lookup", "run", "store", "done"}]
      /\ reply \in [Requests -> MP!Reply \cup {NoReply}]
  BY DEF Both, IInv, TypeInv, TypeOK, MP!IInv, MP!Typed
<1>1. ASSUME NEW r \in Requests, Arrive(r) PROVE Coupled'
  <2>1. /\ pc[r] = "idle" /\ pc' = [pc EXCEPT ![r] = "auth"]
        /\ UNCHANGED <<code, reply>>
    BY <1>1 DEF Arrive, ReceiveCreate, ReceiveConfirm, Receive, Goto, M!Receive
  <2>2. \E l \in {"lookup", "run"} : mwPc' = [mwPc EXCEPT ![r] = l]
    BY <1>1 DEF Arrive, M!Receive
  <2> QED BY <1>0, <2>1, <2>2 DEF Coupled, Ran
<1>2. ASSUME NEW r \in Requests, Middleware(r) PROVE Coupled'
  <2>0. UNCHANGED <<pc, code>>
    BY <1>2 DEF Middleware, vars
  <2>1. CASE M!Replay(r)
    <3>1. /\ mwPc[r] = "lookup" /\ mwPc' = [mwPc EXCEPT ![r] = "done"]
          /\ mwReq[r].key \in DOMAIN cache
          /\ \A s \in Requests : s # r => reply'[s] = reply[s]
          /\ reply'[r].by = cache[mwReq[r].key].by
      BY <1>0, <2>1 DEF M!Replay
    <3>2. reply'[r].by # r
      BY <3>1 DEF Both, MP!IInv, MP!Backed, MP!Stored, MP!StoredFor
    <3> QED BY <1>0, <2>0, <3>1, <3>2 DEF Coupled, Ran
  <2>2. CASE M!Miss(r)
    BY <1>0, <2>0, <2>2 DEF M!Miss, Coupled, Ran
  <2>3. CASE M!Store(r) \/ M!Skip(r)
    <3>1. mwPc[r] = "store" /\ Ran(r)
      BY <2>3 DEF M!Store, M!Skip, Ran, Both, MP!IInv, MP!Placed
    <3>2. mwPc' = [mwPc EXCEPT ![r] = "done"] /\ reply' = reply
      BY <2>3 DEF M!Store, M!Skip
    <3> QED BY <1>0, <2>0, <3>1, <3>2 DEF Coupled, Ran
  <2> QED BY <1>2, <2>1, <2>2, <2>3 DEF Middleware
<1>3. ASSUME NEW r \in Requests, Handler(r) PROVE Coupled'
  <2>1. UNCHANGED <<mwPc, reply>> /\ mwPc[r] = "run"
    BY <1>3 DEF Handler, mwVars
  <2>2. /\ pc[r] # "idle" /\ pc'[r] # "idle"
        /\ \A s \in Requests : s # r => pc'[s] = pc[s] /\ code'[s] = code[s]
    BY <1>3, HandlerSteps DEF Handler, Both, IInv, TypeInv
  <2> QED BY <1>0, <2>1, <2>2 DEF Coupled, Ran
<1>4. ASSUME NEW r \in Requests, Return(r) PROVE Coupled'
  <2>1. /\ pc[r] = "done" /\ UNCHANGED <<pc, code>>
        /\ reply'[r].ok = Successful(code[r])
    BY <1>4 DEF Return, vars
  <2>2. PICK ok \in BOOLEAN : reply' = [reply EXCEPT ![r] = [by |-> r, ok |-> ok]]
    BY <1>4 DEF Return, M!Run
  <2>3. \/ mwPc' = [mwPc EXCEPT ![r] = "store"]
        \/ mwPc' = [mwPc EXCEPT ![r] = "done"]
    BY <1>4, Zenon DEF Return, M!Run
  <2>4. /\ \A s \in Requests : s # r => reply'[s] = reply[s]
        /\ reply'[r].by = r
    BY <1>0, <2>2
  <2> QED BY <1>0, <2>1, <2>3, <2>4 DEF Coupled, Ran
<1>5. CASE Clock \/ (\E t \in Tokens : ExpireToken(t) /\ UNCHANGED <<mwVars, before>>)
           \/ UNCHANGED <<vars, mwVars, before>>
  <2>1. UNCHANGED <<pc, code, mwPc, reply>>
    BY <1>5 DEF Clock, M!Advance, M!Cleanup, ExpireToken, vars, mwVars
  <2> QED BY <2>1 DEF Coupled, Ran
<1> QED BY <1>1, <1>2, <1>3, <1>4, <1>5 DEF RetriesNext, Call

-----------------------------------------------------------------------------
(* The retries.                                                             *)

\* Who had been answered when a request came stays answered, and a retry is at the
\* lookup or was answered by a replay.
Late ==
  /\ before \in [Requests -> SUBSET Requests]
  /\ \A r, s \in Requests : s \in before[r] =>
       /\ mwPc[r] # "idle" /\ mwPc[s] = "done"
       /\ SameKey(r, s) /\ MP!Stored(s) /\ s \notin evicted =>
            mwPc[r] = "lookup" \/ (mwPc[r] = "done" /\ ~Ran(r))

RetriesInv == Both /\ Coupled /\ Late

\* What a request was answered, and that it was stored, stays.
LEMMA AnsweredStays ==
  ASSUME Both, NEW s \in Requests, mwPc[s] = "done",
         [RetriesNext]_<<vars, mwVars, before>>
  PROVE  /\ mwPc'[s] = "done" /\ mwReq'[s] = mwReq[s] /\ reply'[s] = reply[s]
         /\ MP!Stored(s)' = MP!Stored(s)
         /\ evicted \subseteq evicted'
<1>0. /\ mwPc \in [Requests -> {"idle", "lookup", "run", "store", "done"}]
      /\ reply \in [Requests -> MP!Reply \cup {NoReply}]
      /\ mwReq \in [Requests -> [post : BOOLEAN, key : Keys \cup {NoKey}] \cup {NoReq}]
  BY DEF Both, MP!IInv, MP!Typed
<1>1. /\ mwPc'[s] = "done" /\ mwReq'[s] = mwReq[s] /\ reply'[s] = reply[s]
      /\ evicted \subseteq evicted'
  <2>1. ASSUME NEW r \in Requests, Arrive(r) PROVE <1>1!:
    BY <1>0, <2>1 DEF Arrive, M!Receive
  <2>2. ASSUME NEW r \in Requests, Middleware(r) PROVE <1>1!:
    BY <1>0, <2>2 DEF Middleware, M!Replay, M!Miss, M!Store, M!Skip
  <2>3. ASSUME NEW r \in Requests, Return(r) PROVE <1>1!:
    BY <1>0, <2>3 DEF Return, M!Run
  <2>4. CASE M!Advance \/ M!Cleanup
    BY <2>4 DEF M!Advance, M!Cleanup
  <2>5. CASE UNCHANGED <<mwVars, before>> \/ \E r \in Requests : Handler(r)
    BY <2>5 DEF mwVars, Handler
  <2> QED BY <2>1, <2>2, <2>3, <2>4, <2>5, RetriesCases
<1> QED BY <1>1 DEF MP!Stored, MP!StoredFor

\* A request that leaves the lookup while an answer is stored for its key was
\* answered with a replay.
LEMMA RetryReplayed ==
  ASSUME Both, Coupled, NEW r \in Requests, mwPc[r] = "lookup", Middleware(r),
         NEW s \in Requests, SameKey(r, s), MP!Stored(s), s \notin evicted
  PROVE  mwPc'[r] = "done" /\ ~Ran(r)'
<1>0. /\ mwPc \in [Requests -> {"idle", "lookup", "run", "store", "done"}]
      /\ reply \in [Requests -> MP!Reply \cup {NoReply}]
  BY DEF Both, MP!IInv, MP!Typed
<1>1. mwReq[r].key \in DOMAIN cache
  BY DEF SameKey, Both, MP!IInv, MP!Kept
<1>2. M!Replay(r)
  BY <1>1 DEF Middleware, M!Miss, M!Store, M!Skip
<1>3. reply'[r].by = cache[mwReq[r].key].by /\ mwPc'[r] = "done"
  BY <1>0, <1>2 DEF M!Replay
<1>4. cache[mwReq[r].key].by # r
  BY <1>1 DEF Both, MP!IInv, MP!Backed, MP!Stored, MP!StoredFor
<1> QED BY <1>3, <1>4 DEF Ran

\* Every step keeps retries at the lookup or replayed.
LEMMA LateStep == RetriesInv /\ [RetriesNext]_<<vars, mwVars, before>> => Late'
<1> SUFFICES ASSUME RetriesInv, [RetriesNext]_<<vars, mwVars, before>> PROVE Late'
  OBVIOUS
<1> USE DEF RetriesInv
<1>0. /\ mwPc \in [Requests -> {"idle", "lookup", "run", "store", "done"}]
      /\ reply \in [Requests -> MP!Reply \cup {NoReply}]
      /\ mwReq \in [Requests -> [post : BOOLEAN, key : Keys \cup {NoKey}] \cup {NoReq}]
      /\ before \in [Requests -> SUBSET Requests]
  BY DEF Both, MP!IInv, MP!Typed, Late
<1>a. \A s \in Requests : mwPc[s] = "done" =>
        /\ mwPc'[s] = "done" /\ mwReq'[s] = mwReq[s] /\ reply'[s] = reply[s]
        /\ MP!Stored(s)' = MP!Stored(s)
        /\ evicted \subseteq evicted'
  BY AnsweredStays
\* A step that leaves before alone, and each retry where it is or replayed.
<1>b. ASSUME before' = before,
             \A r \in Requests : mwPc[r] # "idle" => mwPc'[r] # "idle" /\ mwReq'[r] = mwReq[r],
             \A r, s \in Requests :
               /\ mwPc[r] = "lookup" /\ mwPc'[r] # "lookup"
               /\ SameKey(r, s) /\ MP!Stored(s) /\ s \notin evicted
               => mwPc'[r] = "done" /\ ~Ran(r)'
      PROVE  Late'
  <2> SUFFICES ASSUME NEW r \in Requests, NEW s \in Requests, s \in before[r]
               PROVE  /\ mwPc'[r] # "idle" /\ mwPc'[s] = "done"
                      /\ SameKey(r, s)' /\ MP!Stored(s)' /\ s \notin evicted' =>
                           mwPc'[r] = "lookup" \/ (mwPc'[r] = "done" /\ ~Ran(r)')
    BY <1>0, <1>b DEF Late
  <2>1. mwPc[r] # "idle" /\ mwPc[s] = "done"
    BY DEF Late
  <2>2. mwPc'[r] # "idle" /\ mwPc'[s] = "done"
    BY <1>a, <1>b, <2>1
  <2>3. ASSUME SameKey(r, s)', MP!Stored(s)', s \notin evicted'
        PROVE  mwPc'[r] = "lookup" \/ (mwPc'[r] = "done" /\ ~Ran(r)')
    <3>1. SameKey(r, s) /\ MP!Stored(s) /\ s \notin evicted
      BY <1>a, <1>b, <2>1, <2>3 DEF SameKey, M!Keyed
    <3>2. mwPc[r] = "lookup" \/ (mwPc[r] = "done" /\ ~Ran(r))
      BY <3>1 DEF Late
    <3> QED BY <1>a, <1>b, <3>1, <3>2 DEF Ran
  <2> QED BY <2>2, <2>3
<1>1. ASSUME NEW r \in Requests, Arrive(r) PROVE Late'
  <2>1. /\ before' = [before EXCEPT ![r] = Replied]
        /\ mwPc[r] = "idle" /\ mwPc'[r] \in {"lookup", "run"}
        /\ M!Keyed(mwReq'[r]) => mwPc'[r] = "lookup"
        /\ \A s \in Requests : s # r => mwPc'[s] = mwPc[s] /\ mwReq'[s] = mwReq[s]
        /\ UNCHANGED <<reply, evicted>>
    BY <1>0, <1>1 DEF Arrive, M!Receive, M!Keyed
  <2>2. before' \in [Requests -> SUBSET Requests]
    BY <1>0, <2>1 DEF Replied
  <2>3. ASSUME NEW q \in Requests, NEW s \in Requests, s \in before'[q]
        PROVE  /\ mwPc'[q] # "idle" /\ mwPc'[s] = "done"
               /\ SameKey(q, s)' /\ MP!Stored(s)' /\ s \notin evicted' =>
                    mwPc'[q] = "lookup" \/ (mwPc'[q] = "done" /\ ~Ran(q)')
    <3>1. CASE q = r
      <4>1. mwPc[s] = "done"
        BY <1>0, <2>1, <2>3, <3>1 DEF Replied
      <4> QED BY <1>a, <2>1, <3>1, <4>1 DEF SameKey
    <3>2. CASE q # r
      <4>1. s \in before[q] /\ mwPc[q] # "idle" /\ mwPc[s] = "done" /\ s # r
        BY <1>0, <2>1, <2>3, <3>2 DEF Late
      <4>2. SameKey(q, s)' /\ MP!Stored(s)' => SameKey(q, s) /\ MP!Stored(s)
        BY <1>a, <2>1, <3>2, <4>1 DEF SameKey, M!Keyed
      <4> QED BY <1>a, <2>1, <3>2, <4>1, <4>2 DEF Late, Ran
    <3> QED BY <3>1, <3>2
  <2> QED BY <2>2, <2>3 DEF Late
<1>2. ASSUME NEW r \in Requests, Middleware(r) PROVE Late'
  <2>1. /\ before' = before /\ mwReq' = mwReq
        /\ \A s \in Requests : s # r => mwPc'[s] = mwPc[s]
        /\ mwPc'[r] # "idle"
    BY <1>0, <1>2 DEF Middleware, M!Replay, M!Miss, M!Store, M!Skip
  <2> QED BY <1>0, <1>b, <1>2, <2>1, RetryReplayed
<1>3. ASSUME NEW r \in Requests, Return(r) PROVE Late'
  <2>1. mwPc[r] = "run" /\ UNCHANGED <<before, mwReq>>
    BY <1>3 DEF Return, M!Run
  <2>2. \/ mwPc' = [mwPc EXCEPT ![r] = "store"]
        \/ mwPc' = [mwPc EXCEPT ![r] = "done"]
    BY <1>3, Zenon DEF Return, M!Run
  <2> QED BY <1>0, <1>b, <2>1, <2>2
<1>4. CASE Clock \/ (\E r \in Requests : Handler(r))
           \/ (\E t \in Tokens : ExpireToken(t) /\ UNCHANGED <<mwVars, before>>)
           \/ UNCHANGED <<vars, mwVars, before>>
  <2>1. UNCHANGED <<before, mwPc, mwReq>>
    BY <1>4 DEF Clock, M!Advance, M!Cleanup, Handler, mwVars
  <2> QED BY <1>b, <2>1
<1> QED BY <1>1, <1>2, <1>3, <1>4 DEF RetriesNext, Call

\* The invariants of both sides, their coupling, and where retries are, together.
THEOREM RetriesInductive == RetriesSpec => []RetriesInv
<1>1. RetriesInit => RetriesInv
  <2> SUFFICES ASSUME RetriesInit PROVE RetriesInv
    OBVIOUS
  <2>1. \A r \in Requests : mwPc[r] = "idle" /\ pc[r] = "idle"
    BY DEF RetriesInit, M!Init, Ready, Quiet
  <2> QED BY <2>1, BothInit DEF RetriesInv, Coupled, Late, RetriesInit
<1>2. RetriesInv /\ [RetriesNext]_<<vars, mwVars, before>> => RetriesInv'
  BY BothStep, CoupledStep, LateStep DEF RetriesInv
<1> QED BY <1>1, <1>2, PTL DEF RetriesSpec

\* A retry of a call that was answered 2xx under a key not evicted gets no further
\* than the lookup.
THEOREM RetriesTraceless == RetriesSpec => []RetryLeavesNoTrace
<1>1. RetriesInv => RetryLeavesNoTrace
  <2> SUFFICES ASSUME RetriesInv, NEW r \in Requests, NEW s \in Requests,
                      s \in before[r], SameKey(r, s), M!Stored(s), s \notin evicted
               PROVE  pc[r] = "auth"
    BY DEF RetryLeavesNoTrace
  <2>1. MP!Stored(s)
    BY DEF M!Stored, M!StoredFor, M!Keyed, MP!Stored, MP!StoredFor, MP!Keyed
  <2> QED BY <2>1 DEF RetriesInv, Late, Coupled
<1> QED BY <1>1, RetriesInductive, PTL

\* The request whose answer is replayed ran to its end, and was answered 200 or 201.
LEMMA ReplayedRan ==
  ASSUME RetriesInv, NEW r \in Replied, reply[r].by # r
  PROVE  reply[r].by \in Requests /\ code[reply[r].by] \in {200, 201}
<1> DEFINE s == reply[r].by
<1>1. s \in Requests /\ MP!Stored(s)
  BY DEF Replied, RetriesInv, Both, MP!IInv, MP!ReplayIsFaithful, MP!Stored, MP!StoredFor
<1>2. mwPc[s] = "done" /\ Ran(s) /\ reply[s].ok
  BY <1>1 DEF MP!Stored, MP!StoredFor, Ran
<1>3. Successful(code[s])
  BY <1>1, <1>2 DEF RetriesInv, Coupled
<1> QED BY <1>1, <1>3 DEF Successful, RetriesInv, Both, IInv, TypeInv, TypeOK, Codes

\* An answer of 200 or 201 to a call, and what may have become of the intent since.
LEMMA AnswerAged ==
  ASSUME IInv, Traced, NEW s \in Requests
  PROVE  /\ code[s] = 200 => s \in captured /\ intents[req[s].id].status = "succeeded"
         /\ code[s] = 201 =>
              /\ intents[s].cart = req[s].cart /\ intents[s].mandate = req[s].mandate
              /\ \/ intents[s].status = "requires_confirmation"
                 \/ /\ intents[s].status = "succeeded"
                    /\ \E q \in captured : req[q].id = s
                 \/ /\ intents[s].status = "failed"
                    /\ \E q \in Requests : code[q] = 402 /\ req[q].id = s
<1>1. code[s] = 200 => s \in captured /\ intents[req[s].id].status = "succeeded"
  BY DEF IInv, Answered, Settled, Winner
<1>2. code[s] = 201 => Opened(s)
  BY DEF IInv, Staged
<1>3. Opened(s) => intents[s].cart = req[s].cart /\ intents[s].mandate = req[s].mandate
  BY DEF Traced, Opened
<1>4. intents[s].status \in Status
  BY DEF IInv, TypeInv, TypeOK, Intent
<1>5. intents[s].status = "succeeded" => \E q \in captured : req[q].id = s
  BY DEF IInv, Settled
<1>6. intents[s].status = "failed" => \E q \in Requests : code[q] = 402 /\ req[q].id = s
  BY DEF Traced
<1> QED BY <1>1, <1>2, <1>3, <1>4, <1>5, <1>6 DEF Opened, Status

\* A client that repeats a call is replayed its success: a 200 that is true for good,
\* or a 201 of an intent that only its own confirms have taken on from there.
THEOREM ReplaysTrue == RetriesSpec => []ReplayStillTrue
<1>1. RetriesInit => Traced
  BY TracedInit DEF RetriesInit, Ready
<1>2. RetriesInv /\ Traced /\ [RetriesNext]_<<vars, mwVars, before>> => Traced'
  BY OneCheckoutStep, TracedStep DEF RetriesInv, Both
<1>3. RetriesInv /\ Traced => ReplayStillTrue
  <2> SUFFICES ASSUME RetriesInv, Traced, NEW r \in Replied,
                      NEW s, s = reply[r].by, s # r, req[r] = req[s]
               PROVE  \/ /\ code[s] = 200
                         /\ s \in captured
                         /\ intents[req[r].id].status = "succeeded"
                      \/ /\ code[s] = 201
                         /\ intents[s].cart = req[r].cart
                         /\ intents[s].mandate = req[r].mandate
                         /\ \/ intents[s].status = "requires_confirmation"
                            \/ /\ intents[s].status = "succeeded"
                               /\ \E q \in captured : req[q].id = s
                            \/ /\ intents[s].status = "failed"
                               /\ \E q \in Requests : code[q] = 402 /\ req[q].id = s
    BY DEF ReplayStillTrue
  <2>1. s \in Requests /\ code[s] \in {200, 201}
    BY ReplayedRan
  <2> QED BY <2>1, AnswerAged DEF RetriesInv, Both
<1> QED BY <1>1, <1>2, <1>3, RetriesInductive, PTL DEF RetriesSpec

-----------------------------------------------------------------------------
(* What the two sides promise on their own holds of their composition.      *)

\* The middleware around the payment handlers is the middleware around any handler:
\* a step of the payments is no step of it.
THEOREM RetriesUseMiddleware == RetriesSpec => MP!Spec
<1>1. RetriesInit => MP!Init
  BY DEF RetriesInit, M!Init, MP!Init, M!Period, MP!Period
<1>2. RetriesSpec => MP!Init /\ [][MP!Next]_(MP!vars)
  BY <1>1, OneMiddlewareStep, PTL DEF RetriesSpec
<1> QED BY <1>2 DEF MP!Spec

\* So what it replays are successes of payment calls under the same key, and a
\* payment call runs successfully twice only by an overlap or an eviction.
THEOREM RetriesReplayFaithfully ==
  RetriesSpec => []MP!ReplayIsFaithful /\ []MP!SecondRunExplained
<1>1. MP!IInv => MP!ReplayIsFaithful /\ MP!SecondRunExplained
  BY DEF MP!IInv
<1>2. RetriesInv => MP!IInv
  BY DEF RetriesInv, Both
<1> QED BY <1>1, <1>2, RetriesInductive, PTL

\* Behind the middleware the checkout still implements its contract, from any shop
\* at work.
THEOREM RetriesImplement == RetriesSpec => ImplementsContract
<1>1. RetriesInit => Contract!Init
  BY DEF RetriesInit, Ready, Quiet, Contract!Init, NoIntent
<1>2. RetriesInv => IInv
  BY DEF RetriesInv, Both
<1>3. RetriesSpec => Contract!Init /\ [][Contract!Next]_(Contract!vars)
  BY <1>1, <1>2, OneCheckoutStep, ContractStep, RetriesInductive, PTL DEF RetriesSpec
<1> QED BY <1>3 DEF ImplementsContract, Contract!Spec

\* Retries charge nothing that no mandate was signed for, succeed once for an intent
\* and leave the answers given true.
THEOREM RetriesKeepAnswers ==
  RetriesSpec => [](ChargedIsAuthorized /\ OneSuccessPerIntent /\ AnswersTruthful)
<1>1. RetriesInv => ChargedIsAuthorized /\ OneSuccessPerIntent /\ AnswersTruthful
  BY Authorized, Unique, Truthful DEF RetriesInv, Both
<1> QED BY <1>1, RetriesInductive, PTL

\* However often a client repeats its calls, the bank takes no more for a limited
\* token than its limit.
THEOREM RetriesKeepBudget == RetriesSpec => []BudgetRespected
<1>1. RetriesInit => Budgeted /\ SpendWithinLimit
  BY BudgetedInit, SpendInit DEF RetriesInit, Ready
<1>2. RetriesInv => IInv /\ TypeInv
  BY DEF RetriesInv, Both, IInv
<1> QED
  BY <1>1, <1>2, OneCheckoutStep, BudgetedStep, SpendStep, TakenWithinLimit,
     RetriesInductive, PTL
  DEF RetriesSpec

-----------------------------------------------------------------------------
(* Liveness.  As in CheckoutProofs, the states in which a call is under way *)
(* stand for those in which the action is enabled.                          *)

\* The steps of a call once it has arrived.
Steps(r) == Middleware(r) \/ Handler(r) \/ Return(r)

\* Weak fairness of Steps(r).
CallScheduled(r) == \/ []<>(mwPc[r] \in {"idle", "done"})
                    \/ []<><<Steps(r)>>_<<vars, mwVars, before>>

\* The Go scheduler runs every goroutine.
FairCalls == \A r \in Requests : CallScheduled(r)

\* Every call is answered, by its own run or by a replay.
EveryCallReplied == \A r \in Requests : mwPc[r] # "idle" ~> mwPc[r] = "done"

\* How many steps a call may still take: the lookup, those of the handler and its
\* return, and the store.
CallLeft(r) ==
  IF mwPc[r] = "run" THEN StepsLeft[pc[r]] + 2
                     ELSE [lookup |-> 10, store |-> 1, done |-> 0][mwPc[r]]

InCall(r, n) == mwPc[r] # "idle" /\ CallLeft(r) <= n

CallDown(r, n, m) == InCall(r, n) ~> InCall(r, m)

\* A handler's step brings it nearer to its end.
LEMMA HandlerNearer ==
  ASSUME TypeInv, NEW r \in Requests, Serve(r)
  PROVE  /\ pc'[r] \in Labels \ {"idle"}
         /\ StepsLeft[pc'[r]] < StepsLeft[pc[r]]
<1> USE DEF TypeInv, TypeOK, Goto, Send, Refuse, StepsLeft, Labels
<1>1. CASE Authorize(r)
  BY <1>1 DEF Authorize
<1>2. CASE CreateIntent(r)
  BY <1>2 DEF CreateIntent, LoadCart, VerifyMandate, CreateStored, OpenIntent,
              ReplyCreated, EmitCreated
<1>3. CASE LoadIntent(r) \/ RecordSpend(r) \/ Charge(r)
  BY <1>3 DEF LoadIntent, RecordSpend, Charge
<1>4. CASE MarkSucceeded(r) \/ ReplySucceeded(r) \/ EmitSucceeded(r)
  BY <1>4 DEF MarkSucceeded, ReplySucceeded, EmitSucceeded
<1>5. CASE MarkFailed(r) \/ EmitFailed(r)
  BY <1>5 DEF MarkFailed, EmitFailed
<1> QED BY <1>1, <1>2, <1>3, <1>4, <1>5 DEF Serve, ConfirmIntent

\* A step for one call leaves where the others are.
LEMMA OthersWait ==
  ASSUME RetriesInv, NEW s \in Requests, Steps(s), NEW r \in Requests, r # s
  PROVE  mwPc'[r] = mwPc[r] /\ pc'[r] = pc[r]
<1>1. mwPc \in [Requests -> {"idle", "lookup", "run", "store", "done"}]
  BY DEF RetriesInv, Both, MP!IInv, MP!Typed
<1>2. CASE Middleware(s)
  BY <1>1, <1>2 DEF Middleware, M!Replay, M!Miss, M!Store, M!Skip, vars
<1>3. CASE Handler(s)
  BY <1>3, HandlerSteps DEF Handler, mwVars, RetriesInv, Both, IInv
<1>4. CASE Return(s)
  BY <1>1, <1>4 DEF Return, M!Run, vars
<1> QED BY <1>2, <1>3, <1>4 DEF Steps

\* A step of a call that has arrived brings it nearer to its answer.
LEMMA CallNearer ==
  ASSUME RetriesInv, NEW r \in Requests, Steps(r)
  PROVE  /\ mwPc'[r] # "idle"
         /\ CallLeft(r) \in Nat /\ CallLeft(r)' \in Nat /\ CallLeft(r)' < CallLeft(r)
<1>1. /\ mwPc \in [Requests -> {"idle", "lookup", "run", "store", "done"}]
      /\ pc \in [Requests -> Labels]
      /\ mwPc[r] = "lookup" => pc[r] = "auth"
      /\ mwPc[r] = "run" => pc[r] # "idle"
  BY DEF RetriesInv, Both, MP!IInv, MP!Typed, IInv, TypeInv, TypeOK, Coupled
<1> USE <1>1 DEF CallLeft
<1>2. \A l \in Labels \ {"idle"} : StepsLeft[l] \in 0..7
  BY DEF StepsLeft, Labels
<1>3. CASE Middleware(r)
  <2>1. pc' = pc
    BY <1>3 DEF Middleware, vars
  <2>2. \/ mwPc[r] = "lookup" /\ mwPc'[r] \in {"run", "done"}
        \/ mwPc[r] = "store" /\ mwPc'[r] = "done"
    BY <1>3 DEF Middleware, M!Replay, M!Miss, M!Store, M!Skip
  <2>3. mwPc[r] = "lookup" => StepsLeft[pc'[r]] = 7
    BY <2>1 DEF StepsLeft
  <2> QED BY <2>2, <2>3
<1>4. CASE Handler(r)
  <2>1. mwPc[r] = "run" /\ mwPc' = mwPc /\ Serve(r)
    BY <1>4 DEF Handler, mwVars
  <2>2. pc'[r] \in Labels \ {"idle"} /\ StepsLeft[pc'[r]] < StepsLeft[pc[r]]
    BY <2>1, HandlerNearer DEF RetriesInv, Both, IInv
  <2>3. StepsLeft[pc'[r]] \in 0..7 /\ StepsLeft[pc[r]] \in 0..7
    BY <1>2, <2>1, <2>2
  <2> QED BY <2>1, <2>2, <2>3
<1>5. CASE Return(r)
  <2>1. mwPc[r] = "run" /\ mwPc'[r] \in {"store", "done"}
    BY <1>5 DEF Return, M!Run
  <2>2. StepsLeft[pc[r]] \in 0..7
    BY <1>2, <2>1
  <2> QED BY <2>1, <2>2
<1> QED BY <1>3, <1>4, <1>5 DEF Steps

\* No step of another actor takes a call back.
LEMMA CallKept ==
  ASSUME RetriesInv, [RetriesNext]_<<vars, mwVars, before>>,
         NEW r \in Requests, mwPc[r] # "idle", ~Steps(r)
  PROVE  mwPc'[r] = mwPc[r] /\ pc'[r] = pc[r]
<1>1. /\ mwPc \in [Requests -> {"idle", "lookup", "run", "store", "done"}]
      /\ pc \in [Requests -> Labels]
  BY DEF RetriesInv, Both, MP!IInv, MP!Typed, IInv, TypeInv, TypeOK
<1>2. ASSUME NEW s \in Requests, Arrive(s) PROVE mwPc'[r] = mwPc[r] /\ pc'[r] = pc[r]
  <2>1. mwPc[s] = "idle" /\ pc' = [pc EXCEPT ![s] = "auth"]
    BY <1>2 DEF Arrive, M!Receive, ReceiveCreate, ReceiveConfirm, Receive, Goto
  <2>2. \E l \in {"lookup", "run"} : mwPc' = [mwPc EXCEPT ![s] = l]
    BY <1>2 DEF Arrive, M!Receive
  <2> QED BY <1>1, <2>1, <2>2
<1>3. ASSUME NEW s \in Requests, Steps(s) PROVE mwPc'[r] = mwPc[r] /\ pc'[r] = pc[r]
  BY <1>3, OthersWait
<1>4. CASE Clock \/ (\E t \in Tokens : ExpireToken(t) /\ UNCHANGED <<mwVars, before>>)
           \/ UNCHANGED <<vars, mwVars, before>>
  BY <1>4 DEF Clock, M!Advance, M!Cleanup, ExpireToken, vars, mwVars
<1> QED BY <1>2, <1>3, <1>4 DEF RetriesNext, Call, Steps

\* A scheduled call gets from n steps before its answer to m.
LEMMA CallAdvances ==
  ASSUME NEW r \in Requests, NEW n \in 1..10, NEW m \in 0..9, n = m + 1
  PROVE  RetriesSpec /\ CallScheduled(r) => CallDown(r, n, m)
<1>1. RetriesInv /\ <<Steps(r)>>_<<vars, mwVars, before>> /\ InCall(r, n) => InCall(r, m)'
  <2> SUFFICES ASSUME RetriesInv, Steps(r), InCall(r, n)
               PROVE  mwPc'[r] # "idle" /\ CallLeft(r)' <= m
    BY DEF InCall
  <2> QED BY CallNearer DEF InCall
<1>2. RetriesInv /\ [RetriesNext]_<<vars, mwVars, before>> /\ InCall(r, n) => InCall(r, n)'
  <2> SUFFICES ASSUME RetriesInv, [RetriesNext]_<<vars, mwVars, before>>, InCall(r, n)
               PROVE  mwPc'[r] # "idle" /\ CallLeft(r)' <= n
    BY DEF InCall
  <2>1. CASE Steps(r)
    BY <2>1, CallNearer DEF InCall
  <2>2. CASE ~Steps(r)
    BY <2>2, CallKept DEF InCall, CallLeft
  <2> QED BY <2>1, <2>2
<1>3. RetriesInv /\ InCall(r, n) /\ mwPc[r] \in {"idle", "done"} => InCall(r, m)
  BY DEF InCall, CallLeft
<1> QED BY <1>1, <1>2, <1>3, RetriesInductive, PTL DEF RetriesSpec, CallScheduled, CallDown

\* If every call is scheduled, every call is answered: the handler always returns to
\* the middleware, and nothing waits for the key.
THEOREM CallsReplied == RetriesSpec /\ FairCalls => EveryCallReplied
<1> DEFINE Replies(r) == mwPc[r] # "idle" ~> mwPc[r] = "done"
<1>1. ASSUME NEW r \in Requests PROVE RetriesSpec /\ CallScheduled(r) => Replies(r)
  <2>1. RetriesInv => (mwPc[r] # "idle" => InCall(r, 10))
    <3> SUFFICES ASSUME RetriesInv, mwPc[r] # "idle" PROVE CallLeft(r) <= 10
      BY DEF InCall
    <3>1. /\ mwPc[r] \in {"lookup", "run", "store", "done"} /\ pc[r] \in Labels
          /\ mwPc[r] = "run" => pc[r] # "idle"
      BY DEF RetriesInv, Both, MP!IInv, MP!Typed, IInv, TypeInv, TypeOK, Coupled
    <3> QED BY <3>1 DEF CallLeft, StepsLeft, Labels
  <2>2. RetriesInv => (InCall(r, 0) => mwPc[r] = "done")
    <3> SUFFICES ASSUME RetriesInv, mwPc[r] # "idle", CallLeft(r) <= 0 PROVE mwPc[r] = "done"
      BY DEF InCall
    <3>1. /\ mwPc[r] \in {"lookup", "run", "store", "done"} /\ pc[r] \in Labels
          /\ mwPc[r] = "run" => pc[r] # "idle"
      BY DEF RetriesInv, Both, MP!IInv, MP!Typed, IInv, TypeInv, TypeOK, Coupled
    <3> QED BY <3>1 DEF CallLeft, StepsLeft, Labels
  <2> DEFINE Down(n, m) == RetriesSpec /\ CallScheduled(r) => CallDown(r, n, m)
  <2>3. Down(10, 9) /\ Down(9, 8) /\ Down(8, 7) /\ Down(7, 6) /\ Down(6, 5)
    BY CallAdvances, SMT
  <2>4. Down(5, 4) /\ Down(4, 3) /\ Down(3, 2) /\ Down(2, 1) /\ Down(1, 0)
    BY CallAdvances, SMT
  <2> QED BY <2>1, <2>2, <2>3, <2>4, RetriesInductive, PTL DEF CallDown
<1> QED BY <1>1 DEF EveryCallReplied, FairCalls
=============================================================================
