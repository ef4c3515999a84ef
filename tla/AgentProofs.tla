----------------------------- MODULE AgentProofs -----------------------------
(***************************************************************************)
(* Machine-checked proofs about Agent: for any number of attempts, it is a *)
(* client Checkout provides for, and what its tool reports is true.  They  *)
(* rest on the inductive invariant of CheckoutProofs.                      *)
(***************************************************************************)
EXTENDS Agent, CheckoutProofs

-----------------------------------------------------------------------------
(* The inductive invariant, in named parts.                                *)

\* A call is sent with a token and a mandate, and a confirm only for an intent the
\* agent was told of.
Prepared ==
  \A a \in Attempts :
    /\ CreateOf(a) \in sent => bearer \in Tokens /\ signed[a] \in Mandates
    /\ ConfirmOf(a) \in sent => CreateOf(a) \in sent /\ code[CreateOf(a)] = 201

\* A request that arrived is the call the agent sent.
Arrived ==
  \A a \in Attempts :
    /\ pc[CreateOf(a)] # "idle" =>
         /\ CreateOf(a) \in sent
         /\ req[CreateOf(a)] = [op |-> "create", token |-> bearer,
                                cart |-> signed[a].hash.cart, mandate |-> signed[a]]
    /\ pc[ConfirmOf(a)] # "idle" =>
         /\ ConfirmOf(a) \in sent
         /\ req[ConfirmOf(a)] = [op |-> "confirm", token |-> bearer, id |-> CreateOf(a)]

\* What an attempt has sent and heard, by where it is.
Labelled ==
  \A a \in Attempts :
    /\ agent[a] \in {"idle", "cart"} => CreateOf(a) \notin sent
    /\ agent[a] \in {"idle", "cart", "create"} => ConfirmOf(a) \notin sent
    /\ agent[a] = "create" => CreateOf(a) \in sent
    /\ agent[a] \in {"confirm", "success"} => ConfirmOf(a) \in sent
    /\ agent[a] = "success" => code[ConfirmOf(a)] = 200
    /\ agent[a] = "refused" /\ ConfirmOf(a) \in sent => code[ConfirmOf(a)] \notin {0, 200}

\* The intent of an attempt was made for the mandate the attempt signed.
Minted ==
  \A a \in Attempts :
    intents[CreateOf(a)].status # "absent" => intents[CreateOf(a)].mandate = signed[a]

Early == {"idle", "auth", "load_intent", "record_spend", "charge", "succeed", "fail"}

\* Nobody but the attempt itself settles its intent, so its charge is never refused.
Sole ==
  \A a \in Attempts :
    /\ /\ code[CreateOf(a)] = 201 \/ pc[CreateOf(a)] = "reply_created"
       /\ pc[ConfirmOf(a)] \in Early
       => intents[CreateOf(a)].status = "requires_confirmation"
    /\ ConfirmOf(a) \in captured => code[ConfirmOf(a)] \in {0, 200}

AInv == IInv /\ AgentTypeOK /\ Prepared /\ Arrived /\ Labelled /\ Minted /\ Sole

-----------------------------------------------------------------------------
(* The calls and the steps.                                                *)

\* Each request is one call of one attempt.
LEMMA Calls ==
  /\ \A a \in Attempts : CreateOf(a) \in Requests /\ ConfirmOf(a) \in Requests
  /\ \A a, b \in Attempts : /\ CreateOf(a) # ConfirmOf(b)
                            /\ CreateOf(a) = CreateOf(b) => a = b
                            /\ ConfirmOf(a) = ConfirmOf(b) => a = b
  /\ \A r \in Requests : \E a \in Attempts : r = CreateOf(a) \/ r = ConfirmOf(a)
BY CallsAssumption DEF CreateOf, ConfirmOf

\* A step is one of the agent alone, of the environment, an arrival or the server's.
LEMMA AgentCases ==
  ASSUME [AgentNext]_allVars
  PROVE  \/ \E a \in Attempts : Begin(a) \/ GetCart(a) \/ HearCreated(a)
                                \/ HearConfirmed(a) \/ TimeOut(a)
         \/ \E a \in Attempts : Bootstrap(a)
         \/ \E a \in Attempts : ArriveCreate(a)
         \/ \E a \in Attempts : ArriveConfirm(a)
         \/ \E r \in Requests : Server(r)
         \/ Others
         \/ UNCHANGED allVars
BY DEF AgentNext, Tool

\* Every step is a step of Checkout.
LEMMA CheckoutStep == AInv /\ [AgentNext]_allVars => [Next]_vars
<1> SUFFICES ASSUME AInv, [AgentNext]_allVars PROVE [Next]_vars
  OBVIOUS
<1>1. ASSUME NEW a \in Attempts,
             Begin(a) \/ GetCart(a) \/ HearCreated(a) \/ HearConfirmed(a) \/ TimeOut(a)
      PROVE  UNCHANGED vars
  BY <1>1 DEF Begin, GetCart, HearCreated, HearConfirmed, TimeOut
<1>2. ASSUME NEW a \in Attempts, Bootstrap(a) PROVE [Next]_vars
  BY <1>2 DEF Bootstrap, Next
<1>3. ASSUME NEW a \in Attempts, ArriveCreate(a) PROVE Next
  <2>1. CreateOf(a) \in sent /\ CreateOf(a) \in Requests
    BY <1>3, Calls DEF ArriveCreate
  <2>2. PICK t \in Tokens, m \in Mandates : t = bearer /\ m = signed[a]
    BY <2>1 DEF AInv, Prepared
  <2>3. m.hash.cart \in CartIds
    BY MandatesAssumption DEF Hashes
  <2>4. Receive(CreateOf(a), [op |-> "create", token |-> t, cart |-> m.hash.cart, mandate |-> m])
    BY <1>3, <2>2 DEF ArriveCreate
  <2>5. ReceiveCreate(CreateOf(a))
    BY <2>3, <2>4 DEF ReceiveCreate
  <2> QED BY <2>1, <2>5 DEF Next
<1>4. ASSUME NEW a \in Attempts, ArriveConfirm(a) PROVE Next
  <2>1. ConfirmOf(a) \in sent /\ ConfirmOf(a) \in Requests /\ CreateOf(a) \in Disclosed
    BY <1>4, Calls DEF ArriveConfirm, AInv, Prepared, Disclosed
  <2>2. PICK t \in Tokens : t = bearer
    BY <2>1 DEF AInv, Prepared
  <2>3. Receive(ConfirmOf(a), [op |-> "confirm", token |-> t, id |-> CreateOf(a)])
    BY <1>4, <2>2 DEF ArriveConfirm, IntentOf
  <2>4. ReceiveConfirm(ConfirmOf(a))
    BY <2>1, <2>3 DEF ReceiveConfirm
  <2> QED BY <2>1, <2>4 DEF Next
<1>5. ASSUME NEW r \in Requests, Server(r) PROVE Next
  BY <1>5 DEF Server, Next
<1>6. CASE Others
  <2>1. \A a \in Attempts : signed[a] # NoMandate => signed[a] \in Mandates
    BY DEF AInv, AgentTypeOK
  <2>2. ASSUME NEW a \in Attempts, signed[a] # NoMandate, ExpireMandate(signed[a]) PROVE Next
    <3>1. PICK m \in Mandates : m = signed[a]
      BY <2>1, <2>2
    <3>2. ExpireMandate(m)
      BY <2>2, <3>1 DEF ExpireMandate
    <3> QED BY <3>2 DEF Next
  <2> QED BY <1>6, <2>2 DEF Others, Next
<1>7. CASE UNCHANGED allVars
  BY <1>7 DEF allVars
<1> QED BY <1>1, <1>2, <1>3, <1>4, <1>5, <1>6, <1>7, AgentCases

\* What the server does for one request touches no intent but the one it makes or confirms.
LEMMA ServeIntents ==
  ASSUME IInv, NEW r \in Requests, Serve(r), NEW j \in Requests,
         req[r] \in CreateReq => j # r,
         req[r] \in ConfirmReq => j # req[r].id
  PROVE  intents'[j] = intents[j]
<1>1. Routed /\ intents \in [Requests -> Intent]
  BY DEF IInv, TypeInv, TypeOK
<1>2. ASSUME NEW i \in Requests, NEW to \in Status, TransitionStatus(i, to), j # i
      PROVE  intents'[j] = intents[j]
  BY <1>1, <1>2, TransitionFacts
<1>3. CASE Authorize(r)
  BY <1>3 DEF Authorize
<1>4. CASE CreateIntent(r)
  <2>1. j # r
    BY <1>1, <1>4 DEF CreateIntent, LoadCart, VerifyMandate, CreateStored, OpenIntent,
                      ReplyCreated, EmitCreated, Routed, CreateLabels
  <2>2. CASE OpenIntent(r)
    BY <1>2, <2>1, <2>2 DEF OpenIntent, Status
  <2> QED BY <1>1, <1>4, <2>1, <2>2 DEF CreateIntent, LoadCart, VerifyMandate, CreateStored,
                                       ReplyCreated, EmitCreated
<1>5. CASE ConfirmIntent(r)
  <2>1. CASE MarkSucceeded(r) \/ MarkFailed(r)
    <3>1. req[r] \in ConfirmReq /\ req[r].id \in Requests /\ j # req[r].id
      BY <1>1, <2>1 DEF MarkSucceeded, MarkFailed, Routed, HoldLabels, ConfirmReq
    <3>2. PICK to \in Status : TransitionStatus(req[r].id, to)
      BY <2>1 DEF MarkSucceeded, MarkFailed, Status
    <3> QED BY <1>2, <3>1, <3>2
  <2> QED BY <1>5, <2>1 DEF ConfirmIntent, LoadIntent, RecordSpend, Charge, ReplySucceeded,
                            EmitSucceeded, EmitFailed
<1> QED BY <1>3, <1>4, <1>5 DEF Serve

\* The agent's own steps and the environment's leave the handlers alone.
LEMMA HandlersKept ==
  /\ \A a \in Attempts :
       Begin(a) \/ GetCart(a) \/ HearCreated(a) \/ HearConfirmed(a) \/ TimeOut(a) \/ Bootstrap(a)
         => UNCHANGED HandlerVars
  /\ Others => UNCHANGED HandlerVars
  /\ UNCHANGED allVars => UNCHANGED HandlerVars
BY DEF Begin, GetCart, HearCreated, HearConfirmed, TimeOut, Bootstrap, Others, IssueToken,
       ExpireToken, ExpireMandate, CreateCart, SaveCart, vars, allVars, HandlerVars

\* A call arrives once, and changes nothing but its own request.
LEMMA ArriveFacts ==
  ASSUME IInv, NEW r \in Requests, NEW q, Receive(r, q)
  PROVE  /\ pc[r] = "idle" /\ pc'[r] = "auth" /\ req'[r] = q
         /\ \A s \in Requests \ {r} : pc'[s] = pc[s] /\ req'[s] = req[s]
         /\ UNCHANGED <<intents, code, captured>>
BY DEF IInv, TypeInv, TypeOK, Receive, Goto

\* Every step keeps the agent's types.
LEMMA AgentTypesStep == AInv /\ [AgentNext]_allVars => AgentTypeOK'
<1> SUFFICES ASSUME AInv, [AgentNext]_allVars PROVE AgentTypeOK'
  OBVIOUS
<1> USE DEF AgentTypeOK, Waiting, Reports, Reach
<1>1. AgentTypeOK /\ TypeOK
  BY DEF AInv, IInv, TypeInv
<1>2. ASSUME NEW a \in Attempts, Begin(a) \/ HearCreated(a) \/ HearConfirmed(a) \/ TimeOut(a)
      PROVE  AgentTypeOK'
  BY <1>1, <1>2, Calls DEF Begin, HearCreated, HearConfirmed, TimeOut
<1>3. ASSUME NEW a \in Attempts, GetCart(a) PROVE AgentTypeOK'
  <2>1. \A c \in CartIds : carts[c] # NoCart => MandateFor(a, c, carts[c]) \in Mandates
    BY <1>1, SignedAssumption DEF TypeOK
  <2> QED BY <1>1, <1>3, <2>1, Calls DEF GetCart
<1>4. ASSUME NEW a \in Attempts, Bootstrap(a) PROVE AgentTypeOK'
  BY <1>1, <1>4 DEF Bootstrap
<1>5. ASSUME UNCHANGED agentVars PROVE AgentTypeOK'
  BY <1>1, <1>5 DEF agentVars
<1> QED
  BY <1>2, <1>3, <1>4, <1>5, AgentCases
  DEF ArriveCreate, ArriveConfirm, Server, Others, allVars

\* Every step keeps the calls prepared: a token is asked for before any call is sent,
\* and an answer stays.
LEMMA PreparedStep == AInv /\ AgentTypeOK' /\ [AgentNext]_allVars => Prepared'
<1> SUFFICES ASSUME AInv, AgentTypeOK', [AgentNext]_allVars PROVE Prepared'
  OBVIOUS
<1>1. Prepared /\ AgentTypeOK /\ Labelled
  BY DEF AInv
<1> USE Calls DEF Prepared
<1>2. ASSUME NEW a \in Attempts, Begin(a) \/ HearConfirmed(a) \/ TimeOut(a) PROVE Prepared'
  BY <1>1, <1>2 DEF Begin, HearConfirmed, TimeOut, vars
<1>3. ASSUME NEW a \in Attempts, HearCreated(a) PROVE Prepared'
  BY <1>1, <1>3 DEF HearCreated, Labelled, vars
<1>4. ASSUME NEW a \in Attempts, GetCart(a) PROVE Prepared'
  <2>1. CASE UNCHANGED <<signed, sent>>
    BY <1>1, <1>4, <2>1 DEF GetCart, vars
  <2>2. CASE ~UNCHANGED <<signed, sent>>
    <3>1. /\ bearer \in Tokens /\ bearer' = bearer /\ code' = code
          /\ sent' = sent \cup {CreateOf(a)}
          /\ \A b \in Attempts \ {a} : signed'[b] = signed[b]
      BY <1>1, <1>4, <2>2 DEF GetCart, vars, AgentTypeOK
    <3>2. signed'[a] \in Mandates
      <4>1. PICK c \in CartIds : /\ carts[c] # NoCart
                                 /\ signed' = [signed EXCEPT ![a] = MandateFor(a, c, carts[c])]
        BY <1>4, <2>2 DEF GetCart
      <4>2. carts[c] \in Contents
        BY <4>1 DEF AInv, IInv, TypeInv, TypeOK
      <4> QED BY <1>1, <4>1, <4>2, SignedAssumption DEF AgentTypeOK
    <3> QED BY <1>1, <3>1, <3>2
  <2> QED BY <2>1, <2>2
<1>5. ASSUME NEW a \in Attempts, Bootstrap(a) PROVE Prepared'
  BY <1>1, <1>5, NoTokenAssumption DEF Bootstrap, IssueToken
<1>6. ASSUME NEW r \in Requests, Serve(r), UNCHANGED agentVars PROVE Prepared'
  <2>1. \A s \in Requests : code[s] # 0 => code'[s] = code[s]
    BY <1>6, ServeFacts DEF AInv
  <2> QED BY <1>1, <1>6, <2>1 DEF agentVars
<1>7. ASSUME UNCHANGED <<code, agentVars>> PROVE Prepared'
  BY <1>1, <1>7 DEF agentVars
<1> QED
  BY <1>2, <1>3, <1>4, <1>5, <1>6, <1>7, AgentCases, HandlersKept
  DEF ArriveCreate, ArriveConfirm, Server, Others, allVars, Receive, HandlerVars

\* Every step keeps each arrived request the call the agent sent.
LEMMA ArrivedStep == AInv /\ [AgentNext]_allVars => Arrived'
<1> SUFFICES ASSUME AInv, [AgentNext]_allVars PROVE Arrived'
  OBVIOUS
<1>1. Arrived /\ Prepared /\ AgentTypeOK /\ Labelled /\ IInv
  BY DEF AInv
<1> USE Calls DEF Arrived
<1>2. ASSUME NEW a \in Attempts, Begin(a) \/ HearCreated(a) \/ HearConfirmed(a) \/ TimeOut(a)
      PROVE  Arrived'
  BY <1>1, <1>2 DEF Begin, HearCreated, HearConfirmed, TimeOut, vars
<1>3. ASSUME NEW a \in Attempts, GetCart(a) PROVE Arrived'
  <2>1. pc[CreateOf(a)] = "idle" /\ pc[ConfirmOf(a)] = "idle"
    BY <1>1, <1>3 DEF GetCart, Labelled
  <2>2. /\ \A b \in Attempts \ {a} : signed'[b] = signed[b]
        /\ sent \subseteq sent' /\ UNCHANGED <<pc, req, bearer>>
    BY <1>1, <1>3 DEF GetCart, vars, AgentTypeOK
  <2> QED BY <1>1, <2>1, <2>2
<1>4. ASSUME NEW a \in Attempts, Bootstrap(a) PROVE Arrived'
  <2>1. \A b \in Attempts : pc[CreateOf(b)] = "idle" /\ pc[ConfirmOf(b)] = "idle"
    BY <1>1, <1>4, NoTokenAssumption DEF Bootstrap, Prepared
  <2> QED BY <1>4, <2>1 DEF Bootstrap, IssueToken, vars
<1>5. ASSUME NEW a \in Attempts, ArriveCreate(a) PROVE Arrived'
  BY <1>1, <1>5, ArriveFacts DEF ArriveCreate, agentVars
<1>6. ASSUME NEW a \in Attempts, ArriveConfirm(a) PROVE Arrived'
  BY <1>1, <1>6, ArriveFacts DEF ArriveConfirm, IntentOf, agentVars
<1>7. ASSUME NEW r \in Requests, Server(r) PROVE Arrived'
  <2>1. req' = req /\ \A s \in Requests : pc'[s] # "idle" => pc[s] # "idle"
    BY <1>1, <1>7, ServeFacts DEF Server
  <2> QED BY <1>1, <1>7, <2>1 DEF Server, agentVars
<1>8. ASSUME UNCHANGED <<pc, req, agentVars>> PROVE Arrived'
  BY <1>1, <1>8 DEF agentVars
<1>9. ASSUME Others \/ UNCHANGED allVars PROVE UNCHANGED <<pc, req, agentVars>>
  BY <1>9, HandlersKept DEF Others, allVars, HandlerVars, vars
<1> HIDE DEF Arrived
<1> QED BY <1>2, <1>3, <1>4, <1>5, <1>6, <1>7, <1>8, <1>9, AgentCases

\* Every step keeps what an attempt has sent and heard.
LEMMA LabelledStep == AInv /\ [AgentNext]_allVars => Labelled'
<1> SUFFICES ASSUME AInv, [AgentNext]_allVars PROVE Labelled'
  OBVIOUS
<1>1. Labelled /\ AgentTypeOK /\ IInv
  BY DEF AInv
<1> USE Calls DEF Labelled, Reach
<1>2. ASSUME NEW a \in Attempts, Begin(a) \/ TimeOut(a) PROVE Labelled'
  BY <1>1, <1>2 DEF Begin, TimeOut, vars, AgentTypeOK, Waiting
<1>3. ASSUME NEW a \in Attempts, GetCart(a) PROVE Labelled'
  BY <1>1, <1>3 DEF GetCart, vars, AgentTypeOK
<1>4. ASSUME NEW a \in Attempts, HearCreated(a) PROVE Labelled'
  BY <1>1, <1>4 DEF HearCreated, vars, AgentTypeOK
<1>5. ASSUME NEW a \in Attempts, HearConfirmed(a) PROVE Labelled'
  BY <1>1, <1>5 DEF HearConfirmed, vars, AgentTypeOK
<1>6. ASSUME NEW a \in Attempts, Bootstrap(a) PROVE Labelled'
  BY <1>1, <1>6 DEF Bootstrap, IssueToken, vars, AgentTypeOK
<1>7. ASSUME NEW r \in Requests, Serve(r), UNCHANGED agentVars PROVE Labelled'
  <2>1. \A s \in Requests : code[s] # 0 => code'[s] = code[s]
    BY <1>1, <1>7, ServeFacts
  <2> QED BY <1>1, <1>7, <2>1 DEF agentVars
<1>8. ASSUME UNCHANGED <<code, agentVars>> PROVE Labelled'
  BY <1>1, <1>8 DEF agentVars
<1> QED
  BY <1>2, <1>3, <1>4, <1>5, <1>6, <1>7, <1>8, AgentCases, HandlersKept
  DEF ArriveCreate, ArriveConfirm, Server, Others, allVars, Receive, HandlerVars

\* The parts of an arrived request.
LEMMA ArrivedParts ==
  ASSUME Arrived, NEW a \in Attempts
  PROVE  /\ pc[CreateOf(a)] # "idle" => /\ req[CreateOf(a)].op = "create"
                                        /\ req[CreateOf(a)].mandate = signed[a]
         /\ pc[ConfirmOf(a)] # "idle" => /\ req[ConfirmOf(a)].op = "confirm"
                                         /\ req[ConfirmOf(a)].id = CreateOf(a)
<1>1. ASSUME pc[CreateOf(a)] # "idle"
      PROVE  req[CreateOf(a)].op = "create" /\ req[CreateOf(a)].mandate = signed[a]
  <2>1. req[CreateOf(a)] = [op |-> "create", token |-> bearer,
                            cart |-> signed[a].hash.cart, mandate |-> signed[a]]
    BY <1>1 DEF Arrived
  <2> QED BY <2>1
<1>2. ASSUME pc[ConfirmOf(a)] # "idle"
      PROVE  req[ConfirmOf(a)].op = "confirm" /\ req[ConfirmOf(a)].id = CreateOf(a)
  <2>1. req[ConfirmOf(a)] = [op |-> "confirm", token |-> bearer, id |-> CreateOf(a)]
    BY <1>2 DEF Arrived
  <2> QED BY <2>1
<1> QED BY <1>1, <1>2

\* An intent keeps the mandate it was made with.
LEMMA ServeMandates ==
  ASSUME IInv, NEW r \in Requests, Serve(r), NEW j \in Requests,
         intents'[j].status # "absent"
  PROVE  \/ intents[j].status # "absent" /\ intents'[j].mandate = intents[j].mandate
         \/ j = r /\ pc[r] # "idle" /\ intents'[j].mandate = req[r].mandate
<1>1. Routed /\ intents \in [Requests -> Intent]
  BY DEF IInv, TypeInv, TypeOK
<1>2. ASSUME NEW i \in Requests, NEW to \in Status, TransitionStatus(i, to)
      PROVE  intents[j].status # "absent" /\ intents'[j].mandate = intents[j].mandate
  BY <1>1, <1>2, TransitionFacts DEF CanTransition
<1>3. CASE OpenIntent(r)
  BY <1>2, <1>3 DEF OpenIntent, Status
<1>4. CASE CreateStored(r)
  BY <1>1, <1>4 DEF CreateStored
<1>5. CASE MarkSucceeded(r) \/ MarkFailed(r)
  <2>1. req[r].id \in Requests
    BY <1>1, <1>5 DEF MarkSucceeded, MarkFailed, Routed, HoldLabels, ConfirmReq
  <2>2. PICK to \in Status : TransitionStatus(req[r].id, to)
    BY <1>5 DEF MarkSucceeded, MarkFailed, Status
  <2> QED BY <1>2, <2>1, <2>2
<1>6. CASE UNCHANGED intents
  BY <1>6
<1> QED
  BY <1>3, <1>4, <1>5, <1>6
  DEF Serve, Authorize, CreateIntent, ConfirmIntent, LoadCart, VerifyMandate, ReplyCreated,
      EmitCreated, LoadIntent, RecordSpend, Charge, ReplySucceeded, EmitSucceeded, EmitFailed

\* Every step keeps each intent made for the mandate its attempt signed.
LEMMA MintedStep == AInv /\ [AgentNext]_allVars => Minted'
<1> SUFFICES ASSUME AInv, [AgentNext]_allVars PROVE Minted'
  OBVIOUS
<1>1. Minted /\ Arrived /\ Labelled /\ AgentTypeOK /\ IInv
  BY DEF AInv
<1> USE Calls DEF Minted
<1>2. ASSUME NEW a \in Attempts, GetCart(a) PROVE Minted'
  <2>1. intents[CreateOf(a)].status = "absent"
    <3>1. CreateOf(a) \notin sent
      BY <1>1, <1>2 DEF GetCart, Labelled
    <3>2. pc[CreateOf(a)] = "idle"
      BY <1>1, <3>1 DEF Arrived
    <3>3. Staged
      BY <1>1 DEF IInv
    <3> QED BY <3>2, <3>3 DEF Staged
  <2>2. UNCHANGED intents /\ \A b \in Attempts \ {a} : signed'[b] = signed[b]
    BY <1>1, <1>2 DEF GetCart, vars, AgentTypeOK
  <2> QED BY <1>1, <2>1, <2>2
<1>3. ASSUME NEW r \in Requests, Server(r) PROVE Minted'
  <2> SUFFICES ASSUME NEW a \in Attempts, intents'[CreateOf(a)].status # "absent"
               PROVE  intents'[CreateOf(a)].mandate = signed[a]
    BY <1>3 DEF Server, agentVars
  <2> DEFINE i == CreateOf(a)
  <2>1. i \in Requests
    OBVIOUS
  <2>2. CASE intents[i].status # "absent" /\ intents'[i].mandate = intents[i].mandate
    BY <1>1, <2>2
  <2>3. CASE i = r /\ pc[r] # "idle" /\ intents'[i].mandate = req[r].mandate
    BY <1>1, <2>3, ArrivedParts
  <2> HIDE DEF i
  <2>4. Serve(r) /\ intents'[i].status # "absent"
    BY <1>3 DEF Server, i
  <2>5. \/ intents[i].status # "absent" /\ intents'[i].mandate = intents[i].mandate
        \/ i = r /\ pc[r] # "idle" /\ intents'[i].mandate = req[r].mandate
    BY <1>1, <2>1, <2>4, ServeMandates
  <2> QED BY <2>2, <2>3, <2>5 DEF i
<1>4. ASSUME UNCHANGED <<intents, signed>> PROVE Minted'
  BY <1>1, <1>4
<1> QED
  BY <1>2, <1>3, <1>4, AgentCases, HandlersKept
  DEF ArriveCreate, ArriveConfirm, Others, allVars, agentVars, Receive, HandlerVars, Begin,
      HearCreated, HearConfirmed, TimeOut, Bootstrap

\* The steps that serve neither call of an attempt do not touch its intent.
LEMMA OthersIntent ==
  ASSUME AInv, NEW a \in Attempts, NEW r \in Requests \ {CreateOf(a), ConfirmOf(a)}, Serve(r)
  PROVE  intents'[CreateOf(a)] = intents[CreateOf(a)]
<1>1. IInv /\ Arrived /\ pc[r] # "idle"
  BY ServeFacts DEF AInv
<1>2. PICK b \in Attempts \ {a} : r = CreateOf(b) \/ r = ConfirmOf(b)
  BY Calls
<1>3. CASE r = CreateOf(b)
  <2>1. req[r].op = "create"
    BY <1>1, <1>3, ArrivedParts
  <2>2. req[r] \notin ConfirmReq /\ CreateOf(a) # r /\ CreateOf(a) \in Requests
    BY <2>1, Calls DEF ConfirmReq
  <2> QED BY <1>1, <2>2, ServeIntents
<1>4. CASE r = ConfirmOf(b)
  <2>1. req[r].op = "confirm" /\ req[r].id = CreateOf(b)
    BY <1>1, <1>4, ArrivedParts
  <2>2. req[r] \notin CreateReq /\ CreateOf(a) # req[r].id /\ CreateOf(a) \in Requests
    BY <1>2, <2>1, Calls DEF CreateReq
  <2> QED BY <1>1, <2>2, ServeIntents
<1> QED BY <1>2, <1>3, <1>4

\* The create call of an attempt opens its intent, which nobody confirms before.
LEMMA SoleCreate ==
  ASSUME AInv, NEW a \in Attempts, Serve(CreateOf(a)),
         code'[CreateOf(a)] = 201 \/ pc'[CreateOf(a)] = "reply_created",
         pc[ConfirmOf(a)] \in Early
  PROVE  intents'[CreateOf(a)].status = "requires_confirmation"
<1> DEFINE c == CreateOf(a)
<1>1. /\ c \in Requests /\ req[c].op = "create"
      /\ pc[c] \in Labels /\ pc \in [Requests -> Labels] /\ code \in [Requests -> Codes]
      /\ intents \in [Requests -> Intent]
      /\ pc[c] \in Unanswered => code[c] = 0
      /\ pc[c] = "open" => intents[c].status = "created"
      /\ pc[c] = "emit_created" => code[c] = 201
  <2>1. c \in Requests /\ pc[c] # "idle"
    BY Calls, ServeFacts DEF AInv
  <2>2. req[c].op = "create"
    BY <2>1, ArrivedParts DEF AInv
  <2> HIDE DEF c
  <2> QED BY <2>1, <2>2 DEF AInv, IInv, TypeInv, TypeOK, Answered, Staged
<1>2. code[c] = 201 \/ pc[c] = "reply_created" => intents[c].status = "requires_confirmation"
  BY DEF AInv, Sole
<1>3. Routed
  BY DEF AInv, IInv, TypeInv
<1>4. Serve(c) /\ (code'[c] = 201 \/ pc'[c] = "reply_created")
  OBVIOUS
<1> HIDE DEF c
<1> SUFFICES intents'[c].status = "requires_confirmation"
  BY DEF c
<1> USE <1>1, <1>4 DEF Goto, Send, Refuse, Unanswered, Labels
<1>5. CASE Authorize(c)
  BY <1>5 DEF Authorize
<1>6. CASE LoadCart(c) \/ VerifyMandate(c) \/ CreateStored(c)
  BY <1>6 DEF LoadCart, VerifyMandate, CreateStored
<1>7. CASE OpenIntent(c)
  BY <1>7 DEF OpenIntent, TransitionStatus, CanTransition, Intent
<1>8. CASE ReplyCreated(c) \/ EmitCreated(c)
  BY <1>2, <1>8 DEF ReplyCreated, EmitCreated
<1>9. ~ConfirmIntent(c)
  <2>1. req[c] \notin ConfirmReq
    BY DEF ConfirmReq
  <2> QED BY <1>3, <2>1 DEF Routed, HoldLabels, ConfirmIntent, LoadIntent, RecordSpend, Charge,
                            MarkSucceeded, ReplySucceeded, EmitSucceeded, MarkFailed, EmitFailed
<1> QED BY <1>5, <1>6, <1>7, <1>8, <1>9 DEF Serve, CreateIntent

\* The confirm of an attempt finds its intent open until it settles it itself.
LEMMA SoleConfirm ==
  ASSUME AInv, NEW a \in Attempts, Serve(ConfirmOf(a))
  PROVE  /\ pc'[ConfirmOf(a)] \in Early => intents'[CreateOf(a)].status = "requires_confirmation"
         /\ ConfirmOf(a) \in captured' => code'[ConfirmOf(a)] \in {0, 200}
<1> DEFINE f == ConfirmOf(a)
           c == CreateOf(a)
<1>1. f \in Requests /\ c \in Requests /\ pc[f] # "idle" /\ req[f].op = "confirm" /\ req[f].id = c
  <2>1. f \in Requests /\ c \in Requests /\ pc[f] # "idle"
    BY Calls, ServeFacts DEF AInv
  <2> QED BY <2>1, ArrivedParts DEF AInv
<1>2. code[c] = 201
  <2>1. f \in sent
    BY <1>1 DEF AInv, Arrived
  <2> QED BY <2>1 DEF AInv, Prepared
<1>3. /\ pc[f] \in Early => intents[c].status = "requires_confirmation"
      /\ f \in captured => code[f] \in {0, 200}
  BY <1>2 DEF AInv, Sole
<1> HIDE DEF c, f
<1>4. /\ pc[f] \in Labels /\ pc \in [Requests -> Labels] /\ code \in [Requests -> Codes]
      /\ pc[f] \in Unanswered => code[f] = 0
      /\ f \in captured => pc[f] \in {"succeed", "reply_succeeded", "emit_succeeded", "done"}
      /\ pc[f] = "emit_succeeded" => code[f] = 200
      /\ Routed
  BY <1>1 DEF AInv, IInv, TypeInv, TypeOK, Answered
<1> SUFFICES /\ pc'[f] \in Early => intents'[c].status = "requires_confirmation"
             /\ f \in captured' => code'[f] \in {0, 200}
  BY DEF c, f
<1> USE <1>1, <1>3, <1>4 DEF Goto, Send, Refuse, Unanswered, Labels, Early
<1>5. CASE Authorize(f)
  BY <1>5 DEF Authorize
<1>6. CASE LoadIntent(f) \/ RecordSpend(f) \/ Charge(f)
  BY <1>6 DEF LoadIntent, RecordSpend, Charge
<1>7. CASE MarkSucceeded(f)
  BY <1>7 DEF MarkSucceeded, CanTransition
<1>8. CASE ReplySucceeded(f) \/ EmitSucceeded(f)
  BY <1>8 DEF ReplySucceeded, EmitSucceeded
<1>9. CASE MarkFailed(f) \/ EmitFailed(f)
  BY <1>9 DEF MarkFailed, EmitFailed
<1>10. ~CreateIntent(f)
  <2>1. req[f] \notin CreateReq
    BY DEF CreateReq
  <2> QED BY <2>1 DEF Routed, CreateLabels, CreateIntent, LoadCart, VerifyMandate,
                      CreateStored, OpenIntent, ReplyCreated, EmitCreated
<1>11. Serve(f)
  BY DEF f
<1> QED BY <1>5, <1>6, <1>7, <1>8, <1>9, <1>10, <1>11 DEF Serve, ConfirmIntent

\* Every step keeps each attempt the only one to settle its intent.
LEMMA SoleStep == AInv /\ [AgentNext]_allVars => Sole'
<1> SUFFICES ASSUME AInv, [AgentNext]_allVars, NEW a \in Attempts
             PROVE  (/\ /\ code[CreateOf(a)] = 201 \/ pc[CreateOf(a)] = "reply_created"
                        /\ pc[ConfirmOf(a)] \in Early
                        => intents[CreateOf(a)].status = "requires_confirmation"
                     /\ ConfirmOf(a) \in captured => code[ConfirmOf(a)] \in {0, 200})'
  BY DEF Sole
<1> DEFINE c == CreateOf(a)
           f == ConfirmOf(a)
<1>1. /\ c \in Requests /\ f \in Requests /\ c # f /\ IInv
      /\ /\ code[c] = 201 \/ pc[c] = "reply_created"
         /\ pc[f] \in Early
         => intents[c].status = "requires_confirmation"
      /\ f \in captured => code[f] \in {0, 200}
  BY Calls DEF AInv, Sole
<1>2. CASE UNCHANGED HandlerVars
  BY <1>1, <1>2 DEF HandlerVars
<1>3. ASSUME NEW r \in Requests, NEW q, Receive(r, q)
      PROVE  /\ /\ code'[c] = 201 \/ pc'[c] = "reply_created"
                /\ pc'[f] \in Early
                => intents'[c].status = "requires_confirmation"
             /\ f \in captured' => code'[f] \in {0, 200}
  <2>1. /\ pc[r] = "idle" /\ pc'[r] = "auth"
        /\ \A s \in Requests \ {r} : pc'[s] = pc[s]
        /\ UNCHANGED <<intents, code, captured>>
    BY <1>1, <1>3, ArriveFacts
  <2>2. code[r] = 0
    BY <1>1, <2>1 DEF IInv, Answered, Unanswered, Labels
  <2> HIDE DEF c, f
  <2> QED BY <1>1, <2>1, <2>2 DEF Early
<1>4. ASSUME NEW r \in Requests, Serve(r)
      PROVE  /\ /\ code'[c] = 201 \/ pc'[c] = "reply_created"
                /\ pc'[f] \in Early
                => intents'[c].status = "requires_confirmation"
             /\ f \in captured' => code'[f] \in {0, 200}
  <2>1. \A s \in Requests \ {r} : /\ pc'[s] = pc[s] /\ code'[s] = code[s]
                                  /\ s \in captured' <=> s \in captured
    BY <1>1, <1>4, ServeFacts
  <2>2. CASE r = c
    BY <1>1, <1>4, <2>1, <2>2, SoleCreate
  <2>3. CASE r = f
    BY <1>4, <2>3, SoleConfirm
  <2>4. CASE r \notin {c, f}
    BY <1>1, <1>4, <2>1, <2>4, OthersIntent
  <2> QED BY <2>2, <2>3, <2>4
<1> QED
  BY <1>2, <1>3, <1>4, AgentCases, HandlersKept, Calls DEF ArriveCreate, ArriveConfirm, Server

-----------------------------------------------------------------------------
(* The theorems.                                                           *)

\* At first no attempt has begun.
LEMMA AInvInit == AgentInit => AInv
<1> SUFFICES ASSUME AgentInit PROVE AInv
  OBVIOUS
<1>1. IInv
  BY TypeInvInit, AnsweredInit, StagedInit, SignedInit, SettledInit, AnnouncedInit
  DEF AgentInit, IInv
<1>2. \A r \in Requests : pc[r] = "idle" /\ code[r] = 0 /\ intents[r].status = "absent"
  BY DEF AgentInit, Init, Quiet, NoIntent
<1>3. AgentTypeOK /\ Prepared /\ Labelled
  BY Calls DEF AgentInit, AgentTypeOK, Prepared, Labelled
<1>4. Arrived /\ Minted /\ Sole
  BY <1>2, Calls DEF Arrived, Minted, Sole, AgentInit, Init, Quiet
<1> QED BY <1>1, <1>3, <1>4 DEF AInv

\* Every step keeps the invariant.
LEMMA AInvStep == AInv /\ [AgentNext]_allVars => AInv'
<1> SUFFICES ASSUME AInv, [AgentNext]_allVars PROVE AInv'
  OBVIOUS
<1>1. IInv'
  <2>1. IInv /\ [Next]_vars
    BY CheckoutStep DEF AInv
  <2> QED BY <2>1, TypeInvStep, AnsweredStep, StagedStep, SignedStep, SettledStep,
             AnnouncedStep DEF IInv
<1>2. AgentTypeOK'
  BY AgentTypesStep
<1> QED BY <1>1, <1>2, PreparedStep, ArrivedStep, LabelledStep, MintedStep, SoleStep DEF AInv

\* The invariant of the agent holds in every reachable state, together with that of
\* the checkout it uses.
THEOREM AgentInductive == AgentSpec => []AInv
BY AInvInit, AInvStep, PTL DEF AgentSpec

\* Whatever is lost or late on the network, the agent is a client Checkout provides
\* for.
THEOREM AgentUsesCheckout == AgentSpec => UsesCheckout
<1>1. AgentInit => Init
  BY DEF AgentInit
<1> QED BY <1>1, CheckoutStep, AgentInductive, PTL DEF AgentSpec, UsesCheckout, Spec

\* So the promises of the checkout are kept towards the agent: its budget, the answers it
\* was given, and the walk of its intents through the status graph.
THEOREM AgentInherits == AgentSpec => []BudgetRespected /\ []AnswersTruthful /\ ImplementsContract
BY AgentUsesCheckout, BudgetKept, AnswersStayTrue, Implements DEF UsesCheckout

\* And when the agent has given up and reported a loss, the money it may have paid still
\* settles its intent, if the server's goroutines are scheduled.
THEOREM AgentMoneySettles == AgentSpec /\ FairSchedule => CapturedIsSettled /\ SuccessIsAnnounced
BY AgentUsesCheckout, CapturedSettles, SuccessAnnounced DEF UsesCheckout

\* Type correctness of the agent.
THEOREM AgentTypes == AgentSpec => []AgentTypeOK
<1>1. AInv => AgentTypeOK
  BY DEF AInv
<1> QED BY <1>1, AgentInductive, PTL

\* What is captured for an attempt's intent is its own confirm, which it sent.
LEMMA OwnConfirm ==
  ASSUME AInv, NEW r \in captured
  PROVE  \E a \in Attempts : r = ConfirmOf(a) /\ ConfirmOf(a) \in sent /\ req[r].id = CreateOf(a)
<1>1. r \in Requests /\ req[r] \in ConfirmReq /\ pc[r] # "idle"
  BY DEF AInv, IInv, TypeInv, TypeOK, Answered
<1>2. PICK a \in Attempts : r = CreateOf(a) \/ r = ConfirmOf(a)
  BY <1>1, Calls
<1>3. r # CreateOf(a)
  BY <1>1, ArrivedParts DEF AInv, ConfirmReq
<1>4. req[r].id = CreateOf(a)
  BY <1>1, <1>2, <1>3, ArrivedParts DEF AInv
<1>5. ConfirmOf(a) \in sent
  BY <1>1, <1>2, <1>3 DEF AInv, Arrived
<1> QED BY <1>2, <1>3, <1>4, <1>5

\* An attempt's intent is charged once at most.
THEOREM AgentChargedOnce == AgentSpec => []ChargedAtMostOnce
<1>1. AInv => ChargedAtMostOnce
  BY OwnConfirm, Calls DEF ChargedAtMostOnce
<1> QED BY <1>1, AgentInductive, PTL

\* An attempt that reports a refusal was not charged, and will not be.
THEOREM RefusalsTrue == AgentSpec => []RefusalReportIsTrue
<1>1. AInv => RefusalReportIsTrue
  <2> SUFFICES ASSUME AInv, NEW a \in Attempts, NEW r \in captured, req[r].id = CreateOf(a)
               PROVE  /\ agent[a] \in {"confirm", "success", "lost"}
                      /\ ConfirmOf(a) \in sent
    BY DEF RefusalReportIsTrue
  <2>1. r = ConfirmOf(a) /\ ConfirmOf(a) \in sent
    BY OwnConfirm, Calls
  <2>2. agent[a] \notin {"idle", "cart", "create"}
    BY <2>1 DEF AInv, Labelled
  <2>3. agent[a] # "refused"
    BY <2>1 DEF AInv, Labelled, Sole
  <2> QED BY <2>1, <2>2, <2>3 DEF AInv, AgentTypeOK, Waiting, Reports
<1> QED BY <1>1, AgentInductive, PTL

\* An attempt that reports a success was charged once, for the cart it read.
THEOREM SuccessesTrue == AgentSpec => []SuccessReportIsTrue
<1>1. AInv => SuccessReportIsTrue
  <2> SUFFICES ASSUME AInv, NEW a \in Attempts, agent[a] = "success"
               PROVE  /\ intents[CreateOf(a)].status = "succeeded"
                      /\ {r \in captured : req[r].id = CreateOf(a)} = {ConfirmOf(a)}
                      /\ intentCopy[ConfirmOf(a)].amount = Total[signed[a].hash.items]
    BY DEF SuccessReportIsTrue
  <2> DEFINE c == CreateOf(a)
             f == ConfirmOf(a)
  <2>1. c \in Requests /\ f \in Requests /\ code[f] = 200
    BY Calls DEF AInv, Labelled
  <2>2. f \in captured /\ intents[req[f].id].status = "succeeded"
    BY <2>1 DEF AInv, IInv, Answered, Settled, Winner
  <2>3. req[f].id = c
    BY <2>2, OwnConfirm, Calls
  <2>4. {r \in captured : req[r].id = c} = {f}
    <3>1. ASSUME NEW r \in captured, req[r].id = c PROVE r = f
      BY <3>1, OwnConfirm, Calls
    <3> QED BY <2>2, <2>3, <3>1
  <2>5. intents[c].mandate = signed[a] /\ intents[c].status # "absent"
    BY <2>2, <2>3 DEF AInv, Minted
  <2>6. intentCopy[f].amount = intents[c].amount
    BY <2>1, <2>2, <2>3 DEF AInv, IInv, Signed, CopyFaithful
  <2>7. intents[c].amount = Total[signed[a].hash.items]
    <3> HIDE DEF c
    <3> QED BY <2>1, <2>5 DEF AInv, IInv, Signed, StoredSigned, SignedFor
  <2> QED BY <2>2, <2>3, <2>4, <2>6, <2>7
<1> QED BY <1>1, AgentInductive, PTL
-----------------------------------------------------------------------------
(* Liveness.  ENABLED is beyond the provers, so the theorem names what weak  *)
(* fairness says: an attempt that waits can always take a step, a time-out   *)
(* if nothing else.                                                          *)

\* WF_allVars(Tool(a)): a is not waiting again and again, or it takes steps for ever.
ToolScheduled(a) == \/ []<>~(agent[a] \in Waiting)
                    \/ []<><<Tool(a)>>_allVars

\* The agent's thread runs, and its time-out fires.
FairTools == \A a \in Attempts : ToolScheduled(a)

\* How many answers an attempt may still wait for, at most: the token's, the cart's,
\* and those of the two payment calls.
CallsLeft(a) ==
  IF agent[a] = "cart" /\ bearer = NoToken
  THEN 4
  ELSE [cart |-> 3, create |-> 2, confirm |-> 1, success |-> 0, refused |-> 0, lost |-> 0][agent[a]]

InCalls(a, n) == agent[a] # "idle" /\ CallsLeft(a) <= n

CallsDown(a, n, m) == InCalls(a, n) ~> InCalls(a, m)

\* The agent has a token for good once it has one, and a step of the network, of the
\* server or of another session leaves the attempts where they are.
LEMMA ToolKept ==
  ASSUME AInv, [AgentNext]_allVars
  PROVE  /\ bearer # NoToken => bearer' = bearer
         /\ \A a \in Attempts : ~Begin(a) /\ ~Tool(a) => agent'[a] = agent[a]
<1> USE DEF AInv, AgentTypeOK
<1>1. ASSUME NEW b \in Attempts, Begin(b) \/ GetCart(b) \/ HearCreated(b)
                                 \/ HearConfirmed(b) \/ TimeOut(b)
      PROVE  /\ bearer' = bearer
             /\ \A a \in Attempts \ {b} : agent'[a] = agent[a]
  BY <1>1 DEF Begin, GetCart, HearCreated, HearConfirmed, TimeOut, Reach
<1>2. ASSUME NEW b \in Attempts, Bootstrap(b)
      PROVE  /\ bearer = NoToken
             /\ \A a \in Attempts \ {b} : agent'[a] = agent[a]
  BY <1>2 DEF Bootstrap, Reach
<1>3. CASE UNCHANGED agentVars
  BY <1>3 DEF agentVars
<1>4. \/ \E b \in Attempts : Begin(b) \/ GetCart(b) \/ HearCreated(b)
                             \/ HearConfirmed(b) \/ TimeOut(b)
      \/ \E b \in Attempts : Bootstrap(b)
      \/ UNCHANGED agentVars
  BY AgentCases DEF ArriveCreate, ArriveConfirm, Server, Others, allVars
<1>5. CASE \E b \in Attempts : Begin(b) \/ GetCart(b) \/ HearCreated(b)
                               \/ HearConfirmed(b) \/ TimeOut(b)
  BY <1>1, <1>5 DEF Tool
<1>6. CASE \E b \in Attempts : Bootstrap(b)
  BY <1>2, <1>6 DEF Tool
<1> QED BY <1>3, <1>4, <1>5, <1>6

\* Each step of an attempt leaves it fewer answers to wait for, and no other step
\* leaves it more.
LEMMA ToolNearer ==
  ASSUME NEW a \in Attempts, NEW n \in 1..4, NEW m \in 0..3, n = m + 1
  PROVE  /\ AInv /\ [AgentNext]_allVars /\ InCalls(a, n) => InCalls(a, n)'
         /\ AInv /\ <<Tool(a)>>_allVars /\ InCalls(a, n) => InCalls(a, m)'
<1> SUFFICES ASSUME AInv, [AgentNext]_allVars, InCalls(a, n)
             PROVE  /\ InCalls(a, n)'
                    /\ Tool(a) => InCalls(a, m)'
  BY DEF AgentNext
<1>1. /\ agent \in [Attempts -> {"idle"} \cup Waiting \cup Reports]
      /\ agent[a] # "idle" /\ bearer \in Tokens \cup {NoToken}
  BY DEF AInv, AgentTypeOK, InCalls
<1> USE <1>1 DEF InCalls, CallsLeft, Reach, Waiting, Reports
<1>2. CASE Bootstrap(a)
  <2>1. agent[a] = "cart" /\ bearer = NoToken
    BY <1>2 DEF Bootstrap
  <2>2. \/ bearer' \in Tokens /\ UNCHANGED agent
        \/ Reach(a, "lost") /\ UNCHANGED bearer
        \/ Reach(a, "refused") /\ UNCHANGED bearer
    BY <1>2 DEF Bootstrap
  <2> QED BY <2>1, <2>2, NoTokenAssumption
<1>3. CASE GetCart(a)
  <2>1. agent[a] = "cart" /\ bearer # NoToken /\ bearer' = bearer
    BY <1>3 DEF GetCart
  <2>2. agent'[a] \in {"refused", "create"}
    BY <1>3 DEF GetCart
  <2> QED BY <2>1, <2>2
<1>4. CASE HearCreated(a)
  <2>1. agent[a] = "create" /\ agent'[a] \in {"confirm", "refused"}
    BY <1>4 DEF HearCreated
  <2> QED BY <2>1
<1>5. CASE HearConfirmed(a)
  <2>1. agent[a] = "confirm" /\ agent'[a] \in {"success", "refused"}
    BY <1>5 DEF HearConfirmed
  <2> QED BY <2>1
<1>6. CASE TimeOut(a)
  <2>1. agent[a] \in Waiting /\ agent'[a] = "lost"
    BY <1>6 DEF TimeOut
  <2> QED BY <2>1
<1>7. CASE ~Tool(a)
  <2>1. ~Begin(a)
    BY DEF Begin
  <2>2. /\ bearer # NoToken => bearer' = bearer
        /\ agent'[a] = agent[a]
    BY <1>7, <2>1, ToolKept
  <2>3. CallsLeft(a)' <= CallsLeft(a)
    BY <2>2
  <2>4. CallsLeft(a) \in 0..4 /\ CallsLeft(a)' \in 0..4
    BY <2>2
  <2> QED BY <1>7, <2>2, <2>3, <2>4 DEF InCalls
<1> QED BY <1>2, <1>3, <1>4, <1>5, <1>6, <1>7 DEF Tool

\* A scheduled attempt gets from n answers before its end to m.
LEMMA ToolAdvances ==
  ASSUME NEW a \in Attempts, NEW n \in 1..4, NEW m \in 0..3, n = m + 1
  PROVE  AgentSpec /\ ToolScheduled(a) => CallsDown(a, n, m)
<1>1. /\ AInv /\ [AgentNext]_allVars /\ InCalls(a, n) => InCalls(a, n)'
      /\ AInv /\ <<Tool(a)>>_allVars /\ InCalls(a, n) => InCalls(a, m)'
  BY ToolNearer
<1>2. AInv /\ InCalls(a, n) /\ ~(agent[a] \in Waiting) => InCalls(a, m)
  BY DEF AInv, AgentTypeOK, InCalls, CallsLeft, Waiting, Reports
<1> QED BY <1>1, <1>2, AInvInit, AInvStep, PTL DEF AgentSpec, ToolScheduled, CallsDown

\* If every attempt is scheduled, the tool returns, whatever is lost on the way.
THEOREM ToolsReturn == AgentSpec /\ FairTools => ToolReturns
<1> DEFINE Ends(a) == agent[a] = "cart" ~> agent[a] \in Reports
<1>1. ASSUME NEW a \in Attempts PROVE AgentSpec /\ ToolScheduled(a) => Ends(a)
  <2>1. AInv => (agent[a] = "cart" => InCalls(a, 4))
    BY DEF InCalls, CallsLeft
  <2>2. AInv => (InCalls(a, 0) => agent[a] \in Reports)
    BY DEF AInv, AgentTypeOK, InCalls, CallsLeft, Waiting, Reports
  <2>3. AgentSpec /\ ToolScheduled(a) => CallsDown(a, 4, 3)
    BY ToolAdvances, SMT
  <2>4. AgentSpec /\ ToolScheduled(a) => CallsDown(a, 3, 2)
    BY ToolAdvances, SMT
  <2>5. AgentSpec /\ ToolScheduled(a) => CallsDown(a, 2, 1)
    BY ToolAdvances, SMT
  <2>6. AgentSpec /\ ToolScheduled(a) => CallsDown(a, 1, 0)
    BY ToolAdvances, SMT
  <2> QED BY <2>1, <2>2, <2>3, <2>4, <2>5, <2>6, AgentInductive, PTL DEF CallsDown
<1> QED BY <1>1 DEF ToolReturns, FairTools
=============================================================================
