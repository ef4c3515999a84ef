-------------------------------- MODULE Agent --------------------------------
(***************************************************************************)
(* The shopping agent as a client of Checkout: its tool                    *)
(* checkout_and_pay_cart reads the cart, signs a mandate for it, creates an*)
(* intent and confirms it, one attempt after another, each with a fresh    *)
(* mandate and intent.  A call may be lost on the way, its answer may be   *)
(* lost, and the client gives up after its time-out while the server goes  *)
(* on; other sessions edit the carts meanwhile.                            *)
(*                                                                         *)
(* What the language model says between two attempts is left out: the agent*)
(* may or may not try again after any outcome.                             *)
(*                                                                         *)
(* The operators whose name starts with Bad are not part of the model: each*)
(* is a plausible mistake in the operator that follows it.                 *)
(***************************************************************************)
EXTENDS Checkout

CONSTANTS
  Attempts,    \* the calls of checkout_and_pay_cart
  MandateId,   \* [Attempts -> STRING], the uuid of each mandate
  NoToken      \* the agent has no bearer token yet

CreateOf(a) == <<a, "create">>
ConfirmOf(a) == <<a, "confirm">>

\* What client.py signs for cart c when it has read items x.
MandateFor(a, c, x) ==
  [id |-> MandateId[a], hash |-> CartHash(c, x), amount |-> Total[x], signed |-> TRUE]

ASSUME CallsAssumption == Requests = Attempts \X {"create", "confirm"}
ASSUME SignedAssumption ==
  \A a \in Attempts, c \in CartIds, x \in Contents : MandateFor(a, c, x) \in Mandates
ASSUME NoTokenAssumption == NoToken \notin Tokens

VARIABLES
  agent,    \* where each attempt is, or what it reported
  bearer,   \* CommerceAPIClient.bearer_token
  signed,   \* the mandate each attempt signed
  sent      \* the payment calls sent so far

agentVars == <<agent, bearer, signed, sent>>
allVars == <<vars, agentVars>>

Waiting == {"cart", "create", "confirm"}
Reports == {"success", "refused", "lost"}

AgentTypeOK ==
  /\ agent \in [Attempts -> {"idle"} \cup Waiting \cup Reports]
  /\ bearer \in Tokens \cup {NoToken}
  /\ signed \in [Attempts -> Mandates \cup {NoMandate}]
  /\ sent \subseteq Requests

AgentInit ==
  /\ Init
  /\ agent = [a \in Attempts |-> "idle"]
  /\ bearer = NoToken
  /\ signed = [a \in Attempts |-> NoMandate]
  /\ sent = {}

Reach(a, label) == agent' = [agent EXCEPT ![a] = label]

-----------------------------------------------------------------------------
(* The agent.                                                              *)

\* The tool is called; it runs to its end before it is called again.
Begin(a) ==
  /\ agent[a] = "idle"
  /\ \A b \in Attempts : agent[b] \notin Waiting
  /\ Reach(a, "cart")
  /\ UNCHANGED <<vars, bearer, signed, sent>>

\* bootstrap_token, before the first call only: the server may refuse, and the
\* answer may be lost.
Bootstrap(a) ==
  /\ agent[a] = "cart"
  /\ bearer = NoToken
  /\ \/ Reach(a, "refused") /\ UNCHANGED <<vars, bearer>>
     \/ \E t \in PaymentsWriters \cap Tokens :
          /\ IssueToken(t)
          /\ \/ bearer' = t /\ UNCHANGED agent
             \/ Reach(a, "lost") /\ UNCHANGED bearer
  /\ UNCHANGED <<signed, sent>>

\* The status of the answer is not looked at.
BadGetCart(a) ==
  /\ agent[a] = "cart"
  /\ bearer # NoToken
  /\ \E c \in CartIds :
       signed' = [signed EXCEPT ![a] =
                    [MandateFor(a, c, EmptyItems) EXCEPT !.hash.items = carts[c]]]
  /\ sent' = sent \cup {CreateOf(a)}
  /\ Reach(a, "create")
  /\ UNCHANGED <<vars, bearer>>

\* get_cart answers; the agent signs what it saw and sends the create call.
GetCart(a) ==
  /\ agent[a] = "cart"
  /\ bearer # NoToken
  /\ \E c \in CartIds :
       \/ /\ tokenState[bearer] # "live" \/ carts[c] = NoCart
          /\ Reach(a, "refused")
          /\ UNCHANGED <<signed, sent>>
       \/ /\ tokenState[bearer] = "live" /\ carts[c] # NoCart
          /\ signed' = [signed EXCEPT ![a] = MandateFor(a, c, carts[c])]
          /\ sent' = sent \cup {CreateOf(a)}
          /\ Reach(a, "create")
  /\ UNCHANGED <<vars, bearer>>

\* The agent does not wait for the id of the intent.
BadHearCreated(a) ==
  /\ agent[a] = "create"
  /\ sent' = sent \cup {ConfirmOf(a)}
  /\ Reach(a, "confirm")
  /\ UNCHANGED <<vars, bearer, signed>>

\* The answer to create_payment_intent: the intent is confirmed at once.
HearCreated(a) ==
  /\ agent[a] = "create"
  /\ \/ /\ code[CreateOf(a)] = 201
        /\ sent' = sent \cup {ConfirmOf(a)}
        /\ Reach(a, "confirm")
     \/ /\ code[CreateOf(a)] \notin {0, 201}
        /\ Reach(a, "refused")
        /\ UNCHANGED sent
  /\ UNCHANGED <<vars, bearer, signed>>

\* The answer to confirm_payment_intent.
HearConfirmed(a) ==
  /\ agent[a] = "confirm"
  /\ code[ConfirmOf(a)] # 0
  /\ Reach(a, IF code[ConfirmOf(a)] = 200 THEN "success" ELSE "refused")
  /\ UNCHANGED <<vars, bearer, signed, sent>>

\* A time-out of a payment call is reported like an error the server answered.
BadTimeOut(a) ==
  /\ agent[a] \in Waiting
  /\ Reach(a, IF agent[a] = "cart" THEN "lost" ELSE "refused")
  /\ UNCHANGED <<vars, bearer, signed, sent>>

\* The client waits for a lost create call for ever.
BadTimeOutMissing(a) ==
  /\ agent[a] \in Waiting \ {"create"}
  /\ Reach(a, "lost")
  /\ UNCHANGED <<vars, bearer, signed, sent>>

\* httpx gives up, at any time: the call, or its answer, was lost or is late.  The
\* tool's line begins "Checkout failed" here too; what tells it from a refusal is the
\* detail: a connection failure, and no body.
TimeOut(a) ==
  /\ agent[a] \in Waiting
  /\ Reach(a, "lost")
  /\ UNCHANGED <<vars, bearer, signed, sent>>

-----------------------------------------------------------------------------
(* The network and the server.                                             *)

\* A create call arrives, perhaps after the agent has given it up.
ArriveCreate(a) ==
  /\ CreateOf(a) \in sent
  /\ Receive(CreateOf(a), [op |-> "create", token |-> bearer,
                           cart |-> signed[a].hash.cart, mandate |-> signed[a]])
  /\ UNCHANGED agentVars

\* The id of the agent's first intent is kept and confirmed again.
BadIntentOf(a) ==
  IF \E b \in Attempts \ {a} : code[CreateOf(b)] = 201
  THEN CHOOSE i \in {CreateOf(b) : b \in Attempts \ {a}} : code[i] = 201
  ELSE CreateOf(a)

\* The intent an attempt confirms: the one it was answered.
IntentOf(a) == CreateOf(a)

ArriveConfirm(a) ==
  /\ ConfirmOf(a) \in sent
  /\ Receive(ConfirmOf(a), [op |-> "confirm", token |-> bearer, id |-> IntentOf(a)])
  /\ UNCHANGED agentVars

Server(r) == Serve(r) /\ UNCHANGED agentVars

\* Time and the other sessions.  A mandate lives for 300 seconds once signed.
Others ==
  /\ \/ \E t \in Tokens : ExpireToken(t)
     \/ \E a \in Attempts : signed[a] # NoMandate /\ ExpireMandate(signed[a])
     \/ \E c \in CartIds : CreateCart(c) \/ (\E x \in Contents : SaveCart(c, x))
  /\ UNCHANGED agentVars

Tool(a) == \/ Bootstrap(a) \/ GetCart(a) \/ HearCreated(a) \/ HearConfirmed(a)
           \/ TimeOut(a)

AgentNext == \/ \E a \in Attempts : Begin(a) \/ Tool(a) \/ ArriveCreate(a) \/ ArriveConfirm(a)
             \/ \E r \in Requests : Server(r)
             \/ Others

AgentSpec == AgentInit /\ [][AgentNext]_allVars

\* The agent's thread runs, and its time-out fires.  The network promises nothing.
AgentFairSpec == /\ AgentSpec
                 /\ \A r \in Requests : WF_allVars(Server(r))
                 /\ \A a \in Attempts : WF_allVars(Tool(a))

-----------------------------------------------------------------------------
\* When the tool says "Success!", the bank was charged exactly once for the
\* attempt, for the total of the very cart the agent read, and the intent is
\* succeeded for good, whatever other sessions did to the cart in the meantime
\* (client.py 138-190, tools.py 36-44).
SuccessReportIsTrue ==
  \A a \in Attempts : agent[a] = "success" =>
    /\ intents[CreateOf(a)].status = "succeeded"
    /\ {r \in captured : req[r].id = CreateOf(a)} = {ConfirmOf(a)}
    /\ intentCopy[ConfirmOf(a)].amount = Total[signed[a].hash.items]

\* When the tool reports an error the server answered, nothing was or will be
\* charged for the attempt: money can be taken behind the agent's back only when
\* the answer to the confirm was lost.  Both reports begin "Checkout failed"
\* (tools.py 45-46); a reader must look at the detail to know which one it is.
RefusalReportIsTrue ==
  \A a \in Attempts, r \in captured :
    req[r].id = CreateOf(a) =>
      /\ agent[a] \in {"confirm", "success", "lost"}
      /\ ConfirmOf(a) \in sent

\* The agent is a client Checkout provides for, so what is shown of Checkout
\* holds of the carts, intents and charges of the agent.
UsesCheckout == Spec

\* The tool returns, whatever is lost (client.py 28).
ToolReturns == \A a \in Attempts : agent[a] = "cart" ~> agent[a] \in Reports
=============================================================================
