------------------------ MODULE PaymentContractProofs ------------------------
(***************************************************************************)
(* Machine-checked proofs about PaymentContract: what its steps amount to, *)
(* for a reader who trusts the words of README section 2 more than a list  *)
(* of steps.  Whatever implements the contract has these properties.       *)
(***************************************************************************)
EXTENDS PaymentContract, TLAPS

Final == {"succeeded", "failed"}

\* An intent succeeds only if it was paid, is announced only if it succeeded, and is
\* paid only once it was opened.
Honest ==
  /\ \A i \in Ids : status[i] = "succeeded" => i \in paid
  /\ \A i \in announced : status[i] = "succeeded"
  /\ \A i \in paid : status[i] \notin {"absent", "created"}

\* A final status is never left, an opened intent does not go back, and neither a
\* payment nor an announcement is undone.
Settles ==
  /\ \A i \in Ids : status[i] \in Final => status'[i] = status[i]
  /\ \A i \in Ids : status[i] \notin {"absent", "created"} =>
                      status'[i] \notin {"absent", "created"}
  /\ paid \subseteq paid'
  /\ announced \subseteq announced'

\* What a move does to the other statuses.
LEMMA MoveFacts ==
  ASSUME TypeOK, NEW i \in Ids, NEW from, NEW to \in Statuses, Move(i, from, to)
  PROVE  /\ status' \in [Ids -> Statuses]
         /\ status[i] = from /\ status'[i] = to
         /\ \A j \in Ids \ {i} : status'[j] = status[j]
BY DEF TypeOK, Move

\* Every step keeps the types and the honesty, and settles.
LEMMA HonestStep ==
  TypeOK /\ Honest /\ [Next]_vars => TypeOK' /\ Honest' /\ Settles
<1> SUFFICES ASSUME TypeOK, Honest, [Next]_vars PROVE TypeOK' /\ Honest' /\ Settles
  OBVIOUS
<1> USE DEF TypeOK, Honest, Settles, Final
<1>1. ASSUME NEW i \in Ids, Create(i) PROVE TypeOK' /\ Honest' /\ Settles
  BY <1>1, MoveFacts DEF Create, Statuses
<1>2. ASSUME NEW i \in Ids, Open(i) PROVE TypeOK' /\ Honest' /\ Settles
  BY <1>2, MoveFacts DEF Open, Statuses
<1>3. ASSUME NEW i \in Ids, Capture(i) PROVE TypeOK' /\ Honest' /\ Settles
  BY <1>3 DEF Capture
<1>4. ASSUME NEW i \in Ids, Succeed(i) PROVE TypeOK' /\ Honest' /\ Settles
  BY <1>4, MoveFacts DEF Succeed, Statuses
<1>5. ASSUME NEW i \in Ids, Fail(i) PROVE TypeOK' /\ Honest' /\ Settles
  BY <1>5, MoveFacts DEF Fail, Statuses
<1>6. ASSUME NEW i \in Ids, Announce(i) PROVE TypeOK' /\ Honest' /\ Settles
  BY <1>6 DEF Announce
<1>7. CASE UNCHANGED vars
  BY <1>7 DEF vars
<1> QED BY <1>1, <1>2, <1>3, <1>4, <1>5, <1>6, <1>7 DEF Next

\* The contract is honest in every state.
THEOREM ContractHonest == Spec => [](TypeOK /\ Honest)
<1>1. Init => TypeOK /\ Honest
  BY DEF Init, TypeOK, Honest, Statuses
<1> QED BY <1>1, HonestStep, PTL DEF Spec

\* No step of the contract undoes what is settled.
THEOREM ContractSettles == Spec => [][Settles]_vars
BY ContractHonest, HonestStep, PTL DEF Spec
=============================================================================
