----------------------------- MODULE MCCheckout -----------------------------
(* A small instance of Checkout: one cart of two possible contents besides the
   empty one, and the four mandates the checks tell apart.                 *)
EXTENDS Checkout, TLC

CONSTANTS c1, t1, t2, empty, small, large

MCCartIds == {c1}
TwoTokens == {t1, t2}
OneToken == {t1}

ThreeLists == {empty, small, large}
TwoLists == {empty, small}
MCTotal == (empty :> 0) @@ (small :> 2) @@ (large :> 3)

Hash(x) == [cart |-> c1, items |-> x, total |-> MCTotal[x]]

Mandate(id, x, amount, signed) ==
  [id |-> id, hash |-> Hash(x), amount |-> amount, signed |-> signed]

ForSmall == Mandate("small", small, 2, TRUE)
ForLarge == Mandate("large", large, 3, TRUE)
WrongAmount == Mandate("amount", small, 1, TRUE)
Unsigned == Mandate("unsigned", small, 2, FALSE)

AllMandates == {ForSmall, ForLarge, WrongAmount, Unsigned}
OneMandate == {ForSmall}

TotalOf(lists) == [x \in lists |-> MCTotal[x]]
ThreeTotals == TotalOf(ThreeLists)
TwoTotals == TotalOf(TwoLists)

\* Alone, t1 may pay for two small carts.  With t2, which has a limit of 0 (the
\* code takes it for none), t1 may pay for one cart of either kind.
LimitOne == t1 :> 5
LimitTwo == (t1 :> 3) @@ (t2 :> 0)

Symmetric == Permutations(Requests)

-----------------------------------------------------------------------------
(* The race for an intent, without the steps that only lead up to it: the  *)
(* tokens are issued and the cart is filled and left alone.  Every state   *)
(* is one of Spec.                                                         *)

Race == \/ \E t \in Tokens : ExpireToken(t)
        \/ \E r \in Requests : ReceiveCreate(r) \/ ReceiveConfirm(r) \/ Serve(r)

RaceSpec == Ready /\ [][Race]_vars /\ Fairness
=============================================================================
