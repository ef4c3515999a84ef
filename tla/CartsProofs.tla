---------------------------- MODULE CartsProofs -----------------------------
(***************************************************************************)
(* Proofs about Carts, for every set of requests, catalog and quantities:  *)
(* stored carts are well formed, an acknowledged edit is lost only to an   *)
(* edit that overlapped it, and without an overlap the carts hold what the *)
(* accepted edits ask for.                                                 *)
(***************************************************************************)
EXTENDS Carts, Sums, SequenceTheorems

-----------------------------------------------------------------------------
(* The edits of a cart's lines.                                            *)

\* A non-empty set of naturals has a least element, the one Min chooses.
LEMMA MinIsMember ==
  ASSUME NEW S \in SUBSET Nat, S # {}
  PROVE  Min(S) \in S /\ \A n \in S : Min(S) <= n
<1> DEFINE less == {ss \in Nat \X Nat : ss[1] < ss[2]}
<1>1. IsWellFoundedOn(less, Nat)
  <2>1. \A f \in [Nat -> Nat] : ~\A n \in Nat : f[n + 1] < f[n]
    <3> SUFFICES ASSUME NEW f \in [Nat -> Nat], \A n \in Nat : f[n + 1] < f[n]
                 PROVE  FALSE
      OBVIOUS
    <3>1. \A n \in Nat : f[n] \in Nat /\ f[n + 1] \in Nat
      OBVIOUS
    <3> QED BY <3>1, NatLessThanWellFounded, Zenon DEF IsWellFoundedOn, OpToRel
  <2> QED BY <2>1 DEF IsWellFoundedOn
<1>2. PICK m \in S : \A n \in S : <<n, m>> \notin less
  BY <1>1, WFMin
<1>3. ASSUME NEW n \in S PROVE m <= n
  <2>1. m \in Nat /\ n \in Nat /\ <<n, m>> \notin less
    BY <1>2
  <2>2. n < m => <<n, m>> \in less
    BY <2>1, <<n, m>>[1] = n, <<n, m>>[2] = m, Zenon
  <2> HIDE DEF less
  <2> QED BY <2>1, <2>2
<1> QED BY <1>3 DEF Min

\* FindItemIndex finds a line of the product, or says there is none.
LEMMA FindFacts ==
  ASSUME NEW items \in Seq(Lines), NEW p
  PROVE  LET n == FindItemIndex(items, p)
         IN  /\ n \in 0..Len(items)
             /\ n > 0 => items[n].product = p
             /\ n = 0 => \A m \in 1..Len(items) : items[m].product # p
<1> DEFINE I == {m \in 1..Len(items) : items[m].product = p}
<1>1. FindItemIndex(items, p) = IF I # {} THEN Min(I) ELSE 0
  BY Zenon DEF FindItemIndex, SelectInSeq
<1>2. I \in SUBSET Nat
  OBVIOUS
<1>3. CASE I = {}
  BY <1>1, <1>3
<1>4. CASE I # {}
  <2>1. Min(I) \in I
    BY <1>2, <1>4, MinIsMember
  <2> QED BY <1>1, <1>4, <2>1
<1> QED BY <1>3, <1>4

\* AddItem's edit keeps a cart well formed.
LEMMA AddedFacts ==
  ASSUME NEW items \in Seq(Lines), WellFormed(items),
         NEW p \in Products, NEW q \in Nat, q >= 1
  PROVE  WithAdded(items, p, q) \in Seq(Lines) /\ WellFormed(WithAdded(items, p, q))
<1> DEFINE n == FindItemIndex(items, p)
<1>1. /\ n \in 0..Len(items)
      /\ n > 0 => items[n].product = p
      /\ n = 0 => \A m \in 1..Len(items) : items[m].product # p
  BY FindFacts
<1>2. \A m \in 1..Len(items) : items[m] \in Lines
  OBVIOUS
<1> HIDE DEF n
<1>3. CASE n > 0
  <2> DEFINE line == [items[n] EXCEPT !.quantity = @ + q]
             new == [items EXCEPT ![n] = line]
  <2>1. WithAdded(items, p, q) = new
    BY <1>3, Zenon DEF WithAdded, n
  <2>2. n \in 1..Len(items) /\ items[n] \in Lines
    BY <1>1, <1>2, <1>3
  <2>3. line \in Lines /\ line.product = items[n].product /\ line.quantity >= 1
    <3>1. items[n].quantity \in Nat /\ items[n].product \in Products
      BY <2>2 DEF Lines
    <3>2. \A l \in Lines : [l EXCEPT !.quantity = @ + q]
                              = [product |-> l.product, quantity |-> l.quantity + q]
      BY DEF Lines
    <3>3. line = [product |-> items[n].product, quantity |-> items[n].quantity + q]
      BY <2>2, <3>2
    <3> QED BY <3>1, <3>3 DEF Lines
  <2> HIDE DEF line
  <2>4. new \in Seq(Lines) /\ DOMAIN new = DOMAIN items
    BY <2>2, <2>3, ExceptSeq
  <2>5. WellFormed(new)
    BY <2>2, <2>3 DEF WellFormed
  <2> QED BY <2>1, <2>4, <2>5
<1>4. CASE n = 0
  <2> DEFINE line == [product |-> p, quantity |-> q]
             new == Append(items, line)
  <2>1. WithAdded(items, p, q) = new
    <3>1. ~(n > 0)
      BY <1>4
    <3> QED BY <3>1, Zenon DEF WithAdded, n
  <2>2. line \in Lines /\ line.product = p /\ line.quantity >= 1
    BY DEF Lines
  <2> HIDE DEF line
  <2>3. new \in Seq(Lines)
    BY <2>2
  <2>4. WellFormed(new)
    BY <1>1, <1>4, <2>2, DOMAIN items = 1..Len(items) DEF WellFormed
  <2> QED BY <2>1, <2>3, <2>4
<1> QED BY <1>1, <1>3, <1>4

\* UpdateItem's edit keeps a cart well formed.
LEMMA UpdatedFacts ==
  ASSUME NEW items \in Seq(Lines), WellFormed(items), NEW p, NEW q \in Nat, q >= 1,
         FindItemIndex(items, p) # 0
  PROVE  WithQuantity(items, p, q) \in Seq(Lines) /\ WellFormed(WithQuantity(items, p, q))
<1> DEFINE n == FindItemIndex(items, p)
           line == [items[n] EXCEPT !.quantity = q]
           new == [items EXCEPT ![n] = line]
<1>1. n \in 1..Len(items)
  BY FindFacts
<1>2. WithQuantity(items, p, q) = new
  BY Zenon DEF WithQuantity
<1> HIDE DEF n
<1>3. items[n] \in Lines
  BY <1>1
<1>4. line \in Lines /\ line.product = items[n].product /\ line.quantity >= 1
  BY <1>3 DEF Lines
<1> HIDE DEF line
<1>5. new \in Seq(Lines)
  BY <1>1, <1>4, ExceptSeq
<1>6. WellFormed(new)
  BY <1>1, <1>4 DEF WellFormed
<1> QED BY <1>2, <1>5, <1>6

\* RemoveItem's edit closes the gap its line leaves.
LEMMA RemovedLines ==
  ASSUME NEW items \in Seq(Lines), NEW p, FindItemIndex(items, p) # 0
  PROVE  LET n == FindItemIndex(items, p)
             new == Without(items, p)
         IN  /\ new \in Seq(Lines) /\ Len(new) = Len(items) - 1
             /\ \A m \in 1..(Len(items) - 1) : new[m] = items[IF m < n THEN m ELSE m + 1]
<1> DEFINE n == FindItemIndex(items, p)
           left == SubSeq(items, 1, n - 1)
           right == SubSeq(items, n + 1, Len(items))
<1>1. n \in 1..Len(items)
  BY FindFacts
<1>2. Without(items, p) = left \o right
  BY DEF Without, RemoveAt
<1> HIDE DEF n
<1>3. /\ left \in Seq(Lines) /\ Len(left) = n - 1
      /\ \A m \in 1..(n - 1) : left[m] = items[m]
  BY <1>1, SubSeqProperties
<1>4. /\ right \in Seq(Lines) /\ Len(right) = Len(items) - n
      /\ \A m \in 1..(Len(items) - n) : right[m] = items[m + n]
  BY <1>1, SubSeqProperties
<1> HIDE DEF left, right
<1>5. /\ left \o right \in Seq(Lines)
      /\ Len(left \o right) = Len(items) - 1
      /\ \A m \in 1..(Len(items) - 1) :
           (left \o right)[m] = items[IF m < n THEN m ELSE m + 1]
  <2>1. /\ left \o right \in Seq(Lines)
        /\ Len(left \o right) = Len(left) + Len(right)
        /\ \A m \in 1..(Len(left) + Len(right)) :
             (left \o right)[m] = IF m <= Len(left) THEN left[m] ELSE right[m - Len(left)]
    BY <1>3, <1>4, ConcatProperties
  <2>2. Len(items) \in Nat /\ n \in Nat
    BY <1>1
  <2> DEFINE joined == left \o right
  <2> HIDE DEF joined
  <2>3. joined \in Seq(Lines) /\ Len(joined) = Len(items) - 1
    BY <1>1, <1>3, <1>4, <2>1, <2>2 DEF joined
  <2>4. ASSUME NEW m \in 1..(Len(items) - 1)
        PROVE  joined[m] = items[IF m < n THEN m ELSE m + 1]
    <3>1. joined[m] = IF m <= n - 1 THEN left[m] ELSE right[m - (n - 1)]
      BY <1>1, <1>3, <1>4, <2>1, <2>2 DEF joined
    <3>2. CASE m < n
      BY <1>1, <1>3, <2>2, <3>1, <3>2
    <3>3. CASE ~(m < n)
      <4>1. m - (n - 1) \in 1..(Len(items) - n)
        BY <1>1, <2>2, <3>3
      <4>2. right[m - (n - 1)] = items[m - (n - 1) + n]
        BY <1>4, <4>1
      <4>3. m - (n - 1) + n = m + 1
        BY <2>2
      <4> QED BY <2>2, <3>1, <3>3, <4>2, <4>3
    <3> QED BY <3>2, <3>3
  <2> QED BY <2>3, <2>4 DEF joined
<1> QED BY <1>2, <1>5 DEF n

\* RemoveItem's edit keeps a cart well formed.
LEMMA RemovedFacts ==
  ASSUME NEW items \in Seq(Lines), WellFormed(items), NEW p,
         FindItemIndex(items, p) # 0
  PROVE  Without(items, p) \in Seq(Lines) /\ WellFormed(Without(items, p))
<1> DEFINE n == FindItemIndex(items, p)
           new == Without(items, p)
           at(m) == IF m < n THEN m ELSE m + 1
<1>1. n \in 1..Len(items)
  BY FindFacts
<1>2. /\ new \in Seq(Lines) /\ Len(new) = Len(items) - 1
      /\ \A m \in 1..(Len(items) - 1) : new[m] = items[at(m)]
  BY RemovedLines
<1> HIDE DEF n, new
<1>3. DOMAIN new = 1..(Len(items) - 1) /\ DOMAIN items = 1..Len(items)
  BY <1>2
<1>4. \A m \in 1..(Len(items) - 1) : at(m) \in 1..Len(items) /\ new[m] = items[at(m)]
  BY <1>1, <1>2
<1>5. \A l, m \in 1..(Len(items) - 1) : at(l) = at(m) => l = m
  BY <1>1
<1> HIDE DEF at
<1>6. WellFormed(new)
  BY <1>3, <1>4, <1>5 DEF WellFormed
<1> QED BY <1>2, <1>6 DEF new

-----------------------------------------------------------------------------
(* Types and well-formed lines, of the store and of the copies.            *)

Edits == {"add", "update", "remove"}

\* The total of a list of lines is a natural number, and that of none is 0.
LEMMA TotalFacts ==
  /\ \A items \in Seq(Lines) : TotalOf(items) \in Nat
  /\ TotalOf(<<>>) = 0
<1>1. ASSUME NEW items \in Seq(Lines) PROVE TotalOf(items) \in Nat
  <2> DEFINE price == [n \in DOMAIN items |-> Price[items[n].product] * items[n].quantity]
  <2>1. DOMAIN items = 1..Len(items) /\ Len(items) \in Nat
    OBVIOUS
  <2>2. IsFiniteSet(DOMAIN price)
    BY <2>1, FS_Interval
  <2>3. ASSUME NEW n \in DOMAIN price PROVE price[n] \in Nat
    <3>1. items[n] \in Lines
      BY <2>1
    <3>2. Price[items[n].product] \in Nat /\ items[n].quantity \in Nat
      BY <3>1, CatalogAssumption DEF Lines
    <3> QED BY <3>2
  <2>4. TotalOf(items) = SumFunctionOnSet(price, DOMAIN price)
    BY DEF TotalOf, SumFunction
  <2> HIDE DEF price
  <2>5. DOMAIN price \in SUBSET DOMAIN price
    OBVIOUS
  <2> QED BY <2>2, <2>3, <2>4, <2>5, SumOfPart
<1>2. TotalOf(<<>>) = 0
  <2> DEFINE price == [n \in DOMAIN <<>> |-> Price[<<>>[n].product] * <<>>[n].quantity]
  <2>1. TotalOf(<<>>) = SumFunctionOnSet(price, DOMAIN price)
    BY DEF TotalOf, SumFunction
  <2>2. DOMAIN price = {}
    OBVIOUS
  <2> HIDE DEF price
  <2> QED BY <2>1, <2>2, SumOfNone
<1> QED BY <1>1, <1>2

\* Request r edited its cart and was answered 200.
Saved(r) == code[r] = 200 /\ req[r].op \in Edits

\* Request c has put a new cart into the store.
Created(c) == pc[c] \in {"record", "answer"} \/ code[c] = 201

\* A handler past its Get works on a cart some client was told of, which exists.
Addressed ==
  \A r \in Requests :
    /\ pc[r] # "done" => code[r] = 0
    /\ pc[r] # "idle" => req[r] \in Op
    /\ pc[r] \in {"load", "save"} => req[r].op \in Edits \cup {"get"}
    /\ pc[r] = "save" => req[r].op \in Edits /\ req[r].cart # NoSuchCart
    /\ Saved(r) => req[r].cart # NoSuchCart
    /\ pc[r] \in {"load", "save"} \/ Saved(r) =>
         req[r].cart \in Disclosed \cup {NoSuchCart}
    /\ Created(r) => carts[r] \in Cart
    /\ ~Created(r) => carts[r] = NoCart

\* Stored carts and copies have a line per product, and carts the total of their lines.
Tidy == /\ \A c \in Requests : Created(c) => /\ WellFormed(carts[c].items)
                                            /\ carts[c].total = TotalOf(carts[c].items)
        /\ \A r \in Requests : WellFormed(copy[r].items)

CartsInv == TypeOK /\ Addressed /\ Tidy

\* The store starts without carts, and no handler is under way.
LEMMA CartsInvInit == Init => CartsInv
<1> SUFFICES ASSUME Init PROVE CartsInv
  OBVIOUS
<1>1. EmptyCart \in Cart /\ EmptyCart.items = <<>> /\ EmptyCart.total = TotalOf(<<>>)
  BY TotalFacts DEF EmptyCart, Cart
<1>2. WellFormed(<<>>)
  BY DEF WellFormed
<1>3. TypeOK
  BY <1>1 DEF Init, TypeOK
<1>4. \A r \in Requests : pc[r] = "idle" /\ code[r] = 0
  BY DEF Init
<1>5. Addressed
  BY <1>4 DEF Init, Addressed, Saved, Created
<1>6. Tidy
  BY <1>1, <1>2, <1>4 DEF Init, Tidy, Created
<1> QED BY <1>3, <1>5, <1>6 DEF CartsInv

\* What an accepted edit makes of a well-formed copy.
LEMMA EditedFacts ==
  ASSUME CartsInv, NEW r \in Requests, pc[r] = "save", Verdict(r) = 200
  PROVE  Edited(r) \in Seq(Lines) /\ WellFormed(Edited(r))
<1> DEFINE items == copy[r].items
           q == req[r]
<1>1. items \in Seq(Lines) /\ WellFormed(items)
  BY DEF CartsInv, TypeOK, Tidy, Cart
<1>2. q \in Op /\ q.op \in Edits
  BY DEF CartsInv, Addressed
<1> HIDE DEF items
<1>3. CASE q.op = "add"
  <2>1. q.quantity \in Int /\ ~(q.quantity < 1) /\ q.product \in Products
    BY <1>2, <1>3, QuantitiesAssumption DEF Op, Verdict
  <2>2. Edited(r) = WithAdded(items, q.product, q.quantity)
    BY <1>3 DEF Edited, items
  <2> HIDE DEF q
  <2>3. q.quantity \in Nat /\ q.quantity >= 1
    BY <2>1
  <2> QED BY <1>1, <2>1, <2>2, <2>3, AddedFacts
<1>4. CASE q.op = "update"
  <2>1. q.quantity \in Int /\ ~(q.quantity < 1) /\ FindItemIndex(items, q.product) # 0
    BY <1>2, <1>4, QuantitiesAssumption DEF Op, Verdict, items
  <2>2. Edited(r) = WithQuantity(items, q.product, q.quantity)
    BY <1>4 DEF Edited, items
  <2> HIDE DEF q
  <2>3. q.quantity \in Nat /\ q.quantity >= 1
    BY <2>1
  <2> QED BY <1>1, <2>1, <2>2, <2>3, UpdatedFacts
<1>5. CASE q.op = "remove"
  <2>1. FindItemIndex(items, q.product) # 0
    BY <1>5 DEF Verdict, items
  <2>2. Edited(r) = Without(items, q.product)
    BY <1>5 DEF Edited, items
  <2> QED BY <1>1, <2>1, <2>2, RemovedFacts
<1> QED BY <1>2, <1>3, <1>4, <1>5 DEF Edits

\* An accepted edit names a product of the catalog, which FindItemIndex finds on
\* the copy unless it is added, and asks for a natural number of pieces.
LEMMA AskedFacts ==
  ASSUME CartsInv, NEW r \in Requests, pc[r] = "save", Verdict(r) = 200
  PROVE  /\ req[r].cart \in Requests
         /\ req[r].product \in Products
         /\ Asked(r) \in Nat
         /\ req[r].op \in {"add", "update"} => req[r].quantity \in Nat /\ req[r].quantity >= 1
         /\ req[r].op \in {"update", "remove"} => FindItemIndex(copy[r].items, req[r].product) # 0
<1> DEFINE q == req[r]
           items == copy[r].items
<1>1. items \in Seq(Lines)
  BY DEF CartsInv, TypeOK, Cart
<1>2. q \in Op /\ q.op \in Edits /\ q.cart \in Requests
  BY DEF CartsInv, Addressed, Disclosed
<1>3. wanted[q.cart] \in [Products -> Nat]
  BY <1>2 DEF CartsInv, TypeOK
<1>4. FindItemIndex(items, q.product) # 0 => q.product \in Products
  <2>1. FindItemIndex(items, q.product) # 0 =>
          \E n \in 1..Len(items) : items[n].product = q.product
    BY <1>1, FindFacts
  <2>2. \A n \in 1..Len(items) : items[n] \in Lines
    BY <1>1
  <2>3. \A n \in 1..Len(items) : items[n].product \in Products
    BY <2>2 DEF Lines
  <2> QED BY <2>1, <2>3
<1> HIDE DEF items
<1>5. CASE q.op = "add"
  <2>1. q.quantity \in Int /\ ~(q.quantity < 1) /\ q.product \in Products
    BY <1>2, <1>5, QuantitiesAssumption DEF Op, Verdict
  <2>2. Asked(r) = wanted[q.cart][q.product] + q.quantity
    BY <1>5 DEF Asked
  <2> HIDE DEF q
  <2>3. q.quantity \in Nat /\ wanted[q.cart][q.product] \in Nat
    BY <1>3, <2>1
  <2>4. Asked(r) \in Nat
    BY <2>2, <2>3
  <2> QED BY <1>2, <1>5, <2>1, <2>3, <2>4 DEF q
<1>6. CASE q.op = "update"
  <2>1. q.quantity \in Int /\ ~(q.quantity < 1) /\ FindItemIndex(items, q.product) # 0
    BY <1>2, <1>6, QuantitiesAssumption DEF Op, Verdict, items
  <2>2. Asked(r) = q.quantity
    BY <1>6 DEF Asked
  <2> QED BY <1>2, <1>4, <1>6, <2>1, <2>2 DEF items
<1>7. CASE q.op = "remove"
  <2>1. FindItemIndex(items, q.product) # 0
    BY <1>7 DEF Verdict, items
  <2>2. Asked(r) = 0
    BY <1>7 DEF Asked
  <2> QED BY <1>2, <1>4, <1>7, <2>1, <2>2 DEF items
<1> QED BY <1>2, <1>5, <1>6, <1>7 DEF Edits

\* Every step keeps carts typed, addressed and tidy.
LEMMA CartsInvStep == CartsInv /\ [Next]_vars => CartsInv'
<1> SUFFICES ASSUME CartsInv, [Next]_vars PROVE CartsInv'
  OBVIOUS
<1> USE CartSentinelsAssumption
    DEF CartsInv, TypeOK, Addressed, Tidy, Created, Saved, Disclosed, Goto, Answer
<1>1. ASSUME NEW r \in Requests, Receive(r) PROVE CartsInv'
  <2>1. PICK q \in Op : /\ q.op # "create" => q.cart \in Disclosed \cup {NoSuchCart}
                        /\ req' = [req EXCEPT ![r] = q]
                        /\ Goto(r, IF q.op = "create" THEN "create" ELSE "load")
    BY <1>1 DEF Receive
  <2>2. q.op \in {"create", "get"} \cup Edits
    BY DEF Op, Edits
  <2>3. pc[r] = "idle" /\ UNCHANGED <<carts, copy, code, events, raced, wanted>>
    BY <1>1 DEF Receive
  <2>4. code[r] = 0
    BY <2>3
  <2>5. TypeOK'
    BY <2>1, <2>3
  <2>6. Addressed'
    BY <2>1, <2>2, <2>3, <2>4
  <2>7. Tidy'
    <3>1. \A c \in Requests : Created(c)' => Created(c)
      BY <2>1, <2>3
    <3> QED BY <2>3, <3>1
  <2> QED BY <2>5, <2>6, <2>7
<1>2. ASSUME NEW r \in Requests, CreateStored(r) PROVE CartsInv'
  <2>1. EmptyCart \in Cart /\ EmptyCart.items = <<>> /\ EmptyCart.total = TotalOf(<<>>)
    BY TotalFacts DEF EmptyCart, Cart
  <2>2. WellFormed(<<>>)
    BY DEF WellFormed
  <2> QED BY <1>2, <2>1, <2>2 DEF CreateStored
<1>3. ASSUME NEW r \in Requests, RecordCreated(r) \/ AnswerCreated(r) PROVE CartsInv'
  <2>1. CASE RecordCreated(r)
    BY <2>1 DEF RecordCreated
  <2>2. CASE AnswerCreated(r)
    BY <2>2 DEF AnswerCreated
  <2> QED BY <1>3, <2>1, <2>2
<1>4. ASSUME NEW r \in Requests, Load(r) PROVE CartsInv'
  <2>1. pc[r] = "load" /\ UNCHANGED <<carts, req, events, raced, wanted>>
    BY <1>4 DEF Load
  <2>2. CASE req[r].cart = NoSuchCart
    <3>1. /\ UNCHANGED <<carts, copy, req, events, raced, wanted>>
          /\ pc' = [pc EXCEPT ![r] = "done"]
          /\ code' = [code EXCEPT ![r] = 404]
      BY <1>4, <2>1, <2>2 DEF Load
    <3>2. TypeOK'
      BY <3>1
    <3>3. Addressed' /\ Tidy'
      BY <2>1, <3>1
    <3> QED BY <3>2, <3>3
  <2>3. CASE req[r].cart # NoSuchCart
    <3>1. /\ req[r].cart \in Requests /\ Created(req[r].cart)
          /\ carts[req[r].cart] \in Cart
      BY <2>1, <2>3
    <3>2. copy' = [copy EXCEPT ![r] = carts[req[r].cart]]
      BY <1>4, <2>3 DEF Load
    <3>3. WellFormed(carts[req[r].cart].items)
      BY <3>1
    <3>5. IF req[r].op = "get" THEN Answer(r, 200) ELSE Goto(r, "save") /\ UNCHANGED code
      BY <1>4, <2>3 DEF Load
    <3>4. Tidy'
      <4>1. \A c \in Requests : Created(c)' => Created(c)
        BY <2>1, <3>5
      <4> QED BY <2>1, <3>1, <3>2, <3>3, <4>1
    <3>6. TypeOK'
      <4>1. /\ pc' \in [Requests -> {"idle", "create", "record", "answer", "load", "save", "done"}]
            /\ code' \in [Requests -> {0, 200, 201, 400, 404}]
        <5>1. \/ pc' = [pc EXCEPT ![r] = "done"] /\ code' = [code EXCEPT ![r] = 200]
              \/ pc' = [pc EXCEPT ![r] = "save"] /\ code' = code
          BY <3>5
        <5>2. CASE pc' = [pc EXCEPT ![r] = "done"] /\ code' = [code EXCEPT ![r] = 200]
          BY <5>2
        <5>3. CASE pc' = [pc EXCEPT ![r] = "save"] /\ code' = code
          BY <5>3
        <5> QED BY <5>1, <5>2, <5>3
      <4>2. copy' \in [Requests -> Cart]
        BY <3>1, <3>2
      <4> QED BY <2>1, <4>1, <4>2
    <3>7. Addressed'
      BY <2>1, <2>3, <3>1, <3>5 DEF Edits
    <3> QED BY <3>4, <3>6, <3>7
  <2> QED BY <2>2, <2>3
<1>5. ASSUME NEW r \in Requests, Save(r) PROVE CartsInv'
  <2> DEFINE c == req[r].cart
             new == [items |-> Edited(r), total |-> TotalOf(Edited(r)),
                     edits |-> copy[r].edits \cup {r}]
  <2>1. Edited(r) \in Seq(Lines) /\ WellFormed(Edited(r))
    BY <1>5, EditedFacts DEF Save
  <2>2. /\ new.items = Edited(r) /\ new.total = TotalOf(Edited(r))
        /\ new \in Cart
    BY <2>1, TotalFacts DEF Cart
  <2>3. /\ c \in Requests
        /\ carts' = [carts EXCEPT ![c] = new]
        /\ pc[r] = "save"
        /\ pc' = [pc EXCEPT ![r] = "done"]
        /\ code' = [code EXCEPT ![r] = 200]
        /\ UNCHANGED <<req, copy, events>>
    BY <1>5 DEF Save
  <2> HIDE DEF new
  <2>4. TypeOK'
    <3>1. raced' = raced \cup ({r} \X (Holders(c) \ {r}))
      BY <1>5 DEF Save
    <3>2. raced' \subseteq Requests \X Requests
      BY <3>1 DEF Holders
    <3>3. wanted' \in [Requests -> [Products -> Nat]]
      <4>1. req[r].product \in Products /\ Asked(r) \in Nat
        BY <1>5, AskedFacts DEF Save
      <4>2. wanted' = [wanted EXCEPT ![c][req[r].product] = Asked(r)]
        BY <1>5 DEF Save
      <4> DEFINE row == [wanted[c] EXCEPT ![req[r].product] = Asked(r)]
      <4>3. row \in [Products -> Nat]
        BY <2>3, <4>1
      <4>4. wanted' = [wanted EXCEPT ![c] = row]
        BY <4>2
      <4> HIDE DEF row
      <4> QED BY <2>3, <4>3, <4>4
    <3>4. /\ carts' \in [Requests -> Cart \cup {NoCart}]
          /\ pc' \in [Requests -> {"idle", "create", "record", "answer", "load", "save", "done"}]
          /\ code' \in [Requests -> {0, 200, 201, 400, 404}]
      BY <2>2, <2>3
    <3> QED BY <2>3, <3>2, <3>3, <3>4
  <2>5. Addressed'
    BY <2>2, <2>3
  <2>6. Tidy'
    BY <2>1, <2>2, <2>3
  <2> QED BY <2>4, <2>5, <2>6
<1>6. ASSUME NEW r \in Requests, Reject(r) PROVE CartsInv'
  <2>1. Verdict(r) \in {400, 404}
    BY <1>6 DEF Reject, Verdict, Edits
  <2> HIDE DEF Verdict
  <2> QED BY <1>6, <2>1 DEF Reject
<1>7. CASE UNCHANGED vars
  BY <1>7 DEF vars
<1> HIDE DEF CartsInv, TypeOK, Addressed, Tidy, Created, Saved, Disclosed, Goto, Answer
<1> QED
  BY <1>1, <1>2, <1>3, <1>4, <1>5, <1>6, <1>7 DEF Next, Serve

\* The variables of Carts keep their types, whatever is asked for.
THEOREM CartsTyped == Spec => []TypeOK
<1>1. CartsInv => TypeOK
  BY DEF CartsInv
<1> QED BY <1>1, CartsInvInit, CartsInvStep, PTL DEF Spec

\* Every stored cart has one line of at least one piece per product.
THEOREM CartsWellFormed == Spec => []LinesWellFormed
<1>1. CartsInv => LinesWellFormed
  BY DEF CartsInv, Addressed, Tidy, LinesWellFormed
<1> QED BY <1>1, CartsInvInit, CartsInvStep, PTL DEF Spec

-----------------------------------------------------------------------------
(* Lost edits.                                                             *)

\* Request r saved while some request that saved too held a copy.
Overwritten(r) == \E s \in Requests : code[s] = 200 /\ <<r, s>> \in raced

\* A saved edit that the store lacks was overwritten by an overlapping one.
StoreExplained ==
  \A r \in Requests :
    Saved(r) /\ r \notin carts[req[r].cart].edits => Overwritten(r)

\* A saved edit that a copy still to be saved lacks was saved after that copy was
\* taken, or had been overwritten before.
CopyExplained ==
  \A r, s \in Requests :
    /\ Saved(r)
    /\ pc[s] = "save"
    /\ req[s].cart = req[r].cart
    /\ r \notin copy[s].edits
    => <<r, s>> \in raced \/ Overwritten(r)

Explained == StoreExplained /\ CopyExplained

\* No edit has been saved at first.
LEMMA ExplainedInit == Init => Explained
BY DEF Init, Explained, StoreExplained, CopyExplained, Saved

\* Every step keeps lost edits explained.
LEMMA ExplainedStep == CartsInv /\ Explained /\ [Next]_vars => Explained'
<1> SUFFICES ASSUME CartsInv, Explained, [Next]_vars PROVE Explained'
  OBVIOUS
<1>0. /\ carts \in [Requests -> Cart \cup {NoCart}]
      /\ copy \in [Requests -> Cart]
      /\ pc \in [Requests -> {"idle", "create", "record", "answer", "load", "save", "done"}]
      /\ req \in [Requests -> Op \cup {NoReq}]
      /\ code \in [Requests -> {0, 200, 201, 400, 404}]
  BY DEF CartsInv, TypeOK
<1> USE <1>0
<1>a. ASSUME UNCHANGED <<carts, copy, raced>>,
             \A s \in Requests :
               /\ Saved(s)' => Saved(s) /\ req'[s].cart = req[s].cart
               /\ pc'[s] = "save" => pc[s] = "save" /\ req'[s].cart = req[s].cart
               /\ code[s] = 200 => code'[s] = 200
      PROVE  Explained'
  <2>1. \A s \in Requests : Overwritten(s) => Overwritten(s)'
    BY <1>a DEF Overwritten
  <2> HIDE DEF Overwritten
  <2>2. StoreExplained'
    BY <1>a, <2>1 DEF Explained, StoreExplained
  <2>3. CopyExplained'
    BY <1>a, <2>1 DEF Explained, CopyExplained
  <2> QED BY <2>2, <2>3 DEF Explained
<1>1. ASSUME NEW r \in Requests, Receive(r) PROVE Explained'
  <2>1. PICK q \in Op : /\ req' = [req EXCEPT ![r] = q]
                        /\ Goto(r, IF q.op = "create" THEN "create" ELSE "load")
    BY <1>1 DEF Receive
  <2>2. code[r] = 0 /\ UNCHANGED <<carts, copy, code, raced>>
    BY <1>1 DEF Receive, CartsInv, Addressed
  <2>3. pc'[r] # "save" /\ \A s \in Requests : s # r => req'[s] = req[s] /\ pc'[s] = pc[s]
    BY <2>1 DEF Goto
  <2> QED BY <1>a, <2>2, <2>3 DEF Saved
<1>2. ASSUME NEW r \in Requests, CreateStored(r) PROVE Explained'
  <2>1. \A s \in Requests : pc[s] = "save" \/ Saved(s) => req[s].cart # r
    BY <1>2 DEF CreateStored, CartsInv, Addressed, Disclosed
  <2>2. /\ carts' = [carts EXCEPT ![r] = EmptyCart]
        /\ UNCHANGED <<req, copy, code, raced>>
        /\ pc' = [pc EXCEPT ![r] = "record"]
    BY <1>2 DEF CreateStored, Goto
  <2>3. \A s \in Requests : Saved(s)' = Saved(s) /\ Overwritten(s)' = Overwritten(s)
    BY <2>2 DEF Saved, Overwritten
  <2>4. StoreExplained'
    BY <2>1, <2>2, <2>3 DEF Explained, StoreExplained
  <2>5. CopyExplained'
    BY <2>2, <2>3 DEF Explained, CopyExplained
  <2> QED BY <2>4, <2>5 DEF Explained
<1>3. ASSUME NEW r \in Requests, RecordCreated(r) \/ AnswerCreated(r) PROVE Explained'
  BY <1>3, <1>a DEF RecordCreated, AnswerCreated, Answer, Goto, Saved, CartsInv, Addressed
<1>4. ASSUME NEW r \in Requests, Load(r) PROVE Explained'
  <2>1. CASE req[r].op = "get" \/ req[r].cart = NoSuchCart
    <3>1. /\ pc[r] = "load" /\ code[r] = 0
          /\ UNCHANGED <<carts, req, raced>>
          /\ pc' = [pc EXCEPT ![r] = "done"]
          /\ code' = [code EXCEPT ![r] = IF req[r].cart = NoSuchCart THEN 404 ELSE 200]
          /\ \A s \in Requests : s # r => copy'[s] = copy[s]
      BY <1>4, <2>1 DEF Load, Answer, Goto, CartsInv, Addressed
    <3>2. \A s \in Requests : Saved(s)' => Saved(s)
      BY <2>1, <3>1 DEF Saved, Edits
    <3>3. \A s \in Requests : Overwritten(s) => Overwritten(s)'
      <4>1. \A t \in Requests : code[t] = 200 => code'[t] = 200
        BY <3>1
      <4>2. UNCHANGED raced
        BY <3>1
      <4> QED BY <4>1, <4>2 DEF Overwritten
    <3>4. \A s \in Requests : pc'[s] = "save" => s # r /\ pc[s] = "save"
      BY <3>1
    <3>5. StoreExplained'
      BY <3>1, <3>2, <3>3 DEF Explained, StoreExplained
    <3>6. CopyExplained'
      BY <3>1, <3>2, <3>3, <3>4 DEF Explained, CopyExplained
    <3> QED BY <3>5, <3>6 DEF Explained
  <2>2. CASE req[r].op # "get" /\ req[r].cart # NoSuchCart
    <3>1. /\ UNCHANGED <<carts, req, raced, code>>
          /\ pc' = [pc EXCEPT ![r] = "save"]
          /\ copy' = [copy EXCEPT ![r] = carts[req[r].cart]]
      BY <1>4, <2>2 DEF Load, Goto
    <3>2. \A s \in Requests : Saved(s)' = Saved(s) /\ Overwritten(s)' = Overwritten(s)
      BY <3>1 DEF Saved, Overwritten
    <3>3. StoreExplained' /\ CopyExplained'
      BY <3>1, <3>2 DEF Explained, StoreExplained, CopyExplained
    <3> QED BY <3>3 DEF Explained
  <2> QED BY <2>1, <2>2
<1>5. ASSUME NEW r \in Requests, Save(r) PROVE Explained'
  <2> DEFINE c == req[r].cart
             new == [items |-> Edited(r), total |-> TotalOf(Edited(r)),
                     edits |-> copy[r].edits \cup {r}]
  <2>1. /\ c \in Requests
        /\ carts' = [carts EXCEPT ![c] = new]
        /\ raced' = raced \cup ({r} \X (Holders(c) \ {r}))
        /\ UNCHANGED <<req, copy, events>>
        /\ pc[r] = "save"
        /\ pc' = [pc EXCEPT ![r] = "done"]
        /\ code' = [code EXCEPT ![r] = 200]
    BY <1>5 DEF Save, Answer, Goto, CartsInv, Addressed, Disclosed
  <2>2. new.edits = copy[r].edits \cup {r}
    OBVIOUS
  <2> HIDE DEF new
  <2>3. \A s \in Requests : /\ Overwritten(s) => Overwritten(s)'
                            /\ s # r /\ Saved(s)' => Saved(s)
                            /\ <<s, r>> \in raced => Overwritten(s)'
    <3>1. /\ raced \subseteq raced' /\ code'[r] = 200
          /\ \A s \in Requests : s # r => code'[s] = code[s]
          /\ \A s \in Requests : code[s] = 200 => code'[s] = 200
      BY <2>1
    <3>2. \A s \in Requests : Overwritten(s) => Overwritten(s)'
      BY <3>1 DEF Overwritten
    <3>3. \A s \in Requests : <<s, r>> \in raced => Overwritten(s)'
      BY <3>1 DEF Overwritten
    <3>4. \A s \in Requests : s # r /\ Saved(s)' => Saved(s)
      BY <2>1, <3>1 DEF Saved
    <3> QED BY <3>2, <3>3, <3>4
  <2>4. ASSUME NEW s \in Requests, Saved(s)', s \notin carts'[req'[s].cart].edits
        PROVE  Overwritten(s)'
    <3>1. CASE req[s].cart = c
      <4>1. s # r /\ s \notin copy[r].edits
        BY <2>1, <2>2, <2>4, <3>1
      <4> QED BY <2>1, <2>3, <2>4, <3>1, <4>1 DEF Explained, CopyExplained
    <3>2. CASE req[s].cart # c
      <4>1. s # r /\ carts'[req[s].cart] = carts[req[s].cart]
        BY <2>1, <2>4, <3>2 DEF Saved, CartsInv, Addressed, Disclosed
      <4> QED BY <2>1, <2>3, <2>4, <4>1 DEF Explained, StoreExplained
    <3> QED BY <3>1, <3>2
  <2>5. ASSUME NEW s \in Requests, NEW t \in Requests, Saved(s)', pc'[t] = "save",
               req'[t].cart = req'[s].cart, s \notin copy'[t].edits
        PROVE  <<s, t>> \in raced' \/ Overwritten(s)'
    <3>1. t # r /\ pc[t] = "save"
      BY <2>1, <2>5
    <3>2. CASE s = r
      BY <2>1, <2>5, <3>1, <3>2 DEF Holders
    <3>3. CASE s # r
      BY <2>1, <2>3, <2>5, <3>1, <3>3 DEF Explained, CopyExplained
    <3> QED BY <3>2, <3>3
  <2> QED BY <2>4, <2>5 DEF Explained, StoreExplained, CopyExplained
<1>6. ASSUME NEW r \in Requests, Reject(r) PROVE Explained'
  <2>1. Verdict(r) # 200
    BY <1>6 DEF Reject
  <2>2. code[r] # 200
    BY <1>6 DEF Reject, CartsInv, Addressed
  <2> QED BY <1>6, <1>a, <2>1, <2>2 DEF Reject, Answer, Goto, Saved
<1>7. CASE UNCHANGED vars
  BY <1>7, <1>a DEF vars, Saved
<1> QED
  BY <1>1, <1>2, <1>3, <1>4, <1>5, <1>6, <1>7 DEF Next, Serve

\* Edits that do not overlap are never lost.
THEOREM LostByOverlapOnly == Spec => []LostOnlyByOverlap
<1>1. Explained => LostOnlyByOverlap
  BY DEF Explained, StoreExplained, Saved, Overwritten, Edits, LostOnlyByOverlap
<1> QED
  BY <1>1, CartsInvInit, CartsInvStep, ExplainedInit, ExplainedStep, PTL DEF Spec

-----------------------------------------------------------------------------
(* Without an overlap, the carts hold what the accepted edits ask for.       *)

\* On a well-formed list the quantity of a product is that of its line, whichever
\* line that is, and 0 if there is none.
LEMMA QuantityFacts ==
  ASSUME NEW items \in Seq(Lines), WellFormed(items)
  PROVE  /\ \A n \in 1..Len(items) : QuantityOf(items, items[n].product) = items[n].quantity
         /\ \A p : (\A n \in 1..Len(items) : items[n].product # p) => QuantityOf(items, p) = 0
<1>1. ASSUME NEW n \in 1..Len(items)
      PROVE  QuantityOf(items, items[n].product) = items[n].quantity
  <2> DEFINE p == items[n].product
             m == FindItemIndex(items, p)
  <2>1. /\ m \in 0..Len(items)
        /\ m > 0 => items[m].product = p
        /\ m = 0 => \A l \in 1..Len(items) : items[l].product # p
    BY FindFacts
  <2>2. m # 0 /\ m \in 1..Len(items) /\ items[m].product = p
    BY <2>1
  <2>3. m = n
    BY <2>2, DOMAIN items = 1..Len(items) DEF WellFormed
  <2> HIDE DEF m
  <2> QED BY <2>2, <2>3 DEF QuantityOf, m
<1>2. ASSUME NEW p, \A n \in 1..Len(items) : items[n].product # p
      PROVE  QuantityOf(items, p) = 0
  <2>1. FindItemIndex(items, p) = 0
    BY <1>2, FindFacts
  <2> QED BY <2>1 DEF QuantityOf
<1> QED BY <1>1, <1>2

\* The total of well-formed lines is the worth of the pieces they hold.
LEMMA TotalIsWorth ==
  ASSUME NEW items \in Seq(Lines), WellFormed(items), NEW pieces \in [Products -> Nat],
         \A p \in Products : QuantityOf(items, p) = pieces[p]
  PROVE  TotalOf(items) = Worth(pieces)
<1> DEFINE price == [n \in DOMAIN items |-> Price[items[n].product] * items[n].quantity]
           cost == [p \in Products |-> Price[p] * pieces[p]]
           name == [n \in DOMAIN items |-> items[n].product]
           held == {p \in Products : pieces[p] > 0}
<1>1. DOMAIN items = 1..Len(items) /\ Len(items) \in Nat
  OBVIOUS
<1>2. IsFiniteSet(DOMAIN items)
  BY <1>1, FS_Interval
<1>3. \A n \in DOMAIN items : /\ items[n].product \in Products
                             /\ items[n].quantity \in Nat /\ items[n].quantity >= 1
                             /\ pieces[items[n].product] = items[n].quantity
  <2>1. \A n \in DOMAIN items : items[n] \in Lines
    BY <1>1
  <2> QED BY <1>1, <2>1, QuantityFacts DEF Lines, WellFormed
<1>4. \A n \in DOMAIN items : price[n] \in Int
  <2>1. ASSUME NEW n \in DOMAIN items PROVE price[n] \in Int
    <3>1. Price[items[n].product] \in Nat
      BY <1>3, CatalogAssumption
    <3> QED BY <1>3, <3>1
  <2> QED BY <2>1
<1>5. \A n \in DOMAIN items : cost[name[n]] = price[n]
  BY <1>3
<1>6. \A m, n \in DOMAIN items : name[m] = name[n] => m = n
  BY DEF WellFormed
<1>7. /\ \A n \in DOMAIN items : name[n] \in held
      /\ \A p \in held : \E n \in DOMAIN items : name[n] = p
  <2>1. ASSUME NEW p \in held PROVE \E n \in DOMAIN items : name[n] = p
    <3>1. QuantityOf(items, p) # 0
      BY <2>1
    <3> QED BY <1>1, <3>1, QuantityFacts
  <2>2. ASSUME NEW n \in DOMAIN items PROVE name[n] \in held
    BY <1>3
  <2> QED BY <2>1, <2>2
<1>8. TotalOf(items) = SumFunctionOnSet(price, DOMAIN items)
  <2>1. DOMAIN price = DOMAIN items
    OBVIOUS
  <2>2. TotalOf(items) = SumFunctionOnSet(price, DOMAIN price)
    BY DEF TotalOf, SumFunction
  <2> HIDE DEF price
  <2> QED BY <2>1, <2>2
<1>9. Worth(pieces) = SumFunctionOnSet(cost, held)
  BY DEF Worth
<1> DEFINE lines == DOMAIN items
<1>10. /\ IsFiniteSet(lines)
       /\ \A n \in lines : price[n] \in Int
       /\ Renames(name, price, lines, cost, held)
  BY <1>2, <1>4, <1>5, <1>6, <1>7 DEF Renames
<1>11. TotalOf(items) = SumFunctionOnSet(price, lines)
  BY <1>8
<1> HIDE DEF price, cost, name, held, lines
<1>12. SumFunctionOnSet(cost, held) = SumFunctionOnSet(price, lines)
  BY <1>10, SumOfRenamed
<1> QED BY <1>9, <1>11, <1>12

\* AddItem's edit adds to the quantity of its product and to no other.
LEMMA AddedHolds ==
  ASSUME NEW items \in Seq(Lines), WellFormed(items),
         NEW p \in Products, NEW q \in Nat, q >= 1, NEW x \in Products
  PROVE  QuantityOf(WithAdded(items, p, q), x)
           = QuantityOf(items, x) + (IF x = p THEN q ELSE 0)
<1> DEFINE n == FindItemIndex(items, p)
           new == WithAdded(items, p, q)
<1> SUFFICES QuantityOf(new, x) = QuantityOf(items, x) + (IF x = p THEN q ELSE 0)
  OBVIOUS
<1>1. /\ n \in 0..Len(items)
      /\ n > 0 => items[n].product = p
      /\ n = 0 => \A m \in 1..Len(items) : items[m].product # p
  BY FindFacts
<1>2. \A m \in 1..Len(items) : /\ items[m] \in Lines
                              /\ items[m].product \in Products /\ items[m].quantity \in Nat
  <2>1. \A m \in 1..Len(items) : items[m] \in Lines
    OBVIOUS
  <2> QED BY <2>1 DEF Lines
<1>3. new \in Seq(Lines) /\ WellFormed(new)
  BY AddedFacts
<1>4. /\ \A m \in 1..Len(new) : QuantityOf(new, new[m].product) = new[m].quantity
      /\ \A y : (\A m \in 1..Len(new) : new[m].product # y) => QuantityOf(new, y) = 0
  BY <1>3, QuantityFacts
<1>5. /\ \A m \in 1..Len(items) : QuantityOf(items, items[m].product) = items[m].quantity
      /\ \A y : (\A m \in 1..Len(items) : items[m].product # y) => QuantityOf(items, y) = 0
  BY QuantityFacts
<1>6. new = IF n > 0 THEN [items EXCEPT ![n].quantity = @ + q]
                     ELSE Append(items, [product |-> p, quantity |-> q])
  BY Zenon DEF WithAdded
<1> HIDE DEF n, new
<1>7. CASE n > 0
  <2> DEFINE line == [items[n] EXCEPT !.quantity = @ + q]
  <2>1. n \in 1..Len(items) /\ items[n].product = p
    BY <1>1, <1>7
  <2>2. new = [items EXCEPT ![n] = line]
    BY <1>6, <1>7
  <2>3. line.product = p /\ line.quantity = items[n].quantity + q
    <3>1. \A l \in Lines : [l EXCEPT !.quantity = @ + q]
                              = [product |-> l.product, quantity |-> l.quantity + q]
      BY DEF Lines
    <3>2. line = [product |-> items[n].product, quantity |-> items[n].quantity + q]
      BY <1>2, <2>1, <3>1
    <3> QED BY <2>1, <3>2
  <2> HIDE DEF line
  <2>4. Len(new) = Len(items) /\ new[n] = line
        /\ \A m \in 1..Len(items) : m # n => new[m] = items[m]
    BY <2>1, <2>2
  <2>5. CASE x = p
    BY <1>2, <1>4, <1>5, <2>1, <2>3, <2>4, <2>5
  <2>6. CASE x # p
    <3>1. CASE \E m \in 1..Len(items) : items[m].product = x
      <4>1. PICK m \in 1..Len(items) : items[m].product = x
        BY <3>1
      <4>2. m # n /\ new[m] = items[m]
        BY <2>1, <2>4, <2>6, <4>1
      <4> QED BY <1>2, <1>4, <1>5, <2>4, <2>6, <4>1, <4>2
    <3>2. CASE \A m \in 1..Len(items) : items[m].product # x
      <4>1. \A m \in 1..Len(new) : new[m].product # x
        BY <2>3, <2>4, <2>6, <3>2
      <4> QED BY <1>4, <1>5, <2>6, <3>2, <4>1
    <3> QED BY <3>1, <3>2
  <2> QED BY <2>5, <2>6
<1>8. CASE n = 0
  <2> DEFINE line == [product |-> p, quantity |-> q]
             last == Len(items) + 1
  <2>1. new = Append(items, line)
    BY <1>6, <1>8
  <2>2. line.product = p /\ line.quantity = q
    OBVIOUS
  <2> HIDE DEF line
  <2>3. /\ Len(new) = last /\ new[last] = line /\ last \in 1..Len(new)
        /\ \A m \in 1..Len(items) : new[m] = items[m] /\ m \in 1..Len(new)
        /\ \A m \in 1..Len(new) : m = last \/ m \in 1..Len(items)
    BY <2>1
  <2> HIDE DEF last
  <2>4. CASE x = p
    <3>1. QuantityOf(items, x) = 0
      BY <1>1, <1>5, <1>8, <2>4
    <3>2. QuantityOf(new, x) = q
      BY <1>4, <2>2, <2>3, <2>4
    <3> QED BY <2>4, <3>1, <3>2
  <2>5. CASE x # p
    <3>1. CASE \E m \in 1..Len(items) : items[m].product = x
      BY <1>2, <1>4, <1>5, <2>3, <2>5, <3>1
    <3>2. CASE \A m \in 1..Len(items) : items[m].product # x
      <4>1. \A m \in 1..Len(new) : new[m].product # x
        BY <2>2, <2>3, <2>5, <3>2
      <4> QED BY <1>4, <1>5, <2>5, <3>2, <4>1
    <3> QED BY <3>1, <3>2
  <2> QED BY <2>4, <2>5
<1> QED BY <1>1, <1>7, <1>8

\* UpdateItem's edit sets the quantity of its product and of no other.
LEMMA UpdatedHolds ==
  ASSUME NEW items \in Seq(Lines), WellFormed(items), NEW p \in Products,
         NEW q \in Nat, q >= 1, FindItemIndex(items, p) # 0, NEW x \in Products
  PROVE  QuantityOf(WithQuantity(items, p, q), x) = IF x = p THEN q ELSE QuantityOf(items, x)
<1> DEFINE n == FindItemIndex(items, p)
           line == [items[n] EXCEPT !.quantity = q]
           new == WithQuantity(items, p, q)
<1> SUFFICES QuantityOf(new, x) = IF x = p THEN q ELSE QuantityOf(items, x)
  OBVIOUS
<1>1. n \in 1..Len(items) /\ items[n].product = p
  BY FindFacts
<1>2. new = [items EXCEPT ![n] = line]
  BY Zenon DEF WithQuantity
<1>3. new \in Seq(Lines) /\ WellFormed(new)
  BY UpdatedFacts
<1>4. /\ \A m \in 1..Len(new) : QuantityOf(new, new[m].product) = new[m].quantity
      /\ \A y : (\A m \in 1..Len(new) : new[m].product # y) => QuantityOf(new, y) = 0
  BY <1>3, QuantityFacts
<1>5. /\ \A m \in 1..Len(items) : QuantityOf(items, items[m].product) = items[m].quantity
      /\ \A y : (\A m \in 1..Len(items) : items[m].product # y) => QuantityOf(items, y) = 0
  BY QuantityFacts
<1> HIDE DEF n, new
<1>6. line.product = p /\ line.quantity = q
  <2>1. items[n] \in Lines
    BY <1>1
  <2> QED BY <1>1, <2>1 DEF Lines
<1> HIDE DEF line
<1>7. /\ Len(new) = Len(items) /\ new[n] = line
      /\ \A m \in 1..Len(items) : m # n => new[m] = items[m]
  BY <1>1, <1>2
<1>8. CASE x = p
  BY <1>1, <1>4, <1>6, <1>7, <1>8
<1>9. CASE x # p
  <2>1. CASE \E m \in 1..Len(items) : items[m].product = x
    <3>1. PICK m \in 1..Len(items) : items[m].product = x
      BY <2>1
    <3>2. m # n /\ new[m] = items[m]
      BY <1>1, <1>7, <1>9, <3>1
    <3> QED BY <1>4, <1>5, <1>7, <1>9, <3>1, <3>2
  <2>2. CASE \A m \in 1..Len(items) : items[m].product # x
    <3>1. \A m \in 1..Len(new) : new[m].product # x
      BY <1>6, <1>7, <1>9, <2>2
    <3> QED BY <1>4, <1>5, <1>9, <2>2, <3>1
  <2> QED BY <2>1, <2>2
<1> QED BY <1>8, <1>9

\* RemoveItem's edit leaves nothing of its product and the others alone.
LEMMA RemovedHolds ==
  ASSUME NEW items \in Seq(Lines), WellFormed(items), NEW p \in Products,
         FindItemIndex(items, p) # 0, NEW x \in Products
  PROVE  QuantityOf(Without(items, p), x) = IF x = p THEN 0 ELSE QuantityOf(items, x)
<1> DEFINE n == FindItemIndex(items, p)
           new == Without(items, p)
           at(m) == IF m < n THEN m ELSE m + 1
           from(l) == IF l < n THEN l ELSE l - 1
<1> SUFFICES QuantityOf(new, x) = IF x = p THEN 0 ELSE QuantityOf(items, x)
  OBVIOUS
<1>1. n \in 1..Len(items) /\ items[n].product = p
  BY FindFacts
<1>2. new \in Seq(Lines) /\ WellFormed(new)
  BY RemovedFacts
<1>3. /\ Len(new) = Len(items) - 1
      /\ \A m \in 1..(Len(items) - 1) : new[m] = items[at(m)]
  BY RemovedLines
<1>4. /\ \A m \in 1..Len(new) : QuantityOf(new, new[m].product) = new[m].quantity
      /\ \A y : (\A m \in 1..Len(new) : new[m].product # y) => QuantityOf(new, y) = 0
  BY <1>2, QuantityFacts
<1>5. /\ \A m \in 1..Len(items) : QuantityOf(items, items[m].product) = items[m].quantity
      /\ \A y : (\A m \in 1..Len(items) : items[m].product # y) => QuantityOf(items, y) = 0
  BY QuantityFacts
<1> HIDE DEF n, new
<1>6. \A m \in 1..Len(new) : /\ at(m) \in 1..Len(items) /\ at(m) # n
                            /\ new[m] = items[at(m)]
  BY <1>1, <1>3
<1>7. \A l \in 1..Len(items) : l # n => from(l) \in 1..Len(new) /\ at(from(l)) = l
  BY <1>1, <1>3
<1> HIDE DEF at, from
<1>8. \A l \in 1..Len(items) : l # n => new[from(l)] = items[l]
  BY <1>6, <1>7
<1>9. CASE x = p
  <2>1. \A m \in 1..Len(new) : new[m].product # p
    BY <1>1, <1>6, DOMAIN items = 1..Len(items) DEF WellFormed
  <2> QED BY <1>4, <1>9, <2>1
<1>10. CASE x # p
  <2>1. CASE \E l \in 1..Len(items) : items[l].product = x
    <3>1. PICK l \in 1..Len(items) : items[l].product = x
      BY <2>1
    <3>2. l # n
      BY <1>1, <1>10, <3>1
    <3>3. from(l) \in 1..Len(new) /\ new[from(l)] = items[l]
      BY <1>7, <1>8, <3>2
    <3>4. QuantityOf(new, x) = items[l].quantity
      BY <1>4, <3>1, <3>3
    <3> QED BY <1>5, <1>10, <3>1, <3>4
  <2>2. CASE \A l \in 1..Len(items) : items[l].product # x
    <3>1. \A m \in 1..Len(new) : new[m].product # x
      BY <1>6, <2>2
    <3> QED BY <1>4, <1>5, <1>10, <2>2, <3>1
  <2> QED BY <2>1, <2>2
<1> QED BY <1>9, <1>10

\* An accepted edit of a copy that holds what was wanted holds what is wanted now.
LEMMA EditedHolds ==
  ASSUME CartsInv, NEW r \in Requests, pc[r] = "save", Verdict(r) = 200,
         NEW x \in Products, QuantityOf(copy[r].items, x) = wanted[req[r].cart][x]
  PROVE  QuantityOf(Edited(r), x) = IF x = req[r].product THEN Asked(r)
                                                          ELSE wanted[req[r].cart][x]
<1> DEFINE items == copy[r].items
           q == req[r]
<1>1. items \in Seq(Lines) /\ WellFormed(items)
  BY DEF CartsInv, TypeOK, Tidy, Cart
<1>2. /\ q.cart \in Requests /\ q.product \in Products
      /\ q.op \in {"add", "update"} => q.quantity \in Nat /\ q.quantity >= 1
      /\ q.op \in {"update", "remove"} => FindItemIndex(items, q.product) # 0
  BY AskedFacts
<1>3. q.op \in Edits
  BY DEF CartsInv, Addressed
<1>4. wanted[q.cart][x] \in Nat
  BY <1>2 DEF CartsInv, TypeOK
<1>5. QuantityOf(items, x) = wanted[q.cart][x]
  OBVIOUS
<1> HIDE DEF items
<1>6. CASE q.op = "add"
  <2>1. Edited(r) = WithAdded(items, q.product, q.quantity)
    BY <1>6 DEF Edited, items
  <2>2. Asked(r) = wanted[q.cart][q.product] + q.quantity
    BY <1>6 DEF Asked
  <2> HIDE DEF q
  <2>3. QuantityOf(Edited(r), x) = QuantityOf(items, x) + (IF x = q.product THEN q.quantity ELSE 0)
    BY <1>1, <1>2, <1>6, <2>1, AddedHolds
  <2>4. QuantityOf(Edited(r), x) = IF x = q.product THEN Asked(r) ELSE wanted[q.cart][x]
    BY <1>4, <1>5, <2>2, <2>3
  <2> QED BY <2>4 DEF q
<1>7. CASE q.op = "update"
  <2>1. Edited(r) = WithQuantity(items, q.product, q.quantity)
    BY <1>7 DEF Edited, items
  <2>2. Asked(r) = q.quantity
    BY <1>7 DEF Asked
  <2> HIDE DEF q
  <2>3. QuantityOf(Edited(r), x) = IF x = q.product THEN q.quantity ELSE QuantityOf(items, x)
    BY <1>1, <1>2, <1>7, <2>1, UpdatedHolds
  <2> QED BY <1>5, <2>2, <2>3 DEF q
<1>8. CASE q.op = "remove"
  <2>1. Edited(r) = Without(items, q.product)
    BY <1>8 DEF Edited, items
  <2>2. Asked(r) = 0
    BY <1>8 DEF Asked
  <2> HIDE DEF q
  <2>3. QuantityOf(Edited(r), x) = IF x = q.product THEN 0 ELSE QuantityOf(items, x)
    BY <1>1, <1>2, <1>8, <2>1, RemovedHolds
  <2> QED BY <1>5, <2>2, <2>3 DEF q
<1> QED BY <1>3, <1>6, <1>7, <1>8 DEF Edits

\* Another save came after the copy of request s was taken.
Outdated(s) == \E r \in Requests : <<r, s>> \in raced

\* A copy that may yet be saved is the stored cart, or outdated.
CopyFresh ==
  \A s \in Requests : pc[s] = "save" =>
    copy[s].items = carts[req[s].cart].items \/ Outdated(s)

\* A cart no outdated copy went into holds what was wanted.
StoreHolds ==
  \A c \in Requests : Created(c) /\ ~Overlapped(c) =>
    \A p \in Products : QuantityOf(carts[c].items, p) = wanted[c][p]

\* Nothing is wanted of a cart before it is created.
NothingYet ==
  \A c \in Requests : ~Created(c) => \A p \in Products : wanted[c][p] = 0

Holds == CopyFresh /\ StoreHolds /\ NothingYet

\* No cart is there, nothing is wanted and no handler is under way at first.
LEMMA HoldsInit == Init => Holds
BY DEF Init, Holds, CopyFresh, StoreHolds, NothingYet, Created

\* What was outdated or overlapped stays so, for no step takes back what it rests on.
LEMMA OutdatedStays ==
  ASSUME NEW s \in Requests, Outdated(s), raced \subseteq raced'
  PROVE  Outdated(s)'
<1>1. PICK r \in Requests : <<r, s>> \in raced
  BY DEF Outdated
<1>2. <<r, s>> \in raced'
  BY <1>1
<1> QED BY <1>2 DEF Outdated

LEMMA OverlappedStays ==
  ASSUME NEW c \in Requests, Overlapped(c), raced \subseteq raced',
         \A s \in Requests : code[s] = 200 => code'[s] = 200 /\ req'[s].cart = req[s].cart
  PROVE  Overlapped(c)'
<1>1. PICK r, s \in Requests : <<r, s>> \in raced /\ code[s] = 200 /\ req[s].cart = c
  BY DEF Overlapped
<1>2. <<r, s>> \in raced' /\ code'[s] = 200 /\ req'[s].cart = c
  BY <1>1
<1> QED BY <1>2 DEF Overlapped

\* The save of an outdated copy overlaps.
LEMMA OutdatedOverlaps ==
  ASSUME NEW s \in Requests, NEW c \in Requests, Outdated(s), raced \subseteq raced',
         code'[s] = 200, req'[s].cart = c
  PROVE  Overlapped(c)'
<1>1. PICK r \in Requests : <<r, s>> \in raced
  BY DEF Outdated
<1>2. <<r, s>> \in raced'
  BY <1>1
<1> QED BY <1>2 DEF Overlapped

\* Answers 200 stay, and races are never forgotten.
Settled == /\ raced \subseteq raced'
           /\ \A s \in Requests : code[s] = 200 => code'[s] = 200 /\ req'[s].cart = req[s].cart

\* A step that leaves the carts and their copies alone keeps what they hold.
LEMMA HoldsStays ==
  ASSUME Holds, Settled, UNCHANGED <<carts, wanted>>,
         \A s \in Requests : Created(s)' <=> Created(s),
         \A s \in Requests : pc'[s] = "save" =>
           pc[s] = "save" /\ req'[s] = req[s] /\ copy'[s] = copy[s]
  PROVE  Holds'
<1> USE DEF Settled
<1>1. CopyFresh'
  <2> SUFFICES ASSUME NEW s \in Requests, pc'[s] = "save"
               PROVE  (copy[s].items = carts[req[s].cart].items)' \/ Outdated(s)'
    BY DEF CopyFresh
  <2>1. pc[s] = "save" /\ req'[s] = req[s] /\ copy'[s] = copy[s] /\ carts' = carts
    OBVIOUS
  <2>2. CASE Outdated(s)
    BY <2>2, OutdatedStays
  <2>3. CASE copy[s].items = carts[req[s].cart].items
    BY <2>1, <2>3
  <2> QED BY <2>1, <2>2, <2>3 DEF Holds, CopyFresh
<1>2. StoreHolds'
  <2> SUFFICES ASSUME NEW c \in Requests, Created(c)', ~Overlapped(c)', NEW p \in Products
               PROVE  (QuantityOf(carts[c].items, p) = wanted[c][p])'
    BY DEF StoreHolds
  <2>1. ~Overlapped(c)
    BY OverlappedStays
  <2>2. Created(c)
    BY DEF Created
  <2> QED BY <2>1, <2>2 DEF Holds, StoreHolds
<1>3. NothingYet'
  BY DEF Holds, NothingYet, Created
<1> QED BY <1>1, <1>2, <1>3 DEF Holds

\* The creation of a cart, of which no handler has a copy.
LEMMA HoldsCreated ==
  ASSUME CartsInv, Holds, NEW r \in Requests, CreateStored(r)
  PROVE  Holds'
<1>1. /\ pc \in [Requests -> {"idle", "create", "record", "answer", "load", "save", "done"}]
      /\ carts \in [Requests -> Cart \cup {NoCart}]
  BY DEF CartsInv, TypeOK
<1>2. /\ pc[r] = "create" /\ code[r] = 0
      /\ carts' = [carts EXCEPT ![r] = EmptyCart]
      /\ UNCHANGED <<req, copy, code, raced, wanted>>
      /\ pc' = [pc EXCEPT ![r] = "record"]
  BY DEF CreateStored, Goto, CartsInv, Addressed
<1>3. Settled
  BY <1>2 DEF Settled
<1>4. CopyFresh'
  <2> SUFFICES ASSUME NEW s \in Requests, pc'[s] = "save"
               PROVE  (copy[s].items = carts[req[s].cart].items)' \/ Outdated(s)'
    BY DEF CopyFresh
  <2>1. pc[s] = "save" /\ req'[s] = req[s] /\ copy'[s] = copy[s]
    BY <1>1, <1>2
  <2>2. req[s].cart \in Requests /\ req[s].cart # r
    BY <1>2, <2>1 DEF CartsInv, Addressed, Disclosed
  <2>3. carts'[req[s].cart] = carts[req[s].cart]
    BY <1>1, <1>2, <2>2
  <2>4. CASE Outdated(s)
    BY <1>3, <2>4, OutdatedStays DEF Settled
  <2>5. CASE copy[s].items = carts[req[s].cart].items
    BY <2>1, <2>3, <2>5
  <2> QED BY <2>1, <2>4, <2>5 DEF Holds, CopyFresh
<1>5. StoreHolds'
  <2> SUFFICES ASSUME NEW c \in Requests, Created(c)', ~Overlapped(c)', NEW p \in Products
               PROVE  QuantityOf(carts'[c].items, p) = wanted[c][p]
    BY <1>2 DEF StoreHolds
  <2>1. CASE c = r
    <3>1. carts'[c].items = <<>>
      BY <1>1, <1>2, <2>1 DEF EmptyCart
    <3>2. QuantityOf(<<>>, p) = 0
      <4>1. <<>> \in Seq(Lines) /\ WellFormed(<<>>)
        BY DEF WellFormed
      <4>2. FindItemIndex(<<>>, p) \in 0..Len(<<>>)
        BY <4>1, FindFacts
      <4>3. FindItemIndex(<<>>, p) = 0
        BY <4>2
      <4> QED BY <4>3 DEF QuantityOf
    <3>3. ~Created(r)
      BY <1>2 DEF Created
    <3> QED BY <2>1, <3>1, <3>2, <3>3 DEF Holds, NothingYet
  <2>2. CASE c # r
    <3>1. Created(c) /\ carts'[c] = carts[c]
      BY <1>1, <1>2, <2>2 DEF Created
    <3>2. ~Overlapped(c)
      BY <1>3, OverlappedStays DEF Settled
    <3> QED BY <3>1, <3>2 DEF Holds, StoreHolds
  <2> QED BY <2>1, <2>2
<1>6. NothingYet'
  BY <1>1, <1>2 DEF Holds, NothingYet, Created
<1> QED BY <1>4, <1>5, <1>6 DEF Holds

\* A handler takes its copy of the stored cart.
LEMMA HoldsLoaded ==
  ASSUME CartsInv, Holds, NEW r \in Requests, Load(r), req[r].op # "get",
         req[r].cart # NoSuchCart
  PROVE  Holds'
<1>1. /\ pc \in [Requests -> {"idle", "create", "record", "answer", "load", "save", "done"}]
      /\ copy \in [Requests -> Cart]
  BY DEF CartsInv, TypeOK
<1>2. /\ pc[r] = "load"
      /\ UNCHANGED <<carts, req, raced, code, wanted>>
      /\ pc' = [pc EXCEPT ![r] = "save"]
      /\ copy' = [copy EXCEPT ![r] = carts[req[r].cart]]
  BY DEF Load, Goto
<1>3. Settled
  BY <1>2 DEF Settled
<1>4. CopyFresh'
  <2> SUFFICES ASSUME NEW s \in Requests, pc'[s] = "save"
               PROVE  (copy[s].items = carts[req[s].cart].items)' \/ Outdated(s)'
    BY DEF CopyFresh
  <2>1. CASE s = r
    BY <1>1, <1>2, <2>1
  <2>2. CASE s # r
    <3>1. /\ pc[s] = "save" /\ copy'[s] = copy[s]
          /\ req'[s] = req[s] /\ carts' = carts
      BY <1>1, <1>2, <2>2
    <3>2. CASE Outdated(s)
      BY <1>3, <3>2, OutdatedStays DEF Settled
    <3>3. CASE copy[s].items = carts[req[s].cart].items
      BY <3>1, <3>3
    <3> QED BY <3>1, <3>2, <3>3 DEF Holds, CopyFresh
  <2> QED BY <2>1, <2>2
<1>5. StoreHolds'
  <2> SUFFICES ASSUME NEW c \in Requests, Created(c)', ~Overlapped(c)', NEW p \in Products
               PROVE  QuantityOf(carts[c].items, p) = wanted[c][p]
    BY <1>2 DEF StoreHolds
  <2>1. ~Overlapped(c)
    BY <1>3, OverlappedStays DEF Settled
  <2>2. Created(c)
    BY <1>1, <1>2 DEF Created
  <2> QED BY <2>1, <2>2 DEF Holds, StoreHolds
<1>6. NothingYet'
  BY <1>1, <1>2 DEF Holds, NothingYet, Created
<1> QED BY <1>4, <1>5, <1>6 DEF Holds

\* A handler saves: unless its copy is outdated, the cart holds what is wanted now.
LEMMA HoldsSaved ==
  ASSUME CartsInv, Holds, NEW r \in Requests, Save(r)
  PROVE  Holds'
<1> DEFINE c == req[r].cart
           product == req[r].product
           new == [items |-> Edited(r), total |-> TotalOf(Edited(r)),
                   edits |-> copy[r].edits \cup {r}]
<1>1. /\ pc \in [Requests -> {"idle", "create", "record", "answer", "load", "save", "done"}]
      /\ carts \in [Requests -> Cart \cup {NoCart}]
      /\ code \in [Requests -> {0, 200, 201, 400, 404}]
      /\ wanted \in [Requests -> [Products -> Nat]]
  BY DEF CartsInv, TypeOK
<1>2. /\ c \in Requests /\ product \in Products
      /\ carts' = [carts EXCEPT ![c] = new]
      /\ raced' = raced \cup ({r} \X (Holders(c) \ {r}))
      /\ wanted' = [wanted EXCEPT ![c][product] = Asked(r)]
      /\ UNCHANGED <<req, copy, events>>
      /\ pc[r] = "save" /\ Verdict(r) = 200
      /\ pc' = [pc EXCEPT ![r] = "done"]
      /\ code' = [code EXCEPT ![r] = 200]
  BY AskedFacts DEF Save, Answer, Goto
<1>3. new.items = Edited(r)
  OBVIOUS
<1>4. Created(c) /\ code[r] = 0
  BY <1>2 DEF Created, CartsInv, Addressed, Disclosed
<1> HIDE DEF new
<1>5. Settled
  BY <1>1, <1>2 DEF Settled
<1>6. \A s \in Requests : pc[s] = "save" /\ req[s].cart = c /\ s # r => <<r, s>> \in raced'
  BY <1>2 DEF Holders
<1> HIDE DEF c, product
<1>7. CopyFresh'
  <2> SUFFICES ASSUME NEW s \in Requests, pc'[s] = "save"
               PROVE  (copy[s].items = carts[req[s].cart].items)' \/ Outdated(s)'
    BY DEF CopyFresh
  <2>1. s # r /\ pc[s] = "save" /\ copy'[s] = copy[s] /\ req'[s] = req[s]
    BY <1>1, <1>2
  <2>2. CASE req[s].cart = c
    <3>1. <<r, s>> \in raced'
      BY <1>6, <2>1, <2>2
    <3> QED BY <3>1 DEF Outdated
  <2>3. CASE req[s].cart # c
    <3>1. req[s].cart \in Requests
      BY <2>1 DEF CartsInv, Addressed, Disclosed
    <3>2. carts'[req[s].cart] = carts[req[s].cart]
      BY <1>1, <1>2, <2>3, <3>1
    <3>3. CASE Outdated(s)
      BY <1>5, <3>3, OutdatedStays DEF Settled
    <3>4. CASE copy[s].items = carts[req[s].cart].items
      BY <2>1, <3>2, <3>4
    <3> QED BY <2>1, <3>3, <3>4 DEF Holds, CopyFresh
  <2> QED BY <2>2, <2>3
<1>8. StoreHolds'
  <2> SUFFICES ASSUME NEW d \in Requests, Created(d)', ~Overlapped(d)', NEW p \in Products
               PROVE  QuantityOf(carts'[d].items, p) = wanted'[d][p]
    BY DEF StoreHolds
  <2>1. ~Overlapped(d)
    BY <1>5, OverlappedStays DEF Settled
  <2>2. Created(d)
    BY <1>1, <1>2, <1>4 DEF Created
  <2>3. QuantityOf(carts[d].items, p) = wanted[d][p]
    BY <2>1, <2>2 DEF Holds, StoreHolds
  <2>4. CASE d = c
    <3>1. code'[r] = 200 /\ req'[r].cart = d
      BY <1>1, <1>2, <2>4 DEF c
    <3>2. ~Outdated(r)
      BY <1>5, <3>1, OutdatedOverlaps DEF Settled
    <3>3. copy[r].items = carts[c].items
      BY <1>2, <3>2 DEF Holds, CopyFresh, c
    <3>4. QuantityOf(copy[r].items, p) = wanted[req[r].cart][p]
      BY <2>3, <2>4, <3>3 DEF c
    <3>5. QuantityOf(Edited(r), p) = IF p = req[r].product THEN Asked(r)
                                                           ELSE wanted[req[r].cart][p]
      BY <1>2, <3>4, EditedHolds
    <3>6. carts'[c].items = Edited(r)
      BY <1>1, <1>2, <1>3
    <3>7. wanted'[c][p] = IF p = product THEN Asked(r) ELSE wanted[c][p]
      BY <1>1, <1>2
    <3> QED BY <2>4, <3>5, <3>6, <3>7 DEF c, product
  <2>5. CASE d # c
    <3>1. carts'[d] = carts[d] /\ wanted'[d] = wanted[d]
      BY <1>1, <1>2, <2>5
    <3> QED BY <2>3, <3>1
  <2> QED BY <2>4, <2>5
<1>9. NothingYet'
  <2> SUFFICES ASSUME NEW d \in Requests, ~Created(d)', NEW p \in Products
               PROVE  wanted'[d][p] = 0
    BY DEF NothingYet
  <2>1. ~Created(d) /\ d # c
    BY <1>1, <1>2, <1>4 DEF Created
  <2>2. wanted'[d] = wanted[d]
    BY <1>1, <1>2, <2>1
  <2> QED BY <2>1, <2>2 DEF Holds, NothingYet
<1> QED BY <1>7, <1>8, <1>9 DEF Holds

\* A handler ends without a save.
LEMMA HoldsEnded ==
  ASSUME CartsInv, Holds, NEW r \in Requests, code[r] = 0, pc[r] \in {"load", "save"},
         carts' = carts, req' = req, raced' = raced, wanted' = wanted,
         pc' = [pc EXCEPT ![r] = "done"], code'[r] # 201,
         \A s \in Requests \ {r} : copy'[s] = copy[s],
         \A s \in Requests \ {r} : code'[s] = code[s]
  PROVE  Holds'
<1>1. pc \in [Requests -> {"idle", "create", "record", "answer", "load", "save", "done"}]
  BY DEF CartsInv, TypeOK
<1>2. Settled
  BY DEF Settled
<1>3. \A s \in Requests : Created(s)' <=> Created(s)
  BY <1>1 DEF Created
<1>4. \A s \in Requests : pc'[s] = "save" =>
        pc[s] = "save" /\ req'[s] = req[s] /\ copy'[s] = copy[s]
  BY <1>1
<1> QED BY <1>2, <1>3, <1>4, HoldsStays

\* Every step keeps the carts holding what was wanted.
LEMMA HoldsStep == CartsInv /\ Holds /\ [Next]_vars => Holds'
<1> SUFFICES ASSUME CartsInv, Holds, [Next]_vars PROVE Holds'
  OBVIOUS
<1>0. /\ pc \in [Requests -> {"idle", "create", "record", "answer", "load", "save", "done"}]
      /\ req \in [Requests -> Op \cup {NoReq}]
      /\ code \in [Requests -> {0, 200, 201, 400, 404}]
      /\ copy \in [Requests -> Cart]
  BY DEF CartsInv, TypeOK
<1>1. ASSUME NEW r \in Requests, Receive(r) PROVE Holds'
  <2>1. PICK q \in Op : /\ req' = [req EXCEPT ![r] = q]
                        /\ pc' = [pc EXCEPT ![r] = IF q.op = "create" THEN "create" ELSE "load"]
    BY <1>1 DEF Receive, Goto
  <2>2. /\ pc[r] = "idle" /\ code[r] = 0
        /\ UNCHANGED <<carts, copy, code, raced, wanted>>
    BY <1>1 DEF Receive, CartsInv, Addressed
  <2>3. \A s \in Requests : s # r => req'[s] = req[s]
    BY <1>0, <2>1
  <2>4. Settled
    BY <2>2, <2>3 DEF Settled
  <2>5. \A s \in Requests : Created(s)' <=> Created(s)
    BY <1>0, <2>1, <2>2 DEF Created
  <2>6. \A s \in Requests : pc'[s] = "save" =>
          pc[s] = "save" /\ req'[s] = req[s] /\ copy'[s] = copy[s]
    BY <1>0, <2>1, <2>2
  <2> QED BY <2>2, <2>4, <2>5, <2>6, HoldsStays
<1>2. ASSUME NEW r \in Requests, CreateStored(r) PROVE Holds'
  BY <1>2, HoldsCreated
<1>3. ASSUME NEW r \in Requests, RecordCreated(r) \/ AnswerCreated(r) PROVE Holds'
  <2>1. /\ UNCHANGED <<carts, req, copy, raced, wanted>>
        /\ pc' = [pc EXCEPT ![r] = IF pc[r] = "record" THEN "answer" ELSE "done"]
        /\ pc[r] \in {"record", "answer"} /\ code[r] = 0
        /\ code' = IF pc[r] = "record" THEN code ELSE [code EXCEPT ![r] = 201]
    BY <1>3 DEF RecordCreated, AnswerCreated, Answer, Goto, CartsInv, Addressed
  <2>2. Settled
    BY <1>0, <2>1 DEF Settled
  <2>3. \A s \in Requests : Created(s)' <=> Created(s)
    BY <1>0, <2>1 DEF Created
  <2>4. \A s \in Requests : pc'[s] = "save" =>
          pc[s] = "save" /\ req'[s] = req[s] /\ copy'[s] = copy[s]
    BY <1>0, <2>1
  <2> QED BY <2>1, <2>2, <2>3, <2>4, HoldsStays
<1>4. ASSUME NEW r \in Requests, Load(r) PROVE Holds'
  <2>1. CASE req[r].op = "get" \/ req[r].cart = NoSuchCart
    <3>1. /\ pc[r] = "load" /\ code[r] = 0
          /\ carts' = carts /\ req' = req /\ raced' = raced /\ wanted' = wanted
          /\ pc' = [pc EXCEPT ![r] = "done"]
          /\ code' = [code EXCEPT ![r] = IF req[r].cart = NoSuchCart THEN 404 ELSE 200]
          /\ \A s \in Requests \ {r} : copy'[s] = copy[s]
      BY <1>0, <1>4, <2>1 DEF Load, Answer, Goto, CartsInv, Addressed
    <3>2. code'[r] # 201 /\ \A s \in Requests \ {r} : code'[s] = code[s]
      BY <1>0, <3>1
    <3>3. pc[r] \in {"load", "save"}
      BY <3>1
    <3> QED BY <3>1, <3>2, <3>3, HoldsEnded
  <2>2. CASE req[r].op # "get" /\ req[r].cart # NoSuchCart
    BY <1>4, <2>2, HoldsLoaded
  <2> QED BY <2>1, <2>2
<1>5. ASSUME NEW r \in Requests, Save(r) PROVE Holds'
  BY <1>5, HoldsSaved
<1>6. ASSUME NEW r \in Requests, Reject(r) PROVE Holds'
  <2>1. Verdict(r) \in {400, 404}
    BY <1>6 DEF Reject, Verdict, Edits, CartsInv, Addressed
  <2>2. /\ pc[r] = "save" /\ code[r] = 0
        /\ carts' = carts /\ req' = req /\ copy' = copy /\ raced' = raced /\ wanted' = wanted
        /\ pc' = [pc EXCEPT ![r] = "done"]
        /\ code' = [code EXCEPT ![r] = Verdict(r)]
    BY <1>6 DEF Reject, Answer, Goto, CartsInv, Addressed
  <2>3. code'[r] # 201 /\ \A s \in Requests \ {r} : code'[s] = code[s]
    BY <1>0, <2>1, <2>2
  <2>4. pc[r] \in {"load", "save"} /\ \A s \in Requests \ {r} : copy'[s] = copy[s]
    BY <2>2
  <2> QED BY <2>2, <2>3, <2>4, HoldsEnded
<1>7. CASE UNCHANGED vars
  <2>1. Settled /\ \A s \in Requests : Created(s)' <=> Created(s)
    BY <1>7 DEF vars, Settled, Created
  <2> QED BY <1>7, <2>1, HoldsStays DEF vars
<1> QED
  BY <1>1, <1>2, <1>3, <1>4, <1>5, <1>6, <1>7 DEF Next, Serve

\* While no save of a cart overwrites another, it holds exactly what its accepted
\* edits, done one at a time, ask for, and its total is what that costs.
THEOREM EditsAreApplied == Spec => []EditsApplied
<1>1. ASSUME CartsInv, Holds, NEW c \in Requests, carts[c] # NoCart, ~Overlapped(c)
      PROVE  /\ \A p \in Products : QuantityOf(carts[c].items, p) = wanted[c][p]
             /\ carts[c].total = Worth(wanted[c])
  <2>1. /\ Created(c) /\ carts[c] \in Cart /\ WellFormed(carts[c].items)
        /\ carts[c].total = TotalOf(carts[c].items)
    BY <1>1 DEF CartsInv, Addressed, Tidy
  <2>2. carts[c].items \in Seq(Lines) /\ wanted[c] \in [Products -> Nat]
    BY <1>1, <2>1 DEF CartsInv, TypeOK, Cart
  <2>3. \A p \in Products : QuantityOf(carts[c].items, p) = wanted[c][p]
    BY <1>1, <2>1 DEF Holds, StoreHolds
  <2> QED BY <2>1, <2>2, <2>3, TotalIsWorth
<1>2. CartsInv /\ Holds => EditsApplied
  BY <1>1 DEF EditsApplied
<1> QED
  BY <1>2, CartsInvInit, CartsInvStep, HoldsInit, HoldsStep, PTL DEF Spec

-----------------------------------------------------------------------------
(* Liveness.  ENABLED is beyond the provers, so Scheduled says what weak     *)
(* fairness of Serve(r) says, with the states in which Serve(r) is enabled   *)
(* put in its place: those in which the goroutine is under way.              *)

\* WF_vars(Serve(r)): r is at rest again and again, or it takes steps for ever.
Scheduled(r) == \/ []<>(pc[r] \in {"idle", "done"})
                \/ []<><<Serve(r)>>_vars

\* The Go scheduler runs every goroutine.
FairSchedule == \A r \in Requests : Scheduled(r)

\* A handler that is under way makes three calls at most.
First(r) == pc[r] \in {"create", "load"}
Second(r) == pc[r] = "record"
Final(r) == pc[r] \in {"answer", "save"}
Answered(r) == pc[r] = "done" /\ code[r] # 0

\* Each step of a goroutine brings it to its next call or its end, and no other step
\* takes it anywhere.
LEMMA Nearer ==
  ASSUME NEW r \in Requests
  PROVE  /\ CartsInv /\ [Next]_vars /\ First(r) =>
              First(r)' \/ Second(r)' \/ Final(r)' \/ Answered(r)'
         /\ CartsInv /\ <<Serve(r)>>_vars /\ First(r) => Second(r)' \/ Final(r)' \/ Answered(r)'
         /\ CartsInv /\ [Next]_vars /\ Second(r) => Second(r)' \/ Final(r)'
         /\ CartsInv /\ <<Serve(r)>>_vars /\ Second(r) => Final(r)'
         /\ CartsInv /\ [Next]_vars /\ Final(r) => Final(r)' \/ Answered(r)'
         /\ CartsInv /\ <<Serve(r)>>_vars /\ Final(r) => Answered(r)'
<1>1. CartsInv => /\ pc \in [Requests -> {"idle", "create", "record", "answer", "load", "save", "done"}]
                  /\ code \in [Requests -> {0, 200, 201, 400, 404}]
  BY DEF CartsInv, TypeOK
<1>2. ASSUME CartsInv, NEW s \in Requests, Receive(s) \/ Serve(s), s # r
      PROVE  pc'[r] = pc[r]
  BY <1>1, <1>2 DEF Receive, Serve, CreateStored, RecordCreated, AnswerCreated, Load,
                    Save, Reject, Answer, Goto
<1>3. ASSUME CartsInv, Receive(r) PROVE ~First(r) /\ ~Second(r) /\ ~Final(r)
  BY <1>3 DEF Receive, First, Second, Final
<1>4. ASSUME CartsInv, pc[r] = "save" PROVE Verdict(r) # 0
  BY <1>4 DEF Verdict, CartsInv, Addressed, Edits
<1>5. ASSUME CartsInv, Serve(r)
      PROVE  /\ First(r) => Second(r)' \/ Final(r)' \/ Answered(r)'
             /\ Second(r) => Final(r)'
             /\ Final(r) => Answered(r)'
  <2>1. CASE CreateStored(r) \/ RecordCreated(r) \/ AnswerCreated(r)
    BY <1>1, <1>5, <2>1 DEF CreateStored, RecordCreated, AnswerCreated, Answer, Goto,
                            First, Second, Final, Answered
  <2>4. CASE Load(r)
    BY <1>1, <1>5, <2>4 DEF Load, Answer, Goto, First, Second, Final, Answered
  <2>2. CASE Save(r)
    BY <1>1, <1>5, <2>2 DEF Save, Answer, Goto, First, Second, Final, Answered
  <2>3. CASE Reject(r)
    BY <1>1, <1>4, <1>5, <2>3 DEF Reject, Answer, Goto, First, Second, Final, Answered
  <2> QED BY <1>5, <2>1, <2>2, <2>3, <2>4 DEF Serve
<1>6. ASSUME CartsInv, [Next]_vars, ~Serve(r), First(r) \/ Second(r) \/ Final(r)
      PROVE  pc'[r] = pc[r]
  BY <1>2, <1>3, <1>6 DEF Next, vars
<1> QED BY <1>5, <1>6 DEF First, Second, Final

\* If every goroutine is scheduled, every request that arrived is answered and its
\* goroutine ends.
THEOREM RequestsServed == Spec /\ FairSchedule => EveryRequestServed
<1> DEFINE Served(r) == pc[r] \in {"create", "load"} ~> pc[r] = "done" /\ code[r] # 0
<1>1. ASSUME NEW r \in Requests PROVE Spec /\ Scheduled(r) => Served(r)
  <2>1. /\ CartsInv /\ [Next]_vars /\ First(r) =>
             First(r)' \/ Second(r)' \/ Final(r)' \/ Answered(r)'
        /\ CartsInv /\ <<Serve(r)>>_vars /\ First(r) => Second(r)' \/ Final(r)' \/ Answered(r)'
        /\ CartsInv /\ [Next]_vars /\ Second(r) => Second(r)' \/ Final(r)'
        /\ CartsInv /\ <<Serve(r)>>_vars /\ Second(r) => Final(r)'
        /\ CartsInv /\ [Next]_vars /\ Final(r) => Final(r)' \/ Answered(r)'
        /\ CartsInv /\ <<Serve(r)>>_vars /\ Final(r) => Answered(r)'
    BY Nearer
  <2>2. (First(r) \/ Second(r) \/ Final(r)) => ~(pc[r] \in {"idle", "done"})
    BY DEF First, Second, Final
  <2> QED BY <2>1, <2>2, CartsInvInit, CartsInvStep, PTL DEF Spec, Scheduled, First, Answered
<1> QED BY <1>1 DEF EveryRequestServed, FairSchedule
=============================================================================
