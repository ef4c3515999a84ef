------------------------------- MODULE Carts --------------------------------
(***************************************************************************)
(* The cart store and the cart handlers.  Every handler takes a deep copy  *)
(* of the cart (CartStore.Get), edits the copy, and puts it back           *)
(* (CartStore.Save), two calls that other handlers may come between: there *)
(* is no version to compare, so the last Save wins.                        *)
(*                                                                         *)
(* A request is served once, and the cart a create request makes is named  *)
(* by that request (the code draws a fresh uuid).  The prices and the      *)
(* stock of the catalog never change.  A cart's set of edits is ghost      *)
(* state: the requests whose effect it contains; so are raced and wanted,  *)
(* which keeps what the answers 200 promise: each accepted edit done at    *)
(* once, on a plain count of pieces per product, in the order of the saves.*)
(*                                                                         *)
(* The operators whose name starts with Bad are not part of the model: each*)
(* is a plausible mistake in the operator that follows it.                 *)
(***************************************************************************)
EXTENDS Integers, SequencesExt

CONSTANTS
  Requests,       \* the HTTP requests the clients send; also cart ids
  Products,       \* the ids of the catalog
  Price,          \* [Products -> Nat], paise
  Stock,          \* [Products -> Nat]
  NoSuchProduct,  \* a product id that is not in the catalog
  NoSuchCart,     \* a cart id the server never minted
  Quantities,     \* the quantities clients ask for
  NoCart,
  NoReq

ASSUME CatalogAssumption == Price \in [Products -> Nat] /\ Stock \in [Products -> Nat]
ASSUME QuantitiesAssumption == Quantities \subseteq Int
ASSUME CartSentinelsAssumption == /\ NoSuchProduct \notin Products
                                  /\ NoSuchCart \notin Requests

VARIABLES
  carts,      \* CartStore.carts
  pc,         \* where the goroutine of each request is
  req,        \* its operation and parameters
  copy,       \* the handler's local copy of the cart
  code,       \* the HTTP status sent, 0 while none
  events,     \* the cart.created entries of the event log
  raced,      \* the pairs <<r, s>>: s held a copy of the cart when r saved it
  wanted      \* per cart, the pieces of each product its accepted edits ask for

vars == <<carts, pc, req, copy, code, events, raced, wanted>>

Lines == [product : Products, quantity : Nat]

\* CartStore.Save recomputes the total over the lines.
TotalOf(items) ==
  SumFunction([n \in DOMAIN items |-> Price[items[n].product] * items[n].quantity])

Cart == [items : Seq(Lines), total : Nat, edits : SUBSET Requests]

ASSUME NoCartAssumption == NoCart \notin Cart

EmptyCart == [items |-> <<>>, total |-> 0, edits |-> {}]

ProductIds == Products \cup {NoSuchProduct}
Op == [op : {"create"}]
      \cup [op : {"get"}, cart : Requests \cup {NoSuchCart}]
      \cup [op : {"add", "update"}, cart : Requests \cup {NoSuchCart},
            product : ProductIds, quantity : Quantities]
      \cup [op : {"remove"}, cart : Requests \cup {NoSuchCart}, product : ProductIds]

TypeOK ==
  /\ carts \in [Requests -> Cart \cup {NoCart}]
  /\ copy \in [Requests -> Cart]
  /\ req \in [Requests -> Op \cup {NoReq}]
  /\ pc \in [Requests -> {"idle", "create", "record", "answer", "load", "save", "done"}]
  /\ code \in [Requests -> {0, 200, 201, 400, 404}]
  /\ events \subseteq Requests
  /\ raced \subseteq Requests \X Requests
  /\ wanted \in [Requests -> [Products -> Nat]]

Init ==
  /\ carts = [c \in Requests |-> NoCart]
  /\ pc = [r \in Requests |-> "idle"]
  /\ req = [r \in Requests |-> NoReq]
  /\ copy = [r \in Requests |-> EmptyCart]
  /\ code = [r \in Requests |-> 0]
  /\ events = {}
  /\ raced = {}
  /\ wanted = [c \in Requests |-> [p \in Products |-> 0]]

Goto(r, label) == pc' = [pc EXCEPT ![r] = label]

Answer(r, c) == /\ Goto(r, "done")
                /\ code' = [code EXCEPT ![r] = c]

-----------------------------------------------------------------------------
(* Pure edits of a cart's lines; 0 stands for FindItemIndex's -1.          *)

FindItemIndex(items, p) == SelectInSeq(items, LAMBDA line : line.product = p)

\* The product's line is added to every time, instead of looked up.
BadWithAdded(items, p, q) == Append(items, [product |-> p, quantity |-> q])

\* AddItem: more of a line the cart has, or a new line at the end.
WithAdded(items, p, q) ==
  LET n == FindItemIndex(items, p) IN
  IF n > 0 THEN [items EXCEPT ![n].quantity = @ + q]
           ELSE Append(items, [product |-> p, quantity |-> q])

WithQuantity(items, p, q) == [items EXCEPT ![FindItemIndex(items, p)].quantity = q]

Without(items, p) == RemoveAt(items, FindItemIndex(items, p))

\* The quantity is not bound with min=1.
BadVerdict(r) ==
  LET q == req[r] IN
  CASE q.op = "add" ->
         IF q.product \notin Products THEN 404
         ELSE IF Stock[q.product] < q.quantity THEN 400 ELSE 200
    [] q.op = "update" ->
         IF FindItemIndex(copy[r].items, q.product) = 0 THEN 404
         ELSE IF Stock[q.product] < q.quantity THEN 400 ELSE 200
    [] q.op = "remove" ->
         IF FindItemIndex(copy[r].items, q.product) = 0 THEN 404 ELSE 200

\* What the checks of the handler make of the request: its HTTP status.  The
\* binding min=1 refuses quantities below 1; the stock is compared with the
\* quantity of this request alone.  UpdateItem's 422 for a product that no longer
\* exists cannot come about: lines hold catalog products, and the catalog is fixed.
Verdict(r) ==
  LET q == req[r] IN
  CASE q.op = "add" ->
         IF q.quantity < 1 THEN 400
         ELSE IF q.product \notin Products THEN 404
         ELSE IF Stock[q.product] < q.quantity THEN 400 ELSE 200
    [] q.op = "update" ->
         IF q.quantity < 1 THEN 400
         ELSE IF FindItemIndex(copy[r].items, q.product) = 0 THEN 404
         ELSE IF Stock[q.product] < q.quantity THEN 400 ELSE 200
    [] q.op = "remove" ->
         IF FindItemIndex(copy[r].items, q.product) = 0 THEN 404 ELSE 200

Edited(r) ==
  LET q == req[r]
      items == copy[r].items
  IN  CASE q.op = "add" -> WithAdded(items, q.product, q.quantity)
        [] q.op = "update" -> WithQuantity(items, q.product, q.quantity)
        [] q.op = "remove" -> Without(items, q.product)

-----------------------------------------------------------------------------
\* The carts some client was told of.
Disclosed == {c \in Requests : code[c] = 201}

Receive(r) ==
  /\ pc[r] = "idle"
  /\ \E q \in Op :
       /\ q.op # "create" => q.cart \in Disclosed \cup {NoSuchCart}
       /\ req' = [req EXCEPT ![r] = q]
       /\ Goto(r, IF q.op = "create" THEN "create" ELSE "load")
  /\ UNCHANGED <<carts, copy, code, events, raced, wanted>>

\* CreateCart: store the cart, then record cart.created and hand the event over
\* (Dispatch never blocks; Webhooks models what comes of it), then answer.
CreateStored(r) ==
  /\ pc[r] = "create"
  /\ carts' = [carts EXCEPT ![r] = EmptyCart]
  /\ Goto(r, "record")
  /\ UNCHANGED <<req, copy, code, events, raced, wanted>>

RecordCreated(r) ==
  /\ pc[r] = "record"
  /\ events' = events \cup {r}
  /\ Goto(r, "answer")
  /\ UNCHANGED <<carts, req, copy, code, raced, wanted>>

AnswerCreated(r) ==
  /\ pc[r] = "answer"
  /\ Answer(r, 201)
  /\ UNCHANGED <<carts, req, copy, events, raced, wanted>>

\* Get serves the cart as it was created, from a cache no Save refreshes.
BadLoad(r) ==
  /\ pc[r] = "load"
  /\ \/ /\ req[r].cart = NoSuchCart
        /\ Answer(r, 404)
        /\ UNCHANGED copy
     \/ /\ req[r].cart # NoSuchCart
        /\ copy' = [copy EXCEPT ![r] = EmptyCart]
        /\ IF req[r].op = "get" THEN Answer(r, 200)
                                ELSE Goto(r, "save") /\ UNCHANGED code
  /\ UNCHANGED <<carts, req, events, raced, wanted>>

\* CartStore.Get, the first call of every other handler; GetCart answers with it.
Load(r) ==
  /\ pc[r] = "load"
  /\ \/ /\ req[r].cart = NoSuchCart
        /\ Answer(r, 404)
        /\ UNCHANGED copy
     \/ /\ req[r].cart # NoSuchCart
        /\ copy' = [copy EXCEPT ![r] = carts[req[r].cart]]
        /\ IF req[r].op = "get" THEN Answer(r, 200)
                                ELSE Goto(r, "save") /\ UNCHANGED code
  /\ UNCHANGED <<carts, req, events, raced, wanted>>

\* The requests that hold a copy of cart c which they may yet save.
Holders(c) == {s \in Requests : pc[s] = "save" /\ req[s].cart = c}

\* What the client of r wants of the product it names, once r is accepted.
Asked(r) ==
  LET q == req[r] IN
  CASE q.op = "add" -> wanted[q.cart][q.product] + q.quantity
    [] q.op = "update" -> q.quantity
    [] q.op = "remove" -> 0

\* The total is summed before the edit is made.
BadSave(r) ==
  /\ pc[r] = "save"
  /\ Verdict(r) = 200
  /\ LET c == req[r].cart
     IN  /\ carts' = [carts EXCEPT ![c] =
                       [items |-> Edited(r), total |-> TotalOf(copy[r].items),
                        edits |-> copy[r].edits \cup {r}]]
         /\ raced' = raced \cup ({r} \X (Holders(c) \ {r}))
         /\ wanted' = [wanted EXCEPT ![c][req[r].product] = Asked(r)]
  /\ Answer(r, 200)
  /\ UNCHANGED <<req, copy, events>>

\* The edit of the copy and CartStore.Save, which overwrites the stored cart.
Save(r) ==
  /\ pc[r] = "save"
  /\ Verdict(r) = 200
  /\ LET c == req[r].cart
         items == Edited(r)
     IN  /\ carts' = [carts EXCEPT ![c] =
                       [items |-> items, total |-> TotalOf(items),
                        edits |-> copy[r].edits \cup {r}]]
         /\ raced' = raced \cup ({r} \X (Holders(c) \ {r}))
         /\ wanted' = [wanted EXCEPT ![c][req[r].product] = Asked(r)]
  /\ Answer(r, 200)
  /\ UNCHANGED <<req, copy, events>>

\* A refusal for lack of stock is forgotten.
BadReject(r) ==
  /\ pc[r] = "save"
  /\ Verdict(r) = 404
  /\ Answer(r, 404)
  /\ UNCHANGED <<carts, req, copy, events, raced, wanted>>

\* The handler refuses the edit.
Reject(r) ==
  /\ pc[r] = "save"
  /\ Verdict(r) # 200
  /\ Answer(r, Verdict(r))
  /\ UNCHANGED <<carts, req, copy, events, raced, wanted>>

Serve(r) == \/ CreateStored(r) \/ RecordCreated(r) \/ AnswerCreated(r)
            \/ Load(r) \/ Save(r) \/ Reject(r)

Next == \E r \in Requests : Receive(r) \/ Serve(r)

Spec == Init /\ [][Next]_vars

\* The Go scheduler runs every ready goroutine and the store's mutex is free
\* after each call.
FairSpec == Spec /\ \A r \in Requests : WF_vars(Serve(r))

-----------------------------------------------------------------------------
WellFormed(items) ==
  /\ \A m, n \in DOMAIN items : items[m].product = items[n].product => m = n
  /\ \A n \in DOMAIN items : items[n].quantity >= 1

\* Whatever edits and overwrites made a stored cart, it has one line per product,
\* each of at least one piece: FindItemIndex is never ambiguous, and the string a
\* mandate hashes lists each product once (cart_handler.go 87-101, 134-152,
\* 172-180).
LinesWellFormed ==
  \A c \in Requests : carts[c] # NoCart => WellFormed(carts[c].items)

\* The only way an acknowledged edit gets lost: another handler took its copy
\* before the edit was saved and saved it afterwards.  Edits that do not overlap
\* are never lost, however many there are (cart_handler.go 64-101, 117-152,
\* 163-180).
LostOnlyByOverlap ==
  \A r \in Requests :
    /\ code[r] = 200
    /\ req[r].op \in {"add", "update", "remove"}
    /\ r \notin carts[req[r].cart].edits
    => \E s \in Requests : code[s] = 200 /\ <<r, s>> \in raced

\* The pieces of a product on a list of lines, and what a count of pieces costs.
QuantityOf(items, p) ==
  LET n == FindItemIndex(items, p) IN IF n = 0 THEN 0 ELSE items[n].quantity

Worth(pieces) ==
  SumFunctionOnSet([p \in Products |-> Price[p] * pieces[p]],
                   {p \in Products : pieces[p] > 0})

\* Some edit of cart c was saved from a copy that an earlier save had outdated.
Overlapped(c) ==
  \E r, s \in Requests : <<r, s>> \in raced /\ code[s] = 200 /\ req[s].cart = c

\* While no save of a cart overwrites another, the Get, edit and Save of its
\* handlers come to the same as edits done at once: the cart holds exactly the
\* pieces that the answers 200 so far promised, whatever handlers of this cart were
\* under way and refused and whatever other carts went through, and its total is
\* what those pieces cost (cart_handler.go 64-101, 117-152, 163-180, cart_store.go
\* 61-99; README.md:3, "read-your-writes cart consistency").
EditsApplied ==
  \A c \in Requests : carts[c] # NoCart /\ ~Overlapped(c) =>
    /\ \A p \in Products : QuantityOf(carts[c].items, p) = wanted[c][p]
    /\ carts[c].total = Worth(wanted[c])

\* Every request that arrived is answered and its goroutine ends.
EveryRequestServed ==
  \A r \in Requests : pc[r] \in {"create", "load"} ~> pc[r] = "done" /\ code[r] # 0

\* cart_handler.go 82, "Make sure we aren't selling things we don't have", and
\* 60, "verifies we have enough stock": no line asks for more than the stock.
\* AddItem compares the stock with the quantity it adds, not with the sum.
CartWithinStock ==
  \A c \in Requests : carts[c] # NoCart =>
    \A n \in DOMAIN carts[c].items :
      carts[c].items[n].quantity <= Stock[carts[c].items[n].product]
=============================================================================
