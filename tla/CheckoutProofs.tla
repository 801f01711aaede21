--------------------------- MODULE CheckoutProofs ---------------------------
(***************************************************************************)
(* The cart, proved for any number of lines, requests, orders and faults:  *)
(* types, custody of every line, that Checkout implements CartLine, and    *)
(* how far requests that pass the budget gate together overshoot it.       *)
(***************************************************************************)
EXTENDS Checkout, FiniteSetTheorems, SequenceTheorems, WellFoundedInduction, TLAPS

-----------------------------------------------------------------------------
(* One request                                                             *)

Cust(w) == w.todo \union w.back \union ({w.line} \ {NoLine})
Own(w) == {l \in Lines : w.owned[l] # 0}

\* What holds of a request by itself.
Local(w) ==
  /\ w.pc \in {"idle", "claim"} => Cust(w) = {}
  /\ w.pc # "dead" => Cust(w) \subseteq Own(w)
  /\ w.pc \in {"gate", "restore"} => w.line = NoLine
  /\ w.pc = "restore" => w.todo = {}
  /\ w.line \notin w.todo \union w.back
  /\ w.todo \intersect w.back = {}

LEMMA LinesAreNumbers == NoLine \notin Lines /\ Lines \subseteq Nat
  BY CheckoutAssumption DEF Lines, NoLine

LEMMA FreshIs ==
  /\ Fresh \in ReqType /\ Local(Fresh) /\ Cust(Fresh) = {}
  /\ Fresh.pc = "idle"
<1>1. Fresh \in ReqType
  BY DEF Fresh, ReqType, ReqPcs, NoLines
<1>2. /\ Cust(Fresh) = {} /\ Fresh.pc = "idle"
      /\ Fresh.line \notin Fresh.todo \union Fresh.back
      /\ Fresh.todo \intersect Fresh.back = {}
  BY DEF Fresh, Cust
<1> QED
  BY <1>1, <1>2 DEF Local

LEMMA ReqTyped ==
  ASSUME TypeOK, NEW r \in Requests
  PROVE  /\ req[r] \in ReqType /\ Custody(r) = Cust(req[r]) /\ Owned(r) = Own(req[r])
         /\ Custody(r) \subseteq Lines
<1>1. req[r] \in ReqType
  BY DEF TypeOK
<1>2. req[r].todo \subseteq Lines /\ req[r].back \subseteq Lines /\ req[r].line \in Lines \union {NoLine}
  BY <1>1 DEF ReqType
<1> QED
  BY <1>1, <1>2 DEF Custody, Cust, Owned, Own

\* What follows an order keeps the lines that are left and those that go back.
LEMMA AfterIs ==
  ASSUME TypeOK, NEW r \in Requests, Local(req[r]), req[r].pc \in {"start", "notify", "insert"},
         NEW back \in SUBSET Own(req[r]), req[r].back \subseteq back,
         back \subseteq Custody(r), back \intersect req[r].todo = {}
  PROVE  /\ After(r, back) \in ReqType /\ Local(After(r, back))
         /\ Cust(After(r, back)) = req[r].todo \union back
         /\ After(r, back).pc \in {"idle", "gate", "restore"}
<1> DEFINE w == After(r, back)
<1>1. /\ req[r].owned \in [Lines -> Nat] /\ req[r].todo \subseteq Lines
      /\ req[r].admin \in BOOLEAN /\ back \subseteq Lines
  BY ReqTyped DEF ReqType, Own
<1>2. CASE Own(req[r]) = {}
  <2>1. w = Fresh
    BY <1>2, ReqTyped DEF After
  <2>2. req[r].todo \union back = {}
    BY <1>2, ReqTyped DEF Local, Cust
  <2> QED
    BY <2>1, <2>2, FreshIs
<1>3. CASE Own(req[r]) # {}
  <2>1. w = [Fresh EXCEPT !.pc = IF req[r].todo = {} THEN "restore" ELSE "gate",
                          !.owned = req[r].owned, !.admin = req[r].admin,
                          !.todo = req[r].todo, !.back = back]
    BY <1>3, ReqTyped DEF After
  <2>2. /\ w \in ReqType
        /\ w.pc = IF req[r].todo = {} THEN "restore" ELSE "gate"
        /\ w.owned = req[r].owned /\ w.todo = req[r].todo /\ w.back = back /\ w.line = NoLine
    BY <1>1, <2>1, FreshIs DEF ReqType, ReqPcs, Fresh
  <2> HIDE DEF w
  <2>3. Cust(w) = req[r].todo \union back
    BY <2>2 DEF Cust
  <2>4. Cust(w) \subseteq Own(w)
    BY <2>2, <2>3, ReqTyped DEF Local, Own, Cust
  <2>5. NoLine \notin w.todo \union w.back
    BY <1>1, <2>2, LinesAreNumbers
  <2> QED
    BY <2>2, <2>3, <2>4, <2>5 DEF Local, w
<1> QED
  BY <1>2, <1>3

\* A line whose order failed goes back with the others.
LEMMA FailedIs ==
  ASSUME TypeOK, NEW r \in Requests, Local(req[r]), req[r].pc \in {"start", "notify", "insert"}
  PROVE  /\ Failed(r) \in ReqType /\ Local(Failed(r)) /\ Cust(Failed(r)) = Custody(r)
         /\ Failed(r).pc \in {"idle", "gate", "restore"}
<1> DEFINE back == req[r].back \union ({req[r].line} \ {NoLine})
<1>1. Custody(r) \subseteq Own(req[r])
  BY ReqTyped DEF Local
<1>2. back \subseteq Custody(r) /\ req[r].back \subseteq back
  BY DEF Custody
<1>3. back \intersect req[r].todo = {} /\ back \in SUBSET Own(req[r])
  BY <1>1, <1>2 DEF Local
<1>4. req[r].todo \union back = Custody(r)
  BY DEF Custody
<1> HIDE DEF back
<1>5. /\ After(r, back) \in ReqType /\ Local(After(r, back))
      /\ Cust(After(r, back)) = req[r].todo \union back
      /\ After(r, back).pc \in {"idle", "gate", "restore"}
  BY <1>2, <1>3, AfterIs
<1> QED
  BY <1>4, <1>5 DEF Failed, back

\* A confirmed order spends its line, and the rest of the claim goes on.
LEMMA ConfirmedIs ==
  ASSUME TypeOK, NEW r \in Requests, Local(req[r]), At(r, "notify")
  PROVE  LET w == After(r, req[r].back)
         IN /\ w \in ReqType /\ Local(w) /\ Cust(w) = Custody(r) \ {req[r].line}
            /\ w.pc \in {"idle", "gate", "restore"}
<1>1. Custody(r) \subseteq Own(req[r]) /\ req[r].back \subseteq Custody(r)
  BY ReqTyped DEF Local, At, Custody
<1>2. req[r].todo \union req[r].back = Custody(r) \ {req[r].line}
  BY DEF Custody, Local
<1>3. req[r].back \intersect req[r].todo = {} /\ req[r].back \in SUBSET Own(req[r])
  BY <1>1 DEF Local
<1> QED
  BY <1>1, <1>2, <1>3, AfterIs DEF At

\* The request's step leaves it with the lines C; only an order that has been
\* inserted is started or confirmed.
Passes(r, C) ==
  \E w \in ReqType :
    /\ req' = [req EXCEPT ![r] = w]
    /\ Local(w) /\ Cust(w) = C
    /\ w.pc \in {"start", "notify"} =>
         At(r, "start") /\ w.order = req[r].order /\ w.line = req[r].line

LEMMA Arrives ==
  ASSUME TypeOK, NEW r \in Requests,
         \/ \E S \in SUBSET Lines, admin \in BOOLEAN : ReadCart(r, S, admin)
         \/ \E q \in Quantities, admin \in BOOLEAN : PlaceOrder(r, q, admin)
  PROVE  Passes(r, {}) /\ UNCHANGED <<cart, issued, orders, faults, taken>>
<1>1. ASSUME NEW S \in SUBSET Lines, NEW admin \in BOOLEAN, ReadCart(r, S, admin)
      PROVE  Passes(r, {}) /\ UNCHANGED <<cart, issued, orders, faults, taken>>
  <2> DEFINE owned == [l \in Lines |-> IF l \in S THEN cart[l] ELSE 0]
             w == [Fresh EXCEPT !.pc = "claim", !.owned = owned, !.admin = admin]
  <2>1. owned \in [Lines -> Nat]
    BY DEF TypeOK
  <2>2. req' = [req EXCEPT ![r] = w] /\ UNCHANGED <<cart, issued, orders, faults, taken>>
    BY <1>1 DEF ReadCart
  <2> HIDE DEF owned
  <2>3. w \in ReqType /\ w.pc = "claim" /\ w.todo = {} /\ w.back = {} /\ w.line = NoLine
    BY <2>1 DEF Fresh, ReqType, ReqPcs
  <2> HIDE DEF w
  <2> QED
    BY <2>2, <2>3 DEF Passes, Local, Cust
<1>2. ASSUME NEW q \in Quantities, NEW admin \in BOOLEAN, PlaceOrder(r, q, admin)
      PROVE  Passes(r, {}) /\ UNCHANGED <<cart, issued, orders, faults, taken>>
  <2> DEFINE w == [Fresh EXCEPT !.pc = "gate", !.quantity = q, !.admin = admin]
  <2>1. q \in Nat
    BY CheckoutAssumption DEF Quantities
  <2>2. req' = [req EXCEPT ![r] = w] /\ UNCHANGED <<cart, issued, orders, faults, taken>>
    BY <1>2 DEF PlaceOrder
  <2>3. w \in ReqType /\ w.pc = "gate" /\ w.todo = {} /\ w.back = {} /\ w.line = NoLine
    BY <2>1 DEF Fresh, ReqType, ReqPcs, NoLines
  <2> HIDE DEF w
  <2> QED
    BY <2>2, <2>3 DEF Passes, Local, Cust
<1> QED
  BY <1>1, <1>2

LEMMA Claims ==
  ASSUME TypeOK, NEW r \in Requests, Local(req[r]), ClaimLines(r)
  PROVE  Passes(r, Taken(r)) /\ Custody(r) = {}
<1>1. /\ req[r].pc = "claim" /\ req[r].todo = {} /\ req[r].back = {} /\ req[r].line = NoLine
      /\ Custody(r) = {}
  <2>1. req[r].pc = "claim" /\ Cust(req[r]) = {}
    BY DEF ClaimLines, At, Local
  <2> QED
    BY <2>1, ReqTyped DEF Cust
<1>2. Taken(r) \subseteq Own(req[r]) /\ Taken(r) \subseteq Lines
  BY ReqTyped DEF Taken, Own
<1>3. CASE Taken(r) = Owned(r)
  <2> DEFINE w == [req[r] EXCEPT !.pc = "gate", !.todo = Taken(r)]
  <2>1. req' = [req EXCEPT ![r] = w]
    BY <1>3 DEF ClaimLines
  <2>2. /\ w \in ReqType /\ w.pc = "gate" /\ w.todo = Taken(r) /\ w.back = {}
        /\ w.line = NoLine /\ w.owned = req[r].owned
    BY <1>1, <1>2, ReqTyped DEF ReqType, ReqPcs
  <2> HIDE DEF w
  <2> QED
    BY <1>1, <1>2, <2>1, <2>2, LinesAreNumbers DEF Passes, Local, Cust, Own
<1>4. CASE Taken(r) # Owned(r)
  <2> DEFINE w == [req[r] EXCEPT !.pc = "restore", !.back = Taken(r)]
  <2>1. req' = [req EXCEPT ![r] = w]
    BY <1>4 DEF ClaimLines
  <2>2. /\ w \in ReqType /\ w.pc = "restore" /\ w.todo = {} /\ w.back = Taken(r)
        /\ w.line = NoLine /\ w.owned = req[r].owned
    BY <1>1, <1>2, ReqTyped DEF ReqType, ReqPcs
  <2> HIDE DEF w
  <2> QED
    BY <1>1, <1>2, <2>1, <2>2, LinesAreNumbers DEF Passes, Local, Cust, Own
<1> QED
  BY <1>1, <1>3, <1>4

LEMMA Restores ==
  ASSUME TypeOK, NEW r \in Requests, Local(req[r]), Restore(r)
  PROVE  /\ Passes(r, {}) /\ Custody(r) = req[r].back
         /\ req[r].back \subseteq Own(req[r])
<1>1. req[r].pc = "restore" /\ req' = [req EXCEPT ![r] = Fresh]
  BY DEF Restore, At
<1>2. Custody(r) = req[r].back
  BY <1>1 DEF Local, Custody
<1> QED
  BY <1>1, <1>2, FreshIs, ReqTyped DEF Passes, Local

LEMMA Gates ==
  ASSUME TypeOK, NEW r \in Requests, Local(req[r]),
         GateOrder(r) \/ \E l \in Lines : GateLine(r, l)
  PROVE  Passes(r, Custody(r)) /\ UNCHANGED <<cart, issued, orders, faults, taken>>
<1>1. /\ req[r].pc = "gate" /\ req[r].line = NoLine
      /\ Custody(r) = req[r].todo \union req[r].back
      /\ Custody(r) \subseteq Own(req[r])
      /\ req[r].todo \intersect req[r].back = {}
  <2>1. req[r].pc = "gate"
    BY DEF GateOrder, GateLine, At
  <2> QED
    BY <2>1, ReqTyped DEF Local, Custody
<1>2. UNCHANGED <<cart, issued, orders, faults, taken>>
  BY DEF GateOrder, GateLine
<1>3. ASSUME NEW l \in Lines, GateLine(r, l)
      PROVE  Passes(r, Custody(r))
  <2> DEFINE taking == [req[r] EXCEPT !.todo = req[r].todo \ {l}, !.line = l]
  <2>1. l \in req[r].todo /\ req[r].owned[l] \in Nat
    BY <1>3, ReqTyped DEF GateLine, ReqType
  <2>2. CASE AskBudget(r, taking, l, req[r].owned[l])
    <3> DEFINE gated == ~Blocked(req[r].owned[l])
               w == [taking EXCEPT !.pc = "insert", !.line = l,
                                   !.quantity = req[r].owned[l], !.gated = gated]
    <3>1. req' = [req EXCEPT ![r] = w]
      BY <2>2 DEF AskBudget
    <3>2. gated \in BOOLEAN
      BY DEF Blocked
    <3> HIDE DEF gated
    <3>3. /\ w \in ReqType /\ w.pc = "insert" /\ w.todo = req[r].todo \ {l}
          /\ w.back = req[r].back /\ w.line = l /\ w.owned = req[r].owned
      BY <2>1, <3>2, ReqTyped DEF ReqType, ReqPcs
    <3> HIDE DEF w
    <3>4. Cust(w) = Custody(r)
      BY <1>1, <2>1, <3>3, LinesAreNumbers DEF Cust
    <3>5. Local(w)
      BY <1>1, <2>1, <3>3, <3>4 DEF Local, Own
    <3> QED
      BY <3>1, <3>3, <3>4, <3>5 DEF Passes
  <2>3. CASE req' = [req EXCEPT ![r] =
                       [taking EXCEPT !.line = NoLine, !.back = req[r].back \union {l},
                          !.pc = IF req[r].todo = {l} THEN "restore" ELSE "gate"]]
    <3> DEFINE w == [taking EXCEPT !.line = NoLine, !.back = req[r].back \union {l},
                       !.pc = IF req[r].todo = {l} THEN "restore" ELSE "gate"]
    <3>1. req' = [req EXCEPT ![r] = w]
      BY <2>3
    <3>2. /\ w \in ReqType /\ w.pc = IF req[r].todo = {l} THEN "restore" ELSE "gate"
          /\ w.todo = req[r].todo \ {l}
          /\ w.back = req[r].back \union {l} /\ w.line = NoLine /\ w.owned = req[r].owned
      BY <2>1, ReqTyped DEF ReqType, ReqPcs
    <3> HIDE DEF w
    <3>3. Cust(w) = Custody(r)
      BY <1>1, <2>1, <3>2 DEF Cust
    <3>4. NoLine \notin Custody(r)
      BY ReqTyped, LinesAreNumbers
    <3>5. Local(w)
      BY <1>1, <2>1, <3>2, <3>3, <3>4 DEF Local, Own, Cust
    <3> QED
      BY <3>1, <3>2, <3>3, <3>5 DEF Passes
  <2> QED
    BY <1>3, <2>2, <2>3 DEF GateLine
<1>4. ASSUME GateOrder(r)
      PROVE  Passes(r, Custody(r))
  <2>1. Custody(r) = {} /\ req[r].todo = {} /\ req[r].back = {}
    BY <1>1, <1>4, ReqTyped DEF GateOrder
  <2>2. CASE req' = [req EXCEPT ![r] = Fresh]
    BY <2>1, <2>2, FreshIs DEF Passes
  <2>3. CASE AskBudget(r, req[r], NoLine, req[r].quantity)
    <3> DEFINE gated == ~Blocked(req[r].quantity)
               w == [req[r] EXCEPT !.pc = "insert", !.line = NoLine,
                                   !.quantity = req[r].quantity, !.gated = gated]
    <3>1. req' = [req EXCEPT ![r] = w]
      BY <2>3 DEF AskBudget
    <3>2. gated \in BOOLEAN
      BY DEF Blocked
    <3> HIDE DEF gated
    <3>3. /\ w \in ReqType /\ w.pc = "insert" /\ w.todo = {} /\ w.back = {} /\ w.line = NoLine
      BY <2>1, <3>2, ReqTyped DEF ReqType, ReqPcs
    <3> HIDE DEF w
    <3> QED
      BY <2>1, <3>1, <3>3 DEF Passes, Local, Cust
  <2> QED
    BY <1>4, <2>2, <2>3 DEF GateOrder
<1> QED
  BY <1>2, <1>3, <1>4

\* The order of a request that has inserted one is for the line it carries.
Linked(r) ==
  req[r].pc \in {"start", "notify"} =>
    req[r].order \in DOMAIN orders /\ orders[req[r].order].line = req[r].line

LEMMA Inserts ==
  ASSUME TypeOK, NEW r \in Requests, Local(req[r]), InsertOrder(r)
  PROVE  \E w \in ReqType, o \in OrderType :
           /\ req' = [req EXCEPT ![r] = w] /\ Local(w) /\ Cust(w) = Custody(r)
           /\ w.order = Len(orders) + 1 /\ w.line = req[r].line /\ o.line = w.line /\ ~o.told
           /\ orders' = Append(orders, o)
           /\ UNCHANGED <<cart, issued, faults, taken>>
<1> DEFINE w == [req[r] EXCEPT !.order = Len(orders) + 1,
                               !.pc = IF req[r].admin THEN "start" ELSE "notify"]
           o == [line |-> req[r].line, quantity |-> req[r].quantity, gated |-> req[r].gated,
                 direct |-> req[r].admin,
                 status |-> IF req[r].admin THEN "provisioning" ELSE "pending", told |-> FALSE]
<1>1. /\ req' = [req EXCEPT ![r] = w] /\ orders' = Append(orders, o)
      /\ UNCHANGED <<cart, issued, faults, taken>> /\ req[r].pc = "insert"
  BY DEF InsertOrder, At
<1>2. Len(orders) + 1 \in Nat
  BY DEF TypeOK
<1>3. /\ w \in ReqType /\ w.pc \in {"start", "notify"} /\ w.todo = req[r].todo
      /\ w.back = req[r].back /\ w.line = req[r].line /\ w.owned = req[r].owned
      /\ w.order = Len(orders) + 1
  BY <1>2, ReqTyped DEF ReqType, ReqPcs
<1>4. o \in OrderType /\ o.line = req[r].line /\ ~o.told
  BY ReqTyped DEF ReqType, OrderType, OrderStatuses
<1> HIDE DEF w, o
<1>5. Cust(w) = Custody(r)
  BY <1>3, ReqTyped DEF Cust
<1>6. Local(w)
  BY <1>1, <1>3, <1>5, ReqTyped DEF Local, Own
<1> QED
  BY <1>1, <1>3, <1>4, <1>5, <1>6

LEMMA Starts ==
  ASSUME TypeOK, NEW r \in Requests, Local(req[r]), StartSucceeds(r)
  PROVE  Passes(r, Custody(r)) /\ UNCHANGED <<cart, issued, orders, faults, taken>>
<1> DEFINE w == [req[r] EXCEPT !.pc = "notify"]
<1>1. /\ req' = [req EXCEPT ![r] = w] /\ UNCHANGED <<cart, issued, orders, faults, taken>>
      /\ At(r, "start")
  BY DEF StartSucceeds
<1>2. /\ w \in ReqType /\ w.pc = "notify" /\ w.todo = req[r].todo
      /\ w.back = req[r].back /\ w.line = req[r].line /\ w.owned = req[r].owned
      /\ w.order = req[r].order
  BY ReqTyped DEF ReqType, ReqPcs
<1> HIDE DEF w
<1>3. Cust(w) = Custody(r)
  BY <1>2, ReqTyped DEF Cust
<1>4. Local(w)
  BY <1>1, <1>2, <1>3, ReqTyped DEF Local, Own, At
<1> QED
  BY <1>1, <1>2, <1>3, <1>4 DEF Passes

\* One order changes, in its status or in what the shopper has been told.
LEMMA OrderChanges ==
  ASSUME TypeOK, NEW n \in DOMAIN orders, NEW o \in OrderType,
         orders' = [orders EXCEPT ![n] = o], o.line = orders[n].line
  PROVE  /\ orders' \in Seq(OrderType) /\ DOMAIN orders' = DOMAIN orders
         /\ \A m \in DOMAIN orders : /\ orders'[m].line = orders[m].line
                                     /\ m # n => orders'[m] = orders[m]
         /\ orders'[n] = o
<1>1. orders \in Seq(OrderType) /\ n \in 1 .. Len(orders)
  BY DEF TypeOK
<1> QED
  BY <1>1, ExceptSeq

LEMMA OrderTyped ==
  ASSUME TypeOK, NEW n \in DOMAIN orders
  PROVE  /\ orders[n] \in OrderType
         /\ \A s \in OrderStatuses :
              LET o == [orders[n] EXCEPT !.status = s]
              IN o \in OrderType /\ o.line = orders[n].line /\ o.told = orders[n].told
         /\ LET o == [orders[n] EXCEPT !.told = TRUE]
            IN o \in OrderType /\ o.line = orders[n].line /\ o.told
         /\ \A s \in OrderStatuses, g \in BOOLEAN :
              LET o == [orders[n] EXCEPT !.status = s, !.gated = g]
              IN o \in OrderType /\ o.line = orders[n].line /\ o.told = orders[n].told
<1>1. orders[n] \in OrderType
  BY DEF TypeOK
<1> QED
  BY <1>1 DEF OrderType

\* Orders whose lines and confirmations stay as they are.
SameOrders ==
  /\ orders' \in Seq(OrderType) /\ DOMAIN orders' = DOMAIN orders
  /\ \A m \in DOMAIN orders : orders'[m].line = orders[m].line /\ orders'[m].told = orders[m].told

LEMMA StartsNot ==
  ASSUME TypeOK, NEW r \in Requests, Local(req[r]), Linked(r), StartFails(r)
  PROVE  Passes(r, Custody(r)) /\ SameOrders /\ UNCHANGED <<cart, issued, faults, taken>>
<1>1. /\ req' = [req EXCEPT ![r] = Failed(r)] /\ UNCHANGED <<cart, issued, faults, taken>>
      /\ req[r].pc = "start" /\ req[r].order \in DOMAIN orders
      /\ orders' = [orders EXCEPT ![req[r].order] =
                      [orders[req[r].order] EXCEPT !.status = "failed"]]
  BY DEF StartFails, At, Linked
<1> DEFINE n == req[r].order
           o == [orders[n] EXCEPT !.status = "failed"]
<1>2. o \in OrderType /\ o.line = orders[n].line /\ o.told = orders[n].told
  BY <1>1, OrderTyped DEF OrderStatuses
<1>3. n \in DOMAIN orders /\ orders' = [orders EXCEPT ![n] = o]
  BY <1>1
<1> HIDE DEF n, o
<1>4. SameOrders
  BY <1>2, <1>3, OrderChanges DEF SameOrders
<1>5. Passes(r, Custody(r))
  BY <1>1, FailedIs DEF Passes
<1> QED
  BY <1>1, <1>4, <1>5

LEMMA Confirms ==
  ASSUME TypeOK, NEW r \in Requests, Local(req[r]), Linked(r), Notify(r)
  PROVE  LET n == req[r].order
         IN /\ Passes(r, Custody(r) \ {req[r].line})
            /\ n \in DOMAIN orders /\ orders[n].line = req[r].line
            /\ orders' \in Seq(OrderType) /\ DOMAIN orders' = DOMAIN orders
            /\ \A m \in DOMAIN orders : /\ orders'[m].line = orders[m].line
                                        /\ m # n => orders'[m] = orders[m]
            /\ orders'[n].told
            /\ UNCHANGED <<cart, issued, faults, taken>>
<1>1. /\ req' = [req EXCEPT ![r] = After(r, req[r].back)] /\ UNCHANGED <<cart, issued, faults, taken>>
      /\ At(r, "notify") /\ req[r].order \in DOMAIN orders
      /\ orders[req[r].order].line = req[r].line
      /\ orders' = [orders EXCEPT ![req[r].order] =
                      [orders[req[r].order] EXCEPT !.told = TRUE]]
  BY DEF Notify, At, Linked
<1> DEFINE n == req[r].order
           o == [orders[n] EXCEPT !.told = TRUE]
<1>2. o \in OrderType /\ o.line = orders[n].line /\ o.told
  BY <1>1, OrderTyped
<1>3. n \in DOMAIN orders /\ orders' = [orders EXCEPT ![n] = o] /\ orders[n].line = req[r].line
  BY <1>1
<1> HIDE DEF n, o
<1>4. /\ orders' \in Seq(OrderType) /\ DOMAIN orders' = DOMAIN orders
      /\ \A m \in DOMAIN orders : /\ orders'[m].line = orders[m].line
                                  /\ m # n => orders'[m] = orders[m]
      /\ orders'[n].told
  BY <1>2, <1>3, OrderChanges
<1>5. Passes(r, Custody(r) \ {req[r].line})
  BY <1>1, ConfirmedIs DEF Passes
<1> QED
  BY <1>1, <1>3, <1>4, <1>5 DEF n

LEMMA Fails ==
  ASSUME TypeOK, NEW r \in Requests, Local(req[r]), StatementFails(r) \/ Die(r)
  PROVE  /\ Passes(r, Custody(r)) /\ UNCHANGED <<cart, issued, orders>>
         /\ faults' \in 0 .. MaxFaults /\ taken' \in [Requests -> [Lines -> Nat]]
<1>1. faults' \in 0 .. MaxFaults
  BY CheckoutAssumption DEF StatementFails, Die, Fault, TypeOK
<1>2. taken' \in [Requests -> [Lines -> Nat]] /\ UNCHANGED <<cart, issued, orders>>
  <2>1. CASE StatementFails(r)
    BY <2>1 DEF StatementFails, TypeOK
  <2>2. CASE Die(r)
    <3>1. NoLines \in [Lines -> Nat]
      BY DEF NoLines
    <3> QED
      BY <2>2, <3>1 DEF Die, TypeOK
  <2> QED
    BY <2>1, <2>2
<1>3. CASE StatementFails(r)
  <2>1. req[r].pc \in {"insert", "notify"} /\ req' = [req EXCEPT ![r] = Failed(r)]
    BY <1>3 DEF StatementFails
  <2>2. req[r].pc \in {"start", "notify", "insert"}
    BY <2>1
  <2>3. /\ Failed(r) \in ReqType /\ Local(Failed(r)) /\ Cust(Failed(r)) = Custody(r)
        /\ Failed(r).pc \in {"idle", "gate", "restore"}
    BY <2>2, FailedIs
  <2> QED
    BY <1>1, <1>2, <2>1, <2>3 DEF Passes
<1>4. CASE Die(r)
  <2> DEFINE w == [Fresh EXCEPT !.pc = "dead", !.back = Custody(r)]
  <2>1. req' = [req EXCEPT ![r] = w]
    BY <1>4 DEF Die
  <2>2. /\ w \in ReqType /\ w.pc = "dead" /\ w.todo = {} /\ w.back = Custody(r) /\ w.line = NoLine
    BY ReqTyped DEF Fresh, ReqType, ReqPcs, NoLines
  <2> HIDE DEF w
  <2>3. NoLine \notin Custody(r)
    BY ReqTyped, LinesAreNumbers
  <2>4. Cust(w) = Custody(r)
    BY <2>2 DEF Cust
  <2>5. Local(w)
    BY <2>2, <2>3 DEF Local
  <2> QED
    BY <1>1, <1>2, <2>1, <2>2, <2>4, <2>5 DEF Passes
<1> QED
  BY <1>3, <1>4

LEMMA OrderMovesOn ==
  ASSUME TypeOK, NEW n \in DOMAIN orders, OrderMoves(n)
  PROVE  SameOrders /\ UNCHANGED <<cart, issued, req, faults, taken>>
<1>1. PICK to \in OrderStatuses :
        orders' = [orders EXCEPT ![n] =
            [orders[n] EXCEPT !.status = to,
               !.gated = orders[n].gated /\ {orders[n].status, to} \subseteq CommittedStatuses]]
  BY DEF OrderMoves
<1> DEFINE g == orders[n].gated /\ {orders[n].status, to} \subseteq CommittedStatuses
           o == [orders[n] EXCEPT !.status = to, !.gated = g]
<1>2. g \in BOOLEAN
  OBVIOUS
<1>3. orders' = [orders EXCEPT ![n] = o]
  BY <1>1
<1> HIDE DEF g
<1>4. o \in OrderType /\ o.line = orders[n].line /\ o.told = orders[n].told
  BY <1>2, OrderTyped
<1> HIDE DEF o
<1> QED
  BY <1>3, <1>4, OrderChanges DEF SameOrders, OrderMoves

-----------------------------------------------------------------------------
(* What a step does to the lines                                           *)

TypeInv == TypeOK /\ \A r \in Requests : Local(req[r]) /\ Linked(r)

SameCart == InCart' = InCart /\ issued' = issued
SameCustody == \A q \in Requests : Custody(q)' = Custody(q)
Others(r) == \A q \in Requests \ {r} : Custody(q)' = Custody(q)

Quiet == SameCart /\ SameCustody /\ SameOrders

Adds ==
  /\ issued' = issued + 1 /\ issued' \in Lines /\ InCart' = InCart \union {issued'}
  /\ SameCustody /\ SameOrders

Drops ==
  \E L \in SUBSET InCart : InCart' = InCart \ L /\ issued' = issued /\ SameCustody /\ SameOrders

Takes(r) ==
  /\ Custody(r) = {} /\ Custody(r)' \subseteq InCart /\ InCart' = InCart \ Custody(r)'
  /\ Others(r) /\ issued' = issued /\ SameOrders

Returns(r) ==
  /\ Custody(r)' = {} /\ InCart' = InCart \union Custody(r)
  /\ Others(r) /\ issued' = issued /\ SameOrders

Orders(r) ==
  /\ \E o \in OrderType : /\ orders' = Append(orders, o) /\ ~o.told
                         /\ o.line \in Custody(r) \union {NoLine}
  /\ SameCart /\ SameCustody

Tells(r) ==
  /\ \E n \in DOMAIN orders :
       /\ orders[n].line \in Custody(r) \union {NoLine}
       /\ Custody(r)' = Custody(r) \ {orders[n].line}
       /\ orders' \in Seq(OrderType) /\ DOMAIN orders' = DOMAIN orders
       /\ orders'[n].told
       /\ \A m \in DOMAIN orders : /\ orders'[m].line = orders[m].line
                                   /\ m # n => orders'[m] = orders[m]
  /\ Others(r) /\ SameCart

Kinds ==
  \/ Quiet \/ Adds \/ Drops
  \/ \E r \in Requests : Takes(r) \/ Returns(r) \/ Orders(r) \/ Tells(r)

\* A request that passes takes its type, and its order, with it.
LEMMA PassStep ==
  ASSUME TypeInv, NEW r \in Requests, NEW C, Passes(r, C),
         DOMAIN orders' = DOMAIN orders,
         \A n \in DOMAIN orders : orders'[n].line = orders[n].line
  PROVE  /\ req' \in [Requests -> ReqType] /\ Custody(r)' = C /\ Others(r)
         /\ \A q \in Requests : Local(req[q])' /\ Linked(q)'
<1>1. PICK w \in ReqType :
        /\ req' = [req EXCEPT ![r] = w]
        /\ Local(w) /\ Cust(w) = C
        /\ w.pc \in {"start", "notify"} =>
             At(r, "start") /\ w.order = req[r].order /\ w.line = req[r].line
  BY DEF Passes
<1>2. /\ req' \in [Requests -> ReqType] /\ req'[r] = w
      /\ \A q \in Requests \ {r} : req'[q] = req[q]
  BY <1>1 DEF TypeInv, TypeOK
<1>3. Custody(r)' = C /\ Others(r)
  BY <1>1, <1>2 DEF Custody, Cust, Others
<1>4. \A q \in Requests : Local(req[q])'
  BY <1>1, <1>2 DEF TypeInv, Local, Cust, Own
<1>5. \A q \in Requests : Linked(q)'
  BY <1>1, <1>2 DEF TypeInv, Linked, At
<1> QED
  BY <1>2, <1>3, <1>4, <1>5

LEMMA SameOrdersIs ==
  ASSUME TypeOK, UNCHANGED orders
  PROVE  SameOrders
BY DEF SameOrders, TypeOK

LEMMA StepKinds == TypeInv /\ [Next]_vars => TypeInv' /\ Kinds
<1> SUFFICES ASSUME TypeInv, [Next]_vars PROVE TypeInv' /\ Kinds
  OBVIOUS
<1>1. TypeOK /\ \A r \in Requests : Local(req[r]) /\ Linked(r)
  BY DEF TypeInv
\* The requests keep their types, and the rest is typed by the action.
<1>2. ASSUME NEW r \in Requests, NEW C, Passes(r, C), SameOrders,
             cart' \in [Lines -> Nat], UNCHANGED issued,
             faults' \in 0 .. MaxFaults, taken' \in [Requests -> [Lines -> Nat]]
      PROVE  /\ TypeInv' /\ Custody(r)' = C /\ Others(r)
  <2>1. /\ req' \in [Requests -> ReqType] /\ Custody(r)' = C /\ Others(r)
        /\ \A q \in Requests : Local(req[q])' /\ Linked(q)'
    BY <1>2, PassStep DEF SameOrders
  <2> QED
    BY <1>1, <1>2, <2>1 DEF TypeInv, TypeOK, SameOrders, Linked
<1>3. /\ cart \in [Lines -> Nat] /\ issued \in 0 .. MaxLines
      /\ faults \in 0 .. MaxFaults /\ taken \in [Requests -> [Lines -> Nat]]
  BY <1>1 DEF TypeOK
\* Only the cart changes.
<1>4. ASSUME UNCHANGED <<orders, req, faults, taken>>, cart' \in [Lines -> Nat],
             issued' \in 0 .. MaxLines
      PROVE  TypeInv' /\ SameCustody /\ SameOrders
  <2>1. SameCustody /\ SameOrders
    BY <1>1, <1>4, SameOrdersIs DEF SameCustody, Custody
  <2> QED
    BY <1>1, <1>4, <2>1 DEF TypeInv, TypeOK, Local, Linked, Cust, Own
<1>5. CASE UNCHANGED vars
  BY <1>3, <1>4, <1>5 DEF vars, Kinds, Quiet, SameCart, InCart
<1>6. CASE Shopper
  <2>1. ASSUME NEW q \in Quantities, AddToCart(q)
        PROVE  TypeInv' /\ Adds
    <3>1. q \in Nat \ {0} /\ issued + 1 \in Lines
      BY <2>1, CheckoutAssumption DEF Quantities, AddToCart
    <3>2. cart' \in [Lines -> Nat] /\ issued' \in 0 .. MaxLines
      BY <1>3, <2>1, <3>1 DEF AddToCart, Lines
    <3>3. InCart' = InCart \union {issued'}
      BY <1>3, <2>1, <3>1 DEF AddToCart, InCart
    <3> QED
      BY <1>4, <2>1, <3>1, <3>2, <3>3 DEF Adds, AddToCart
  <2>2. ASSUME NEW l \in Lines, NEW q \in Quantities, UpdateCartItem(l, q)
        PROVE  TypeInv' /\ Quiet
    <3>1. q \in Nat \ {0} /\ l \in InCart
      BY <2>2, CheckoutAssumption DEF Quantities, UpdateCartItem
    <3>2. cart' \in [Lines -> Nat] /\ InCart' = InCart
      BY <1>3, <2>2, <3>1 DEF UpdateCartItem, InCart
    <3> QED
      BY <1>3, <1>4, <2>2, <3>2 DEF Quiet, SameCart, UpdateCartItem
  <2>3. ASSUME NEW L \in SUBSET InCart, Deletes(L)
        PROVE  TypeInv' /\ Drops
    <3>1. cart' \in [Lines -> Nat] /\ InCart' = InCart \ L
      BY <1>3, <2>3 DEF Deletes, InCart
    <3> QED
      BY <1>3, <1>4, <2>3, <3>1 DEF Drops, Deletes
  <2> QED
    BY <1>6, <2>1, <2>2, <2>3 DEF Shopper, RemoveFromCart, ClearCart, Kinds
<1>7. ASSUME NEW r \in Requests,
             \/ \E S \in SUBSET Lines, admin \in BOOLEAN : ReadCart(r, S, admin)
             \/ \E q \in Quantities, admin \in BOOLEAN : PlaceOrder(r, q, admin)
      PROVE  TypeInv' /\ Quiet
  <2>1. Passes(r, {}) /\ UNCHANGED <<cart, issued, orders, faults, taken>>
    BY <1>1, <1>7, Arrives
  <2>2. Custody(r) = {}
    <3>1. req[r].pc = "idle"
      BY <1>7 DEF ReadCart, PlaceOrder, At
    <3> QED
      BY <1>1, <3>1, ReqTyped DEF Local
  <2>3. SameOrders
    BY <1>1, <2>1, SameOrdersIs
  <2>4. TypeInv' /\ Custody(r)' = {} /\ Others(r)
    BY <1>2, <1>3, <2>1, <2>3
  <2> QED
    BY <2>1, <2>2, <2>3, <2>4 DEF Quiet, SameCart, SameCustody, Others, InCart
<1>8. ASSUME NEW r \in Requests, Passes(r, Custody(r)), SameOrders, UNCHANGED <<cart, issued>>,
             faults' \in 0 .. MaxFaults, taken' \in [Requests -> [Lines -> Nat]]
      PROVE  TypeInv' /\ Quiet
  <2>1. TypeInv' /\ Custody(r)' = Custody(r) /\ Others(r)
    BY <1>2, <1>3, <1>8
  <2> QED
    BY <1>8, <2>1 DEF Quiet, SameCart, SameCustody, Others, InCart
<1>9. ASSUME NEW r \in Requests, GateOrder(r) \/ (\E l \in Lines : GateLine(r, l)) \/ StartSucceeds(r)
      PROVE  TypeInv' /\ Quiet
  <2>1. Passes(r, Custody(r)) /\ UNCHANGED <<cart, issued, orders, faults, taken>>
    BY <1>1, <1>9, Gates, Starts
  <2> QED
    BY <1>1, <1>3, <1>8, <2>1, SameOrdersIs
<1>10. ASSUME NEW r \in Requests, StartFails(r)
       PROVE  TypeInv' /\ Quiet
  BY <1>1, <1>3, <1>8, <1>10, StartsNot
<1>11. ASSUME NEW r \in Requests, StatementFails(r) \/ Die(r)
       PROVE  TypeInv' /\ Quiet
  <2>1. /\ Passes(r, Custody(r)) /\ UNCHANGED <<cart, issued, orders>>
        /\ faults' \in 0 .. MaxFaults /\ taken' \in [Requests -> [Lines -> Nat]]
    BY <1>1, <1>11, Fails
  <2> QED
    BY <1>1, <1>8, <2>1, SameOrdersIs
<1>12. ASSUME NEW n \in DOMAIN orders, OrderMoves(n)
       PROVE  TypeInv' /\ Quiet
  <2>1. SameOrders /\ UNCHANGED <<cart, issued, req, faults, taken>>
    BY <1>1, <1>12, OrderMovesOn
  <2>2. TypeInv'
    BY <1>1, <2>1 DEF TypeInv, TypeOK, SameOrders, Local, Linked, Cust, Own
  <2> QED
    BY <2>1, <2>2 DEF Quiet, SameCart, SameCustody, InCart, Custody
<1>13. ASSUME NEW r \in Requests, ClaimLines(r)
       PROVE  TypeInv' /\ Takes(r)
  <2>1. Passes(r, Taken(r)) /\ Custody(r) = {} /\ UNCHANGED <<issued, orders, faults>>
    BY <1>1, <1>13, Claims DEF ClaimLines
  <2>2. /\ cart' \in [Lines -> Nat] /\ InCart' = InCart \ Taken(r)
        /\ taken' \in [Requests -> [Lines -> Nat]] /\ Taken(r) \subseteq InCart
    <3>1. cart' = [l \in Lines |-> IF l \in Owned(r) THEN 0 ELSE cart[l]]
      BY <1>13 DEF ClaimLines
    <3>2. cart' \in [Lines -> Nat] /\ InCart' = InCart \ Taken(r)
      BY <1>3, <3>1 DEF InCart, Taken
    <3>3. taken' \in [Requests -> [Lines -> Nat]]
      <4>1. [l \in Lines |-> IF l \in Taken(r) THEN cart[l] ELSE 0] \in [Lines -> Nat]
        BY <1>3
      <4> QED
        BY <1>3, <1>13, <4>1 DEF ClaimLines
    <3> QED
      BY <3>2, <3>3 DEF Taken
  <2>3. SameOrders
    BY <1>1, <2>1, SameOrdersIs
  <2>4. TypeInv' /\ Custody(r)' = Taken(r) /\ Others(r)
    BY <1>2, <1>3, <2>1, <2>2, <2>3
  <2> QED
    BY <2>1, <2>2, <2>3, <2>4 DEF Takes
<1>14. ASSUME NEW r \in Requests, Restore(r)
       PROVE  TypeInv' /\ Returns(r)
  <2>1. /\ Passes(r, {}) /\ Custody(r) = req[r].back /\ req[r].back \subseteq Own(req[r])
        /\ UNCHANGED <<issued, orders, faults>>
    BY <1>1, <1>14, Restores DEF Restore
  <2>2. req[r].owned \in [Lines -> Nat] /\ req[r].back \subseteq Lines
    BY <1>1, ReqTyped DEF ReqType
  <2>3. cart' = [l \in Lines |-> IF l \in req[r].back THEN req[r].owned[l] ELSE cart[l]]
    BY <1>14 DEF Restore, PutBack
  <2>4. cart' \in [Lines -> Nat] /\ InCart' = InCart \union Custody(r)
    BY <1>3, <2>1, <2>2, <2>3 DEF InCart, Own
  <2>5. taken' \in [Requests -> [Lines -> Nat]]
    <3>1. NoLines \in [Lines -> Nat]
      BY DEF NoLines
    <3> QED
      BY <1>3, <1>14, <3>1 DEF Restore
  <2>6. SameOrders
    BY <1>1, <2>1, SameOrdersIs
  <2>7. TypeInv' /\ Custody(r)' = {} /\ Others(r)
    BY <1>2, <1>3, <2>1, <2>4, <2>5, <2>6
  <2> QED
    BY <2>1, <2>4, <2>6, <2>7 DEF Returns
<1>15. ASSUME NEW r \in Requests, InsertOrder(r)
       PROVE  TypeInv' /\ Orders(r)
  <2>1. PICK w \in ReqType, o \in OrderType :
           /\ req' = [req EXCEPT ![r] = w] /\ Local(w) /\ Cust(w) = Custody(r)
           /\ w.order = Len(orders) + 1 /\ w.line = req[r].line /\ o.line = w.line /\ ~o.told
           /\ orders' = Append(orders, o)
           /\ UNCHANGED <<cart, issued, faults, taken>>
    BY <1>1, <1>15, Inserts
  <2>2. /\ orders' \in Seq(OrderType)
        /\ DOMAIN orders' = DOMAIN orders \union {Len(orders) + 1}
        /\ orders'[Len(orders) + 1] = o
        /\ \A n \in DOMAIN orders : orders'[n] = orders[n]
    BY <1>1, <2>1 DEF TypeOK
  <2>3. /\ req' \in [Requests -> ReqType] /\ req'[r] = w
        /\ \A q \in Requests \ {r} : req'[q] = req[q]
    BY <1>1, <2>1 DEF TypeOK
  <2>4. SameCustody
    BY <2>1, <2>3 DEF SameCustody, Custody, Cust
  <2>5. \A q \in Requests : Local(req[q])' /\ Linked(q)'
    BY <1>1, <2>1, <2>2, <2>3 DEF Local, Linked, Cust, Own
  <2>6. TypeInv'
    BY <1>3, <2>1, <2>2, <2>3, <2>5 DEF TypeInv, TypeOK, Linked
  <2>7. o.line \in Custody(r) \union {NoLine}
    BY <2>1 DEF Custody
  <2> QED
    BY <2>1, <2>4, <2>6, <2>7 DEF Orders, SameCart, InCart
<1>16. ASSUME NEW r \in Requests, Notify(r)
       PROVE  TypeInv' /\ Tells(r)
  <2> DEFINE n == req[r].order
  <2>1. /\ Passes(r, Custody(r) \ {req[r].line})
        /\ n \in DOMAIN orders /\ orders[n].line = req[r].line
        /\ orders' \in Seq(OrderType) /\ DOMAIN orders' = DOMAIN orders
        /\ \A m \in DOMAIN orders : /\ orders'[m].line = orders[m].line
                                    /\ m # n => orders'[m] = orders[m]
        /\ orders'[n].told
        /\ UNCHANGED <<cart, issued, faults, taken>>
    BY <1>1, <1>16, Confirms
  <2> HIDE DEF n
  <2>2. /\ req' \in [Requests -> ReqType] /\ Custody(r)' = Custody(r) \ {req[r].line} /\ Others(r)
        /\ \A q \in Requests : Local(req[q])' /\ Linked(q)'
    BY <2>1, PassStep
  <2>3. TypeInv'
    BY <1>3, <2>1, <2>2 DEF TypeInv, TypeOK, Linked
  <2>4. orders[n].line \in Custody(r) \union {NoLine}
    BY <2>1 DEF Custody
  <2> QED
    BY <2>1, <2>2, <2>3, <2>4 DEF Tells, SameCart, InCart
<1> QED
  BY <1>5, <1>6, <1>7, <1>9, <1>10, <1>11, <1>12, <1>13, <1>14, <1>15, <1>16
  DEF Next, Serve, Kinds

LEMMA TypeAlways == Spec => []TypeInv
<1>1. Init => TypeInv
  <2> SUFFICES ASSUME Init PROVE TypeInv
    OBVIOUS
  <2>1. TypeOK
    BY FreshIs, CheckoutAssumption DEF Init, TypeOK, NoLines
  <2>2. \A r \in Requests : Local(req[r]) /\ Linked(r)
    BY FreshIs DEF Init, Linked
  <2> QED
    BY <2>1, <2>2 DEF TypeInv
<1> QED
  BY <1>1, StepKinds, PTL DEF Spec

\* Every line, order and request has its type, and a request past the insert has
\* an order.
THEOREM TypeCorrect == Spec => []TypeOK
BY TypeAlways, PTL DEF TypeInv

-----------------------------------------------------------------------------
(* Custody                                                                 *)

Issued == 1 .. issued

CustodyInv ==
  /\ InCart \subseteq Issued
  /\ \A r \in Requests : Custody(r) \subseteq Issued
  /\ \A o \in DOMAIN orders : orders[o].line \in Issued \union {NoLine}
  /\ SingleCustody
  /\ ConfirmedLineIsSpent

LEMMA IssuedIs == TypeInv => issued \in Nat /\ Issued \subseteq Lines
  BY CheckoutAssumption DEF TypeInv, TypeOK, Issued, Lines

LEMMA CustodyIsLines ==
  ASSUME TypeInv, NEW r \in Requests
  PROVE  Custody(r) \subseteq Lines /\ NoLine \notin Custody(r)
BY ReqTyped, LinesAreNumbers DEF TypeInv

LEMMA SameOrdersKeep ==
  ASSUME CustodyInv, SameOrders, issued' = issued, InCart' \subseteq InCart,
         \A q \in Requests : Custody(q)' \subseteq Custody(q)
  PROVE  CustodyInv'
<1>1. /\ InCart' \subseteq Issued' /\ \A r \in Requests : Custody(r)' \subseteq Issued'
      /\ \A o \in DOMAIN orders' : orders'[o].line \in Issued' \union {NoLine}
  BY DEF CustodyInv, Issued, SameOrders
<1>2. SingleCustody'
  BY DEF CustodyInv, SingleCustody
<1>3. ConfirmedLineIsSpent'
  BY DEF CustodyInv, ConfirmedLineIsSpent, SameOrders
<1> QED
  BY <1>1, <1>2, <1>3 DEF CustodyInv

LEMMA CustodyStep == TypeInv /\ CustodyInv /\ Kinds => CustodyInv'
<1> SUFFICES ASSUME TypeInv, CustodyInv, Kinds PROVE CustodyInv'
  OBVIOUS
<1>1. CASE Quiet
  BY <1>1, SameOrdersKeep DEF Quiet, SameCart, SameCustody
<1>2. CASE Adds
  <2>1. Issued' = Issued \union {issued'} /\ issued' \notin Issued /\ issued' # NoLine
    BY <1>2, IssuedIs, LinesAreNumbers DEF Adds, Issued
  <2>2. /\ InCart' = InCart \union {issued'} /\ \A q \in Requests : Custody(q)' = Custody(q)
        /\ DOMAIN orders' = DOMAIN orders
        /\ \A m \in DOMAIN orders : orders'[m].line = orders[m].line /\ orders'[m].told = orders[m].told
    BY <1>2 DEF Adds, SameCustody, SameOrders
  <2>3. /\ InCart' \subseteq Issued' /\ \A r \in Requests : Custody(r)' \subseteq Issued'
        /\ \A o \in DOMAIN orders' : orders'[o].line \in Issued' \union {NoLine}
    BY <2>1, <2>2 DEF CustodyInv
  <2>4. SingleCustody'
    BY <2>1, <2>2 DEF CustodyInv, SingleCustody
  <2>5. ConfirmedLineIsSpent'
    BY <2>1, <2>2 DEF CustodyInv, ConfirmedLineIsSpent
  <2> QED
    BY <2>3, <2>4, <2>5 DEF CustodyInv
<1>3. CASE Drops
  BY <1>3, SameOrdersKeep DEF Drops, SameCustody
<1>4. ASSUME NEW r \in Requests, Takes(r)
      PROVE  CustodyInv'
  <2>1. /\ Custody(r)' \subseteq InCart /\ InCart' = InCart \ Custody(r)' /\ issued' = issued
        /\ \A q \in Requests \ {r} : Custody(q)' = Custody(q)
        /\ DOMAIN orders' = DOMAIN orders
        /\ \A m \in DOMAIN orders : orders'[m].line = orders[m].line /\ orders'[m].told = orders[m].told
    BY <1>4 DEF Takes, Others, SameOrders
  <2>2. /\ InCart' \subseteq Issued' /\ \A q \in Requests : Custody(q)' \subseteq Issued'
        /\ \A o \in DOMAIN orders' : orders'[o].line \in Issued' \union {NoLine}
    BY <2>1 DEF CustodyInv, Issued
  <2>3. SingleCustody'
    BY <2>1 DEF CustodyInv, SingleCustody
  <2>4. ConfirmedLineIsSpent'
    BY <2>1 DEF CustodyInv, ConfirmedLineIsSpent
  <2> QED
    BY <2>2, <2>3, <2>4 DEF CustodyInv
<1>5. ASSUME NEW r \in Requests, Returns(r)
      PROVE  CustodyInv'
  <2>1. /\ Custody(r)' = {} /\ InCart' = InCart \union Custody(r) /\ issued' = issued
        /\ \A q \in Requests \ {r} : Custody(q)' = Custody(q)
        /\ DOMAIN orders' = DOMAIN orders
        /\ \A m \in DOMAIN orders : orders'[m].line = orders[m].line /\ orders'[m].told = orders[m].told
    BY <1>5 DEF Returns, Others, SameOrders
  <2>2. /\ InCart' \subseteq Issued' /\ \A q \in Requests : Custody(q)' \subseteq Issued'
        /\ \A o \in DOMAIN orders' : orders'[o].line \in Issued' \union {NoLine}
    BY <2>1 DEF CustodyInv, Issued
  <2>3. SingleCustody'
    BY <2>1 DEF CustodyInv, SingleCustody
  <2>4. ConfirmedLineIsSpent'
    BY <2>1 DEF CustodyInv, ConfirmedLineIsSpent
  <2> QED
    BY <2>2, <2>3, <2>4 DEF CustodyInv
<1>6. ASSUME NEW r \in Requests, Orders(r)
      PROVE  CustodyInv'
  <2>1. PICK o \in OrderType : /\ orders' = Append(orders, o) /\ ~o.told
                               /\ o.line \in Custody(r) \union {NoLine}
    BY <1>6 DEF Orders
  <2> DEFINE n == Len(orders) + 1
  <2>2. /\ DOMAIN orders' = DOMAIN orders \union {n} /\ orders'[n] = o /\ n \notin DOMAIN orders
        /\ \A m \in DOMAIN orders : orders'[m] = orders[m]
    BY <2>1 DEF TypeInv, TypeOK
  <2>3. /\ InCart' = InCart /\ issued' = issued /\ \A q \in Requests : Custody(q)' = Custody(q)
    BY <1>6 DEF Orders, SameCart, SameCustody
  <2> HIDE DEF n
  <2>4. /\ InCart' \subseteq Issued' /\ \A q \in Requests : Custody(q)' \subseteq Issued'
        /\ \A m \in DOMAIN orders' : orders'[m].line \in Issued' \union {NoLine}
    BY <2>1, <2>2, <2>3 DEF CustodyInv, Issued
  <2>5. SingleCustody'
    BY <2>3 DEF CustodyInv, SingleCustody
  <2>6. ConfirmedLineIsSpent'
    BY <2>1, <2>2, <2>3 DEF CustodyInv, ConfirmedLineIsSpent
  <2> QED
    BY <2>4, <2>5, <2>6 DEF CustodyInv
<1>7. ASSUME NEW r \in Requests, Tells(r)
      PROVE  CustodyInv'
  <2>1. PICK n \in DOMAIN orders :
       /\ orders[n].line \in Custody(r) \union {NoLine}
       /\ Custody(r)' = Custody(r) \ {orders[n].line}
       /\ DOMAIN orders' = DOMAIN orders
       /\ \A m \in DOMAIN orders : /\ orders'[m].line = orders[m].line
                                   /\ m # n => orders'[m] = orders[m]
    BY <1>7 DEF Tells
  <2>2. /\ InCart' = InCart /\ issued' = issued
        /\ \A q \in Requests \ {r} : Custody(q)' = Custody(q)
    BY <1>7 DEF Tells, SameCart, Others
  <2>3. /\ InCart' \subseteq Issued' /\ \A q \in Requests : Custody(q)' \subseteq Issued'
        /\ \A m \in DOMAIN orders' : orders'[m].line \in Issued' \union {NoLine}
    BY <2>1, <2>2 DEF CustodyInv, Issued
  <2>4. SingleCustody'
    BY <2>1, <2>2 DEF CustodyInv, SingleCustody
  <2>5. ASSUME NEW o \in DOMAIN orders, orders'[o].told, orders[o].line # NoLine
        PROVE  /\ orders[o].line \notin InCart
               /\ \A q \in Requests : orders[o].line \notin Custody(q)'
               /\ \A p \in DOMAIN orders \ {o} : orders[p].line = orders[o].line => ~orders'[p].told
    <3>1. CASE o = n
      <4>1. orders[n].line \in Custody(r) /\ orders[n].line \in Lines
        BY <2>1, <2>5, <3>1, CustodyIsLines
      <4>2. orders[n].line \notin InCart /\ \A q \in Requests \ {r} : orders[n].line \notin Custody(q)
        BY <4>1 DEF CustodyInv, SingleCustody
      <4>3. \A q \in Requests : orders[n].line \notin Custody(q)'
        BY <2>1, <2>2, <4>2
      <4>4. ASSUME NEW p \in DOMAIN orders \ {n}, orders[p].line = orders[n].line
            PROVE  ~orders'[p].told
        <5>1. orders'[p] = orders[p] /\ orders[p].line # NoLine
          BY <2>1, <2>5, <3>1, <4>4
        <5>2. ~orders[p].told
          BY <4>1, <4>4, <5>1 DEF CustodyInv, ConfirmedLineIsSpent
        <5> QED
          BY <5>1, <5>2
      <4> QED
        BY <3>1, <4>2, <4>3, <4>4
    <3>2. CASE o # n
      <4>1. orders[o].told /\ orders[o].line # orders[n].line
        BY <2>1, <2>5, <3>2 DEF CustodyInv, ConfirmedLineIsSpent
      <4> QED
        BY <2>1, <2>2, <2>5, <4>1 DEF CustodyInv, ConfirmedLineIsSpent
    <3> QED
      BY <3>1, <3>2
  <2>6. ConfirmedLineIsSpent'
    BY <2>1, <2>2, <2>5 DEF ConfirmedLineIsSpent
  <2> QED
    BY <2>3, <2>4, <2>6 DEF CustodyInv
<1> QED
  BY <1>1, <1>2, <1>3, <1>4, <1>5, <1>6, <1>7 DEF Kinds

LEMMA CustodyAlways == Spec => []CustodyInv
<1>1. Init => CustodyInv
  BY FreshIs DEF Init, CustodyInv, InCart, NoLines, Custody, Cust, SingleCustody, ConfirmedLineIsSpent
<1> QED
  BY <1>1, CustodyStep, StepKinds, TypeAlways, PTL DEF Spec

\* A line is in the cart or with exactly one request.
THEOREM CustodyIsSingle == Spec => []SingleCustody
BY CustodyAlways, PTL DEF CustodyInv

\* A line whose order was confirmed never comes back.
THEOREM ConfirmedIsSpent == Spec => []ConfirmedLineIsSpent
BY CustodyAlways, PTL DEF CustodyInv

-----------------------------------------------------------------------------
(* Checkout implements CartLine                                            *)

Claimed(l) == \E r \in Requests : l \in Custody(r)
Told(l) == \E o \in DOMAIN orders : orders[o].line = l /\ orders[o].told

LEMMA StageIs ==
  ASSUME NEW l
  PROVE  Stage(l) = IF l > issued THEN "new"
                    ELSE IF l \in InCart THEN "cart"
                    ELSE IF Claimed(l) THEN "claimed"
                    ELSE IF Told(l) THEN "ordered"
                    ELSE "dropped"
BY DEF Stage, Claimed, Told

LEMMA SameStage ==
  ASSUME NEW l, issued' = issued, l \in InCart' <=> l \in InCart,
         Claimed(l)' <=> Claimed(l), Told(l)' <=> Told(l)
  PROVE  Stage(l)' = Stage(l)
BY DEF Stage, Claimed, Told

LEMMA ToldIs ==
  ASSUME SameOrders, NEW l
  PROVE  Told(l)' <=> Told(l)
BY DEF SameOrders, Told

\* The lines L move, and no other.
LEMMA Moves ==
  ASSUME NEW L \in SUBSET Lines, NEW from, NEW to,
         \A l \in L : Stage(l) = from /\ Stage(l)' = to,
         \A l \in Lines \ L : Stage(l)' = Stage(l)
  PROVE  Contract!Move(L, from, to)
BY DEF Contract!Move

LEMMA LineStep ==
  TypeInv /\ CustodyInv /\ CustodyInv' /\ Kinds =>
    Contract!Next \/ UNCHANGED [l \in Lines |-> Stage(l)]
<1> SUFFICES ASSUME TypeInv, CustodyInv, CustodyInv', Kinds
             PROVE  Contract!Next \/ UNCHANGED [l \in Lines |-> Stage(l)]
  OBVIOUS
<1> DEFINE Stays == \A l \in Lines : Stage(l)' = Stage(l)
<1>1. Stays => UNCHANGED [l \in Lines |-> Stage(l)]
  OBVIOUS
<1>2. CASE Quiet
  <2>1. Stays
    BY <1>2, SameStage, ToldIs DEF Quiet, SameCart, SameCustody, Claimed
  <2> QED
    BY <1>1, <2>1
<1>3. CASE Adds
  <2>0. PICK n \in Lines : n = issued + 1
    BY <1>3 DEF Adds
  <2>1. /\ issued' = n /\ InCart' = InCart \union {n} /\ issued \in Nat
        /\ SameCustody /\ SameOrders
    BY <1>3, <2>0, IssuedIs DEF Adds
  <2>2. Stage(n) = "new" /\ Stage(n)' = "cart"
    <3>1. n > issued /\ ~(n > issued')
      BY <2>0, <2>1
    <3> QED
      BY <2>1, <3>1 DEF Stage
  <2>3. ASSUME NEW l \in Lines \ {n}
        PROVE  Stage(l)' = Stage(l)
    <3>1. l > issued <=> l > issued'
      BY <2>0, <2>1, LinesAreNumbers
    <3>2. (Claimed(l)' <=> Claimed(l)) /\ (Told(l)' <=> Told(l)) /\ (l \in InCart' <=> l \in InCart)
      BY <2>1, ToldIs DEF SameCustody, Claimed
    <3> QED
      BY <3>1, <3>2 DEF Stage, Claimed, Told
  <2>4. Contract!Add(n)
    BY <2>1, <2>2, <2>3, Moves DEF Contract!Add
  <2> QED
    BY <2>1, <2>4 DEF Contract!Next
<1>4. CASE Drops
  <2>1. PICK L \in SUBSET InCart :
          InCart' = InCart \ L /\ issued' = issued /\ SameCustody /\ SameOrders
    BY <1>4 DEF Drops
  <2>2. L \subseteq Lines
    BY <2>1 DEF InCart
  <2>3. ASSUME NEW l \in L
        PROVE  Stage(l) = "cart" /\ Stage(l)' = "dropped"
    <3>0. l \in InCart /\ l \in Lines /\ l \in Issued /\ issued \in Nat
      BY <2>1, <2>2, IssuedIs DEF CustodyInv
    <3>1. l <= issued /\ l \in Nat /\ issued \in Nat /\ l \in InCart /\ l \notin InCart' /\ l # NoLine
      BY <2>1, <3>0, LinesAreNumbers DEF Issued
    <3>2. ~Claimed(l)' /\ ~Told(l)'
      BY <2>1, <2>2, <3>1, ToldIs
      DEF CustodyInv, SingleCustody, ConfirmedLineIsSpent, SameCustody, Claimed, Told
    <3>3. ~(l > issued) /\ ~(l > issued')
      BY <2>1, <3>1
    <3> QED
      BY <3>1, <3>2, <3>3 DEF Stage, Claimed, Told
  <2>4. ASSUME NEW l \in Lines \ L
        PROVE  Stage(l)' = Stage(l)
    BY <2>1, <2>4, SameStage, ToldIs DEF SameCustody, Claimed
  <2>5. Contract!Drop(L)
    BY <2>2, <2>3, <2>4, Moves DEF Contract!Drop
  <2> QED
    BY <2>2, <2>5 DEF Contract!Next
<1>5. ASSUME NEW r \in Requests, Takes(r)
      PROVE  Contract!Next
  <2> DEFINE L == Custody(r)'
  <2>1. /\ L \subseteq InCart /\ InCart' = InCart \ L /\ issued' = issued /\ SameOrders
        /\ Custody(r) = {}
        /\ \A q \in Requests \ {r} : Custody(q)' = Custody(q)
    BY <1>5 DEF Takes, Others
  <2>2. L \subseteq Lines
    BY <2>1 DEF InCart
  <2>3. ASSUME NEW l \in L
        PROVE  Stage(l) = "cart" /\ Stage(l)' = "claimed"
    <3>1. l <= issued /\ l \in Nat /\ issued \in Nat /\ l \in InCart /\ l \notin InCart' /\ Claimed(l)'
      BY <2>1, <2>2, IssuedIs, LinesAreNumbers DEF CustodyInv, Issued, Claimed
    <3>2. ~(l > issued) /\ ~(l > issued')
      BY <2>1, <3>1
    <3> QED
      BY <3>1, <3>2 DEF Stage, Claimed
  <2>4. ASSUME NEW l \in Lines \ L
        PROVE  Stage(l)' = Stage(l)
    <3>1. Claimed(l)' <=> Claimed(l)
      BY <2>1 DEF Claimed
    <3> QED
      BY <2>1, <3>1, SameStage, ToldIs
  <2> HIDE DEF L
  <2>5. Contract!Claim(L)
    BY <2>2, <2>3, <2>4, Moves DEF Contract!Claim
  <2> QED
    BY <2>2, <2>5 DEF Contract!Next
<1>6. ASSUME NEW r \in Requests, Returns(r)
      PROVE  Contract!Next
  <2> DEFINE L == Custody(r)
  <2>1. /\ InCart' = InCart \union L /\ issued' = issued /\ SameOrders /\ Custody(r)' = {}
        /\ \A q \in Requests \ {r} : Custody(q)' = Custody(q)
    BY <1>6 DEF Returns, Others
  <2>2. L \subseteq Lines
    BY CustodyIsLines
  <2>3. ASSUME NEW l \in L
        PROVE  Stage(l) = "claimed" /\ Stage(l)' = "cart"
    <3>1. l <= issued /\ l \in Nat /\ issued \in Nat /\ l \notin InCart /\ l \in InCart' /\ Claimed(l)
      BY <2>1, <2>2, IssuedIs, LinesAreNumbers DEF CustodyInv, SingleCustody, Issued, Claimed
    <3>2. ~(l > issued) /\ ~(l > issued')
      BY <2>1, <3>1
    <3> QED
      BY <3>1, <3>2 DEF Stage, Claimed
  <2>4. ASSUME NEW l \in Lines \ L
        PROVE  Stage(l)' = Stage(l)
    <3>1. Claimed(l)' <=> Claimed(l)
      BY <2>1 DEF Claimed
    <3> QED
      BY <2>1, <3>1, SameStage, ToldIs
  <2> HIDE DEF L
  <2>5. Contract!Return(L)
    BY <2>2, <2>3, <2>4, Moves DEF Contract!Return
  <2> QED
    BY <2>2, <2>5 DEF Contract!Next
<1>7. ASSUME NEW r \in Requests, Orders(r)
      PROVE  Stays
  <2>1. PICK o \in OrderType : orders' = Append(orders, o) /\ ~o.told
    BY <1>7 DEF Orders
  <2>2. /\ DOMAIN orders' = DOMAIN orders \union {Len(orders) + 1} /\ ~orders'[Len(orders) + 1].told
        /\ \A m \in DOMAIN orders : orders'[m] = orders[m]
    BY <2>1 DEF TypeInv, TypeOK
  <2>3. \A l \in Lines : Told(l)' <=> Told(l)
    BY <2>2 DEF Told
  <2>4. \A l \in Lines : Claimed(l)' <=> Claimed(l)
    BY <1>7 DEF Orders, SameCustody, Claimed
  <2> QED
    BY <1>7, <2>3, <2>4, SameStage DEF Orders, SameCart
<1>8. ASSUME NEW r \in Requests, Tells(r)
      PROVE  Contract!Next \/ Stays
  <2>1. PICK n \in DOMAIN orders :
       /\ orders[n].line \in Custody(r) \union {NoLine}
       /\ Custody(r)' = Custody(r) \ {orders[n].line}
       /\ DOMAIN orders' = DOMAIN orders /\ orders'[n].told
       /\ \A m \in DOMAIN orders : /\ orders'[m].line = orders[m].line
                                   /\ m # n => orders'[m] = orders[m]
    BY <1>8 DEF Tells
  <2>0. PICK x \in Lines \union {NoLine} : x = orders[n].line
    BY <2>1, CustodyIsLines
  <2>2. /\ InCart' = InCart /\ issued' = issued
        /\ \A q \in Requests \ {r} : Custody(q)' = Custody(q)
    BY <1>8 DEF Tells, SameCart, Others
  <2>3. ASSUME NEW l \in Lines, l # x
        PROVE  Stage(l)' = Stage(l)
    <3>1. Claimed(l)' <=> Claimed(l)
      BY <2>0, <2>1, <2>2, <2>3 DEF Claimed
    <3>2. Told(l)' <=> Told(l)
      BY <2>0, <2>1, <2>3 DEF Told
    <3> QED
      BY <2>2, <3>1, <3>2, SameStage
  <2>4. CASE x = NoLine
    BY <2>3, <2>4, LinesAreNumbers
  <2>5. CASE x # NoLine
    <3>1. x \in Custody(r) /\ x \in Lines
      BY <2>0, <2>1, <2>5
    <3>2. x <= issued /\ x \in Nat /\ issued \in Nat /\ x \notin InCart /\ Claimed(x)
      BY <3>1, IssuedIs, LinesAreNumbers DEF CustodyInv, SingleCustody, Issued, Claimed
    <3>3. ~Claimed(x)' /\ Told(x)'
      <4>1. \A q \in Requests \ {r} : x \notin Custody(q)
        BY <3>1 DEF CustodyInv, SingleCustody
      <4> QED
        BY <2>0, <2>1, <2>2, <4>1 DEF Claimed, Told
    <3>4. ~(x > issued) /\ ~(x > issued')
      BY <2>2, <3>2
    <3>5. Stage(x) = "claimed" /\ Stage(x)' = "ordered"
      BY <2>2, <3>2, <3>3, <3>4 DEF Stage, Claimed, Told
    <3>6. Contract!Order(x)
      BY <2>3, <3>1, <3>5, Moves DEF Contract!Order
    <3> QED
      BY <3>1, <3>6 DEF Contract!Next
  <2> QED
    BY <2>4, <2>5
<1> QED
  BY <1>1, <1>2, <1>3, <1>4, <1>5, <1>6, <1>7, <1>8 DEF Kinds

\* Checkout keeps the contract of CartLine: every step of a request or of the
\* shopper is a step of the contract, or changes nothing of it.
THEOREM CartLineIsImplemented == Spec => CartLineSpec
<1>1. Init => Contract!Init
  <2> SUFFICES ASSUME Init, NEW l \in Lines PROVE Stage(l) = "new"
    BY DEF Contract!Init
  <2>1. l > issued
    BY LinesAreNumbers, CheckoutAssumption DEF Init, Lines
  <2> QED
    BY <2>1 DEF Stage
<1>2. TypeInv /\ CustodyInv /\ CustodyInv' /\ [Next]_vars =>
        [Contract!Next]_([l \in Lines |-> Stage(l)])
  BY StepKinds, LineStep
<1> QED
  BY <1>1, <1>2, TypeAlways, CustodyAlways, PTL DEF Spec, CartLineSpec, Contract!Spec

-----------------------------------------------------------------------------
(* Totals                                                                  *)

\* A set of subsets of a finite set has a smallest one: what stands for induction.
LEMMA SmallestSubset ==
  ASSUME NEW S, IsFiniteSet(S), NEW Q, Q \subseteq SUBSET S, Q # {}
  PROVE  \E T \in Q : \A U \in Q : U \subseteq T => U = T
<1>1. IsWellFoundedOn(StrictSubsetOrdering(S), SUBSET S)
  BY FS_StrictSubsetOrderingWellFounded, FS_FiniteSubsetsOfFinite
<1>2. PICK T \in Q : \A U \in Q : <<U, T>> \notin StrictSubsetOrdering(S)
  BY <1>1, WFMin
<1>3. ASSUME NEW U \in Q, U \subseteq T
      PROVE  U = T
  BY <1>2, <1>3 DEF StrictSubsetOrdering
<1> QED
  BY <1>3

Pick(s) == CHOOSE x \in s : TRUE
IsIter(i, f, S) ==
  i = [s \in SUBSET S |-> IF s = {} THEN 0 ELSE f[Pick(s)] + i[s \ {Pick(s)}]]

LEMMA PickIs == ASSUME NEW s, s # {} PROVE Pick(s) \in s
  BY DEF Pick

LEMMA TotalIs ==
  ASSUME NEW f, NEW S
  PROVE  Total(f, S) = (CHOOSE i : IsIter(i, f, S))[S]
  BY DEF Total, MapThenSumSet, MapThenFoldSet, IsIter, Pick

LEMMA IterStep ==
  ASSUME NEW f, NEW S, NEW i, IsIter(i, f, S), NEW s \in SUBSET S
  PROVE  i[s] = IF s = {} THEN 0 ELSE f[Pick(s)] + i[s \ {Pick(s)}]
<1> DEFINE F == [z \in SUBSET S |-> IF z = {} THEN 0 ELSE f[Pick(z)] + i[z \ {Pick(z)}]]
<1>1. i = F
  BY DEF IsIter
<1>2. F[s] = IF s = {} THEN 0 ELSE f[Pick(s)] + i[s \ {Pick(s)}]
  OBVIOUS
<1> QED
  BY <1>1, <1>2

\* The sums over two sets agree on what they share.
LEMMA ItersAgree ==
  ASSUME NEW f, NEW S, IsFiniteSet(S), NEW T \in SUBSET S,
         NEW i, IsIter(i, f, S), NEW j, IsIter(j, f, T)
  PROVE  \A U \in SUBSET T : i[U] = j[U]
<1> DEFINE Q == {U \in SUBSET T : i[U] # j[U]}
<1> SUFFICES ASSUME Q # {} PROVE FALSE
  OBVIOUS
<1>1. PICK U \in Q : \A V \in Q : V \subseteq U => V = U
  <2>1. Q \subseteq SUBSET S
    OBVIOUS
  <2> HIDE DEF Q
  <2> QED
    BY <2>1, SmallestSubset
<1>2. U \in SUBSET T /\ U \in SUBSET S /\ i[U] # j[U]
  OBVIOUS
<1>3. CASE U = {}
  BY <1>2, <1>3, IterStep
<1>4. CASE U # {}
  <2> DEFINE V == U \ {Pick(U)}
  <2>1. V \in SUBSET T /\ V \subseteq U /\ V # U
    BY <1>2, <1>4, PickIs
  <2>2. i[V] = j[V]
    BY <1>1, <2>1
  <2>3. i[U] = f[Pick(U)] + i[V] /\ j[U] = f[Pick(U)] + j[V]
    BY <1>2, <1>4, IterStep
  <2> QED
    BY <1>2, <2>2, <2>3
<1> QED
  BY <1>3, <1>4

LEMMA IterOfTotal ==
  ASSUME NEW f, NEW S, IsFiniteSet(S), NEW i, IsIter(i, f, S), NEW T \in SUBSET S,
         \E j : IsIter(j, f, T)
  PROVE  i[T] = Total(f, T)
<1> DEFINE j == CHOOSE k : IsIter(k, f, T)
<1>1. IsIter(j, f, T)
  OBVIOUS
<1>2. Total(f, T) = j[T]
  BY TotalIs
<1> HIDE DEF j
<1>3. i[T] = j[T]
  BY <1>1, ItersAgree
<1> QED
  BY <1>2, <1>3

LEMMA IterExists ==
  ASSUME NEW f, NEW S, IsFiniteSet(S)
  PROVE  \A T \in SUBSET S : \E i : IsIter(i, f, T)
<1> DEFINE Q == {T \in SUBSET S : ~ \E i : IsIter(i, f, T)}
<1> SUFFICES ASSUME Q # {} PROVE FALSE
  OBVIOUS
<1>1. PICK T \in Q : \A V \in Q : V \subseteq T => V = T
  <2>1. Q \subseteq SUBSET S
    OBVIOUS
  <2> HIDE DEF Q
  <2> QED
    BY <2>1, SmallestSubset
<1>2. T \in SUBSET S /\ IsFiniteSet(T) /\ ~ \E i : IsIter(i, f, T)
  BY FS_Subset
<1>3. \A U \in SUBSET T : U # T => \E i : IsIter(i, f, U)
  BY <1>1, <1>2
<1> DEFINE i == [s \in SUBSET T |-> IF s = {} THEN 0
                                    ELSE f[Pick(s)] + Total(f, s \ {Pick(s)})]
           F == [s \in SUBSET T |-> IF s = {} THEN 0 ELSE f[Pick(s)] + i[s \ {Pick(s)}]]
<1>4. ASSUME NEW U \in SUBSET T, U # T
      PROVE  i[U] = Total(f, U)
  <2>1. PICK j : IsIter(j, f, U)
    BY <1>3, <1>4
  <2>2. IsFiniteSet(U)
    BY <1>2, FS_Subset
  <2>3. Total(f, U) = j[U]
    BY <2>1, <2>2, IterOfTotal
  <2>4. CASE U = {}
    BY <2>1, <2>3, <2>4, IterStep
  <2>5. CASE U # {}
    <3> DEFINE V == U \ {Pick(U)}
    <3>1. V \in SUBSET U /\ V # U /\ V \in SUBSET T /\ V # T
      BY <1>4, <2>5, PickIs
    <3>2. j[U] = f[Pick(U)] + j[V]
      BY <2>1, <2>5, IterStep
    <3>3. j[V] = Total(f, V)
      BY <1>3, <2>1, <2>2, <3>1, IterOfTotal
    <3>4. i[U] = f[Pick(U)] + Total(f, V)
      BY <2>5
    <3> QED
      BY <2>3, <3>2, <3>3, <3>4
  <2> QED
    BY <2>4, <2>5
<1>5. ASSUME NEW s \in SUBSET T
      PROVE  i[s] = F[s]
  <2>1. CASE s = {}
    BY <2>1
  <2>2. CASE s # {}
    <3>1. s \ {Pick(s)} \in SUBSET T /\ s \ {Pick(s)} # T
      BY <2>2, PickIs
    <3>2. i[s \ {Pick(s)}] = Total(f, s \ {Pick(s)})
      BY <1>4, <3>1
    <3> QED
      BY <2>2, <3>2
  <2> QED
    BY <2>1, <2>2
<1>6. i = F
  BY <1>5
<1>7. IsIter(i, f, T)
  BY <1>6 DEF IsIter
<1> QED
  BY <1>2, <1>7

LEMMA TotalEmpty ==
  ASSUME NEW f PROVE Total(f, {}) = 0
<1>1. IsFiniteSet({})
  BY FS_EmptySet
<1>2. PICK i : IsIter(i, f, {})
  BY <1>1, IterExists
<1> QED
  BY <1>1, <1>2, IterStep, IterOfTotal

LEMMA TotalPick ==
  ASSUME NEW f, NEW S, IsFiniteSet(S), S # {}
  PROVE  Total(f, S) = f[Pick(S)] + Total(f, S \ {Pick(S)})
<1>1. PICK i : IsIter(i, f, S)
  BY IterExists
<1>2. ASSUME NEW T \in SUBSET S
      PROVE  i[T] = Total(f, T)
  <2>1. \E j : IsIter(j, f, T)
    BY IterExists
  <2> QED
    BY <1>1, <2>1, IterOfTotal
<1>3. i[S] = f[Pick(S)] + i[S \ {Pick(S)}]
  BY <1>1, IterStep
<1>4. i[S] = Total(f, S) /\ i[S \ {Pick(S)}] = Total(f, S \ {Pick(S)})
  BY <1>2
<1> QED
  BY <1>3, <1>4

Naturally(f, S) == \A x \in S : f[x] \in Nat

LEMMA TotalIsNatural ==
  ASSUME NEW f, NEW S, IsFiniteSet(S), Naturally(f, S)
  PROVE  \A T \in SUBSET S : Total(f, T) \in Nat
<1> DEFINE Q == {T \in SUBSET S : Total(f, T) \notin Nat}
<1> SUFFICES ASSUME Q # {} PROVE FALSE
  OBVIOUS
<1>1. PICK T \in Q : \A V \in Q : V \subseteq T => V = T
  <2>1. Q \subseteq SUBSET S
    OBVIOUS
  <2> HIDE DEF Q
  <2> QED
    BY <2>1, SmallestSubset
<1>2. T \in SUBSET S /\ IsFiniteSet(T) /\ Total(f, T) \notin Nat
  BY FS_Subset
<1>3. T # {}
  BY <1>2, TotalEmpty
<1>4. Pick(T) \in T /\ T \ {Pick(T)} \in SUBSET S
  BY <1>2, <1>3, PickIs
<1>5. Total(f, T \ {Pick(T)}) \in Nat
  BY <1>1, <1>4
<1>6. Total(f, T) = f[Pick(T)] + Total(f, T \ {Pick(T)})
  BY <1>2, <1>3, TotalPick
<1> QED
  BY <1>2, <1>4, <1>5, <1>6 DEF Naturally

\* Any member may be taken out of the total.
LEMMA TotalTake ==
  ASSUME NEW f, NEW S, IsFiniteSet(S), Naturally(f, S), NEW y \in S
  PROVE  Total(f, S) = f[y] + Total(f, S \ {y})
<1> DEFINE Q == {T \in SUBSET S : \E x \in T : Total(f, T) # f[x] + Total(f, T \ {x})}
<1> SUFFICES ASSUME Q # {} PROVE FALSE
  OBVIOUS
<1>1. PICK T \in Q : \A V \in Q : V \subseteq T => V = T
  <2>1. Q \subseteq SUBSET S
    OBVIOUS
  <2> HIDE DEF Q
  <2> QED
    BY <2>1, SmallestSubset
<1>2. T \in SUBSET S /\ IsFiniteSet(T) /\ T # {}
  BY FS_Subset
<1>3. PICK x \in T : Total(f, T) # f[x] + Total(f, T \ {x})
  OBVIOUS
<1> DEFINE p == Pick(T)
<1>4. p \in T /\ Total(f, T) = f[p] + Total(f, T \ {p}) /\ p # x
  BY <1>2, <1>3, PickIs, TotalPick
<1> DEFINE U == T \ {p}
           V == T \ {x}
<1>5. U \in SUBSET S /\ U # T /\ V \in SUBSET S /\ V # T /\ x \in U /\ p \in V
  BY <1>2, <1>3, <1>4
<1>6. Total(f, U) = f[x] + Total(f, U \ {x})
  BY <1>1, <1>5
<1>7. Total(f, V) = f[p] + Total(f, V \ {p})
  BY <1>1, <1>5
<1>8. U \ {x} = V \ {p}
  OBVIOUS
<1>9. f[x] \in Nat /\ f[p] \in Nat /\ Total(f, U \ {x}) \in Nat
  <2>1. U \ {x} \in SUBSET S
    BY <1>2
  <2>2. Total(f, U \ {x}) \in Nat
    BY <2>1, TotalIsNatural
  <2> QED
    BY <1>2, <1>3, <1>4, <2>2 DEF Naturally
<1>10. /\ Total(f, T) = f[p] + Total(f, U) /\ Total(f, T) # f[x] + Total(f, V)
       /\ Total(f, U \ {x}) = Total(f, V \ {p})
  BY <1>3, <1>4, <1>8
<1> DEFINE n == Total(f, U \ {x})
<1>11. /\ Total(f, T) = f[p] + (f[x] + n) /\ Total(f, T) # f[x] + (f[p] + n)
       /\ n \in Nat /\ f[x] \in Nat /\ f[p] \in Nat
  BY <1>6, <1>7, <1>9, <1>10
<1> HIDE DEF n, p
<1> QED
  BY <1>11

\* A total depends only on the values at the members, and grows with these.
LEMMA TotalGrows ==
  ASSUME NEW f, NEW g, NEW S, IsFiniteSet(S), Naturally(f, S), Naturally(g, S),
         \A x \in S : f[x] <= g[x]
  PROVE  Total(f, S) <= Total(g, S)
<1> DEFINE Q == {T \in SUBSET S : ~(Total(f, T) <= Total(g, T))}
<1> SUFFICES ASSUME Q # {} PROVE FALSE
  OBVIOUS
<1>1. PICK T \in Q : \A V \in Q : V \subseteq T => V = T
  <2>1. Q \subseteq SUBSET S
    OBVIOUS
  <2> HIDE DEF Q
  <2> QED
    BY <2>1, SmallestSubset
<1>2. T \in SUBSET S /\ IsFiniteSet(T) /\ ~(Total(f, T) <= Total(g, T))
  BY FS_Subset
<1>7. T # {}
  BY <1>2, TotalEmpty
<1> DEFINE p == Pick(T)
           U == T \ {p}
<1>3. p \in T /\ p \in S /\ U \in SUBSET S /\ U # T
  BY <1>7, <1>2, PickIs
<1>4. Total(f, U) <= Total(g, U)
  BY <1>1, <1>3
<1>5. Total(f, T) = f[p] + Total(f, U) /\ Total(g, T) = g[p] + Total(g, U)
  BY <1>7, <1>2, TotalPick
<1>6. Total(f, U) \in Nat /\ Total(g, U) \in Nat /\ f[p] \in Nat /\ g[p] \in Nat /\ f[p] <= g[p]
  BY <1>3, TotalIsNatural DEF Naturally
<1> HIDE DEF p, U
<1> QED
  BY <1>2, <1>4, <1>5, <1>6

LEMMA TotalSame ==
  ASSUME NEW f, NEW g, NEW S, IsFiniteSet(S), Naturally(f, S), \A x \in S : f[x] = g[x]
  PROVE  Total(f, S) = Total(g, S)
<1>1. Naturally(g, S) /\ (\A x \in S : f[x] <= g[x]) /\ (\A x \in S : g[x] <= f[x])
  BY DEF Naturally
<1>2. Total(f, S) <= Total(g, S) /\ Total(g, S) <= Total(f, S)
  BY <1>1, TotalGrows
<1>3. Total(f, S) \in Nat /\ Total(g, S) \in Nat
  BY <1>1, TotalIsNatural
<1> QED
  BY <1>2, <1>3

LEMMA TotalOfSubset ==
  ASSUME NEW f, NEW S, IsFiniteSet(S), Naturally(f, S), NEW A \in SUBSET S
  PROVE  Total(f, A) <= Total(f, S)
<1> DEFINE Q == {T \in SUBSET S : A \subseteq T /\ ~(Total(f, A) <= Total(f, T))}
<1> SUFFICES ASSUME Q # {} PROVE FALSE
  BY TotalIsNatural
<1>1. PICK T \in Q : \A V \in Q : V \subseteq T => V = T
  <2>1. Q \subseteq SUBSET S
    OBVIOUS
  <2> HIDE DEF Q
  <2> QED
    BY <2>1, SmallestSubset
<1>2. T \in SUBSET S /\ IsFiniteSet(T) /\ A \subseteq T /\ ~(Total(f, A) <= Total(f, T))
  BY FS_Subset
<1>3. Total(f, A) \in Nat /\ Total(f, T) \in Nat
  BY <1>2, TotalIsNatural
<1>4. PICK x \in T : x \notin A
  BY <1>2, <1>3
<1> DEFINE U == T \ {x}
<1>5. U \in SUBSET S /\ U # T /\ A \subseteq U
  BY <1>2, <1>4
<1>6. Total(f, A) <= Total(f, U) /\ Total(f, U) \in Nat
  BY <1>1, <1>5, TotalIsNatural
<1>7. Naturally(f, T) /\ f[x] \in Nat
  BY <1>2 DEF Naturally
<1>8. Total(f, T) = f[x] + Total(f, U)
  BY <1>2, <1>7, TotalTake
<1> HIDE DEF U
<1> QED
  BY <1>2, <1>3, <1>6, <1>7, <1>8

LEMMA TotalIsBounded ==
  ASSUME NEW f, NEW S, IsFiniteSet(S), NEW m \in Nat, Naturally(f, S),
         \A x \in S : f[x] <= m
  PROVE  Total(f, S) <= Cardinality(S) * m
<1> DEFINE Q == {T \in SUBSET S : ~(Total(f, T) <= Cardinality(T) * m)}
<1> SUFFICES ASSUME Q # {} PROVE FALSE
  OBVIOUS
<1>1. PICK T \in Q : \A V \in Q : V \subseteq T => V = T
  <2>1. Q \subseteq SUBSET S
    OBVIOUS
  <2> HIDE DEF Q
  <2> QED
    BY <2>1, SmallestSubset
<1>2. T \in SUBSET S /\ IsFiniteSet(T) /\ ~(Total(f, T) <= Cardinality(T) * m)
  BY FS_Subset
<1>3. T # {}
  BY <1>2, TotalEmpty, FS_EmptySet
<1> DEFINE p == Pick(T)
           U == T \ {p}
           n == Cardinality(U)
<1>4. p \in T /\ U \in SUBSET S /\ U # T
  BY <1>2, <1>3, PickIs
<1>5. Total(f, U) <= n * m
  BY <1>1, <1>4
<1>6. Total(f, T) = f[p] + Total(f, U) /\ Total(f, U) \in Nat /\ f[p] \in Nat /\ f[p] <= m
  BY <1>2, <1>3, <1>4, TotalPick, TotalIsNatural DEF Naturally
<1>7. n \in Nat /\ Cardinality(T) = n + 1
  <2>1. IsFiniteSet(U) /\ n = Cardinality(T) - 1
    BY <1>2, <1>4, FS_RemoveElement
  <2>2. n \in Nat /\ Cardinality(T) \in Nat
    BY <1>2, <2>1, FS_CardinalityType
  <2> HIDE DEF n
  <2> QED
    BY <2>1, <2>2
<1>8. (n + 1) * m = n * m + m /\ n * m \in Nat
  <2> HIDE DEF n
  <2> QED
    BY <1>7
<1> HIDE DEF p, U, n
<1> QED
  BY <1>2, <1>5, <1>6, <1>7, <1>8

-----------------------------------------------------------------------------
(* The budget                                                              *)

\* A request counts while it has passed the gate and not inserted its order.
Flying(w) == w.pc = "insert" /\ w.gated
Load(w) == IF Flying(w) THEN w.quantity ELSE 0

\* No line, and no request that was asked about, exceeds the limits it passed.
Small(w) ==
  /\ w.quantity <= MaxQuantity
  /\ \A l \in Lines : w.owned[l] <= MaxQuantity
  /\ Flying(w) => w.quantity <= Budget

SmallLines ==
  /\ \A l \in Lines : cart[l] <= MaxQuantity
  /\ \A r \in Requests : Small(req[r])

BudgetInv == SmallLines /\ OvershootIsBounded

Carried == [r \in Requests |-> req[r].quantity]
Flight == {r \in Requests : Flying(req[r])}
GatedOrders == {o \in DOMAIN orders : orders[o].gated /\ Counts(o)}
CommittedOrders == {o \in DOMAIN orders : Counts(o)}

LEMMA Loads ==
  ASSUME TypeOK
  PROVE  /\ Naturally(Carried, Requests) /\ IsFiniteSet(Requests)
         /\ Flight \in SUBSET Requests /\ InFlight = Total(Carried, Flight)
<1>1. \A r \in Requests : req[r] \in ReqType
  BY DEF TypeOK
<1>2. Naturally(Carried, Requests)
  BY <1>1 DEF Naturally, Carried, ReqType
<1>3. {r \in Requests : At(r, "insert") /\ req[r].gated} = Flight
  BY DEF Flight, Flying, At
<1> QED
  BY <1>2, <1>3, CheckoutAssumption DEF Flight, InFlight, Carried

\* What the other requests carry, and what one of them adds.
Rest(r) == Total(Carried, Flight \ {r})

LEMMA LoadSplits ==
  ASSUME TypeOK, NEW r \in Requests
  PROVE  InFlight = Rest(r) + Load(req[r]) /\ Rest(r) \in Nat /\ Load(req[r]) \in Nat
<1>1. /\ Naturally(Carried, Requests) /\ IsFiniteSet(Requests)
      /\ Flight \in SUBSET Requests /\ InFlight = Total(Carried, Flight)
  BY Loads
<1>2. Naturally(Carried, Flight) /\ IsFiniteSet(Flight) /\ Flight \ {r} \in SUBSET Requests
  BY <1>1, FS_Subset DEF Naturally
<1>3. Rest(r) \in Nat
  BY <1>1, <1>2, TotalIsNatural DEF Rest
<1>4. req[r].quantity \in Nat
  BY ReqTyped DEF ReqType
<1>5. CASE r \in Flight
  <2>1. Total(Carried, Flight) = Carried[r] + Rest(r)
    BY <1>2, <1>5, TotalTake DEF Rest
  <2> QED
    BY <1>1, <1>3, <1>4, <1>5, <2>1 DEF Carried, Flight, Load
<1>6. CASE r \notin Flight
  <2>1. Flight \ {r} = Flight
    BY <1>6
  <2>2. InFlight = Rest(r)
    BY <1>1, <2>1 DEF Rest
  <2>3. Load(req[r]) = 0
    BY <1>6 DEF Flight, Load
  <2> QED
    BY <1>3, <2>2, <2>3
<1> QED
  BY <1>5, <1>6

LEMMA LeastOfTwo ==
  /\ Min({Budget, MaxQuantity}) \in Nat
  /\ \A q \in Nat : q <= Budget /\ q <= MaxQuantity => q <= Min({Budget, MaxQuantity})
<1>1. Budget \in Nat /\ MaxQuantity \in Nat
  BY CheckoutAssumption
<1>2. \E x \in {Budget, MaxQuantity} : \A y \in {Budget, MaxQuantity} : x <= y
  BY <1>1
<1>3. Min({Budget, MaxQuantity}) \in {Budget, MaxQuantity}
  BY <1>2 DEF Min
<1> QED
  BY <1>1, <1>3

\* Each of the others carries no more than a line that fits the budget.
LEMMA RestIsBounded ==
  ASSUME TypeOK, SmallLines, NEW r \in Requests
  PROVE  /\ Rest(r) <= (Cardinality(Requests) - 1) * Min({Budget, MaxQuantity})
         /\ (Cardinality(Requests) - 1) * Min({Budget, MaxQuantity}) \in Nat
<1> DEFINE m == Min({Budget, MaxQuantity})
           F == Flight \ {r}
           n == Cardinality(Requests) - 1
<1>1. m \in Nat /\ \A q \in Nat : q <= Budget /\ q <= MaxQuantity => q <= m
  BY LeastOfTwo
<1>2. /\ Naturally(Carried, Requests) /\ IsFiniteSet(Requests) /\ Flight \in SUBSET Requests
  BY Loads
<1>3. IsFiniteSet(Requests \ {r}) /\ Cardinality(Requests \ {r}) = n
  BY <1>2, FS_RemoveElement
<1>4. F \in SUBSET (Requests \ {r})
  BY <1>2
<1>5. n \in Nat
  BY <1>3, FS_CardinalityType
<1>6. IsFiniteSet(F) /\ Cardinality(F) <= n /\ Cardinality(F) \in Nat
  BY <1>3, <1>4, FS_Subset, FS_CardinalityType
<1>7. Naturally(Carried, F) /\ \A x \in F : Carried[x] <= m
  <2>1. ASSUME NEW x \in F
        PROVE  Carried[x] \in Nat /\ Carried[x] <= m
    <3>1. x \in Requests /\ Flying(req[x]) /\ Small(req[x])
      BY <2>1 DEF SmallLines, Flight
    <3>2. Carried[x] = req[x].quantity /\ Carried[x] \in Nat
      BY <1>2, <3>1 DEF Carried, Naturally
    <3> HIDE DEF m
    <3> QED
      BY <1>1, <3>1, <3>2 DEF Small
  <2> QED
    BY <2>1 DEF Naturally
<1> HIDE DEF m, F, n
<1>8. Total(Carried, F) <= Cardinality(F) * m
  BY <1>1, <1>6, <1>7, TotalIsBounded
<1>9. Cardinality(F) * m <= n * m /\ Cardinality(F) * m \in Nat /\ n * m \in Nat
  BY <1>1, <1>5, <1>6
<1>10. Total(Carried, F) \in Nat
  <2>1. F \in SUBSET Requests
    BY <1>2 DEF F
  <2> QED
    BY <1>2, <2>1, TotalIsNatural
<1> QED
  BY <1>8, <1>9, <1>10 DEF m, F, n, Rest

LEMMA OrderSums ==
  ASSUME TypeOK
  PROVE  /\ Naturally(Amounts, DOMAIN orders) /\ IsFiniteSet(DOMAIN orders)
         /\ GatedOrders \in SUBSET CommittedOrders /\ CommittedOrders \in SUBSET DOMAIN orders
         /\ Gated = Total(Amounts, GatedOrders)
         /\ Gated \in Nat /\ Committed \in Nat /\ Gated <= Committed
<1>1. orders \in Seq(OrderType)
  BY DEF TypeOK
<1>2. DOMAIN orders = 1 .. Len(orders) /\ Len(orders) \in Nat
  BY <1>1
<1>3. IsFiniteSet(DOMAIN orders)
  BY <1>2, FS_Interval
<1>4. \A o \in DOMAIN orders : orders[o] \in OrderType
  BY <1>1, <1>2
<1>5. Naturally(Amounts, DOMAIN orders)
  BY <1>4 DEF Naturally, Amounts, OrderType
<1>6. GatedOrders \in SUBSET CommittedOrders /\ CommittedOrders \in SUBSET DOMAIN orders
  BY DEF GatedOrders, CommittedOrders
<1>7. Gated = Total(Amounts, GatedOrders) /\ Committed = Total(Amounts, CommittedOrders)
  BY DEF Gated, GatedOrders, Committed, CommittedOrders
<1>8. IsFiniteSet(CommittedOrders) /\ Naturally(Amounts, CommittedOrders)
  BY <1>3, <1>5, <1>6, FS_Subset DEF Naturally
<1>9. Gated <= Committed
  BY <1>6, <1>7, <1>8, TotalOfSubset
<1>10. Gated \in Nat /\ Committed \in Nat
  BY <1>3, <1>5, <1>6, <1>7, TotalIsNatural
<1> QED
  BY <1>3, <1>5, <1>6, <1>7, <1>9, <1>10

\* What holds of the sums in every typed state holds of the next one.
SumsHold ==
  /\ Naturally(Amounts, DOMAIN orders) /\ IsFiniteSet(DOMAIN orders)
  /\ GatedOrders \in SUBSET DOMAIN orders
  /\ Gated = Total(Amounts, GatedOrders) /\ Gated \in Nat
  /\ \A r \in Requests :
       InFlight = Rest(r) + Load(req[r]) /\ Rest(r) \in Nat /\ Load(req[r]) \in Nat

LEMMA SumsOfState == TypeOK => SumsHold
BY OrderSums, LoadSplits DEF SumsHold

LEMMA SumsOfNext == TypeOK' => SumsHold'
BY SumsOfState, PTL

-----------------------------------------------------------------------------
(* What a step does to the budget                                          *)

\* No order is added or counts again.
OrdersShrink ==
  /\ DOMAIN orders' = DOMAIN orders
  /\ \A o \in DOMAIN orders : orders'[o].quantity = orders[o].quantity
  /\ GatedOrders' \subseteq GatedOrders

LEMMA ShrunkGated ==
  ASSUME TypeOK, TypeOK', OrdersShrink
  PROVE  Gated' <= Gated
<1>1. /\ Naturally(Amounts, DOMAIN orders) /\ IsFiniteSet(DOMAIN orders)
      /\ GatedOrders \in SUBSET DOMAIN orders /\ Gated = Total(Amounts, GatedOrders)
  BY OrderSums
<1>2. Gated' = Total(Amounts', GatedOrders')
  BY DEF Gated, GatedOrders
<1>3. \A o \in DOMAIN orders : Amounts'[o] = Amounts[o]
  BY DEF OrdersShrink, Amounts
<1>4. GatedOrders' \in SUBSET GatedOrders
  BY DEF OrdersShrink
<1>5. /\ IsFiniteSet(GatedOrders) /\ IsFiniteSet(GatedOrders')
      /\ Naturally(Amounts, GatedOrders) /\ Naturally(Amounts, GatedOrders')
  BY <1>1, <1>4, FS_Subset DEF Naturally
<1>6. Total(Amounts, GatedOrders') <= Total(Amounts, GatedOrders)
  BY <1>4, <1>5, TotalOfSubset
<1>7. Total(Amounts, GatedOrders') = Total(Amounts', GatedOrders')
  <2>1. \A o \in GatedOrders' : Amounts[o] = Amounts'[o]
    BY <1>1, <1>3, <1>4
  <2> QED
    BY <1>5, <2>1, TotalSame
<1> QED
  BY <1>1, <1>2, <1>6, <1>7

\* The step is that of one request, or of none.
Alone(r) == \A q \in Requests \ {r} : req'[q] = req[q]

LEMMA RestStays ==
  ASSUME TypeOK, TypeOK', NEW r \in Requests, Alone(r)
  PROVE  Rest(r)' = Rest(r)
<1> DEFINE F == Flight \ {r}
<1>1. /\ Naturally(Carried, Requests) /\ IsFiniteSet(Requests) /\ Flight \in SUBSET Requests
  BY Loads
<1>2. Flight' \ {r} = F
  BY DEF Flight, Alone
<1>3. F \in SUBSET Requests /\ \A q \in F : Carried[q] = Carried'[q]
  BY <1>1 DEF Alone, Carried
<1>4. IsFiniteSet(F) /\ Naturally(Carried, F)
  BY <1>1, <1>3, FS_Subset DEF Naturally
<1>5. Total(Carried, F) = Total(Carried', F)
  BY <1>3, <1>4, TotalSame
<1> QED
  BY <1>2, <1>5 DEF Rest

\* A request that does not come through the gate adds nothing.
LEMMA ShrinkStep ==
  ASSUME TypeOK, TypeOK', OvershootIsBounded, OrdersShrink,
         NEW r \in Requests, Alone(r), ~Flying(req'[r])
  PROVE  OvershootIsBounded'
<1>1. InFlight = Rest(r) + Load(req[r]) /\ Rest(r) \in Nat /\ Load(req[r]) \in Nat
  BY LoadSplits
<1>2. InFlight' = Rest(r)' + Load(req'[r]) /\ Rest(r)' \in Nat
  BY SumsOfNext DEF SumsHold, Load, Flying
<1>3. Load(req'[r]) = 0
  BY DEF Load
<1>4. Rest(r)' = Rest(r) /\ Gated' <= Gated /\ Gated \in Nat /\ Gated' \in Nat
  BY RestStays, ShrunkGated, SumsOfState, SumsOfNext DEF SumsHold
<1> DEFINE bound == Budget + (Cardinality(Requests) - 1) * Min({Budget, MaxQuantity})
<1>5. Gated + InFlight <= bound
  BY DEF OvershootIsBounded
<1>6. bound \in Int
  <2>1. Cardinality(Requests) \in Nat
    BY CheckoutAssumption, FS_CardinalityType
  <2> QED
    BY <2>1, LeastOfTwo, CheckoutAssumption
<1> HIDE DEF bound
<1>7. Gated' + InFlight' <= bound
  BY <1>1, <1>2, <1>3, <1>4, <1>5, <1>6
<1> QED
  BY <1>7 DEF OvershootIsBounded, bound

\* A request that does come through finds what it carries inside the budget.
LEMMA GateStep ==
  ASSUME TypeOK, TypeOK', SmallLines, UNCHANGED orders,
         NEW r \in Requests, Alone(r), NEW q \in Nat, ~Blocked(q), Load(req'[r]) <= q
  PROVE  OvershootIsBounded'
<1> DEFINE spread == (Cardinality(Requests) - 1) * Min({Budget, MaxQuantity})
<1>1. Rest(r) <= spread /\ spread \in Nat /\ Rest(r) \in Nat
  BY RestIsBounded, LoadSplits
<1>2. InFlight' = Rest(r)' + Load(req'[r]) /\ Load(req'[r]) \in Nat
  BY SumsOfNext DEF SumsHold, Load, Flying
<1>3. Rest(r)' = Rest(r)
  BY RestStays
<1>4. Gated' = Gated
  BY DEF Gated, Amounts, Counts
<1>5. Gated \in Nat /\ Committed \in Nat /\ Gated <= Committed
  BY OrderSums
<1>6. Committed + q <= Budget
  BY <1>5, CheckoutAssumption DEF Blocked
<1> HIDE DEF spread
<1>7. Gated' + InFlight' <= Budget + spread
  BY <1>1, <1>2, <1>3, <1>4, <1>5, <1>6, CheckoutAssumption
<1> QED
  BY <1>7 DEF OvershootIsBounded, spread

\* An order is counted instead of the request that inserts it.
LEMMA InsertStep ==
  ASSUME TypeOK, TypeOK', OvershootIsBounded, NEW r \in Requests, InsertOrder(r)
  PROVE  OvershootIsBounded'
<1> DEFINE n == Len(orders) + 1
           o == [line |-> req[r].line, quantity |-> req[r].quantity, gated |-> req[r].gated,
                 direct |-> req[r].admin,
                 status |-> IF req[r].admin THEN "provisioning" ELSE "pending", told |-> FALSE]
<1>1. orders' = Append(orders, o) /\ req[r].pc = "insert"
  BY DEF InsertOrder, At
<1>2. /\ o.quantity = req[r].quantity /\ o.gated = req[r].gated
      /\ o.status \in CommittedStatuses
  BY DEF CommittedStatuses
<1>3. Alone(r) /\ req'[r].pc \in {"start", "notify"}
  BY DEF InsertOrder, Alone, TypeOK, ReqType
<1> HIDE DEF o
<1>4. orders \in Seq(OrderType)
  BY DEF TypeOK
<1>5. /\ DOMAIN orders' = DOMAIN orders \union {n} /\ n \notin DOMAIN orders
      /\ orders'[n] = o /\ \A m \in DOMAIN orders : orders'[m] = orders[m]
  BY <1>1, <1>4
<1> HIDE DEF n
<1>6. /\ Naturally(Amounts', DOMAIN orders') /\ IsFiniteSet(DOMAIN orders')
      /\ GatedOrders' \in SUBSET DOMAIN orders' /\ Gated' = Total(Amounts', GatedOrders')
      /\ Gated' \in Nat
  BY SumsOfNext DEF SumsHold
<1>7. /\ Naturally(Amounts, DOMAIN orders) /\ IsFiniteSet(DOMAIN orders)
      /\ GatedOrders \in SUBSET DOMAIN orders /\ Gated = Total(Amounts, GatedOrders)
      /\ Gated \in Nat
  BY OrderSums
<1>8. GatedOrders' = GatedOrders \union (IF req[r].gated THEN {n} ELSE {})
  BY <1>2, <1>5 DEF GatedOrders, Counts
<1>9. \A m \in GatedOrders : Amounts[m] = Amounts'[m]
  BY <1>5, <1>7 DEF Amounts
<1>10. Total(Amounts, GatedOrders) = Total(Amounts', GatedOrders)
  <2>1. IsFiniteSet(GatedOrders) /\ Naturally(Amounts, GatedOrders)
    BY <1>7, FS_Subset DEF Naturally
  <2> QED
    BY <1>9, <2>1, TotalSame
<1>11. Gated' = Gated + Load(req[r])
  <2>1. CASE req[r].gated
    <3>1. n \in GatedOrders' /\ GatedOrders' \ {n} = GatedOrders
      BY <1>5, <1>7, <1>8, <2>1
    <3>2. IsFiniteSet(GatedOrders') /\ Naturally(Amounts', GatedOrders')
      BY <1>6, FS_Subset DEF Naturally
    <3>3. Total(Amounts', GatedOrders') = Amounts'[n] + Total(Amounts', GatedOrders' \ {n})
      BY <3>1, <3>2, TotalTake
    <3>4. Amounts'[n] = req[r].quantity /\ Load(req[r]) = req[r].quantity
      BY <1>1, <1>2, <1>5, <2>1 DEF Amounts, Load, Flying
    <3>5. req[r].quantity \in Nat
      BY ReqTyped DEF ReqType
    <3>6. Gated' = Amounts'[n] + Gated
      BY <1>6, <1>7, <1>10, <3>1, <3>3
    <3> QED
      BY <1>7, <3>4, <3>5, <3>6
  <2>2. CASE ~req[r].gated
    <3>1. GatedOrders' = GatedOrders
      BY <1>8, <2>2
    <3>2. Load(req[r]) = 0
      BY <2>2 DEF Load, Flying
    <3> QED
      BY <1>6, <1>7, <1>10, <3>1, <3>2
  <2> QED
    BY <2>1, <2>2
<1>12. InFlight = Rest(r) + Load(req[r]) /\ Rest(r) \in Nat /\ Load(req[r]) \in Nat
  BY LoadSplits
<1>13. InFlight' = Rest(r)' + Load(req'[r]) /\ Rest(r)' = Rest(r) /\ Load(req'[r]) = 0
  BY <1>3, SumsOfNext, RestStays DEF SumsHold, Load, Flying
<1>14. Gated' + InFlight' = Gated + InFlight
  BY <1>7, <1>11, <1>12, <1>13
<1> QED
  BY <1>14 DEF OvershootIsBounded

-----------------------------------------------------------------------------
(* The lines stay small                                                    *)

LEMMA FreshIsSmall == Small(Fresh) /\ ~Flying(Fresh)
<1>1. 1 <= MaxQuantity /\ 0 <= MaxQuantity
  BY CheckoutAssumption
<1> QED
  BY <1>1 DEF Small, Flying, Fresh, NoLines

\* What follows an order is small and has yet to pass the gate.
LEMMA AfterIsSmall ==
  ASSUME TypeOK, NEW r \in Requests, Small(req[r]), NEW back \in SUBSET Lines
  PROVE  Small(After(r, back)) /\ ~Flying(After(r, back))
<1> DEFINE w == After(r, back)
<1>1. CASE Owned(r) = {}
  BY <1>1, FreshIsSmall DEF After
<1>2. CASE Owned(r) # {}
  <2>1. w = [Fresh EXCEPT !.pc = IF req[r].todo = {} THEN "restore" ELSE "gate",
                          !.owned = req[r].owned, !.admin = req[r].admin,
                          !.todo = req[r].todo, !.back = back]
    BY <1>2 DEF After
  <2>2. w.quantity = 1 /\ w.owned = req[r].owned /\ w.pc # "insert"
    BY <2>1 DEF Fresh
  <2>3. 1 <= MaxQuantity
    BY CheckoutAssumption
  <2> HIDE DEF w
  <2> QED
    BY <2>2, <2>3 DEF Small, Flying, w
<1> QED
  BY <1>1, <1>2

LEMMA FailedIsSmall ==
  ASSUME TypeOK, NEW r \in Requests, Small(req[r])
  PROVE  Small(Failed(r)) /\ ~Flying(Failed(r))
<1>1. req[r].back \union ({req[r].line} \ {NoLine}) \in SUBSET Lines
  BY ReqTyped DEF Custody
<1> QED
  BY <1>1, AfterIsSmall DEF Failed

\* The step of a request that leaves it small, and does not take it through the gate.
Settles(r) ==
  \E w : req' = [req EXCEPT ![r] = w] /\ Small(w) /\ ~Flying(w)

LEMMA SettledStep ==
  ASSUME TypeOK, TypeOK', BudgetInv, OrdersShrink, NEW r \in Requests, Settles(r),
         \A l \in Lines : cart'[l] <= MaxQuantity
  PROVE  BudgetInv'
<1>1. PICK w : req' = [req EXCEPT ![r] = w] /\ Small(w) /\ ~Flying(w)
  BY DEF Settles
<1>2. req'[r] = w /\ Alone(r)
  BY <1>1 DEF TypeOK, Alone
<1>3. OvershootIsBounded'
  BY <1>1, <1>2, ShrinkStep DEF BudgetInv
<1>4. \A q \in Requests : Small(req'[q])
  BY <1>1, <1>2 DEF Alone, BudgetInv, SmallLines
<1> QED
  BY <1>3, <1>4 DEF BudgetInv, SmallLines, Small, Flying

LEMMA SameOrdersShrink ==
  ASSUME UNCHANGED orders PROVE OrdersShrink
BY DEF OrdersShrink, GatedOrders, Counts

LEMMA CartIsSmall ==
  ASSUME TypeOK, SmallLines
  PROVE  /\ \A l \in Lines : cart[l] \in Nat /\ cart[l] <= MaxQuantity
         /\ \A r \in Requests, l \in Lines :
              req[r].owned[l] \in Nat /\ req[r].owned[l] <= MaxQuantity
         /\ 0 <= MaxQuantity
<1>1. \A r \in Requests : req[r] \in ReqType
  BY DEF TypeOK
<1> QED
  BY <1>1, CheckoutAssumption DEF TypeOK, SmallLines, Small, ReqType

\* A request is taken up, claims its lines, or puts them back.
LEMMA CartStep ==
  ASSUME TypeOK, TypeOK', BudgetInv, NEW r \in Requests,
         \/ \E S \in SUBSET Lines, admin \in BOOLEAN : ReadCart(r, S, admin)
         \/ \E q \in Quantities, admin \in BOOLEAN : PlaceOrder(r, q, admin)
         \/ ClaimLines(r) \/ Restore(r)
  PROVE  BudgetInv'
<1>1. SmallLines /\ Small(req[r]) /\ req[r] \in ReqType
  BY DEF BudgetInv, SmallLines, TypeOK
<1>2. ASSUME NEW S \in SUBSET Lines, NEW admin \in BOOLEAN, ReadCart(r, S, admin)
      PROVE  BudgetInv'
  <2> DEFINE owned == [l \in Lines |-> IF l \in S THEN cart[l] ELSE 0]
             w == [Fresh EXCEPT !.pc = "claim", !.owned = owned, !.admin = admin]
  <2>1. req' = [req EXCEPT ![r] = w] /\ UNCHANGED <<cart, orders>>
    BY <1>2 DEF ReadCart
  <2>2. \A l \in Lines : owned[l] <= MaxQuantity
    BY <1>1, CartIsSmall
  <2> HIDE DEF owned
  <2>3. w.owned = owned /\ w.pc = "claim" /\ w.quantity = Fresh.quantity
    BY DEF Fresh
  <2>4. Settles(r)
    <3> HIDE DEF w
    <3>1. Small(w) /\ ~Flying(w)
      BY <2>2, <2>3, FreshIsSmall DEF Small, Flying
    <3> QED
      BY <2>1, <3>1 DEF Settles
  <2>5. \A l \in Lines : cart'[l] <= MaxQuantity
    BY <1>1, <2>1, CartIsSmall
  <2> QED
    BY <2>1, <2>4, <2>5, SettledStep, SameOrdersShrink
<1>3. ASSUME NEW q \in Quantities, NEW admin \in BOOLEAN, PlaceOrder(r, q, admin)
      PROVE  BudgetInv'
  <2> DEFINE w == [Fresh EXCEPT !.pc = "gate", !.quantity = q, !.admin = admin]
  <2>1. req' = [req EXCEPT ![r] = w] /\ UNCHANGED <<cart, orders>>
    BY <1>3 DEF PlaceOrder
  <2>2. q <= MaxQuantity
    BY DEF Quantities
  <2>3. w.owned = Fresh.owned /\ w.pc = "gate" /\ w.quantity = q
    BY DEF Fresh
  <2>4. Settles(r)
    <3> HIDE DEF w
    <3>1. Small(w) /\ ~Flying(w)
      BY <2>2, <2>3, FreshIsSmall DEF Small, Flying
    <3> QED
      BY <2>1, <3>1 DEF Settles
  <2>5. \A l \in Lines : cart'[l] <= MaxQuantity
    BY <1>1, <2>1, CartIsSmall
  <2> QED
    BY <2>1, <2>4, <2>5, SettledStep, SameOrdersShrink
<1>4. CASE ClaimLines(r)
  <2> DEFINE w == IF Taken(r) = Owned(r)
                  THEN [req[r] EXCEPT !.pc = "gate", !.todo = Taken(r)]
                  ELSE [req[r] EXCEPT !.pc = "restore", !.back = Taken(r)]
  <2>1. /\ req' = [req EXCEPT ![r] = w] /\ UNCHANGED orders
        /\ cart' = [l \in Lines |-> IF l \in Owned(r) THEN 0 ELSE cart[l]]
    BY <1>4 DEF ClaimLines
  <2>2. w.owned = req[r].owned /\ w.quantity = req[r].quantity /\ w.pc # "insert"
    BY <1>1 DEF ReqType
  <2>3. Settles(r)
    <3> HIDE DEF w
    <3>1. Small(w) /\ ~Flying(w)
      BY <1>1, <2>2 DEF Small, Flying
    <3> QED
      BY <2>1, <3>1 DEF Settles
  <2>4. \A l \in Lines : cart'[l] <= MaxQuantity
    BY <1>1, <2>1, CartIsSmall
  <2> QED
    BY <2>1, <2>3, <2>4, SettledStep, SameOrdersShrink
<1>5. CASE Restore(r)
  <2>1. req' = [req EXCEPT ![r] = Fresh] /\ UNCHANGED orders /\ cart' = PutBack(r)
    BY <1>5 DEF Restore
  <2>2. \A l \in Lines : cart'[l] <= MaxQuantity
    BY <1>1, <2>1, CartIsSmall DEF PutBack
  <2>3. Settles(r)
    BY <2>1, FreshIsSmall DEF Settles
  <2> QED
    BY <2>1, <2>2, <2>3, SettledStep, SameOrdersShrink
<1> QED
  BY <1>2, <1>3, <1>4, <1>5

\* The gate: what passes it fits the budget as it is read, what does not stays out.
LEMMA AskedStep ==
  ASSUME TypeOK, TypeOK', BudgetInv, UNCHANGED <<cart, orders>>, NEW r \in Requests,
         NEW taking \in ReqType, NEW line, NEW q \in Nat, q <= MaxQuantity,
         \A l \in Lines : taking.owned[l] <= MaxQuantity,
         AskBudget(r, taking, line, q)
  PROVE  BudgetInv'
<1> DEFINE w == [taking EXCEPT !.pc = "insert", !.line = line, !.quantity = q,
                               !.gated = ~Blocked(q)]
<1>1. req' = [req EXCEPT ![r] = w]
  BY DEF AskBudget
<1>2. w.pc = "insert" /\ w.quantity = q /\ w.owned = taking.owned /\ w.gated = ~Blocked(q)
  BY DEF ReqType
<1> HIDE DEF w
<1>3. SmallLines /\ \A l \in Lines : cart'[l] <= MaxQuantity
  BY CartIsSmall DEF BudgetInv
<1>4. CASE Blocked(q)
  <2>1. Small(w) /\ ~Flying(w)
    BY <1>2, <1>4 DEF Small, Flying
  <2> QED
    BY <1>1, <1>3, <2>1, SettledStep, SameOrdersShrink DEF Settles
<1>5. CASE ~Blocked(q)
  <2>1. q <= Budget
    <3>1. Committed \in Nat
      BY OrderSums
    <3> QED
      BY <1>5, <3>1, CheckoutAssumption DEF Blocked
  <2>2. Small(w) /\ Load(w) = q
    BY <1>2, <1>5, <2>1 DEF Small, Load, Flying
  <2>3. req'[r] = w /\ Alone(r)
    BY <1>1 DEF TypeOK, Alone
  <2>4. OvershootIsBounded'
    BY <1>3, <1>5, <2>2, <2>3, GateStep
  <2>5. \A p \in Requests : Small(req'[p])
    BY <1>3, <2>2, <2>3 DEF Alone, SmallLines
  <2> QED
    BY <1>3, <2>4, <2>5 DEF BudgetInv, SmallLines, Small, Flying
<1> QED
  BY <1>4, <1>5

LEMMA GateLineStep ==
  ASSUME TypeOK, TypeOK', BudgetInv, NEW r \in Requests, NEW l \in Lines, GateLine(r, l)
  PROVE  BudgetInv'
<1> DEFINE taking == [req[r] EXCEPT !.todo = req[r].todo \ {l}, !.line = l]
           back == req[r].back \union {l}
           blocked == [taking EXCEPT !.line = NoLine, !.back = back,
                         !.pc = IF req[r].todo = {l} THEN "restore" ELSE "gate"]
<1>1. SmallLines /\ Small(req[r]) /\ req[r] \in ReqType /\ UNCHANGED <<cart, orders>>
  BY DEF BudgetInv, SmallLines, TypeOK, GateLine
<1>2. \/ AskBudget(r, taking, l, req[r].owned[l])
      \/ req' = [req EXCEPT ![r] = blocked]
  BY DEF GateLine
<1>3. /\ taking \in ReqType /\ taking.owned = req[r].owned
      /\ blocked.owned = req[r].owned /\ blocked.quantity = req[r].quantity
      /\ blocked.pc # "insert"
  BY <1>1 DEF ReqType
<1>4. \A m \in Lines : req[r].owned[m] \in Nat /\ req[r].owned[m] <= MaxQuantity /\ cart[m] <= MaxQuantity
  BY <1>1, CartIsSmall
<1> HIDE DEF taking, blocked
<1>5. CASE AskBudget(r, taking, l, req[r].owned[l])
  <2> DEFINE q == req[r].owned[l]
  <2>1. q \in Nat /\ q <= MaxQuantity /\ AskBudget(r, taking, l, q)
    BY <1>4, <1>5
  <2> HIDE DEF q
  <2> QED
    BY <1>1, <1>3, <1>4, <2>1, AskedStep
<1>6. CASE req' = [req EXCEPT ![r] = blocked]
  <2>1. Small(blocked) /\ ~Flying(blocked)
    BY <1>1, <1>3 DEF Small, Flying
  <2>2. \A m \in Lines : cart'[m] <= MaxQuantity
    BY <1>1, <1>4
  <2> QED
    BY <1>1, <1>6, <2>1, <2>2, SettledStep, SameOrdersShrink DEF Settles
<1> QED
  BY <1>2, <1>5, <1>6

LEMMA GateOrderStep ==
  ASSUME TypeOK, TypeOK', BudgetInv, NEW r \in Requests, GateOrder(r)
  PROVE  BudgetInv'
<1>1. SmallLines /\ Small(req[r]) /\ req[r] \in ReqType /\ UNCHANGED <<cart, orders>>
  BY DEF BudgetInv, SmallLines, TypeOK, GateOrder
<1>2. CASE AskBudget(r, req[r], NoLine, req[r].quantity)
  <2> DEFINE q == req[r].quantity
  <2>1. q \in Nat /\ q <= MaxQuantity /\ AskBudget(r, req[r], NoLine, q)
    BY <1>1, <1>2 DEF ReqType, Small
  <2>2. \A l \in Lines : req[r].owned[l] <= MaxQuantity
    BY <1>1 DEF Small
  <2> HIDE DEF q
  <2> QED
    BY <1>1, <2>1, <2>2, AskedStep
<1>3. CASE req' = [req EXCEPT ![r] = Fresh]
  <2>1. \A l \in Lines : cart'[l] <= MaxQuantity
    BY <1>1, CartIsSmall
  <2> QED
    BY <1>1, <1>3, <2>1, FreshIsSmall, SettledStep, SameOrdersShrink DEF Settles
<1> QED
  BY <1>2, <1>3 DEF GateOrder

LEMMA InsertedStep ==
  ASSUME TypeOK, TypeOK', BudgetInv, NEW r \in Requests, InsertOrder(r)
  PROVE  BudgetInv'
<1>1. SmallLines /\ Small(req[r]) /\ req[r] \in ReqType
  BY DEF BudgetInv, SmallLines, TypeOK
<1> DEFINE w == [req[r] EXCEPT !.order = Len(orders) + 1,
                               !.pc = IF req[r].admin THEN "start" ELSE "notify"]
<1>2. req' = [req EXCEPT ![r] = w] /\ UNCHANGED cart
  BY DEF InsertOrder
<1>3. w.owned = req[r].owned /\ w.quantity = req[r].quantity /\ w.pc # "insert"
  BY <1>1 DEF ReqType
<1> HIDE DEF w
<1>4. Small(w)
  BY <1>1, <1>3 DEF Small, Flying
<1>5. \A q \in Requests : Small(req'[q])
  BY <1>1, <1>2, <1>4 DEF SmallLines, TypeOK
<1>6. OvershootIsBounded'
  BY InsertStep DEF BudgetInv
<1> QED
  BY <1>1, <1>2, <1>5, <1>6 DEF BudgetInv, SmallLines, Small, Flying

\* An order is started, confirmed or given up, or the process dies.
LEMMA EndStep ==
  ASSUME TypeOK, TypeOK', BudgetInv, NEW r \in Requests, Linked(r),
         \/ StartSucceeds(r) \/ StartFails(r) \/ Notify(r) \/ StatementFails(r) \/ Die(r)
  PROVE  BudgetInv'
<1>1. /\ SmallLines /\ Small(req[r]) /\ req[r] \in ReqType /\ req[r].back \in SUBSET Lines
      /\ UNCHANGED cart
  BY DEF BudgetInv, SmallLines, TypeOK, ReqType, StartSucceeds, StartFails, Notify,
         StatementFails, Die
<1>2. \A l \in Lines : cart'[l] <= MaxQuantity
  BY <1>1, CartIsSmall
<1>3. CASE StartSucceeds(r)
  <2> DEFINE w == [req[r] EXCEPT !.pc = "notify"]
  <2>1. req' = [req EXCEPT ![r] = w] /\ UNCHANGED orders
    BY <1>3 DEF StartSucceeds
  <2>2. w.owned = req[r].owned /\ w.quantity = req[r].quantity /\ w.pc # "insert"
    BY <1>1 DEF ReqType
  <2> HIDE DEF w
  <2>3. Small(w) /\ ~Flying(w)
    BY <1>1, <2>2 DEF Small, Flying
  <2> QED
    BY <1>2, <2>1, <2>3, SettledStep, SameOrdersShrink DEF Settles
<1>4. CASE StartFails(r)
  <2> DEFINE n == req[r].order
             o == [orders[n] EXCEPT !.status = "failed"]
  <2>1. req' = [req EXCEPT ![r] = Failed(r)] /\ orders' = [orders EXCEPT ![n] = o]
    BY <1>4 DEF StartFails
  <2>2. n \in DOMAIN orders
    BY <1>4 DEF StartFails, Linked, At
  <2>3. o.quantity = orders[n].quantity /\ o.status = "failed"
    BY <2>2, OrderTyped DEF OrderType
  <2> HIDE DEF o
  <2>4. OrdersShrink
    BY <2>1, <2>2, <2>3 DEF OrdersShrink, GatedOrders, Counts, CommittedStatuses
  <2> QED
    BY <1>1, <1>2, <2>1, <2>4, FailedIsSmall, SettledStep DEF Settles
<1>5. CASE Notify(r)
  <2> DEFINE n == req[r].order
             o == [orders[n] EXCEPT !.told = TRUE]
  <2>1. /\ req' = [req EXCEPT ![r] = After(r, req[r].back)]
        /\ orders' = [orders EXCEPT ![n] = o]
    BY <1>5 DEF Notify
  <2>2. n \in DOMAIN orders
    BY <1>5 DEF Notify, Linked, At
  <2>3. /\ o.quantity = orders[n].quantity /\ o.status = orders[n].status
        /\ o.gated = orders[n].gated
    BY <2>2, OrderTyped DEF OrderType
  <2> HIDE DEF o
  <2>4. OrdersShrink
    BY <2>1, <2>2, <2>3 DEF OrdersShrink, GatedOrders, Counts
  <2>5. Small(After(r, req[r].back)) /\ ~Flying(After(r, req[r].back))
    BY <1>1, AfterIsSmall
  <2> QED
    BY <1>1, <1>2, <2>1, <2>4, <2>5, SettledStep DEF Settles
<1>6. CASE StatementFails(r)
  <2>1. req' = [req EXCEPT ![r] = Failed(r)] /\ UNCHANGED orders
    BY <1>6 DEF StatementFails
  <2> QED
    BY <1>1, <1>2, <2>1, FailedIsSmall, SettledStep, SameOrdersShrink DEF Settles
<1>7. CASE Die(r)
  <2> DEFINE w == [Fresh EXCEPT !.pc = "dead", !.back = Custody(r)]
  <2>1. req' = [req EXCEPT ![r] = w] /\ UNCHANGED orders
    BY <1>7 DEF Die
  <2>2. w.owned = Fresh.owned /\ w.quantity = Fresh.quantity /\ w.pc # "insert"
    BY DEF Fresh
  <2> HIDE DEF w
  <2>3. Small(w) /\ ~Flying(w)
    BY <2>2, FreshIsSmall DEF Small, Flying
  <2> QED
    BY <1>2, <2>1, <2>3, SettledStep, SameOrdersShrink DEF Settles
<1> QED
  BY <1>3, <1>4, <1>5, <1>6, <1>7

\* The shopper edits the cart, an order moves, or nothing happens: no request does.
LEMMA ShrinksWithoutRequests ==
  ASSUME TypeOK, TypeOK', BudgetInv, OrdersShrink, UNCHANGED req,
         \A l \in Lines : cart'[l] <= MaxQuantity
  PROVE  BudgetInv'
<1>1. InFlight' = InFlight
  BY DEF InFlight, At
<1>2. Gated' <= Gated /\ Gated \in Nat /\ Gated' \in Nat
  BY ShrunkGated, SumsOfState, SumsOfNext DEF SumsHold
<1>3. InFlight \in Nat
  BY Loads, TotalIsNatural
<1> DEFINE bound == Budget + (Cardinality(Requests) - 1) * Min({Budget, MaxQuantity})
<1>4. bound \in Int
  <2>1. Cardinality(Requests) \in Nat
    BY CheckoutAssumption, FS_CardinalityType
  <2> QED
    BY <2>1, LeastOfTwo, CheckoutAssumption
<1>5. Gated + InFlight <= bound
  BY DEF BudgetInv, OvershootIsBounded
<1> HIDE DEF bound
<1>6. Gated' + InFlight' <= bound
  <2>1. ASSUME NEW g \in Nat, NEW h \in Nat, NEW f \in Nat, NEW b \in Int,
               h <= g, g + f <= b
        PROVE  h + f <= b
    BY <2>1
  <2>2. Gated' + InFlight <= bound
    BY <1>2, <1>3, <1>4, <1>5, <2>1
  <2> QED
    BY <1>1, <2>2
<1>7. OvershootIsBounded'
  BY <1>6 DEF OvershootIsBounded, bound
<1> QED
  BY <1>7 DEF BudgetInv, SmallLines, Small, Flying

LEMMA ShopperStep ==
  ASSUME TypeOK, TypeOK', BudgetInv, Shopper
  PROVE  BudgetInv'
<1>1. UNCHANGED <<orders, req>>
  BY DEF Shopper, AddToCart, UpdateCartItem, RemoveFromCart, ClearCart, Deletes
<1>2. \A l \in Lines : cart'[l] <= MaxQuantity
  <2>1. /\ cart \in [Lines -> Nat] /\ (\A l \in Lines : cart[l] <= MaxQuantity)
        /\ 0 <= MaxQuantity
    BY CartIsSmall DEF BudgetInv, TypeOK
  <2>2. \A q \in Quantities : q <= MaxQuantity
    BY DEF Quantities
  <2>3. CASE \E q \in Quantities : AddToCart(q)
    BY <2>1, <2>2, <2>3 DEF AddToCart
  <2>4. CASE \E l \in Lines, q \in Quantities : UpdateCartItem(l, q)
    BY <2>1, <2>2, <2>4 DEF UpdateCartItem
  <2>5. CASE (\E l \in Lines : RemoveFromCart(l)) \/ ClearCart
    BY <2>1, <2>5 DEF RemoveFromCart, ClearCart, Deletes
  <2> QED
    BY <2>3, <2>4, <2>5 DEF Shopper
<1> QED
  BY <1>1, <1>2, SameOrdersShrink, ShrinksWithoutRequests

\* A failed order is retried, and one that waits for its window released, past no
\* gate: neither is counted as gated again.
LEMMA MovedStep ==
  ASSUME TypeOK, TypeOK', BudgetInv, NEW n \in DOMAIN orders, OrderMoves(n)
  PROVE  BudgetInv'
<1>1. PICK to \in OrderStatuses :
        orders' = [orders EXCEPT ![n] =
             [orders[n] EXCEPT !.status = to,
                !.gated = orders[n].gated /\ {orders[n].status, to} \subseteq CommittedStatuses]]
  BY DEF OrderMoves
<1> DEFINE g == orders[n].gated /\ {orders[n].status, to} \subseteq CommittedStatuses
           o == [orders[n] EXCEPT !.status = to, !.gated = g]
<1>2. /\ o.quantity = orders[n].quantity
      /\ o.gated => orders[n].gated /\ orders[n].status \in CommittedStatuses
  BY OrderTyped DEF OrderType
<1>3. orders' = [orders EXCEPT ![n] = o]
  BY <1>1
<1> HIDE DEF o
<1>4. OrdersShrink
  BY <1>2, <1>3 DEF OrdersShrink, GatedOrders, Counts
<1>5. UNCHANGED <<cart, req>> /\ \A l \in Lines : cart'[l] <= MaxQuantity
  BY CartIsSmall DEF OrderMoves, BudgetInv
<1> QED
  BY <1>4, <1>5, ShrinksWithoutRequests

LEMMA BudgetStep == TypeInv /\ TypeInv' /\ BudgetInv /\ [Next]_vars => BudgetInv'
<1> SUFFICES ASSUME TypeInv, TypeInv', BudgetInv, [Next]_vars PROVE BudgetInv'
  OBVIOUS
<1>1. TypeOK /\ TypeOK' /\ \A r \in Requests : Linked(r)
  BY DEF TypeInv
<1>2. CASE Shopper
  BY <1>1, <1>2, ShopperStep
<1>3. ASSUME NEW r \in Requests,
             \/ \E S \in SUBSET Lines, admin \in BOOLEAN : ReadCart(r, S, admin)
             \/ \E q \in Quantities, admin \in BOOLEAN : PlaceOrder(r, q, admin)
             \/ Serve(r) \/ StatementFails(r) \/ Die(r)
      PROVE  BudgetInv'
  BY <1>1, <1>3, CartStep, GateLineStep, GateOrderStep, InsertedStep, EndStep DEF Serve
<1>4. ASSUME NEW n \in DOMAIN orders, OrderMoves(n)
      PROVE  BudgetInv'
  BY <1>1, <1>4, MovedStep
<1>5. CASE UNCHANGED vars
  <2>1. UNCHANGED <<cart, orders, req>> /\ \A l \in Lines : cart'[l] <= MaxQuantity
    BY <1>1, <1>5, CartIsSmall DEF vars, BudgetInv
  <2> QED
    BY <1>1, <2>1, SameOrdersShrink, ShrinksWithoutRequests
<1> QED
  BY <1>2, <1>3, <1>4, <1>5 DEF Next

LEMMA BudgetStart == Init => BudgetInv
<1> SUFFICES ASSUME Init PROVE BudgetInv
  OBVIOUS
<1>1. SmallLines
  BY FreshIsSmall, CheckoutAssumption DEF Init, SmallLines, NoLines
<1>2. DOMAIN orders = {}
  BY DEF Init
<1>3. Gated = 0
  <2>1. {o \in DOMAIN orders : orders[o].gated /\ Counts(o)} = {}
    BY <1>2
  <2> QED
    BY <2>1, TotalEmpty DEF Gated
<1>4. InFlight = 0
  <2>1. {r \in Requests : At(r, "insert") /\ req[r].gated} = {}
    BY DEF Init, At, Fresh
  <2> QED
    BY <2>1, TotalEmpty DEF InFlight
<1> DEFINE m == Min({Budget, MaxQuantity})
           n == Cardinality(Requests)
<1>5. m \in Nat /\ n \in Nat /\ Budget \in Nat /\ m <= Budget
  <2>1. m \in {Budget, MaxQuantity} /\ \A y \in {Budget, MaxQuantity} : m <= y
    <3>1. \E x \in {Budget, MaxQuantity} : \A y \in {Budget, MaxQuantity} : x <= y
      BY CheckoutAssumption
    <3> QED
      BY <3>1 DEF Min
  <2>2. n \in Nat
    BY CheckoutAssumption, FS_CardinalityType
  <2> QED
    BY <2>1, <2>2, CheckoutAssumption
<1>6. 0 <= Budget + (n - 1) * m
  <2> HIDE DEF m, n
  <2>1. n * m \in Nat /\ (n - 1) * m = n * m - m
    BY <1>5
  <2> QED
    BY <1>5, <2>1
<1> QED
  BY <1>1, <1>3, <1>4, <1>6 DEF BudgetInv, OvershootIsBounded

\* The orders that have counted ever since they passed the gate, with the requests
\* between it and the insert, exceed a 'block' budget by no more than one line that
\* fits it for each other request: for any number of lines, requests, orders and
\* faults.  An order that stopped counting, because it failed or waits for its
\* window, and comes back, is past the gate without being asked and outside the bound.
THEOREM OvershootBounded == Spec => []OvershootIsBounded
<1>1. BudgetInv => OvershootIsBounded
  BY DEF BudgetInv
<1> QED
  BY <1>1, BudgetStart, BudgetStep, TypeAlways, PTL DEF Spec
=============================================================================
