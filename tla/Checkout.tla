------------------------------ MODULE Checkout ------------------------------
(***************************************************************************)
(* A shopper's cart and the checkouts of it (services/cart.ts), with the   *)
(* budget gate every order passes (services/budgets.ts) and the insertion  *)
(* of the order (createPreparedOrder in services/orders.ts).  Several      *)
(* requests of one shopper run at the same time: two tabs, a double click, *)
(* an order placed from the catalogue beside them.  Every statement of a   *)
(* checkout is a step of its own.                                          *)
(*                                                                         *)
(* A line is its quantity: parameters, product and size are data that move *)
(* with it.  An element costs 1, and the cost centre has one 'block'       *)
(* budget over its whole life.                                             *)
(***************************************************************************)
EXTENDS Naturals, Sequences, FiniteSets, FiniteSetsExt

CONSTANTS
  Requests,     \* requests of the shopper that may run at the same time
  MaxLines,     \* lines ever put in the cart; bounds the model
  MaxQuantity,  \* largest quantity of a line
  MaxCartItems, \* MAX_CART_ITEMS
  MaxElements,  \* MAX_CHECKOUT_ELEMENTS
  Budget,       \* the cost centre's budget, in elements
  MaxOrders,    \* orders ever placed; bounds the model
  MaxFaults     \* failed statements and deaths; bounds the model

ASSUME CheckoutAssumption ==
  /\ IsFiniteSet(Requests)
  /\ {MaxLines, MaxCartItems, MaxElements, MaxOrders} \subseteq Nat
  /\ MaxQuantity \in Nat \ {0}
  /\ Budget \in Nat
  /\ MaxFaults \in Nat

Lines == 1 .. MaxLines
NoLine == 0 \* the line of an order that did not come from the cart
Quantities == 1 .. MaxQuantity
OrderIds == 1 .. MaxOrders

VARIABLES
  cart,    \* cart_items: the quantity of each line, 0 when it is not there
  issued,  \* the last id of cart_items' sequence
  orders,  \* the orders rows, in the order of their insertion
  req,     \* the checkouts and single orders being served
  faults,  \* failures that have happened
  taken    \* history: what each request's claim deleted from the cart

vars == <<cart, issued, orders, req, faults, taken>>

-----------------------------------------------------------------------------
(* Helpers                                                                 *)

ReqPcs == {"idle", "claim", "gate", "insert", "start", "notify", "restore", "dead"}

\* 'completed' is counted and may be taken back as 'provisioning' is; 'rejected' is
\* a 'failed' that nobody retries.
OrderStatuses == {"pending", "scheduled", "provisioning", "failed"}

\* The orders a budget counts; a 'scheduled' one is not among them.
CommittedStatuses == {"pending", "provisioning"}

NoLines == [l \in Lines |-> 0]

Fresh ==
  [pc |-> "idle", owned |-> NoLines, todo |-> {}, back |-> {}, line |-> NoLine,
   quantity |-> 1, admin |-> FALSE, gated |-> TRUE, order |-> 0]

InCart == {l \in Lines : cart[l] # 0}
Owned(r) == {l \in Lines : req[r].owned[l] # 0}

\* The lines a request has deleted from the cart and not yet bought or put back.
Custody(r) == req[r].todo \union req[r].back \union ({req[r].line} \ {NoLine})

Total(f, S) == MapThenSumSet(LAMBDA x : f[x], S)

Elements(owned) == Total(owned, Lines)

Amounts == [o \in DOMAIN orders |-> orders[o].quantity]
Counts(o) == orders[o].status \in CommittedStatuses
Committed == Total(Amounts, {o \in DOMAIN orders : Counts(o)})

\* The first form of the gate asked only whether the budget was spent.
BlockedWhenSpent(q) == Committed >= Budget

\* checkBudget: spent already, or spent by this line.
Blocked(q) == Committed >= Budget \/ Committed + q > Budget

At(r, pc) == req[r].pc = pc

AfterWithoutEnd(r, back) ==
  IF Owned(r) = {} THEN Fresh
  ELSE [Fresh EXCEPT !.pc = "gate", !.owned = req[r].owned, !.admin = req[r].admin,
                     !.todo = req[r].todo, !.back = back]

\* What follows one order: the next line of a checkout, or the answer.
After(r, back) ==
  IF Owned(r) = {} THEN Fresh
  ELSE [Fresh EXCEPT !.pc = IF req[r].todo = {} THEN "restore" ELSE "gate",
                     !.owned = req[r].owned, !.admin = req[r].admin,
                     !.todo = req[r].todo, !.back = back]

FailedAndForgotten(r) == After(r, req[r].back)

Failed(r) == After(r, req[r].back \union ({req[r].line} \ {NoLine}))

\* The bound on orders is kept where requests start, so that none is stuck.
MayOrder(n) ==
  LET due == [r \in Requests |-> IF At(r, "idle") THEN 0
                                 ELSE IF Owned(r) = {} THEN 1 ELSE Cardinality(Owned(r))]
  IN Len(orders) + n + Total(due, Requests) <= MaxOrders

Fault == faults < MaxFaults /\ faults' = faults + 1

-----------------------------------------------------------------------------
(* The cart                                                                *)

Init ==
  /\ cart = NoLines
  /\ issued = 0
  /\ orders = <<>>
  /\ req = [r \in Requests |-> Fresh]
  /\ faults = 0
  /\ taken = [r \in Requests |-> NoLines]

\* addToCart: the count and the insert hold a lock on the owner's row, which
\* restoreCartItems' insert waits for as well (the foreign key to users).
AddToCart(q) ==
  /\ Cardinality(InCart) < MaxCartItems
  /\ issued + 1 \in Lines
  /\ issued' = issued + 1
  /\ cart' = [cart EXCEPT ![issued + 1] = q]
  /\ UNCHANGED <<orders, req, faults, taken>>

UpdateCartItem(l, q) ==
  /\ l \in InCart
  /\ cart' = [cart EXCEPT ![l] = q]
  /\ UNCHANGED <<issued, orders, req, faults, taken>>

Deletes(L) ==
  /\ cart' = [l \in Lines |-> IF l \in L THEN 0 ELSE cart[l]]
  /\ UNCHANGED <<issued, orders, req, faults, taken>>

RemoveFromCart(l) == l \in InCart /\ Deletes({l})

ClearCart == InCart # {} /\ Deletes(InCart)

-----------------------------------------------------------------------------
(* A checkout                                                              *)

\* checkoutCart up to the claim: the owned lines are read, counted, checked
\* against the request and validated; every refusal on the way writes nothing.
ReadCart(r, S, admin) ==
  LET owned == [l \in Lines |-> IF l \in S THEN cart[l] ELSE 0]
  IN /\ At(r, "idle")
     /\ S # {} /\ S \subseteq InCart
     /\ Cardinality(S) <= MaxCartItems
     /\ Elements(owned) <= MaxElements
     /\ MayOrder(Cardinality(S))
     /\ req' = [req EXCEPT ![r] =
                  [Fresh EXCEPT !.pc = "claim", !.owned = owned, !.admin = admin]]
     /\ UNCHANGED <<cart, issued, orders, faults, taken>>

TakenAsRead(r) == Owned(r)

\* DELETE ... RETURNING takes what is still there; anything less than what was
\* read is a lost race and goes back.
Taken(r) == Owned(r) \intersect InCart

ClaimLines(r) ==
  /\ At(r, "claim")
  /\ cart' = [l \in Lines |-> IF l \in Owned(r) THEN 0 ELSE cart[l]]
  /\ taken' = [taken EXCEPT ![r] = [l \in Lines |-> IF l \in Taken(r) THEN cart[l] ELSE 0]]
  /\ req' = [req EXCEPT ![r] =
               IF Taken(r) = Owned(r)
               THEN [req[r] EXCEPT !.pc = "gate", !.todo = Taken(r)]
               ELSE [req[r] EXCEPT !.pc = "restore", !.back = Taken(r)]]
  /\ UNCHANGED <<issued, orders, faults>>

PutBackAll(r) ==
  [l \in Lines |-> IF l \in Owned(r) THEN req[r].owned[l] ELSE cart[l]]

\* restoreCartItems: the original ids, and the content read before the claim.
PutBack(r) ==
  [l \in Lines |-> IF l \in req[r].back THEN req[r].owned[l] ELSE cart[l]]

Restore(r) ==
  /\ At(r, "restore")
  /\ cart' = PutBack(r)
  /\ req' = [req EXCEPT ![r] = Fresh]
  /\ taken' = [taken EXCEPT ![r] = NoLines]
  /\ UNCHANGED <<issued, orders, faults>>

-----------------------------------------------------------------------------
(* One order                                                               *)

\* createOrder: one validated order, placed from the catalogue.
PlaceOrder(r, q, admin) ==
  /\ At(r, "idle")
  /\ MayOrder(1)
  /\ req' = [req EXCEPT ![r] =
               [Fresh EXCEPT !.pc = "gate", !.quantity = q, !.admin = admin]]
  /\ UNCHANGED <<cart, issued, orders, faults, taken>>

\* The budget is asked about a line or a single order.  Root may override it
\* for a single order; a checkout carries no override.
AskBudget(r, taking, line, q) ==
  req' = [req EXCEPT ![r] =
            [taking EXCEPT !.pc = "insert", !.line = line, !.quantity = q,
                           !.gated = ~Blocked(q)]]

GateLine(r, l) ==
  LET taking == [req[r] EXCEPT !.todo = req[r].todo \ {l}, !.line = l]
      back == req[r].back \union {l}
  IN /\ At(r, "gate")
     /\ l \in req[r].todo
     /\ \/ /\ ~Blocked(req[r].owned[l])
           /\ AskBudget(r, taking, l, req[r].owned[l])
        \/ /\ Blocked(req[r].owned[l])
           /\ req' = [req EXCEPT ![r] =
                        [taking EXCEPT !.line = NoLine, !.back = back,
                           !.pc = IF req[r].todo = {l} THEN "restore" ELSE "gate"]]
     /\ UNCHANGED <<cart, issued, orders, faults, taken>>

GateOrder(r) ==
  /\ At(r, "gate")
  /\ Owned(r) = {}
  /\ \/ AskBudget(r, req[r], NoLine, req[r].quantity)
     \/ Blocked(req[r].quantity) /\ req' = [req EXCEPT ![r] = Fresh]
  /\ UNCHANGED <<cart, issued, orders, faults, taken>>

InsertUnnumbered(r) ==
  /\ At(r, "insert")
  /\ orders' = Append(orders,
       [line |-> req[r].line, quantity |-> req[r].quantity, gated |-> req[r].gated,
        direct |-> req[r].admin,
        status |-> IF req[r].admin THEN "provisioning" ELSE "pending", told |-> FALSE])
  /\ req' = [req EXCEPT ![r] =
       [req[r] EXCEPT !.pc = IF req[r].admin THEN "start" ELSE "notify"]]
  /\ UNCHANGED <<cart, issued, faults, taken>>

InsertOrder(r) ==
  /\ At(r, "insert")
  /\ orders' = Append(orders,
       [line |-> req[r].line, quantity |-> req[r].quantity, gated |-> req[r].gated,
        direct |-> req[r].admin,
        status |-> IF req[r].admin THEN "provisioning" ELSE "pending", told |-> FALSE])
  /\ req' = [req EXCEPT ![r] =
       [req[r] EXCEPT !.order = Len(orders) + 1,
                      !.pc = IF req[r].admin THEN "start" ELSE "notify"]]
  /\ UNCHANGED <<cart, issued, faults, taken>>

\* provisionOrderElements, for an admin's order.
StartSucceeds(r) ==
  /\ At(r, "start")
  /\ req' = [req EXCEPT ![r] = [req[r] EXCEPT !.pc = "notify"]]
  /\ UNCHANGED <<cart, issued, orders, faults, taken>>

\* Nothing started: the order is marked failed and its line goes back.
StartFails(r) ==
  /\ At(r, "start")
  /\ orders' = [orders EXCEPT ![req[r].order] =
                  [orders[req[r].order] EXCEPT !.status = "failed"]]
  /\ req' = [req EXCEPT ![r] = Failed(r)]
  /\ UNCHANGED <<cart, issued, faults, taken>>

\* The audit entry and the lookups for the mails: the answer is a success.
Notify(r) ==
  /\ At(r, "notify")
  /\ orders' = [orders EXCEPT ![req[r].order] =
                  [orders[req[r].order] EXCEPT !.told = TRUE]]
  /\ req' = [req EXCEPT ![r] = After(r, req[r].back)]
  /\ UNCHANGED <<cart, issued, faults, taken>>

\* A statement of createPreparedOrder throws; checkoutCart's catch reports the
\* line as failed, whether or not the order had been inserted by then.
StatementFails(r) ==
  /\ req[r].pc \in {"insert", "notify"}
  /\ Fault
  /\ req' = [req EXCEPT ![r] = Failed(r)]
  /\ UNCHANGED <<cart, issued, orders, taken>>

\* The process dies, or the insert of restoreCartItems throws: what the request
\* had taken from the cart is nowhere else.
Die(r) ==
  /\ req[r].pc \notin {"idle", "dead"}
  /\ Fault
  /\ req' = [req EXCEPT ![r] = [Fresh EXCEPT !.pc = "dead", !.back = Custody(r)]]
  /\ taken' = [taken EXCEPT ![r] = NoLines]
  /\ UNCHANGED <<cart, issued, orders>>

\* approveOrder takes an order up, lets it wait when its window is closed, and undoes
\* the claim by id after an error, also of an order that has failed meanwhile;
\* rejectOrder refuses it.
ApprovalEdges ==
  {<<"pending", "provisioning">>, <<"provisioning", "scheduled">>,
   <<"provisioning", "pending">>, <<"failed", "pending">>, <<"pending", "failed">>}

\* The sweep, or root, releases it; nothing started, and it waits again.
WindowEdges == {<<"scheduled", "provisioning">>, <<"provisioning", "scheduled">>}

\* A callback, root's write-off or a retry that starts nothing fails it; a retry
\* takes it up.
RunEdges == {<<"provisioning", "failed">>, <<"failed", "provisioning">>}

OrderEdges == ApprovalEdges \union WindowEdges \union RunEdges

\* What becomes of an order that was placed.  Whose run a 'provisioning' order is, is
\* OrderRun's matter: here each may end the way of any, but an administrator's own
\* order needs no approval and waits for no window.  The budget is not asked again:
\* an order that stopped counting comes back past no gate.
Edges(o) == IF orders[o].direct THEN RunEdges ELSE OrderEdges
OrderMoves(o) ==
  /\ \E to \in OrderStatuses :
       /\ <<orders[o].status, to>> \in Edges(o)
       /\ orders' = [orders EXCEPT ![o] =
            [orders[o] EXCEPT !.status = to,
               !.gated = orders[o].gated /\ {orders[o].status, to} \subseteq CommittedStatuses]]
  /\ UNCHANGED <<cart, issued, req, faults, taken>>

-----------------------------------------------------------------------------
Shopper ==
  \/ \E q \in Quantities : AddToCart(q)
  \/ \E l \in Lines, q \in Quantities : UpdateCartItem(l, q)
  \/ \E l \in Lines : RemoveFromCart(l)
  \/ ClearCart

\* The steps of a request that has been taken up.
Serve(r) ==
  \/ ClaimLines(r) \/ Restore(r)
  \/ \E l \in Lines : GateLine(r, l)
  \/ GateOrder(r) \/ InsertOrder(r)
  \/ StartSucceeds(r) \/ StartFails(r) \/ Notify(r)

Next ==
  \/ Shopper
  \/ \E r \in Requests :
       \/ \E S \in SUBSET Lines, admin \in BOOLEAN : ReadCart(r, S, admin)
       \/ \E q \in Quantities, admin \in BOOLEAN : PlaceOrder(r, q, admin)
       \/ Serve(r) \/ StatementFails(r) \/ Die(r)
  \/ \E o \in DOMAIN orders : OrderMoves(o)

\* A request that has been taken up runs on: every await returns or throws.
Fairness == \A r \in Requests : WF_vars(Serve(r))

Spec == Init /\ [][Next]_vars
FairSpec == Spec /\ Fairness

-----------------------------------------------------------------------------
(* Properties                                                              *)

ReqType ==
  [pc : ReqPcs, owned : [Lines -> Nat], todo : SUBSET Lines, back : SUBSET Lines,
   line : Lines \union {NoLine}, quantity : Nat, admin : BOOLEAN,
   gated : BOOLEAN, order : Nat]

OrderType ==
  [line : Lines \union {NoLine}, quantity : Nat, gated : BOOLEAN, direct : BOOLEAN,
   status : OrderStatuses, told : BOOLEAN]

\* Every variable has its type, and a request past the insert has an order.
TypeOK ==
  /\ cart \in [Lines -> Nat]
  /\ issued \in 0 .. MaxLines
  /\ orders \in Seq(OrderType)
  /\ req \in [Requests -> ReqType]
  /\ \A r \in Requests : req[r].pc \in {"start", "notify"} => req[r].order \in DOMAIN orders
  /\ faults \in 0 .. MaxFaults
  /\ taken \in [Requests -> [Lines -> Nat]]

\* The deletion of a cart row is its claim: however checkouts of overlapping
\* lines, edits and restores interleave, a line is in the cart or with exactly
\* one request, never both.
SingleCustody ==
  \A l \in Lines, r \in Requests : l \in Custody(r) =>
    /\ l \notin InCart
    /\ \A s \in Requests \ {r} : l \notin Custody(s)

\* A line whose order was confirmed to the shopper never comes back: not by the
\* restore of the checkout that bought it, nor of one that lost the race for it.
ConfirmedLineIsSpent ==
  \A o \in DOMAIN orders : (orders[o].told /\ orders[o].line # NoLine) =>
    /\ orders[o].line \notin InCart
    /\ \A r \in Requests : orders[o].line \notin Custody(r)
    /\ \A p \in DOMAIN orders \ {o} : orders[p].line = orders[o].line => ~orders[p].told

\* The gate is a read and the order a later insert, so requests that pass it
\* together overshoot a 'block' budget; never by more than one line that fits the
\* budget for each other request.  This is about the orders that have counted ever
\* since they passed the gate, not those root let through, nor those that come back
\* from a window or by a retry.
Gated == Total(Amounts, {o \in DOMAIN orders : orders[o].gated /\ Counts(o)})
InFlight ==
  Total([r \in Requests |-> req[r].quantity],
        {r \in Requests : At(r, "insert") /\ req[r].gated})
OvershootIsBounded ==
  Gated + InFlight <= Budget + (Cardinality(Requests) - 1) * Min({Budget, MaxQuantity})

\* "A budget check counts what has been asked for as well as what exists": a line is
\* let through only if it fits beside every order that has not failed.
AskedFor == Total(Amounts, {o \in DOMAIN orders : orders[o].status # "failed"})
GateCountsWhatIsAskedFor ==
  [][\A r \in Requests :
       (At(r, "gate") /\ req'[r].pc = "insert" /\ req'[r].gated) =>
         AskedFor + req'[r].quantity <= Budget]_vars

\* The lines a checkout took end up ordered or back in the cart, unless the
\* request died: no path of checkoutCart forgets one.
TakenLinesSettle ==
  \A r \in Requests : (Custody(r) # {}) ~> (Custody(r) = {} \/ At(r, "dead"))

\* A line that is put back is the line the shopper had: restoreCartItems puts
\* "claimed cart rows back, unchanged".
RestoredUnchanged ==
  [][\A r \in Requests :
       Restore(r) => \A l \in req[r].back : cart'[l] = taken[r][l]]_vars

\* What a line is to the shopper; Checkout implements the contract of CartLine.
Stage(l) ==
  IF l > issued THEN "new"
  ELSE IF l \in InCart THEN "cart"
  ELSE IF \E r \in Requests : l \in Custody(r) THEN "claimed"
  ELSE IF \E o \in DOMAIN orders : orders[o].line = l /\ orders[o].told THEN "ordered"
  ELSE "dropped"

Contract == INSTANCE CartLine WITH line <- [l \in Lines |-> Stage(l)]
CartLineSpec == Contract!Spec
=============================================================================
