------------------------------ MODULE CartLine ------------------------------
(***************************************************************************)
(* What the cart promises a shopper about every line: it is bought at most *)
(* once, and between the cart and an order exactly one checkout holds it.  *)
(* Checkout implements it.                                                 *)
(***************************************************************************)
CONSTANT Lines

VARIABLE line \* where each line is

Stages == {"new", "cart", "claimed", "ordered", "dropped"}

Init == line = [l \in Lines |-> "new"]

Move(L, from, to) ==
  /\ \A l \in L : line[l] = from
  /\ line' = [l \in Lines |-> IF l \in L THEN to ELSE line[l]]

Add(l)     == Move({l}, "new", "cart")
Drop(L)    == Move(L, "cart", "dropped")
Claim(L)   == Move(L, "cart", "claimed")
Return(L)  == Move(L, "claimed", "cart")
Order(l)   == Move({l}, "claimed", "ordered")

Next ==
  \/ \E l \in Lines : Add(l) \/ Order(l)
  \/ \E L \in SUBSET Lines : Drop(L) \/ Claim(L) \/ Return(L)

Spec == Init /\ [][Next]_line
=============================================================================
