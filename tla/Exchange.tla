------------------------------ MODULE Exchange ------------------------------
(***************************************************************************)
(* What a matching engine promises, without a book: an intent is admitted  *)
(* with a size, trades only against the opposite side at a price both      *)
(* sides accept, and is let go of at any time, for good.  Nothing is       *)
(* traded that is not open, and nothing becomes open twice.                *)
(***************************************************************************)
EXTENDS Integers

CONSTANTS Ids, Prices, None

VARIABLES
  terms,    \* the terms of each id, None until it is submitted
  open,     \* the size of each id that can still trade
  traded    \* the size of each id that has traded

vars == <<terms, open, traded>>

Init ==
  /\ terms = [id \in Ids |-> None]
  /\ open = [id \in Ids |-> 0]
  /\ traded = [id \in Ids |-> 0]

Accepts(id, price) ==
  \/ terms[id].type = "Market"
  \/ terms[id].side = "Long" /\ price <= terms[id].price
  \/ terms[id].side = "Short" /\ price >= terms[id].price

\* Submitted, and open for all of its size or for none of it (refused).
Submit(id) ==
  /\ terms[id] = None
  /\ terms'[id] # None
  /\ terms' = [terms EXCEPT ![id] = terms'[id]]
  /\ open'[id] \in {0, terms'[id].magnitude}
  /\ open' = [open EXCEPT ![id] = open'[id]]
  /\ UNCHANGED traded

Trade(buyer, seller, size) ==
  /\ size > 0
  /\ open[buyer] >= size /\ open[seller] >= size
  /\ terms[buyer].side = "Long" /\ terms[seller].side = "Short"
  /\ \E price \in Prices : Accepts(buyer, price) /\ Accepts(seller, price)
  /\ open' = [open EXCEPT ![buyer] = @ - size, ![seller] = @ - size]
  /\ traded' = [traded EXCEPT ![buyer] = @ + size, ![seller] = @ + size]
  /\ UNCHANGED terms

Close(id) ==
  /\ open[id] > 0
  /\ open' = [open EXCEPT ![id] = 0]
  /\ UNCHANGED <<terms, traded>>

Next ==
  \/ \E id \in Ids : Submit(id) \/ Close(id)
  \/ \E buyer, seller \in Ids : \E size \in 1 .. open[buyer] : Trade(buyer, seller, size)

Spec == Init /\ [][Next]_vars
=============================================================================
