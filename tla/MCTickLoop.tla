----------------------------- MODULE MCTickLoop -----------------------------
(***************************************************************************)
(* TickLoop with one long order that two short orders fill, one of which   *)
(* expires early, and a fourth that the translator refuses (a price beyond *)
(* i128) and whose row replaces the second's: the same trader and nonce.   *)
(***************************************************************************)
EXTENDS TickLoop

CONSTANTS i1, i2, i3, i4

Limit(id, side, price, magnitude, deadline) ==
  [id |-> id, side |-> side, type |-> "Limit", price |-> price,
   magnitude |-> magnitude, tif |-> "GTC", deadline |-> deadline]

MCOrderOf ==
  [id \in Ids |-> CASE id = i1 -> Limit(id, "Long", 1, 2, 9)
                    [] id = i2 -> Limit(id, "Short", 1, 1, 9)
                    [] id = i3 -> Limit(id, "Short", 1, 1, 2)
                    [] id = i4 -> Limit(id, "Short", 1, 1, 9)]

MCNonceOf == [id \in Ids |-> CASE id = i1 -> 1 [] id = i3 -> 3 [] id \in {i2, i4} -> 2]
=============================================================================
