---------------------------- MODULE MCMatchLoop ----------------------------
(***************************************************************************)
(* MatchLoop on a small instance: four intents, prices 0 .. 2, sizes up to *)
(* three units, so that one taker can empty a level and eat into the next, *)
(* leave a maker partly filled, or run out of liquidity.                   *)
(***************************************************************************)
EXTENDS MatchLoop

Limit(side, price, magnitude, tif, deadline) ==
  [side |-> side, type |-> "Limit", price |-> price, magnitude |-> magnitude,
   tif |-> tif, deadline |-> deadline]

Market(side, magnitude, tif) ==
  [side |-> side, type |-> "Market", price |-> 0, magnitude |-> magnitude,
   tif |-> tif, deadline |-> 9]

MCTerms ==
  {Limit(side, price, magnitude, "GTC", 9) :
     side \in Sides, price \in {1, 2}, magnitude \in {1, 2}}
  \cup {Limit("Long", 2, 3, "IOC", 9), Limit("Long", 1, 3, "FOK", 9)}
  \cup {Limit("Short", 1, 3, "FOK", 9), Limit("Long", 2, 1, "GTC", 1)}
  \cup {Limit("Short", 0, 1, "GTC", 9), Limit("Short", 1, 0, "GTC", 9)}
  \cup {Market("Short", 3, "GTC"), Market("Long", 2, "IOC")}

IdSymmetry == Permutations(Ids)
=============================================================================
