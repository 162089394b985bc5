------------------------------ MODULE MCArcade ------------------------------
(* One player's room of two rounds, and prizes of up to five players, whose *)
(* leaves are hashed in another order than their addresses.                 *)
EXTENDS Arcade

MCPlayers == 1..5
MCHash == [p \in MCPlayers |-> (3 * p) % 7]
MCPrize == [p \in MCPlayers |-> 6 - p]
\* One, two, three, four and five winners, with and without the last hash.
MCOutcomes == {{2}, {1, 4}, {1, 2, 3}, {2, 4, 5}, {1, 3, 4, 5}, {1, 2, 3, 4, 5}, {2, 3, 4, 5}}
MCRows == {0}
=============================================================================
