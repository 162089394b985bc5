----------------------------- MODULE MCIndexer -----------------------------
(* One room with two players and two rounds, one market and one trader,    *)
(* one request, loan and message.                                          *)
EXTENDS Indexer, TLC

CONSTANTS p1, p2

MCPlayers == {p1, p2}
MCSymmetry == Permutations(MCPlayers) \cup Permutations(Roots)
=============================================================================
