---------------------------- MODULE ArcadeResults ----------------------------
(***************************************************************************)
(* The prizes of a settled room (packages/fx-bento index.ts, results.ts):  *)
(* the Merkle tree over the allocations, the stored result that hands each *)
(* winner the proof to claim with, and the two functions that write it,    *)
(* each of which reads it first and awaits in between.  A player stands    *)
(* for her allocation; the contract that checks a claim is external.       *)
(***************************************************************************)
EXTENDS Naturals, FiniteSets, Sequences, SequencesExt

CONSTANTS
    Players,      \* numbered as their addresses are ordered
    Hash,         \* [Players -> Nat]: the order of the leaves' hashes
    Prize,        \* [Players -> Nat]
    Outcomes,     \* the sets of winners that results are built of
    Escrowed, ProtocolFee,
    NoResult

ASSUME ArcadeResultsAssumption ==
    /\ Players \subseteq Nat /\ IsFiniteSet(Players)
    /\ Hash \in [Players -> Nat]
    /\ \A p, q \in Players : Hash[p] = Hash[q] => p = q
    /\ Outcomes \subseteq (SUBSET Players) \ {{}}
    /\ Prize \in [Players -> Nat] /\ {Escrowed, ProtocolFee} \subseteq Nat

VARIABLES
    result,       \* the store's result of the room
    saving,       \* a saveFxBentoSettlementResult that has read the store
    finalizing    \* a recordFxBentoSettlementFinalization that has

resultVars == <<result, saving, finalizing>>

-----------------------------------------------------------------------------
(* The tree.  A node is the set of the two it hashes: hashPair orders them. *)

Leaf(p) == [height |-> 0, player |-> p, of |-> {}]

HashPair(a, b) == [height |-> a.height + 1, player |-> 0, of |-> {a, b}]

\* The level above: the last node of an odd level is paired with itself.
Above(level) ==
    [i \in 1..(Len(level) + 1) \div 2 |->
        HashPair(level[2 * i - 1],
                 IF 2 * i <= Len(level) THEN level[2 * i] ELSE level[2 * i - 1])]

\* The winners in the order of their leaves' hashes (compareHex).
Sorted(winners) ==
    CHOOSE seq \in SetToSeqs(winners) :
        \A i, j \in DOMAIN seq : i < j => Hash[seq[i]] < Hash[seq[j]]

\* The levels from the sorted leaves up.
Levels(winners) ==
    LET sorted == Sorted(winners)
        level[h \in Nat] ==
          IF h = 0 THEN [i \in DOMAIN sorted |-> Leaf(sorted[i])] ELSE Above(level[h - 1])
    IN  level

Height(winners) ==
    CHOOSE h \in 0..Cardinality(winners) :
        /\ Len(Levels(winners)[h]) = 1
        /\ \A k \in 0..h - 1 : Len(Levels(winners)[k]) > 1

\* buildMerkleRoot.
Root(winners) == Levels(winners)[Height(winners)][1]

\* Mutant of Position: the leaf's place among the players, not the hashes.
PositionByPlayer(p, winners) == Cardinality({q \in winners : q < p})

\* Where buildMerkleProof finds a leaf in the lowest level, from 0 (findIndex).
Position(p, winners) ==
    (CHOOSE i \in DOMAIN Sorted(winners) : Sorted(winners)[i] = p) - 1

\* buildMerkleProof: on each level the other one of the pair, or itself.
Proof(p, winners) ==
    LET index[h \in Nat] == IF h = 0 THEN Position(p, winners) ELSE index[h - 1] \div 2
        sibling(h) == IF index[h] % 2 = 0 THEN index[h] + 1 ELSE index[h] - 1
        level(h) == Levels(winners)[h]
    IN  [k \in 1..Height(winners) |->
            LET h == k - 1 IN
            IF sibling(h) < Len(level(h)) THEN level(h)[sibling(h) + 1]
            ELSE level(h)[index[h] + 1]]

\* The contract's check of a claim.
Verifies(p, proof, root) == FoldLeft(HashPair, Leaf(p), proof) = root

-----------------------------------------------------------------------------
(* The store.                                                              *)

Payouts(winners) == SumFunctionOnSet(Prize, winners)

\* buildSettlementResultTree: what a result may be built of.
Payable(winners) == Payouts(winners) + ProtocolFee <= Escrowed

\* The tree's root and its proofs.
Built ==
    [winners \in Outcomes |->
        [root |-> Root(winners),
         proofs |-> [p \in winners |-> Proof(p, winners)]]]

Status(r) == IF r = NoResult THEN "built" ELSE r.status

\* A result is the tree of its winners' allocations, root and proofs together.
Result == [winners : Outcomes, status : {"built", "finalized"}]

ResultTypeOK ==
    /\ {result, saving, finalizing} \subseteq Result \cup {NoResult}
    /\ result # NoResult => Payable(result.winners)

ResultInit == result = NoResult /\ saving = NoResult /\ finalizing = NoResult

\* saveFxBentoSettlementResult reads the store; a status that is not given is
\* the one it finds there.
Save(winners) ==
    /\ saving = NoResult /\ Payable(winners)
    /\ saving' = [winners |-> winners, status |-> Status(result)]
    /\ UNCHANGED <<result, finalizing>>

SaveWrites ==
    /\ saving # NoResult
    /\ result' = saving /\ saving' = NoResult
    /\ UNCHANGED finalizing

\* recordFxBentoSettlementFinalization copies the result it has read, and saves
\* the copy.
Finalize ==
    /\ result # NoResult /\ finalizing = NoResult
    /\ finalizing' = [result EXCEPT !.status = "finalized"]
    /\ UNCHANGED <<result, saving>>

FinalizationWrites ==
    /\ finalizing # NoResult
    /\ result' = finalizing /\ finalizing' = NoResult
    /\ UNCHANGED saving

\* getFxBentoClaimProof, as GET /rooms/:id/claims/:address answers.
ClaimProof(p) ==
    IF result = NoResult THEN NoResult
    ELSE IF p \notin result.winners THEN NoResult
    ELSE [proof |-> Built[result.winners].proofs[p],
          settlementRoot |-> Built[result.winners].root,
          claimable |-> result.status = "finalized"]

ResultNext ==
    \/ \E winners \in Outcomes : Save(winners)
    \/ SaveWrites \/ Finalize \/ FinalizationWrites

\* Whatever the number of winners, the order of their hashes and the order in
\* which results are saved and finalized, the proof a winner is given leads
\* from her allocation to the root she is given with it.
ClaimsVerify ==
    \A p \in Players :
        LET claim == ClaimProof(p) IN
        claim # NoResult => Verifies(p, claim.proof, claim.settlementRoot)
=============================================================================
