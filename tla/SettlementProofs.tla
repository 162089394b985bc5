--------------------------- MODULE SettlementProofs ---------------------------
(***************************************************************************)
(* Proofs about the two tasks that carry a fill to the chain: the shared   *)
(* nonce manager of a signer (tx_submitter.rs), for any number of callers, *)
(* attempts and failing calls, and the batch flusher (batch_flusher.rs),   *)
(* for any number of fills and attempts and every batch size.              *)
(***************************************************************************)
EXTENDS TxSubmitter, BatchFlusher, FiniteSetTheorems, SequenceTheorems,
        WellFoundedInduction, TLAPS

-----------------------------------------------------------------------------
(* The pending count: the first nonce at or after the mined ones that the    *)
(* mempool does not hold.                                                    *)

NoncesOf(P) == {tx.nonce : tx \in P}

FreeNonces(L, P) == {n \in L .. L + Cardinality(P) : n \notin NoncesOf(P)}

FirstFree(L, P) == Min(FreeNonces(L, P))

IsFirstFree(f, L, P) ==
  /\ f \in Nat /\ f >= L
  /\ f \notin NoncesOf(P)
  /\ \A n \in L .. f - 1 : n \in NoncesOf(P)

(* A mempool of k transactions leaves one of any k + 1 nonces free.          *)
LEMMA SomeNonceFree ==
  ASSUME NEW L \in Nat, NEW P, IsFiniteSet(P)
  PROVE  FreeNonces(L, P) # {}
<1>1. Cardinality(P) \in Nat
  BY FS_CardinalityType
<1> DEFINE f == [tx \in P |-> tx.nonce]
           I == L .. L + Cardinality(P)
<1>2. f \in Surjection(P, NoncesOf(P))
  BY DEF NoncesOf, Surjection
<1>3. IsFiniteSet(NoncesOf(P)) /\ Cardinality(NoncesOf(P)) <= Cardinality(P)
  BY <1>2, FS_Surjection
<1>4. Cardinality(I) = Cardinality(P) + 1
  BY <1>1, FS_Interval
<1>5. SUFFICES ASSUME I \in SUBSET NoncesOf(P)
               PROVE  FALSE
  BY DEF FreeNonces
<1>6. Cardinality(I) <= Cardinality(NoncesOf(P))
  BY <1>3, <1>5, FS_Subset
<1>7. Cardinality(NoncesOf(P)) \in Nat
  BY <1>3, FS_CardinalityType
<1> QED
  BY <1>1, <1>3, <1>4, <1>6, <1>7

LEMMA LeastNatural ==
  ASSUME NEW S \in SUBSET Nat, S # {}
  PROVE  Min(S) \in S /\ \A y \in S : Min(S) <= y
<1>1. PICK m \in S : \A y \in S : ~ (<<y, m>> \in OpToRel(<, Nat))
  BY WFMin, NatLessThanWellFounded
<1>2. \A y \in S : ~ (y < m)
  BY <1>1 DEF OpToRel
<1>3. \A y \in S : m <= y
  BY <1>2
<1> QED
  BY <1>3 DEF Min

LEMMA FirstFreeIs ==
  ASSUME NEW L \in Nat, NEW P, IsFiniteSet(P)
  PROVE  IsFirstFree(FirstFree(L, P), L, P)
<1>1. Cardinality(P) \in Nat
  BY FS_CardinalityType
<1> DEFINE F == FirstFree(L, P)
<1>2. FreeNonces(L, P) \in SUBSET Nat
  BY <1>1 DEF FreeNonces
<1>3. F \in FreeNonces(L, P) /\ \A y \in FreeNonces(L, P) : F <= y
  BY <1>2, SomeNonceFree, LeastNatural DEF FirstFree
<1>4. F \in Nat /\ F >= L /\ F <= L + Cardinality(P) /\ F \notin NoncesOf(P)
  BY <1>1, <1>3 DEF FreeNonces
<1>5. ASSUME NEW n \in L .. F - 1, n \notin NoncesOf(P)
      PROVE  FALSE
  <2>1. n \in FreeNonces(L, P)
    BY <1>1, <1>4, <1>5 DEF FreeNonces
  <2> QED
    BY <1>3, <1>4, <2>1
<1> QED
  BY <1>4, <1>5 DEF IsFirstFree

(* The first free nonce does not go back when the mempool loses only nonces  *)
(* that are mined.                                                           *)
LEMMA FirstFreeGrows ==
  ASSUME NEW L \in Nat, NEW P, IsFiniteSet(P), NEW L1 \in Nat, NEW P1, IsFiniteSet(P1),
         L <= L1, \A n \in NoncesOf(P) : n \in Nat /\ n >= L1 => n \in NoncesOf(P1)
  PROVE  FirstFree(L, P) <= FirstFree(L1, P1)
<1> DEFINE f == FirstFree(L, P)
           f1 == FirstFree(L1, P1)
<1>1. IsFirstFree(f, L, P) /\ IsFirstFree(f1, L1, P1)
  BY FirstFreeIs
<1> HIDE DEF f, f1
<1>2. f \in Nat /\ f1 \in Nat /\ f1 >= L1 /\ f1 \notin NoncesOf(P1)
  BY <1>1 DEF IsFirstFree
<1>3. ASSUME f1 < f
      PROVE  FALSE
  <2>1. f1 \in L .. f - 1
    BY <1>2, <1>3
  <2>2. f1 \in NoncesOf(P)
    BY <1>1, <2>1 DEF IsFirstFree
  <2> QED
    BY <1>2, <2>2
<1>4. f <= f1
  BY <1>2, <1>3
<1> QED
  BY <1>4 DEF f, f1

-----------------------------------------------------------------------------
(* What the node holds and has mined of a call.  The mempool has one         *)
(* transaction of a nonce, none of a nonce that is mined; a call about which *)
(* no answer was lost has sent nothing until it waits for a receipt, and     *)
(* then the one of the nonce it remembers, unless that one was replaced.     *)

NodeInv ==
  /\ IsFiniteSet(mempool)
  /\ \A tx \in mempool : tx.nonce >= Len(mined)
  /\ \A t, u \in mempool : t.nonce = u.nonce => t = u

NoneHeld(c) == \A tx \in mempool : tx.caller # c

NoneMined(c) == \A n \in DOMAIN mined : mined[n].caller # c

Held(c) ==
  /\ [nonce |-> nonce[c], caller |-> c] \in mempool
  /\ \A tx \in mempool : tx.caller = c => tx.nonce = nonce[c]
  /\ NoneMined(c)

MinedAt(c, n) ==
  /\ n \in DOMAIN mined /\ mined[n].caller = c
  /\ \A k \in DOMAIN mined : mined[k].caller = c => k = n
  /\ NoneHeld(c)

BeforeReceipt == {"Start", "Priming", "Primed", "Sending", "Resync", "Resynced"}

CallFits(c) ==
  /\ pc[c] \in BeforeReceipt => NoneHeld(c) /\ NoneMined(c) /\ result[c] = "None"
  /\ pc[c] = "Receipt" =>
       /\ Held(c) \/ MinedAt(c, nonce[c] + 1) \/ (NoneHeld(c) /\ NoneMined(c))
       /\ result[c] = "None"
  /\ pc[c] = "Done" =>
       \/ result[c] \in {"Rpc", "MaxAttemptsExceeded"} /\ NoneHeld(c) /\ NoneMined(c)
       \/ /\ result[c] \in {"Ok", "Reverted"}
          /\ MinedAt(c, nonce[c] + 1)
          /\ mined[nonce[c] + 1].ok = (result[c] = "Ok")

CallsFit == \A c \in Callers \ unknown : CallFits(c)

SubmitterInv == TypeOK /\ NodeInv /\ NoGap /\ CallsFit

-----------------------------------------------------------------------------
(* How a call moves on: what its places become, and that the other calls     *)
(* stay where they are.                                                      *)

CallTypes ==
  /\ pc \in [Callers -> Places] /\ nonce \in [Callers -> Nat]
  /\ attempt \in [Callers -> 0 .. MaxAttempts - 1]
  /\ result \in [Callers -> Results]

OthersStay(c) ==
  \A d \in Callers \ {c} : pc'[d] = pc[d] /\ nonce'[d] = nonce[d] /\ result'[d] = result[d]

LEMMA ReturnStep ==
  ASSUME TypeOK, NEW c \in Callers, NEW r \in Results, Return(c, r)
  PROVE  /\ CallTypes' /\ OthersStay(c)
         /\ pc'[c] = "Done" /\ result'[c] = r /\ nonce' = nonce
BY DEF TypeOK, CallTypes, OthersStay, Return, Places

LEMMA NextAttemptStep ==
  ASSUME TypeOK, NEW c \in Callers, NextAttempt(c)
  PROVE  /\ CallTypes' /\ OthersStay(c) /\ nonce' = nonce
         /\ \/ pc'[c] = "Start" /\ result'[c] = result[c]
            \/ pc'[c] = "Done" /\ result'[c] = "MaxAttemptsExceeded"
<1>1. CASE Return(c, "MaxAttemptsExceeded")
  BY <1>1, ReturnStep DEF Results
<1>2. CASE /\ attempt[c] + 1 < MaxAttempts
           /\ attempt' = [attempt EXCEPT ![c] = @ + 1]
           /\ pc' = [pc EXCEPT ![c] = "Start"]
           /\ UNCHANGED <<nonce, result>>
  <2>1. attempt[c] + 1 \in 0 .. MaxAttempts - 1
    BY <1>2, BoundsOfSubmitter DEF TypeOK
  <2> QED
    BY <1>2, <2>1 DEF TypeOK, CallTypes, OthersStay, Places
<1> QED
  BY <1>1, <1>2 DEF NextAttempt

LEMMA GoToStep ==
  ASSUME TypeOK, NEW c \in Callers, NEW place \in Places, GoTo(c, place)
  PROVE  /\ CallTypes' /\ OthersStay(c)
         /\ pc'[c] = place /\ result' = result /\ nonce' = nonce
BY DEF TypeOK, CallTypes, OthersStay, GoTo

LEMMA CountIs ==
  ASSUME TypeOK, NodeInv
  PROVE  /\ Len(mined) \in Nat
         /\ IsFirstFree(PendingCount, Len(mined), mempool)
         /\ PendingCount \in Nat /\ PendingCount >= Len(mined)
<1>1. Len(mined) \in Nat
  BY DEF TypeOK
<1>2. PendingCount = FirstFree(Len(mined), mempool)
  BY DEF PendingCount, FirstFree, FreeNonces, NoncesOf, Waiting
<1> QED
  BY <1>1, <1>2, FirstFreeIs DEF NodeInv, IsFirstFree

LEMMA ReadStep ==
  ASSUME TypeOK, NodeInv, NEW c \in Callers, NEW place \in Places, Read(c, place)
  PROVE  /\ CallTypes' /\ OthersStay(c)
         /\ pc'[c] = place /\ result' = result /\ nonce'[c] = PendingCount
BY CountIs DEF TypeOK, CallTypes, OthersStay, Read

(* What Submit does to the node: nothing, or it hands over one transaction.  *)
LEMMA SubmitNode ==
  ASSUME NEW c \in Callers, Submit(c)
  PROVE  /\ mined' = mined /\ others' = others
         /\ mempool' = mempool \/ Accept(nonce[c], c)
BY DEF Submit, Assign, PrimeRead, PrimeSet, Send, Confirm, ReceiptFails, ResyncRead,
       ResyncSet, node

(* An accepted transaction has a nonce that is not mined, and is the only    *)
(* one with it; no nonce is given back.                                      *)
LEMMA AcceptNode ==
  ASSUME TypeOK, NodeInv, NEW by \in Callers \cup {Other}, NEW n \in Nat, Accept(n, by),
         mined' = mined
  PROVE  /\ NodeInv' /\ mempool' \subseteq [nonce : Nat, caller : Callers \cup {Other}]
         /\ NoncesOf(mempool) \subseteq NoncesOf(mempool')
<1> DEFINE new == [nonce |-> n, caller |-> by]
           kept == {t \in mempool : t.nonce # n}
<1>1. mempool' = kept \cup {new} /\ n >= Len(mined) /\ Len(mined) \in Nat
  BY DEF Accept, TypeOK
<1>2. IsFiniteSet(mempool')
  <2>1. IsFiniteSet(kept)
    BY FS_Subset DEF NodeInv
  <2> HIDE DEF kept
  <2> QED
    BY <1>1, <2>1, FS_AddElement
<1>3. \A t \in mempool' : t.nonce >= Len(mined')
  BY <1>1 DEF NodeInv
<1>4. \A t, u \in mempool' : t.nonce = u.nonce => t = u
  BY <1>1 DEF NodeInv
<1>5. mempool' \subseteq [nonce : Nat, caller : Callers \cup {Other}]
  BY <1>1 DEF TypeOK
<1>6. NoncesOf(mempool) \subseteq NoncesOf(mempool')
  <2> SUFFICES ASSUME NEW t \in mempool
               PROVE  \E u \in mempool' : u.nonce = t.nonce
    BY DEF NoncesOf
  <2>1. new \in mempool' /\ new.nonce = n
    BY <1>1
  <2>2. t.nonce # n => t \in mempool'
    BY <1>1
  <2> QED
    BY <2>1, <2>2
<1> QED
  BY <1>2, <1>3, <1>4, <1>5, <1>6 DEF NodeInv

(* A transaction of the signer's other client.                               *)
LEMMA OtherNode ==
  ASSUME TypeOK, NodeInv, OtherSends
  PROVE  /\ TypeOK' /\ NodeInv' /\ NoncesOf(mempool) \subseteq NoncesOf(mempool')
         /\ mined' = mined /\ UNCHANGED <<cache, calls>>
         /\ \A d \in Callers : \A t : t.caller = d /\ t \in mempool' => t \in mempool
<1>1. Len(mined) \in Nat /\ PendingCount \in Nat
  BY CountIs
<1>2. PICK n \in Len(mined) .. PendingCount : Accept(n, Other)
  BY DEF OtherSends
<1>3. mined' = mined /\ n \in Nat
  BY <1>1 DEF OtherSends
<1>4. /\ NodeInv' /\ NoncesOf(mempool) \subseteq NoncesOf(mempool')
      /\ mempool' \subseteq [nonce : Nat, caller : Callers \cup {Other}]
  BY <1>2, <1>3, AcceptNode
<1>5. others' \in 0 .. MaxOthers
  BY BoundsOfSubmitter DEF OtherSends, TypeOK
<1>6. TypeOK'
  BY <1>3, <1>4, <1>5 DEF OtherSends, TypeOK, calls
<1>7. \A d \in Callers : \A t : t.caller = d /\ t \in mempool' => t \in mempool
  BY <1>2, OtherIsOther DEF Accept
<1> QED
  BY <1>3, <1>4, <1>6, <1>7 DEF OtherSends

(* The transaction of the next nonce is mined; the others have later ones.   *)
LEMMA MineNode ==
  ASSUME TypeOK, NodeInv, Mine
  PROVE  NodeInv' /\ TypeOK' /\ Len(mined') = Len(mined) + 1
<1>1. PICK tx \in mempool, ok \in BOOLEAN :
        /\ tx.nonce = Len(mined)
        /\ mempool' = mempool \ {tx}
        /\ mined' = Append(mined, [caller |-> tx.caller, ok |-> ok])
  BY DEF Mine
<1>2. Len(mined) \in Nat /\ Len(mined') = Len(mined) + 1
  BY <1>1 DEF TypeOK
<1>3. tx.caller \in Callers \cup {Other}
  BY <1>1 DEF TypeOK
<1>4. mined' \in Seq([caller : Callers \cup {Other}, ok : BOOLEAN])
  BY <1>1, <1>3 DEF TypeOK
<1>5. TypeOK'
  BY <1>1, <1>4 DEF TypeOK, Mine, calls
<1>6. IsFiniteSet(mempool')
  BY <1>1, FS_RemoveElement DEF NodeInv
<1>7. \A t \in mempool' : t.nonce >= Len(mined')
  <2> TAKE t \in mempool'
  <2>1. t \in mempool /\ t # tx /\ t.nonce \in Nat
    BY <1>1 DEF TypeOK
  <2>2. t.nonce # Len(mined) /\ t.nonce >= Len(mined)
    BY <1>1, <2>1 DEF NodeInv
  <2> QED
    BY <1>2, <2>1, <2>2
<1>8. \A t, u \in mempool' : t.nonce = u.nonce => t = u
  BY <1>1 DEF NodeInv
<1> QED
  BY <1>2, <1>5, <1>6, <1>7, <1>8 DEF NodeInv

-----------------------------------------------------------------------------
(* What any step of a call does: the nonce it remembers is its own, the      *)
(* cache's or the pending count; the cache takes the caller's nonce, or the  *)
(* one after it once it is mined.                                            *)
CallMoves(c) ==
  /\ CallTypes' /\ OthersStay(c)
  /\ \/ nonce'[c] = nonce[c] \/ nonce'[c] = PendingCount
     \/ cache # NoNonce /\ nonce'[c] = cache
  /\ \/ cache' = cache \/ cache' = nonce[c]
     \/ nonce[c] < Len(mined) /\ cache' = nonce[c] + 1

LEMMA SubmitMoves ==
  ASSUME TypeOK, NodeInv, NEW c \in Callers, Submit(c)
  PROVE  CallMoves(c)
<1> USE DEF Places, Results
<1>1. CASE Assign(c)
  <2>1. CASE cache # NoNonce
    BY <1>1, <2>1 DEF Assign, TypeOK, CallTypes, OthersStay, CallMoves
  <2>2. CASE cache = NoNonce
    BY <1>1, <2>2, GoToStep DEF Assign, CallMoves
  <2> QED
    BY <2>1, <2>2
<1>2. CASE PrimeRead(c)
  BY <1>2, ReadStep, ReturnStep DEF PrimeRead, CallMoves
<1>3. CASE PrimeSet(c)
  BY <1>3, GoToStep DEF PrimeSet, CallMoves
<1>4. CASE Send(c)
  BY <1>4, GoToStep, NextAttemptStep, ReturnStep DEF Send, CallMoves
<1>5. CASE Confirm(c)
  <2>1. CallTypes' /\ OthersStay(c) /\ nonce' = nonce
    BY <1>5, ReturnStep DEF Confirm
  <2> QED
    BY <1>5, <2>1 DEF Confirm, HasReceipt, CommitNonce, CallMoves
<1>6. CASE ReceiptFails(c)
  BY <1>6, GoToStep DEF ReceiptFails, CallMoves
<1>7. CASE ResyncRead(c)
  BY <1>7, ReadStep, ReturnStep DEF ResyncRead, CallMoves
<1>8. CASE ResyncSet(c)
  BY <1>8, NextAttemptStep DEF ResyncSet, CallMoves
<1> QED
  BY <1>1, <1>2, <1>3, <1>4, <1>5, <1>6, <1>7, <1>8 DEF Submit

LEMMA SubmitTypes ==
  ASSUME TypeOK, NodeInv, NEW c \in Callers, Submit(c)
  PROVE  TypeOK' /\ NodeInv'
<1>1. CallTypes' /\ cache' \in Nat \cup {NoNonce}
  <2>1. /\ CallTypes'
        /\ \/ cache' = cache \/ cache' = nonce[c]
           \/ nonce[c] < Len(mined) /\ cache' = nonce[c] + 1
    BY SubmitMoves DEF CallMoves
  <2>2. nonce[c] \in Nat /\ cache \in Nat \cup {NoNonce}
    BY DEF TypeOK, CallTypes
  <2>3. QED
    BY <2>1, <2>2
<1>2. mutex' \in Callers \cup {Nobody}
  <2>1. mutex' \in {mutex, c, Nobody}
    <3>1. CASE Assign(c)
      BY <3>1 DEF Assign
    <3>2. CASE PrimeRead(c)
      BY <3>2 DEF PrimeRead
    <3>3. CASE PrimeSet(c)
      BY <3>3 DEF PrimeSet
    <3>4. CASE Send(c)
      BY <3>4 DEF Send
    <3>5. CASE Confirm(c)
      BY <3>5 DEF Confirm
    <3>6. CASE ReceiptFails(c)
      BY <3>6 DEF ReceiptFails
    <3>7. CASE ResyncRead(c)
      BY <3>7 DEF ResyncRead
    <3>8. CASE ResyncSet(c)
      BY <3>8 DEF ResyncSet
    <3>9. QED
      BY <3>1, <3>2, <3>3, <3>4, <3>5, <3>6, <3>7, <3>8 DEF Submit
  <2>2. QED
    BY <2>1 DEF TypeOK
<1>3. faults' \in 0 .. MaxFaults /\ unknown' \subseteq Callers
  <2>1. faults' = faults \/ Fault
    BY DEF Submit, Assign, PrimeRead, PrimeSet, Send, Confirm, ReceiptFails, ResyncRead,
           ResyncSet
  <2>2. unknown' = unknown \/ unknown' = unknown \cup {c}
    BY DEF Submit, Assign, PrimeRead, PrimeSet, Send, Confirm, ReceiptFails, ResyncRead,
           ResyncSet
  <2> QED
    BY <2>1, <2>2, BoundsOfSubmitter DEF Fault, TypeOK
<1>4. mined' = mined /\ mined' \in Seq([caller : Callers \cup {Other}, ok : BOOLEAN])
  BY SubmitNode DEF TypeOK
<1>5. mempool' \subseteq [nonce : Nat, caller : Callers \cup {Other}] /\ NodeInv'
  <2>1. nonce[c] \in Nat
    BY DEF TypeOK
  <2> QED
    BY <1>4, <2>1, SubmitNode, AcceptNode DEF TypeOK, NodeInv
<1>6. others' \in 0 .. MaxOthers
  BY SubmitNode DEF TypeOK
<1> QED
  BY <1>1, <1>2, <1>3, <1>4, <1>5, <1>6 DEF TypeOK, CallTypes

LEMMA TypeStep ==
  ASSUME TypeOK, NodeInv, Next
  PROVE  TypeOK' /\ NodeInv'
BY MineNode, OtherNode, SubmitTypes DEF Next

-----------------------------------------------------------------------------
(* The pending count never goes back, so what was read from it, however long *)
(* ago, is a nonce the node is ready for.                                    *)
LEMMA CountGrows ==
  ASSUME TypeOK, NodeInv, Next
  PROVE  PendingCount <= PendingCount'
<1>1. PendingCount = FirstFree(Len(mined), mempool)
  BY DEF PendingCount, FirstFree, FreeNonces, NoncesOf, Waiting
<1>2. PendingCount' = FirstFree(Len(mined'), mempool')
  BY DEF PendingCount, FirstFree, FreeNonces, NoncesOf, Waiting
<1>3. /\ Len(mined) \in Nat /\ IsFiniteSet(mempool)
      /\ Len(mined') \in Nat /\ IsFiniteSet(mempool')
  BY TypeStep DEF TypeOK, NodeInv
<1>4. CASE Mine
  <2>1. Len(mined) <= Len(mined')
    BY <1>3, <1>4, MineNode
  <2>2. PICK tx \in mempool : tx.nonce = Len(mined) /\ mempool' = mempool \ {tx}
    BY <1>4 DEF Mine
  <2>3. \A n \in NoncesOf(mempool) : n \in Nat /\ n >= Len(mined') => n \in NoncesOf(mempool')
    BY <1>3, <1>4, <2>2, MineNode DEF NoncesOf
  <2> QED
    BY <1>1, <1>2, <1>3, <2>1, <2>3, FirstFreeGrows
<1>5. CASE OtherSends \/ \E c \in Callers : Submit(c)
  <2>1. mined' = mined /\ NoncesOf(mempool) \subseteq NoncesOf(mempool')
    <3>1. CASE OtherSends
      BY <3>1, OtherNode
    <3>2. ASSUME NEW c \in Callers, Submit(c)
          PROVE  mined' = mined /\ NoncesOf(mempool) \subseteq NoncesOf(mempool')
      <4>1. mined' = mined /\ (mempool' = mempool \/ Accept(nonce[c], c)) /\ nonce[c] \in Nat
        BY <3>2, SubmitNode DEF TypeOK
      <4> QED
        BY <4>1, AcceptNode
    <3> QED
      BY <1>5, <3>1, <3>2
  <2> QED
    BY <1>1, <1>2, <1>3, <2>1, FirstFreeGrows
<1> QED
  BY <1>4, <1>5 DEF Next

LEMMA NoGapStep ==
  ASSUME TypeOK, NodeInv, NoGap, Next
  PROVE  NoGap'
<1>1. PendingCount \in Nat /\ Len(mined) \in Nat /\ Len(mined) <= PendingCount
  BY CountIs
<1>2. PendingCount' \in Nat /\ PendingCount <= PendingCount'
  <2>1. TypeOK' /\ NodeInv'
    BY TypeStep
  <2>2. PendingCount' = FirstFree(Len(mined'), mempool')
    BY DEF PendingCount, FirstFree, FreeNonces, NoncesOf, Waiting
  <2>3. IsFirstFree(PendingCount', Len(mined'), mempool')
    BY <2>1, <2>2, FirstFreeIs DEF TypeOK, NodeInv
  <2> QED
    BY <2>3, CountGrows DEF IsFirstFree
<1>3. CASE Mine
  BY <1>1, <1>2, <1>3 DEF Mine, calls, NoGap, TypeOK
<1>4. CASE OtherSends
  BY <1>1, <1>2, <1>4 DEF OtherSends, calls, NoGap, TypeOK
<1>5. ASSUME NEW c \in Callers, Submit(c)
      PROVE  NoGap'
  <2>1. CallMoves(c)
    BY <1>5, SubmitMoves
  <2>2. cache' # NoNonce => cache' <= PendingCount
    BY <1>1, <2>1 DEF CallMoves, NoGap, TypeOK
  <2>3. ASSUME NEW d \in Callers
        PROVE  nonce'[d] <= PendingCount
    <3>1. nonce[d] <= PendingCount /\ (cache # NoNonce => cache <= PendingCount)
      BY DEF NoGap
    <3>2. \/ nonce'[d] = nonce[d] \/ nonce'[d] = PendingCount
          \/ cache # NoNonce /\ nonce'[d] = cache
      BY <2>1 DEF CallMoves, OthersStay
    <3> QED
      BY <1>1, <3>1, <3>2
  <2>4. (cache' # NoNonce => cache' \in Nat) /\ \A d \in Callers : nonce'[d] \in Nat
    BY TypeStep DEF TypeOK
  <2> QED
    BY <1>1, <1>2, <2>2, <2>3, <2>4 DEF NoGap
<1> QED
  BY <1>3, <1>4, <1>5 DEF Next

-----------------------------------------------------------------------------
(* A call that does not move while the node mines nothing: its transaction   *)
(* stays where it is, or is replaced.                                        *)
LEMMA FitsUnmoved ==
  ASSUME TypeOK, NEW d \in Callers, CallFits(d),
         pc'[d] = pc[d], nonce'[d] = nonce[d], result'[d] = result[d], mined' = mined,
         \A tx : tx.caller = d /\ tx \in mempool' => tx \in mempool
  PROVE  CallFits(d)'
<1>1. NoneHeld(d) => NoneHeld(d)'
  BY DEF NoneHeld
<1>2. NoneMined(d) => NoneMined(d)'
  BY DEF NoneMined
<1>3. ASSUME Held(d)
      PROVE  Held(d)' \/ (NoneHeld(d) /\ NoneMined(d))'
  <2> DEFINE own == [nonce |-> nonce[d], caller |-> d]
  <2>1. \A tx \in mempool' : tx.caller = d => tx = own
    BY <1>3 DEF Held, TypeOK
  <2>2. CASE own \in mempool'
    BY <1>2, <1>3, <2>1, <2>2 DEF Held
  <2>3. CASE own \notin mempool'
    BY <1>2, <1>3, <2>1, <2>3 DEF Held, NoneHeld
  <2> QED
    BY <2>2, <2>3
<1>4. \A n : MinedAt(d, n) => MinedAt(d, n)'
  BY <1>1 DEF MinedAt
<1> QED
  BY <1>1, <1>2, <1>3, <1>4 DEF CallFits

(* A call that has sent nothing, and still has not.                          *)
LEMMA FitsClear ==
  ASSUME NEW c \in Callers, NoneHeld(c), NoneMined(c), UNCHANGED node,
         \/ pc'[c] \in BeforeReceipt /\ result'[c] = "None"
         \/ pc'[c] = "Done" /\ result'[c] \in {"Rpc", "MaxAttemptsExceeded"}
  PROVE  CallFits(c)'
<1>1. NoneHeld(c)' /\ NoneMined(c)'
  BY DEF NoneHeld, NoneMined, node
<1> QED
  BY <1>1 DEF CallFits, BeforeReceipt

(* The node mines: of the call whose transaction it was, there is now        *)
(* exactly one, under the nonce it remembers.                                *)
LEMMA FitsMine ==
  ASSUME TypeOK, NodeInv, Mine, NEW d \in Callers, CallFits(d)
  PROVE  CallFits(d)'
<1>1. PICK tx \in mempool, ok \in BOOLEAN :
        /\ tx.nonce = Len(mined)
        /\ mempool' = mempool \ {tx}
        /\ mined' = Append(mined, [caller |-> tx.caller, ok |-> ok])
  BY DEF Mine
<1> DEFINE L == Len(mined)
<1>2. L \in Nat /\ tx \in [nonce : Nat, caller : Callers \cup {Other}] /\ DOMAIN mined = 1 .. L
  BY DEF TypeOK
<1>3. /\ DOMAIN mined' = 1 .. L + 1
      /\ \A k \in 1 .. L : mined'[k] = mined[k]
      /\ mined'[L + 1] = [caller |-> tx.caller, ok |-> ok]
  BY <1>1, <1>2 DEF TypeOK
<1>4. pc' = pc /\ nonce' = nonce /\ result' = result
  BY DEF Mine, calls
<1> HIDE DEF L
<1>5. NoneHeld(d) => NoneHeld(d)'
  BY <1>1 DEF NoneHeld
<1>6. CASE tx.caller # d
  <2>1. NoneMined(d) => NoneMined(d)'
    BY <1>2, <1>3, <1>6 DEF NoneMined
  <2>2. Held(d) => Held(d)'
    BY <1>1, <1>4, <1>6, <2>1 DEF Held
  <2>3. ASSUME NEW n, MinedAt(d, n)
        PROVE  MinedAt(d, n)' /\ mined'[n] = mined[n]
    BY <1>2, <1>3, <1>5, <1>6, <2>3 DEF MinedAt
  <2> QED
    BY <1>4, <1>5, <2>1, <2>2, <2>3 DEF CallFits
<1>7. CASE tx.caller = d
  <2>1. ~ NoneHeld(d)
    BY <1>1, <1>7 DEF NoneHeld
  <2>2. pc[d] = "Receipt" /\ Held(d) /\ result[d] = "None"
    BY <2>1 DEF CallFits, MinedAt, BeforeReceipt, Places, TypeOK
  <2>3. nonce[d] = L /\ NoneMined(d)
    BY <1>1, <1>7, <2>2 DEF Held, L
  <2>4. NoneHeld(d)'
    <3> SUFFICES ASSUME NEW t \in mempool', t.caller = d
                 PROVE  FALSE
      BY DEF NoneHeld
    <3>1. t \in mempool /\ t # tx /\ t.nonce = tx.nonce
      BY <1>1, <1>7, <2>2 DEF Held
    <3> QED
      BY <3>1 DEF NodeInv
  <2>5. MinedAt(d, nonce[d] + 1)'
    <3>1. nonce'[d] + 1 = L + 1 /\ L + 1 \in 1 .. L + 1
      BY <1>2, <1>4, <2>3
    <3>2. mined'[L + 1].caller = d
      BY <1>3, <1>7
    <3>3. \A k \in DOMAIN mined' : mined'[k].caller = d => k = L + 1
      BY <1>2, <1>3, <2>3 DEF NoneMined
    <3> QED
      BY <1>3, <2>4, <3>1, <3>2, <3>3 DEF MinedAt
  <2> QED
    BY <1>4, <2>2, <2>3, <2>5 DEF CallFits, BeforeReceipt
<1> QED
  BY <1>6, <1>7

LEMMA MinedType ==
  ASSUME TypeOK, NEW n \in DOMAIN mined
  PROVE  mined[n] \in [caller : Callers \cup {Other}, ok : BOOLEAN]
<1>1. DOMAIN mined = 1 .. Len(mined) /\ mined \in Seq([caller : Callers \cup {Other}, ok : BOOLEAN])
  BY DEF TypeOK
<1> QED
  BY <1>1, ElementOfSeq

(* A step of the call itself, as long as no answer about it is lost.         *)
LEMMA FitsSubmit ==
  ASSUME TypeOK, NodeInv, NEW c \in Callers, Submit(c), CallFits(c), c \notin unknown'
  PROVE  CallFits(c)'
<1> USE DEF Places, Results
<1>1. CASE Assign(c)
  BY <1>1, FitsClear, GoToStep DEF Assign, CallFits, BeforeReceipt, TypeOK
<1>2. CASE PrimeRead(c)
  BY <1>2, FitsClear, ReadStep, ReturnStep DEF PrimeRead, CallFits, BeforeReceipt
<1>3. CASE PrimeSet(c)
  BY <1>3, FitsClear, GoToStep DEF PrimeSet, CallFits, BeforeReceipt
<1>4. CASE Send(c)
  <2>1. NoneHeld(c) /\ NoneMined(c) /\ result[c] = "None"
    BY <1>4 DEF Send, CallFits, BeforeReceipt
  <2>2. CASE Accept(nonce[c], c) /\ GoTo(c, "Receipt")
    <3>1. pc'[c] = "Receipt" /\ nonce' = nonce /\ result' = result /\ mined' = mined
      BY <1>4, <2>2, GoToStep DEF Send
    <3>2. Held(c)'
      BY <2>1, <2>2, <3>1 DEF Accept, Held, NoneHeld, NoneMined
    <3> QED
      BY <2>1, <3>1, <3>2 DEF CallFits, BeforeReceipt
  <2>3. CASE GoTo(c, "Resync") /\ UNCHANGED mempool
    BY <1>4, <2>1, <2>3, FitsClear, GoToStep DEF Send, BeforeReceipt, node
  <2>4. CASE Return(c, "Rpc") /\ UNCHANGED mempool
    BY <1>4, <2>1, <2>4, FitsClear, ReturnStep DEF Send, node
  <2> QED
    BY <1>4, <2>2, <2>3, <2>4 DEF Send
<1>5. CASE Confirm(c)
  <2> DEFINE n == nonce[c]
  <2>1. pc[c] = "Receipt" /\ HasReceipt(c) /\ UNCHANGED node
    BY <1>5 DEF Confirm
  <2>2. Held(c) \/ MinedAt(c, n + 1) \/ (NoneHeld(c) /\ NoneMined(c))
    BY <2>1 DEF CallFits
  <2>3. ~ NoneMined(c)
    <3>1. n \in Nat /\ n < Len(mined) /\ mined[n + 1].caller = c
      BY <2>1 DEF HasReceipt, TypeOK
    <3>2. n + 1 \in DOMAIN mined
      BY <3>1 DEF TypeOK
    <3> QED
      BY <3>1, <3>2 DEF NoneMined
  <2>4. MinedAt(c, n + 1)
    BY <2>2, <2>3 DEF Held
  <2>5. /\ pc'[c] = "Done" /\ nonce' = nonce
        /\ result'[c] = IF mined[n + 1].ok THEN "Ok" ELSE "Reverted"
    BY <1>5, ReturnStep DEF Confirm
  <2>6. mined[n + 1].ok \in BOOLEAN
    BY <2>4, MinedType DEF MinedAt
  <2>7. MinedAt(c, n + 1)'
    BY <2>1, <2>4, <2>5 DEF MinedAt, NoneHeld, node
  <2> QED
    BY <2>1, <2>5, <2>6, <2>7 DEF CallFits, BeforeReceipt, node
<1>6. CASE ReceiptFails(c)
  BY <1>6 DEF ReceiptFails
<1>7. CASE ResyncRead(c)
  BY <1>7, FitsClear, ReadStep, ReturnStep DEF ResyncRead, CallFits, BeforeReceipt
<1>8. CASE ResyncSet(c)
  BY <1>8, FitsClear, NextAttemptStep DEF ResyncSet, CallFits, BeforeReceipt
<1> QED
  BY <1>1, <1>2, <1>3, <1>4, <1>5, <1>6, <1>7, <1>8 DEF Submit

LEMMA CallsStep ==
  ASSUME TypeOK, NodeInv, CallsFit, Next
  PROVE  CallsFit'
<1> SUFFICES ASSUME NEW d \in Callers, d \notin unknown'
             PROVE  CallFits(d)'
  BY DEF CallsFit
<1>1. unknown \subseteq unknown'
  BY DEF Next, Mine, OtherSends, Submit, Assign, PrimeRead, PrimeSet, Send, Confirm, ReceiptFails,
         ResyncRead, ResyncSet
<1>2. CallFits(d)
  BY <1>1 DEF CallsFit
<1>3. CASE Mine
  BY <1>2, <1>3, FitsMine
<1>4. CASE OtherSends
  BY <1>2, <1>4, OtherNode, FitsUnmoved DEF calls
<1>5. ASSUME NEW c \in Callers, Submit(c)
      PROVE  CallFits(d)'
  <2>1. CASE c = d
    BY <1>2, <1>5, <2>1, FitsSubmit
  <2>2. CASE c # d
    <3>1. pc'[d] = pc[d] /\ nonce'[d] = nonce[d] /\ result'[d] = result[d]
      BY <1>5, <2>2, SubmitMoves DEF CallMoves, OthersStay
    <3>2. mined' = mined /\ \A tx : tx.caller = d /\ tx \in mempool' => tx \in mempool
      BY <1>5, <2>2, SubmitNode DEF Accept
    <3> QED
      BY <1>2, <3>1, <3>2, FitsUnmoved
  <2> QED
    BY <2>1, <2>2
<1> QED
  BY <1>3, <1>4, <1>5 DEF Next

-----------------------------------------------------------------------------
LEMMA SubmitterInvHolds == Spec => []SubmitterInv
<1>1. Init => SubmitterInv
  <2> SUFFICES ASSUME Init
               PROVE  SubmitterInv
    OBVIOUS
  <2>1. TypeOK
    BY BoundsOfSubmitter DEF Init, TypeOK, Places, Results
  <2>2. NodeInv
    BY FS_EmptySet DEF Init, NodeInv
  <2>3. NoGap
    BY <2>1, <2>2, CountIs DEF Init, NoGap
  <2>4. CallsFit
    BY DEF Init, CallsFit, CallFits, NoneHeld, NoneMined, BeforeReceipt
  <2> QED
    BY <2>1, <2>2, <2>3, <2>4 DEF SubmitterInv
<1>2. SubmitterInv /\ [Next]_vars => SubmitterInv'
  <2> SUFFICES ASSUME SubmitterInv, [Next]_vars
               PROVE  SubmitterInv'
    OBVIOUS
  <2>1. CASE Next
    BY <2>1, TypeStep, NoGapStep, CallsStep DEF SubmitterInv
  <2>2. CASE UNCHANGED vars
    <3>1. TypeOK'
      BY <2>2 DEF vars, calls, node, SubmitterInv, TypeOK
    <3>2. NodeInv' /\ PendingCount' = PendingCount
      BY <2>2 DEF vars, node, SubmitterInv, NodeInv, PendingCount, Waiting
    <3>3. NoGap'
      BY <2>2, <3>2 DEF vars, calls, SubmitterInv, NoGap
    <3>4. CallsFit'
      BY <2>2 DEF vars, calls, node, SubmitterInv, CallsFit, CallFits, Held, MinedAt,
                  NoneHeld, NoneMined
    <3> QED
      BY <3>1, <3>2, <3>3, <3>4 DEF SubmitterInv
  <2> QED
    BY <2>1, <2>2
<1> QED
  BY <1>1, <1>2, PTL DEF Spec

(* Every variable keeps its type.                                            *)
THEOREM SubmitterTypes == Spec => []TypeOK
BY SubmitterInvHolds, PTL DEF SubmitterInv

(* No caller holds a nonce beyond the pending count, and the cache offers    *)
(* none: no transaction of submit_tx waits behind a gap.                     *)
THEOREM SubmitterNoGap == Spec => []NoGap
BY SubmitterInvHolds, PTL DEF SubmitterInv

(* A call about which no answer was lost executes its transaction at most    *)
(* once, not at all when it reports an RPC failure, and with success when it *)
(* reports success.                                                          *)
THEOREM SubmitterAtMostOnce == Spec => []AtMostOnceIfAnswered
<1>1. SubmitterInv => AtMostOnceIfAnswered
  <2> SUFFICES ASSUME SubmitterInv, NEW c \in Callers \ unknown
               PROVE  /\ Taken(c) <= 1
                      /\ result[c] \in {"Rpc", "MaxAttemptsExceeded"} => Taken(c) = 0
                      /\ result[c] = "Ok" =>
                           \E n \in DOMAIN mined : mined[n] = [caller |-> c, ok |-> TRUE]
    BY DEF AtMostOnceIfAnswered
  <2> DEFINE M == {n \in DOMAIN mined : mined[n].caller = c}
             H == {tx \in mempool : tx.caller = c}
  <2>1. CallFits(c) /\ TypeOK /\ NodeInv
    BY DEF SubmitterInv, CallsFit
  <2>2. Taken(c) = Cardinality(M) + Cardinality(H)
    BY DEF Taken
  <2>3. NoneHeld(c) => Cardinality(H) = 0
    BY FS_EmptySet DEF NoneHeld
  <2>4. NoneMined(c) => Cardinality(M) = 0
    BY FS_EmptySet DEF NoneMined
  <2>5. ASSUME Held(c)
        PROVE  Cardinality(H) = 1 /\ Cardinality(M) = 0
    <3>1. H = {[nonce |-> nonce[c], caller |-> c]}
      BY <2>1, <2>5 DEF Held, TypeOK
    <3> QED
      BY <2>4, <2>5, <3>1, FS_Singleton DEF Held
  <2>6. ASSUME NEW n, MinedAt(c, n)
        PROVE  Cardinality(H) = 0 /\ Cardinality(M) = 1
    <3>1. M = {n}
      BY <2>6 DEF MinedAt
    <3> QED
      BY <2>3, <2>6, <3>1, FS_Singleton DEF MinedAt
  <2> HIDE DEF M, H
  <2>7. \/ Held(c) \/ (\E n : MinedAt(c, n)) \/ (NoneHeld(c) /\ NoneMined(c))
    BY <2>1 DEF CallFits, TypeOK, Places, BeforeReceipt
  <2>8. Taken(c) <= 1
    BY <2>2, <2>3, <2>4, <2>5, <2>6, <2>7
  <2>9. ASSUME result[c] \in {"Rpc", "MaxAttemptsExceeded"}
        PROVE  Taken(c) = 0
    <3>1. NoneHeld(c) /\ NoneMined(c)
      BY <2>1, <2>9 DEF CallFits, TypeOK, Places, BeforeReceipt
    <3> QED
      BY <2>2, <2>3, <2>4, <3>1
  <2>10. ASSUME result[c] = "Ok"
         PROVE  \E n \in DOMAIN mined : mined[n] = [caller |-> c, ok |-> TRUE]
    <3>1. MinedAt(c, nonce[c] + 1) /\ mined[nonce[c] + 1].ok = TRUE
      BY <2>1, <2>10 DEF CallFits, TypeOK, Places, BeforeReceipt
    <3>2. mined[nonce[c] + 1] \in [caller : Callers \cup {Other}, ok : BOOLEAN]
      BY <2>1, <3>1, MinedType DEF MinedAt
    <3> QED
      BY <3>1, <3>2 DEF MinedAt
  <2> QED
    BY <2>8, <2>9, <2>10
<1> QED
  BY <1>1, SubmitterInvHolds, PTL

-----------------------------------------------------------------------------
(***************************************************************************)
(* The batch flusher.  A flush picks elements out of a queue: a fold over  *)
(* its indices, shown to exist by an induction over Nat stated with sets.  *)
(***************************************************************************)
LEMMA LeastNat ==
  ASSUME NEW T, T \subseteq Nat, T # {}
  PROVE  \E x \in T : \A y \in T : x <= y
BY LeastNatural

\* A set of naturals with 0 and the successors of its elements is all of Nat.
LEMMA Inductive ==
  ASSUME NEW S, S \subseteq Nat, 0 \in S, \A n \in S : n + 1 \in S
  PROVE  \A n \in Nat : n \in S
<1>1. SUFFICES ASSUME Nat \ S # {} PROVE FALSE
  OBVIOUS
<1>2. PICK x \in Nat \ S : \A y \in Nat \ S : x <= y
  <2>1. Nat \ S \subseteq Nat
    OBVIOUS
  <2>2. QED
    BY <1>1, <2>1, LeastNat
<1>3. x - 1 \in Nat /\ x - 1 < x
  BY <1>2
<1>4. x - 1 \in S
  BY <1>2, <1>3
<1>5. (x - 1) + 1 = x
  BY <1>2
<1>6. QED
  BY <1>2, <1>4, <1>5

LEMMA MaxIs ==
  ASSUME NEW n \in Nat, NEW T, T \subseteq 0 .. n, T # {}
  PROVE  Max(T) \in T /\ \A y \in T : Max(T) >= y
<1>1. \E x \in T : \A y \in T : x >= y
  <2>1. PICK z \in {n - x : x \in T} : \A y \in {n - x : x \in T} : z <= y
    <3>1. {n - x : x \in T} \subseteq Nat
      OBVIOUS
    <3>2. {n - x : x \in T} # {}
      OBVIOUS
    <3>3. QED
      BY <3>1, <3>2, LeastNat
  <2>2. PICK x \in T : z = n - x
    BY <2>1
  <2>3. \A y \in T : n - x <= n - y
    BY <2>1, <2>2
  <2>4. QED
    BY <2>3
<1>2. QED
  BY <1>1 DEF Max

LEMMA MaxOfIndices ==
  ASSUME NEW n \in Nat
  PROVE  \A s \in SUBSET (1 .. n) : s # {} => Max(s) \in s /\ \A y \in s : y <= Max(s)
<1>1. TAKE s \in SUBSET (1 .. n)
<1>2. HAVE s # {}
<1>3. s \subseteq 0 .. n
  OBVIOUS
<1>4. Max(s) \in s /\ \A y \in s : Max(s) >= y
  BY <1>2, <1>3, MaxIs
<1>5. QED
  BY <1>3, <1>4

\* Without its largest index, the prefix 1 .. k + 1 is the prefix 1 .. k.
UpToNext(n, k) ==
  /\ 1 .. k + 1 \in SUBSET (1 .. n) /\ 1 .. k + 1 # {}
  /\ Max(1 .. k + 1) = k + 1
  /\ (1 .. k + 1) \ {k + 1} = 1 .. k

LEMMA NextPrefix ==
  ASSUME NEW n \in Nat, NEW k \in Nat, k + 1 <= n
  PROVE  UpToNext(n, k)
<1>1. 1 .. k + 1 \in SUBSET (1 .. n)
  OBVIOUS
<1>2. k + 1 \in 1 .. k + 1 /\ \A y \in 1 .. k + 1 : y <= k + 1
  OBVIOUS
<1>3. 1 .. k + 1 # {}
  BY <1>2
<1>4. PICK s : s = 1 .. k + 1
  OBVIOUS
<1>5. Max(s) \in s /\ \A y \in s : y <= Max(s)
  BY <1>1, <1>3, <1>4, MaxOfIndices
<1>6. Max(s) = k + 1
  <2>1. k + 1 <= Max(s) /\ Max(s) <= k + 1 /\ Max(s) \in Int
    BY <1>2, <1>4, <1>5
  <2>2. QED
    BY <2>1
<1>7. (1 .. k + 1) \ {k + 1} = 1 .. k
  <2>1. \A x : x \in (1 .. k + 1) \ {k + 1} <=> x \in 1 .. k
    OBVIOUS
  <2>2. QED
    BY <2>1
<1>8. Max(1 .. k + 1) = k + 1
  BY <1>4, <1>6
<1>9. QED
  BY <1>1, <1>3, <1>7, <1>8, Zenon DEF UpToNext

\* Folding a function of A over 1 .. n, the largest index last.
FoldsOf(n, A, a, F) ==
  {g \in [SUBSET (1 .. n) -> A] :
     \A s \in SUBSET (1 .. n) :
       g[s] = IF s = {} THEN a ELSE F[<<g[s \ {Max(s)}], Max(s)>>]}

LEMMA FoldExists ==
  ASSUME NEW n \in Nat, NEW A, NEW a \in A, NEW F \in [A \X (1 .. n) -> A]
  PROVE  FoldsOf(n, A, a, F) # {}
<1> DEFINE D == 1 .. n
           At(g, s) == IF s = {} THEN a ELSE F[<<g[s \ {Max(s)}], Max(s)>>]
           Upto(k, g) == \A s \in SUBSET D : s \subseteq 1 .. k => g[s] = At(g, s)
           S == {k \in Nat : \E g \in [SUBSET D -> A] : Upto(k, g)}
<1>1. \A s \in SUBSET D : s # {} => Max(s) \in s /\ \A y \in s : y <= Max(s)
  BY MaxOfIndices
<1>2. ASSUME NEW g \in [SUBSET D -> A], NEW s \in SUBSET D PROVE At(g, s) \in A
  <2>1. CASE s = {}
    BY <2>1
  <2>2. CASE s # {}
    <3>1. s \ {Max(s)} \in SUBSET D /\ Max(s) \in 1 .. n
      BY <1>1, <2>2
    <3>2. g[s \ {Max(s)}] \in A
      BY <3>1
    <3>3. <<g[s \ {Max(s)}], Max(s)>> \in A \X (1 .. n)
      BY <3>1, <3>2
    <3>4. QED
      BY <2>2, <3>3
  <2>3. QED
    BY <2>1, <2>2
<1>3. 0 \in S
  <2> DEFINE g == [s \in SUBSET D |-> a]
  <2>1. g \in [SUBSET D -> A]
    OBVIOUS
  <2>2. Upto(0, g)
    <3>1. \A s \in SUBSET D : s \subseteq 1 .. 0 => s = {}
      OBVIOUS
    <3>2. QED
      BY <3>1
  <2>3. QED
    BY <2>1, <2>2
<1>4. \A k \in S : k + 1 \in S
  <2>1. TAKE k \in S
  <2>2. PICK g \in [SUBSET D -> A] : Upto(k, g)
    OBVIOUS
  <2>3. k \in Nat
    OBVIOUS
  <2> DEFINE h == [s \in SUBSET D |-> At(g, s)]
  <2>4. h \in [SUBSET D -> A]
    <3> HIDE DEF At
    <3>1. QED
      BY <1>2
  <2>5. \A s \in SUBSET D : s \subseteq 1 .. k => h[s] = g[s]
    BY <2>2
  <2>6. Upto(k + 1, h)
    <3>1. SUFFICES ASSUME NEW s \in SUBSET D, s \subseteq 1 .. k + 1
                   PROVE  h[s] = At(h, s)
      OBVIOUS
    <3>2. CASE s = {}
      BY <3>2
    <3>3. CASE s # {}
      <4>1. Max(s) \in s /\ \A y \in s : y <= Max(s)
        BY <1>1, <3>3
      <4>2. s \ {Max(s)} \subseteq 1 .. k
        <5>1. PICK m \in s : m = Max(s) /\ \A y \in s : y <= m
          BY <4>1
        <5>2. \A y \in s \ {m} : y \in 1 .. k
          BY <2>3, <3>1, <5>1
        <5>3. QED
          BY <5>1, <5>2
      <4>3. h[s \ {Max(s)}] = g[s \ {Max(s)}]
        BY <2>5, <4>2
      <4>4. QED
        BY <3>3, <4>3
    <3>4. QED
      BY <3>2, <3>3
  <2>7. k + 1 \in Nat
    BY <2>3
  <2> HIDE DEF h, Upto
  <2>8. QED
    BY <2>4, <2>6, <2>7
<1>5. n \in S
  <2>1. S \subseteq Nat
    OBVIOUS
  <2> HIDE DEF S
  <2>2. QED
    BY <1>3, <1>4, <2>1, Inductive
<1>6. PICK g \in [SUBSET D -> A] : Upto(n, g)
  BY <1>5
<1>7. \A s \in SUBSET D : g[s] = At(g, s)
  BY <1>6
<1>8. g \in FoldsOf(n, A, a, F)
  BY <1>7 DEF FoldsOf
<1>9. QED
  BY <1>8

-----------------------------------------------------------------------------
\* Picking elements of a queue: a fold over its indices.
PickStep(kept, seq, i, chosen) ==
  IF i \in chosen THEN Append(kept, seq[i]) ELSE kept

PicksOf(seq, chosen) ==
  CHOOSE iter : iter = [s \in SUBSET (DOMAIN [i \in DOMAIN seq |-> i]) |->
                          IF s = {} THEN <<>>
                          ELSE PickStep(iter[s \ {Max(s)}], seq,
                                        [i \in DOMAIN seq |-> i][Max(s)], chosen)]

LEMMA PickedAre ==
  ASSUME NEW seq, NEW chosen
  PROVE  Picked(seq, chosen) = PicksOf(seq, chosen)[DOMAIN [i \in DOMAIN seq |-> i]]
BY DEF Picked, FoldLeft, MapThenFoldSet, PicksOf, PickStep

\* The elements of p are those of seq at the chosen places, in their order.
SelectedBy(h, p, seq, chosen) ==
  /\ h \in [DOMAIN p -> chosen]
  /\ \A i, j \in DOMAIN p : i < j => h[i] < h[j]
  /\ \A c \in chosen : \E i \in DOMAIN p : h[i] = c
  /\ \A i \in DOMAIN p : p[i] = seq[h[i]]

Selected(p, seq, chosen) == \E h : SelectedBy(h, p, seq, chosen)

LEMMA NoneSelected ==
  ASSUME NEW seq
  PROVE  Selected(<<>>, seq, {})
<1>1. DOMAIN <<>> = {}
  OBVIOUS
<1>2. SelectedBy(<<>>, <<>>, seq, {})
  BY <1>1 DEF SelectedBy
<1>3. QED
  BY <1>2 DEF Selected

LEMMA OneMoreSelected ==
  ASSUME NEW T, NEW p \in Seq(T), NEW seq, NEW k \in Nat, seq[k + 1] \in T,
         NEW C \in SUBSET (1 .. k), Selected(p, seq, C)
  PROVE  Selected(Append(p, seq[k + 1]), seq, C \cup {k + 1})
<1>1. PICK h : SelectedBy(h, p, seq, C)
  BY DEF Selected
<1>2. PICK n \in Nat : n = Len(p) /\ DOMAIN p = 1 .. n
  OBVIOUS
<1>3. PICK q : q = Append(p, seq[k + 1])
  OBVIOUS
<1>4. DOMAIN q = 1 .. n + 1 /\ q[n + 1] = seq[k + 1] /\ \A i \in 1 .. n : q[i] = p[i]
  BY <1>2, <1>3
<1>5. PICK g : g = [i \in 1 .. n + 1 |-> IF i = n + 1 THEN k + 1 ELSE h[i]]
  OBVIOUS
<1>6. g[n + 1] = k + 1 /\ \A i \in 1 .. n : g[i] = h[i]
  BY <1>5
<1>7. \A i \in 1 .. n : h[i] \in C /\ h[i] \in 1 .. k
  BY <1>1, <1>2 DEF SelectedBy
<1>8. \A i \in 1 .. n + 1 : i = n + 1 \/ i \in 1 .. n
  OBVIOUS
<1>9. g \in [1 .. n + 1 -> C \cup {k + 1}]
  BY <1>5, <1>7, <1>8
<1>10. ASSUME NEW i \in 1 .. n + 1, NEW j \in 1 .. n + 1, i < j
       PROVE  g[i] < g[j]
  <2>1. i \in 1 .. n
    BY <1>10
  <2>2. CASE j = n + 1
    BY <1>6, <1>7, <2>1, <2>2
  <2>3. CASE j \in 1 .. n
    <3>1. h[i] < h[j]
      BY <1>1, <1>2, <1>10, <2>1, <2>3 DEF SelectedBy
    <3>2. QED
      BY <1>6, <2>1, <2>3, <3>1
  <2>4. QED
    BY <1>8, <2>2, <2>3
<1>11. ASSUME NEW c \in C \cup {k + 1}
       PROVE  \E i \in 1 .. n + 1 : g[i] = c
  <2>1. CASE c = k + 1
    BY <1>6, <2>1
  <2>2. CASE c \in C
    <3>1. PICK i \in 1 .. n : h[i] = c
      BY <1>1, <1>2, <2>2 DEF SelectedBy
    <3>2. QED
      BY <1>6, <3>1
  <2>3. QED
    BY <2>1, <2>2
<1>12. \A i \in 1 .. n + 1 : q[i] = seq[g[i]]
  <2>1. \A i \in 1 .. n : p[i] = seq[h[i]]
    BY <1>1, <1>2 DEF SelectedBy
  <2>2. QED
    BY <1>4, <1>6, <1>8, <2>1
<1>13. SelectedBy(g, q, seq, C \cup {k + 1})
  BY <1>4, <1>9, <1>10, <1>11, <1>12 DEF SelectedBy
<1>14. QED
  BY <1>3, <1>13 DEF Selected

LEMMA PickedSelects ==
  ASSUME NEW T, NEW seq \in Seq(T), NEW chosen, chosen \subseteq DOMAIN seq
  PROVE  Picked(seq, chosen) \in Seq(T) /\ Selected(Picked(seq, chosen), seq, chosen)
<1>1. PICK n \in Nat : n = Len(seq) /\ DOMAIN seq = 1 .. n
  OBVIOUS
<1>2. \A i \in 1 .. n : seq[i] \in T
  BY <1>1, ElementOfSeq
<1>3. PICK places : places = [i \in DOMAIN seq |-> i]
  OBVIOUS
<1>4. DOMAIN places = 1 .. n /\ \A i \in 1 .. n : places[i] = i
  BY <1>1, <1>3
<1> DEFINE F == [x \in Seq(T) \X (1 .. n) |-> PickStep(x[1], seq, places[x[2]], chosen)]
           iter == PicksOf(seq, chosen)
<1>5. \A kept \in Seq(T), i \in 1 .. n : PickStep(kept, seq, places[i], chosen) \in Seq(T)
  <2>1. TAKE kept \in Seq(T), i \in 1 .. n
  <2>2. Append(kept, seq[places[i]]) \in Seq(T)
    BY <1>2, <1>4
  <2>3. QED
    BY <1>4, <2>2 DEF PickStep
<1>6. F \in [Seq(T) \X (1 .. n) -> Seq(T)]
  BY <1>5
<1>7. \A kept \in Seq(T), i \in 1 .. n :
        F[<<kept, i>>] = PickStep(kept, seq, places[i], chosen)
  OBVIOUS
<1>8. \A s \in SUBSET (1 .. n) : s # {} => Max(s) \in s /\ \A y \in s : y <= Max(s)
  BY MaxOfIndices
<1>9. <<>> \in Seq(T)
  OBVIOUS
<1> HIDE DEF F
<1>10. PICK g \in [SUBSET (1 .. n) -> Seq(T)] :
         \A s \in SUBSET (1 .. n) :
           g[s] = IF s = {} THEN <<>> ELSE F[<<g[s \ {Max(s)}], Max(s)>>]
  <2>1. FoldsOf(n, Seq(T), <<>>, F) # {}
    BY <1>6, <1>9, FoldExists
  <2>2. QED
    BY <2>1 DEF FoldsOf
<1>11. g = [s \in SUBSET (1 .. n) |->
              IF s = {} THEN <<>>
              ELSE PickStep(g[s \ {Max(s)}], seq, places[Max(s)], chosen)]
  <2>1. ASSUME NEW s \in SUBSET (1 .. n), s # {}
        PROVE  F[<<g[s \ {Max(s)}], Max(s)>>]
                 = PickStep(g[s \ {Max(s)}], seq, places[Max(s)], chosen)
    <3>1. s \ {Max(s)} \in SUBSET (1 .. n) /\ Max(s) \in 1 .. n
      BY <1>8, <2>1
    <3>2. g[s \ {Max(s)}] \in Seq(T)
      BY <3>1
    <3>3. QED
      BY <1>7, <3>1, <3>2
  <2>2. QED
    BY <1>10, <2>1
<1>12. iter = [s \in SUBSET (DOMAIN [i \in DOMAIN seq |-> i]) |->
                 IF s = {} THEN <<>>
                 ELSE PickStep(iter[s \ {Max(s)}], seq,
                               [i \in DOMAIN seq |-> i][Max(s)], chosen)]
  <2>1. g = [s \in SUBSET (DOMAIN [i \in DOMAIN seq |-> i]) |->
               IF s = {} THEN <<>>
               ELSE PickStep(g[s \ {Max(s)}], seq,
                             [i \in DOMAIN seq |-> i][Max(s)], chosen)]
    BY <1>3, <1>4, <1>11
  <2>2. QED
    BY <2>1, Zenon DEF PicksOf
<1> HIDE DEF iter
<1>13. iter = [s \in SUBSET (1 .. n) |->
                 IF s = {} THEN <<>>
                 ELSE PickStep(iter[s \ {Max(s)}], seq, places[Max(s)], chosen)]
  BY <1>3, <1>4, <1>12
<1> DEFINE Fits(k) == iter[1 .. k] \in Seq(T)
                      /\ Selected(iter[1 .. k], seq, chosen \cap 1 .. k)
           S == {k \in Nat : k <= n => Fits(k)}
<1>14. 0 \in S
  <2>1. 1 .. 0 = {} /\ {} \in SUBSET (1 .. n)
    OBVIOUS
  <2>2. iter[1 .. 0] = <<>>
    BY <1>13, <2>1
  <2>3. chosen \cap 1 .. 0 = {}
    BY <2>1
  <2>4. Fits(0)
    BY <1>9, <2>2, <2>3, NoneSelected
  <2> HIDE DEF Fits
  <2>5. QED
    BY <2>4
<1>15. \A k \in S : k + 1 \in S
  <2>1. SUFFICES ASSUME NEW k \in Nat, k <= n => Fits(k), k + 1 <= n
                 PROVE  Fits(k + 1)
    <3> HIDE DEF Fits
    <3>1. QED
      OBVIOUS
  <2>2. UpToNext(n, k)
    BY <2>1, NextPrefix
  <2>3. k + 1 \in 1 .. n /\ Fits(k)
    BY <2>1
  <2>4. iter[1 .. k + 1] = PickStep(iter[1 .. k], seq, k + 1, chosen)
    <3>1. places[k + 1] = k + 1
      BY <1>4, <2>3
    <3>2. PICK s \in SUBSET (1 .. n) : s = 1 .. k + 1 /\ s # {} /\ Max(s) = k + 1
                                      /\ s \ {Max(s)} = 1 .. k
      BY <2>2 DEF UpToNext
    <3>3. iter[s] = PickStep(iter[s \ {Max(s)}], seq, places[Max(s)], chosen)
      BY <1>13, <3>2
    <3>4. QED
      BY <3>1, <3>2, <3>3
  <2>5. CASE k + 1 \in chosen
    <3>1. iter[1 .. k + 1] = Append(iter[1 .. k], seq[k + 1])
      BY <2>4, <2>5 DEF PickStep
    <3>2. seq[k + 1] \in T
      BY <1>2, <2>3
    <3>3. chosen \cap 1 .. k \in SUBSET (1 .. k)
      OBVIOUS
    <3>4. Selected(Append(iter[1 .. k], seq[k + 1]), seq, (chosen \cap 1 .. k) \cup {k + 1})
      BY <2>3, <3>2, <3>3, OneMoreSelected
    <3>5. (chosen \cap 1 .. k) \cup {k + 1} = chosen \cap 1 .. k + 1
      BY <2>5
    <3>6. Append(iter[1 .. k], seq[k + 1]) \in Seq(T)
      BY <2>3, <3>2
    <3>7. QED
      BY <3>1, <3>4, <3>5, <3>6
  <2>6. CASE k + 1 \notin chosen
    <3>1. iter[1 .. k + 1] = iter[1 .. k]
      BY <2>4, <2>6 DEF PickStep
    <3>2. chosen \cap 1 .. k = chosen \cap 1 .. k + 1
      BY <2>6
    <3>3. QED
      BY <2>3, <3>1, <3>2
  <2>7. QED
    BY <2>5, <2>6
<1>16. S \subseteq Nat
  OBVIOUS
<1>17. n \in S
  <2> HIDE DEF S
  <2>1. QED
    BY <1>14, <1>15, <1>16, Inductive
<1>18. iter[1 .. n] \in Seq(T) /\ Selected(iter[1 .. n], seq, chosen \cap 1 .. n)
  BY <1>17
<1>19. chosen \cap 1 .. n = chosen
  BY <1>1
<1>20. Picked(seq, chosen) = iter[1 .. n]
  BY <1>3, <1>4, PickedAre DEF iter
<1>21. QED
  BY <1>18, <1>19, <1>20

-----------------------------------------------------------------------------
\* What a queue of entries holds, and how it changes.
FillSet(seq) == {seq[i].fill : i \in DOMAIN seq}

Once(seq) == \A i, j \in DOMAIN seq : seq[i].fill = seq[j].fill => i = j

Increasing(seq) == \A i, j \in DOMAIN seq : i < j => seq[i] < seq[j]

Below(S, T) == \A f \in S, g \in T : f < g

FillsAt(seq, chosen) == {seq[i].fill : i \in chosen}

\* The entries of r carry the fills of seq at the chosen places, in order.
FillsBy(h, r, seq, chosen) ==
  /\ h \in [DOMAIN r -> chosen]
  /\ \A i, j \in DOMAIN r : i < j => h[i] < h[j]
  /\ \A c \in chosen : \E i \in DOMAIN r : h[i] = c
  /\ \A i \in DOMAIN r : r[i].fill = seq[h[i]].fill

LEMMA FillsOfPicks ==
  ASSUME NEW n \in Nat, NEW r, DOMAIN r = 1 .. n, NEW seq,
         NEW chosen \in SUBSET Nat, chosen \subseteq DOMAIN seq,
         NEW h, FillsBy(h, r, seq, chosen)
  PROVE  /\ FillSet(r) = FillsAt(seq, chosen)
         /\ Once(seq) => Once(r)
<1>1. \A i \in 1 .. n : h[i] \in chosen /\ r[i].fill = seq[h[i]].fill
  BY DEF FillsBy
<1>2. FillSet(r) \subseteq FillsAt(seq, chosen)
  <2>1. SUFFICES ASSUME NEW i \in 1 .. n PROVE r[i].fill \in FillsAt(seq, chosen)
    BY DEF FillSet
  <2>2. PICK c \in chosen : r[i].fill = seq[c].fill
    BY <1>1
  <2>3. QED
    BY <2>2, Zenon DEF FillsAt
<1>3. FillsAt(seq, chosen) \subseteq FillSet(r)
  <2>1. SUFFICES ASSUME NEW c \in chosen PROVE seq[c].fill \in FillSet(r)
    BY DEF FillsAt
  <2>2. PICK i \in DOMAIN r : h[i] = c
    BY DEF FillsBy
  <2>3. QED
    BY <1>1, <2>2 DEF FillSet
<1>4. ASSUME Once(seq), NEW i \in 1 .. n, NEW j \in 1 .. n, r[i].fill = r[j].fill
      PROVE  i = j
  <2>1. h[i] = h[j]
    <3>1. PICK a \in DOMAIN seq, b \in DOMAIN seq : a = h[i] /\ b = h[j]
      BY <1>1
    <3>2. seq[a].fill = seq[b].fill
      BY <1>1, <1>4, <3>1
    <3>3. QED
      BY <1>4, <3>1, <3>2, Zenon DEF Once
  <2>2. ~ (i < j) /\ ~ (j < i)
    <3>1. h[i] \in Nat /\ h[j] \in Nat
      BY <1>1
    <3>2. (i < j => h[i] < h[j]) /\ (j < i => h[j] < h[i])
      BY DEF FillsBy
    <3>3. QED
      BY <2>1, <3>1, <3>2
  <2>3. QED
    BY <2>2
<1>5. QED
  BY <1>2, <1>3, <1>4 DEF Once

LEMMA SplitFills ==
  ASSUME NEW seq, NEW C, C \subseteq DOMAIN seq
  PROVE  /\ FillsAt(seq, C) \cup FillsAt(seq, DOMAIN seq \ C) = FillSet(seq)
         /\ Once(seq) => FillsAt(seq, C) \cap FillsAt(seq, DOMAIN seq \ C) = {}
BY DEF FillsAt, FillSet, Once

Joins(c, T, p, q, m, n) ==
  /\ DOMAIN p = 1 .. m /\ DOMAIN q = 1 .. n
  /\ c \in Seq(T) /\ DOMAIN c = 1 .. m + n
  /\ \A i \in 1 .. m : c[i] = p[i]
  /\ \A i \in 1 .. n : c[m + i] = q[i]
  /\ \A k \in 1 .. m + n : k \in 1 .. m \/ \E i \in 1 .. n : k = m + i

LEMMA ConcatIs ==
  ASSUME NEW T, NEW p \in Seq(T), NEW q \in Seq(T)
  PROVE  \E m \in Nat, n \in Nat :
           m = Len(p) /\ n = Len(q) /\ Joins(p \o q, T, p, q, m, n)
<1>1. PICK m \in Nat, n \in Nat : /\ m = Len(p) /\ n = Len(q)
                                   /\ DOMAIN p = 1 .. m /\ DOMAIN q = 1 .. n
  OBVIOUS
<1>2. PICK c : c = p \o q
  OBVIOUS
<1>3. c \in Seq(T) /\ Len(c) = m + n
  BY <1>1, <1>2, ConcatProperties
<1>4. DOMAIN c = 1 .. m + n
  BY <1>3
<1>5. \A i \in 1 .. m + n : c[i] = IF i <= m THEN p[i] ELSE q[i - m]
  BY <1>1, <1>2, ConcatProperties
<1>6. \A i \in 1 .. m : c[i] = p[i]
  BY <1>5
<1>7. \A i \in 1 .. n : c[m + i] = q[i]
  <2>1. TAKE i \in 1 .. n
  <2>2. m + i \in 1 .. m + n /\ ~ (m + i <= m) /\ (m + i) - m = i
    OBVIOUS
  <2>3. QED
    BY <1>5, <2>2
<1>8. ASSUME NEW k \in 1 .. m + n
      PROVE  k \in 1 .. m \/ \E i \in 1 .. n : k = m + i
  <2>1. CASE k > m
    <3>1. k - m \in 1 .. n /\ k = m + (k - m)
      BY <2>1
    <3>2. QED
      BY <3>1
  <2>2. QED
    BY <2>1
<1>9. Joins(c, T, p, q, m, n)
  BY <1>1, <1>3, <1>4, <1>6, <1>7, <1>8 DEF Joins
<1>10. QED
  BY <1>1, <1>2, <1>9

LEMMA ConcatOnce ==
  ASSUME NEW T, NEW p \in Seq(T), NEW q \in Seq(T)
  PROVE  /\ FillSet(p \o q) = FillSet(p) \cup FillSet(q)
         /\ Once(p) /\ Once(q) /\ FillSet(p) \cap FillSet(q) = {} => Once(p \o q)
<1>c. PICK c : c = p \o q
  OBVIOUS
<1>j. PICK m \in Nat, n \in Nat : Joins(c, T, p, q, m, n)
  BY <1>c, ConcatIs
<1>1. /\ DOMAIN p = 1 .. m /\ DOMAIN q = 1 .. n
      /\ c \in Seq(T) /\ DOMAIN c = 1 .. m + n
      /\ \A i \in 1 .. m : c[i] = p[i]
      /\ \A i \in 1 .. n : c[m + i] = q[i]
      /\ \A k \in 1 .. m + n : k \in 1 .. m \/ \E i \in 1 .. n : k = m + i
  BY <1>j DEF Joins
<1>2. \A i \in 1 .. m : i \in 1 .. m + n
  OBVIOUS
<1>3. \A i \in 1 .. n : m + i \in 1 .. m + n
  OBVIOUS
<1>4. FillSet(c) \subseteq FillSet(p) \cup FillSet(q)
  <2>1. SUFFICES ASSUME NEW k \in 1 .. m + n PROVE c[k].fill \in FillSet(p) \cup FillSet(q)
    BY <1>1, Zenon DEF FillSet
  <2>2. CASE k \in 1 .. m
    BY <1>1, <2>2, Zenon DEF FillSet
  <2>3. CASE k \notin 1 .. m
    <3>1. PICK i \in 1 .. n : k = m + i
      BY <1>1, <2>3
    <3>2. c[k].fill = q[i].fill
      BY <1>1, <3>1
    <3>3. QED
      BY <1>1, <3>2, Zenon DEF FillSet
  <2>4. QED
    BY <2>2, <2>3
<1>5. FillSet(p) \cup FillSet(q) \subseteq FillSet(c)
  <2>1. ASSUME NEW i \in 1 .. m PROVE p[i].fill \in FillSet(c)
    <3>1. c[i].fill = p[i].fill
      BY <1>1
    <3>2. QED
      BY <1>1, <1>2, <3>1, Zenon DEF FillSet
  <2>2. ASSUME NEW i \in 1 .. n PROVE q[i].fill \in FillSet(c)
    <3>1. c[m + i].fill = q[i].fill
      BY <1>1
    <3>2. QED
      BY <1>1, <1>3, <3>1, Zenon DEF FillSet
  <2>3. QED
    BY <1>1, <2>1, <2>2, Zenon DEF FillSet
<1>6. ASSUME Once(p), Once(q), FillSet(p) \cap FillSet(q) = {},
             NEW i \in 1 .. m + n, NEW j \in 1 .. m + n, c[i].fill = c[j].fill
      PROVE  i = j
  <2>1. ASSUME NEW a \in 1 .. m, NEW b \in 1 .. n PROVE p[a].fill # q[b].fill
    BY <1>1, <1>6 DEF FillSet
  <2>2. CASE i \in 1 .. m /\ j \in 1 .. m
    BY <1>1, <1>6, <2>2 DEF Once
  <2>3. CASE i \in 1 .. m /\ j \notin 1 .. m
    <3>1. PICK b \in 1 .. n : j = m + b
      BY <1>1, <2>3
    <3>2. p[i].fill = q[b].fill
      BY <1>1, <1>6, <2>3, <3>1
    <3>3. QED
      BY <2>1, <2>3, <3>2
  <2>4. CASE i \notin 1 .. m /\ j \in 1 .. m
    <3>1. PICK b \in 1 .. n : i = m + b
      BY <1>1, <2>4
    <3>2. p[j].fill = q[b].fill
      BY <1>1, <1>6, <2>4, <3>1
    <3>3. QED
      BY <2>1, <2>4, <3>2
  <2>5. CASE i \notin 1 .. m /\ j \notin 1 .. m
    <3>1. PICK a \in 1 .. n : i = m + a
      BY <1>1, <2>5
    <3>2. PICK b \in 1 .. n : j = m + b
      BY <1>1, <2>5
    <3>3. q[a].fill = q[b].fill
      BY <1>1, <1>6, <3>1, <3>2
    <3>4. a = b
      BY <1>1, <1>6, <3>3 DEF Once
    <3>5. QED
      BY <3>1, <3>2, <3>4
  <2>6. QED
    BY <2>2, <2>3, <2>4, <2>5
<1>7. QED
  BY <1>c, <1>1, <1>4, <1>5, <1>6 DEF Once

LEMMA ConcatInjective ==
  ASSUME NEW T, NEW p \in Seq(T), NEW q \in Seq(T)
  PROVE  /\ p \o q \in Seq(T)
         /\ ToSet(p \o q) = ToSet(p) \cup ToSet(q)
         /\ IsInjective(p) /\ IsInjective(q) /\ ToSet(p) \cap ToSet(q) = {}
              => IsInjective(p \o q)
<1>c. PICK c : c = p \o q
  OBVIOUS
<1>j. PICK m \in Nat, n \in Nat : Joins(c, T, p, q, m, n)
  BY <1>c, ConcatIs
<1>1. /\ DOMAIN p = 1 .. m /\ DOMAIN q = 1 .. n
      /\ c \in Seq(T) /\ DOMAIN c = 1 .. m + n
      /\ \A i \in 1 .. m : c[i] = p[i]
      /\ \A i \in 1 .. n : c[m + i] = q[i]
      /\ \A k \in 1 .. m + n : k \in 1 .. m \/ \E i \in 1 .. n : k = m + i
  BY <1>j DEF Joins
<1>2. \A i \in 1 .. m : i \in 1 .. m + n
  OBVIOUS
<1>3. \A i \in 1 .. n : m + i \in 1 .. m + n
  OBVIOUS
<1>4. ToSet(c) \subseteq ToSet(p) \cup ToSet(q)
  <2>1. SUFFICES ASSUME NEW k \in 1 .. m + n PROVE c[k] \in ToSet(p) \cup ToSet(q)
    BY <1>1, Zenon DEF ToSet
  <2>2. CASE k \in 1 .. m
    BY <1>1, <2>2, Zenon DEF ToSet
  <2>3. CASE k \notin 1 .. m
    BY <1>1, <2>3 DEF ToSet
  <2>4. QED
    BY <2>2, <2>3
<1>5. ToSet(p) \cup ToSet(q) \subseteq ToSet(c)
  BY <1>1, <1>2, <1>3 DEF ToSet
<1>6. ASSUME IsInjective(p), IsInjective(q), ToSet(p) \cap ToSet(q) = {},
             NEW i \in 1 .. m + n, NEW j \in 1 .. m + n, c[i] = c[j]
      PROVE  i = j
  <2>1. ASSUME NEW a \in 1 .. m, NEW b \in 1 .. n PROVE p[a] # q[b]
    BY <1>1, <1>6 DEF ToSet
  <2>2. CASE i \in 1 .. m /\ j \in 1 .. m
    BY <1>1, <1>6, <2>2 DEF IsInjective
  <2>3. CASE i \in 1 .. m /\ j \notin 1 .. m
    <3>1. PICK b \in 1 .. n : j = m + b
      BY <1>1, <2>3
    <3>2. p[i] = q[b]
      BY <1>1, <1>6, <2>3, <3>1
    <3>3. QED
      BY <2>1, <2>3, <3>2
  <2>4. CASE i \notin 1 .. m /\ j \in 1 .. m
    <3>1. PICK b \in 1 .. n : i = m + b
      BY <1>1, <2>4
    <3>2. p[j] = q[b]
      BY <1>1, <1>6, <2>4, <3>1
    <3>3. QED
      BY <2>1, <2>4, <3>2
  <2>5. CASE i \notin 1 .. m /\ j \notin 1 .. m
    <3>1. PICK a \in 1 .. n : i = m + a
      BY <1>1, <2>5
    <3>2. PICK b \in 1 .. n : j = m + b
      BY <1>1, <2>5
    <3>3. q[a] = q[b]
      BY <1>1, <1>6, <3>1, <3>2
    <3>4. a = b
      BY <1>1, <1>6, <3>3 DEF IsInjective
    <3>5. QED
      BY <3>1, <3>2, <3>4
  <2>6. QED
    BY <2>2, <2>3, <2>4, <2>5
<1>7. QED
  BY <1>c, <1>1, <1>4, <1>5, <1>6 DEF IsInjective

LEMMA AppendIs ==
  ASSUME NEW q \in Seq(Fills), NEW e \in Fills
  PROVE  Append(q, e) \in Seq(Fills) /\ ToSet(Append(q, e)) = ToSet(q) \cup {e}
<1>1. PICK n \in Nat : n = Len(q) /\ DOMAIN q = 1 .. n
  OBVIOUS
<1>2. PICK p : p = Append(q, e)
  OBVIOUS
<1>3. p \in Seq(Fills) /\ DOMAIN p = 1 .. n + 1 /\ p[n + 1] = e /\ \A i \in 1 .. n : p[i] = q[i]
  BY <1>1, <1>2
<1>4. \A i \in 1 .. n + 1 : i = n + 1 \/ i \in 1 .. n
  OBVIOUS
<1>5. \A i \in 1 .. n : i \in 1 .. n + 1
  OBVIOUS
<1>6. ToSet(p) \subseteq ToSet(q) \cup {e}
  BY <1>1, <1>3, <1>4 DEF ToSet
<1>7. ToSet(q) \subseteq ToSet(p)
  BY <1>1, <1>3, <1>5 DEF ToSet
<1>8. n + 1 \in 1 .. n + 1
  OBVIOUS
<1>9. e \in ToSet(p)
  BY <1>3, <1>8 DEF ToSet
<1>10. ToSet(p) = ToSet(q) \cup {e}
  BY <1>6, <1>7, <1>9
<1>11. QED
  BY <1>2, <1>3, <1>10

LEMMA AppendOrders ==
  ASSUME NEW q \in Seq(Fills), NEW e \in Fills, Increasing(q), Below(ToSet(q), {e})
  PROVE  Increasing(Append(q, e))
<1>1. PICK n \in Nat : n = Len(q) /\ DOMAIN q = 1 .. n
  OBVIOUS
<1>2. PICK p : p = Append(q, e)
  OBVIOUS
<1>3. DOMAIN p = 1 .. n + 1 /\ p[n + 1] = e /\ \A i \in 1 .. n : p[i] = q[i]
  BY <1>1, <1>2
<1>4. \A i \in 1 .. n + 1 : i = n + 1 \/ i \in 1 .. n
  OBVIOUS
<1>5. ASSUME NEW i \in 1 .. n + 1, NEW j \in 1 .. n + 1, i < j
      PROVE  p[i] < p[j]
  <2>1. i \in 1 .. n
    BY <1>5
  <2>2. p[i] = q[i] /\ q[i] \in ToSet(q)
    BY <1>1, <1>3, <2>1 DEF ToSet
  <2>3. CASE j = n + 1
    BY <1>3, <2>2, <2>3 DEF Below
  <2>4. CASE j \in 1 .. n
    BY <1>1, <1>3, <1>5, <2>1, <2>4 DEF Increasing
  <2>5. QED
    BY <1>4, <2>3, <2>4
<1>6. QED
  BY <1>2, <1>3, <1>5 DEF Increasing

LEMMA TailIs ==
  ASSUME NEW q \in Seq(Nat), q # <<>>, Increasing(q)
  PROVE  /\ Tail(q) \in Seq(Nat) /\ Increasing(Tail(q))
         /\ Head(q) \in Nat /\ ToSet(q) = ToSet(Tail(q)) \cup {Head(q)}
         /\ Below({Head(q)}, ToSet(Tail(q)))
         /\ ToSet(Tail(q)) \subseteq ToSet(q)
<1>1. PICK n \in Nat : n + 1 = Len(q) /\ DOMAIN q = 1 .. n + 1
  <2>1. PICK k \in Nat : k = Len(q) /\ DOMAIN q = 1 .. k
    OBVIOUS
  <2>2. k # 0
    BY <2>1
  <2>3. k - 1 \in Nat /\ (k - 1) + 1 = k
    BY <2>2
  <2>4. QED
    BY <2>1, <2>3
<1>2. PICK p : p = Tail(q)
  OBVIOUS
<1>3. p \in Seq(Nat) /\ Len(p) = n
  BY <1>1, <1>2
<1>4. DOMAIN p = 1 .. n /\ \A i \in 1 .. n : p[i] = q[i + 1]
  BY <1>1, <1>2, <1>3
<1>5. Head(q) = q[1] /\ Head(q) \in Nat
  BY <1>1, ElementOfSeq
<1>6. \A i \in 1 .. n : i + 1 \in 1 .. n + 1
  OBVIOUS
<1>7. \A k \in 1 .. n + 1 : k = 1 \/ \E i \in 1 .. n : k = i + 1
  <2>1. TAKE k \in 1 .. n + 1
  <2>2. CASE k # 1
    <3>1. k - 1 \in 1 .. n /\ k = (k - 1) + 1
      BY <2>2
    <3>2. QED
      BY <3>1
  <2>3. CASE k = 1
    BY <2>3
  <2>4. QED
    BY <2>2, <2>3
<1>8. Increasing(p)
  <2>1. SUFFICES ASSUME NEW i \in 1 .. n, NEW j \in 1 .. n, i < j PROVE p[i] < p[j]
    BY <1>4 DEF Increasing
  <2>2. i + 1 < j + 1
    BY <2>1
  <2>3. QED
    BY <1>1, <1>4, <1>6, <2>2 DEF Increasing
<1>9. ToSet(p) \subseteq ToSet(q)
  BY <1>1, <1>4, <1>6 DEF ToSet
<1>10. ToSet(q) = ToSet(p) \cup {q[1]}
  <2>1. 1 \in 1 .. n + 1
    OBVIOUS
  <2>2. q[1] \in ToSet(q)
    BY <1>1, <2>1 DEF ToSet
  <2>3. ToSet(q) \subseteq ToSet(p) \cup {q[1]}
    <3>1. SUFFICES ASSUME NEW k \in 1 .. n + 1 PROVE q[k] \in ToSet(p) \cup {q[1]}
      BY <1>1 DEF ToSet
    <3>2. CASE k = 1
      BY <3>2
    <3>3. CASE k # 1
      <4>1. PICK i \in 1 .. n : k = i + 1
        BY <1>7, <3>3
      <4>2. QED
        BY <1>4, <4>1 DEF ToSet
    <3>4. QED
      BY <3>2, <3>3
  <2>4. QED
    BY <1>9, <2>2, <2>3
<1>11. \A i \in 1 .. n : q[1] < p[i]
  <2>1. TAKE i \in 1 .. n
  <2>2. 1 \in 1 .. n + 1 /\ 1 < i + 1
    OBVIOUS
  <2>3. QED
    BY <1>1, <1>4, <1>6, <2>2 DEF Increasing
<1>12. Below({q[1]}, ToSet(p))
  BY <1>4, <1>11 DEF Below, ToSet
<1>13. QED
  BY <1>2, <1>3, <1>5, <1>8, <1>9, <1>10, <1>12

LEMMA IncreasingInjective ==
  ASSUME NEW q \in Seq(Nat), Increasing(q)
  PROVE  IsInjective(q)
<1>1. PICK n \in Nat : DOMAIN q = 1 .. n
  OBVIOUS
<1>2. \A i \in 1 .. n : q[i] \in Nat
  BY <1>1, ElementOfSeq
<1>3. ASSUME NEW i \in 1 .. n, NEW j \in 1 .. n, q[i] = q[j] PROVE i = j
  <2>1. ~ (i < j) /\ ~ (j < i)
    BY <1>1, <1>2, <1>3 DEF Increasing
  <2>2. QED
    BY <2>1
<1>4. QED
  BY <1>1, <1>3 DEF IsInjective

-----------------------------------------------------------------------------
\* Where the fills are.  Those that arrived are newer than those tried before;
\* what is tried again counts the calls of settle_one it had.
Phases ==
  /\ Len(results) <= Len(batch)
  /\ task = "Settling" => active = <<>>
  /\ task # "Settling" => batch = <<>>

Apart ==
  /\ Increasing(channel) /\ Increasing(active) /\ Once(pending) /\ Once(batch)
  /\ Below(ToSet(active), ToSet(channel))
  /\ Below(FillSet(pending) \cup FillSet(batch), ToSet(active) \cup ToSet(channel))
  /\ FillSet(pending) \cap FillSet(batch) = {}

Accounted ==
  ToSet(channel) \cup ToSet(active) \cup FillSet(pending) \cup FillSet(batch)
    = {f \in 1 .. sent : fate[f] = "None"}

Counts ==
  /\ \A f \in ToSet(channel) \cup ToSet(active) : tries[f] = 0
  /\ \A f \in Fills : f > sent => tries[f] = 0 /\ fate[f] = "None"
  /\ \A i \in DOMAIN pending : tries[pending[i].fill] = pending[i].attempts
  /\ \A i \in DOMAIN batch :
       tries[batch[i].fill] = batch[i].attempts + (IF i <= Len(results) THEN 1 ELSE 0)

FlusherInv ==
  FlusherTypeOK /\ Phases /\ Apart /\ Accounted /\ Counts /\ RetriesAreOlder

-----------------------------------------------------------------------------
\* What flush takes and what it leaves.
Carries(seq, i, from) ==
  \E j \in DOMAIN from : /\ seq[i].fill = from[j].fill
                         /\ seq[i].attempts = from[j].attempts

LEMMA ReadyIs ==
  /\ Ready \subseteq DOMAIN pending
  /\ DOMAIN pending \ (DOMAIN pending \ Ready) = Ready
BY DEF Ready

LEMMA RetriesAre ==
  ASSUME pending \in Seq(PendingFill)
  PROVE  /\ Retries \in Seq(Origin)
         /\ FillSet(Retries) = FillsAt(pending, Ready)
         /\ Once(pending) => Once(Retries)
         /\ \A i \in DOMAIN Retries : Retries[i].attempts > 0 /\ Carries(Retries, i, pending)
<1>1. PICK p : p = Picked(pending, Ready)
  OBVIOUS
<1>2. p \in Seq(PendingFill) /\ Selected(p, pending, Ready)
  BY <1>1, ReadyIs, PickedSelects
<1>3. PICK h : SelectedBy(h, p, pending, Ready)
  BY <1>2 DEF Selected
<1>4. PICK n \in Nat : n = Len(p) /\ DOMAIN p = 1 .. n
  BY <1>2
<1>5. \A i \in 1 .. n : p[i] \in PendingFill
  BY <1>2, <1>4, ElementOfSeq
<1>6. PICK r : r = Retries
  OBVIOUS
<1>7. r = [i \in 1 .. n |-> [fill |-> p[i].fill, attempts |-> p[i].attempts]]
  BY <1>1, <1>4, <1>6 DEF Retries
<1>8. DOMAIN r = 1 .. n
  BY <1>7
<1>9. \A i \in 1 .. n : /\ r[i].fill = p[i].fill /\ r[i].attempts = p[i].attempts
                        /\ r[i].attempts > 0 /\ r[i] \in Origin
  <2>1. TAKE i \in 1 .. n
  <2>2. p[i].fill \in Fills /\ p[i].attempts \in 1 .. MaxTries - 1
    BY <1>5 DEF PendingFill
  <2>3. r[i] = [fill |-> p[i].fill, attempts |-> p[i].attempts]
    BY <1>7
  <2>4. p[i].attempts \in 0 .. MaxTries - 1 /\ p[i].attempts > 0
    BY <2>2, BoundsArePositive
  <2>5. QED
    BY <2>2, <2>3, <2>4 DEF Origin
<1>10. r \in Seq(Origin)
  BY <1>7, <1>9
<1>11. DOMAIN pending \in SUBSET Nat
  OBVIOUS
<1>12. Ready \in SUBSET Nat
  BY <1>11, ReadyIs
<1>13. \A i \in 1 .. n : p[i] = pending[h[i]]
  BY <1>3, <1>4 DEF SelectedBy
<1>14. \A i \in 1 .. n : r[i].fill = pending[h[i]].fill
  BY <1>9, <1>13
<1>15. FillsBy(h, r, pending, Ready)
  BY <1>3, <1>4, <1>8, <1>14 DEF FillsBy, SelectedBy
<1>16. FillSet(r) = FillsAt(pending, Ready) /\ (Once(pending) => Once(r))
  BY <1>8, <1>12, <1>15, ReadyIs, FillsOfPicks
<1>17. \A i \in 1 .. n : Carries(r, i, pending)
  <2>1. TAKE i \in 1 .. n
  <2>2. PICK j : j = h[i]
    OBVIOUS
  <2>3. j \in DOMAIN pending
    BY <1>3, <1>4, <2>2, ReadyIs DEF SelectedBy
  <2>4. r[i].fill = pending[j].fill /\ r[i].attempts = pending[j].attempts
    BY <1>9, <1>13, <2>2
  <2>5. QED
    BY <2>3, <2>4 DEF Carries
<1>18. QED
  BY <1>6, <1>8, <1>9, <1>10, <1>16, <1>17

LEMMA BackingOffIs ==
  ASSUME pending \in Seq(PendingFill)
  PROVE  /\ BackingOff \in Seq(PendingFill)
         /\ FillSet(BackingOff) = FillsAt(pending, DOMAIN pending \ Ready)
         /\ Once(pending) => Once(BackingOff)
         /\ \A i \in DOMAIN BackingOff : Carries(BackingOff, i, pending)
<1>1. PICK C : C = DOMAIN pending \ Ready
  OBVIOUS
<1>2. PICK p : p = BackingOff
  OBVIOUS
<1>3. C \subseteq DOMAIN pending
  BY <1>1
<1>4. p = Picked(pending, C)
  BY <1>1, <1>2 DEF BackingOff
<1>5. p \in Seq(PendingFill) /\ Selected(p, pending, C)
  BY <1>3, <1>4, PickedSelects
<1>6. PICK h : SelectedBy(h, p, pending, C)
  BY <1>5 DEF Selected
<1>7. PICK n \in Nat : DOMAIN p = 1 .. n
  BY <1>5
<1>8. DOMAIN pending \in SUBSET Nat
  OBVIOUS
<1>9. \A i \in 1 .. n : p[i] = pending[h[i]]
  BY <1>6, <1>7 DEF SelectedBy
<1>10. FillsBy(h, p, pending, C)
  BY <1>6, <1>7, <1>9 DEF FillsBy, SelectedBy
<1>11. FillSet(p) = FillsAt(pending, C) /\ (Once(pending) => Once(p))
  BY <1>3, <1>7, <1>8, <1>10, FillsOfPicks
<1>12. \A i \in 1 .. n : Carries(p, i, pending)
  <2>1. TAKE i \in 1 .. n
  <2>2. h[i] \in DOMAIN pending
    BY <1>3, <1>6, <1>7 DEF SelectedBy
  <2>3. QED
    BY <1>9, <2>2 DEF Carries
<1>13. QED
  BY <1>1, <1>2, <1>5, <1>7, <1>11, <1>12

LEMMA FreshAre ==
  ASSUME NEW arrived \in Seq(Fills)
  PROVE  /\ FreshFills(arrived) \in Seq(Origin)
         /\ DOMAIN FreshFills(arrived) = DOMAIN arrived
         /\ FillSet(FreshFills(arrived)) = ToSet(arrived)
         /\ \A i \in DOMAIN arrived : /\ FreshFills(arrived)[i].fill = arrived[i]
                                      /\ FreshFills(arrived)[i].attempts = 0
         /\ Increasing(arrived) => Once(FreshFills(arrived))
<1>1. PICK n \in Nat : DOMAIN arrived = 1 .. n /\ n = Len(arrived)
  OBVIOUS
<1>2. \A i \in 1 .. n : arrived[i] \in Fills
  BY <1>1, ElementOfSeq
<1>3. PICK g : g = FreshFills(arrived)
  OBVIOUS
<1>4. g = [i \in 1 .. n |-> [fill |-> arrived[i], attempts |-> 0]]
  BY <1>1, <1>3 DEF FreshFills
<1>5. \A i \in 1 .. n : /\ g[i] \in Origin
                        /\ g[i].fill = arrived[i] /\ g[i].attempts = 0
  BY <1>2, <1>4, BoundsArePositive DEF Origin
<1>6. DOMAIN g = 1 .. n /\ g \in Seq(Origin)
  BY <1>4, <1>5
<1>7. FillSet(g) = ToSet(arrived)
  BY <1>1, <1>5, <1>6, Zenon DEF FillSet, ToSet
<1>8. ASSUME Increasing(arrived) PROVE Once(g)
  <2>1. arrived \in Seq(Nat)
    <3>1. Fills \subseteq Nat
      BY BoundsArePositive DEF Fills
    <3>2. QED
      BY <3>1, SeqMonotonic
  <2>2. IsInjective(arrived)
    BY <1>8, <2>1, IncreasingInjective
  <2>3. QED
    BY <1>1, <1>5, <1>6, <2>2 DEF IsInjective, Once
<1>9. QED
  BY <1>1, <1>3, <1>5, <1>6, <1>7, <1>8

\* A batch of retries and fresh fills: what it holds, and in which order.
LEMMA BatchIs ==
  ASSUME pending \in Seq(PendingFill), Once(pending), NEW arrived \in Seq(Fills),
         Increasing(arrived), Below(FillSet(pending), ToSet(arrived)),
         NEW b, b = Retries \o FreshFills(arrived)
  PROVE  /\ b \in Seq(Origin)
         /\ FillSet(b) = FillsAt(pending, Ready) \cup ToSet(arrived)
         /\ Once(b)
         /\ \A i \in DOMAIN b : \/ Carries(b, i, pending)
                                \/ b[i].fill \in ToSet(arrived) /\ b[i].attempts = 0
         /\ \A i, j \in DOMAIN b :
              (i < j /\ (b[i].attempts = 0 \/ b[j].attempts = 0)) => b[i].fill < b[j].fill
<1>1. PICK r : r = Retries
  OBVIOUS
<1>2. PICK g : g = FreshFills(arrived)
  OBVIOUS
<1>3. /\ r \in Seq(Origin) /\ FillSet(r) = FillsAt(pending, Ready) /\ Once(r)
      /\ \A i \in DOMAIN r : r[i].attempts > 0 /\ Carries(r, i, pending)
  BY <1>1, RetriesAre
<1>4. /\ g \in Seq(Origin) /\ FillSet(g) = ToSet(arrived) /\ Once(g)
      /\ DOMAIN g = DOMAIN arrived
      /\ \A i \in DOMAIN g : g[i].fill = arrived[i] /\ g[i].attempts = 0
  BY <1>2, FreshAre
<1>5. PICK m \in Nat, n \in Nat : Joins(b, Origin, r, g, m, n)
  BY <1>1, <1>2, <1>3, <1>4, ConcatIs
<1>6. /\ DOMAIN r = 1 .. m /\ DOMAIN g = 1 .. n
      /\ b \in Seq(Origin) /\ DOMAIN b = 1 .. m + n
      /\ \A i \in 1 .. m : b[i] = r[i]
      /\ \A i \in 1 .. n : b[m + i] = g[i]
      /\ \A k \in 1 .. m + n : k \in 1 .. m \/ \E i \in 1 .. n : k = m + i
  BY <1>5 DEF Joins
<1>7. FillsAt(pending, Ready) \subseteq FillSet(pending)
  BY ReadyIs DEF FillsAt, FillSet
<1>8. FillSet(r) \cap FillSet(g) = {}
  <2>1. \A f \in FillSet(r), e \in FillSet(g) : f < e
    BY <1>3, <1>4, <1>7 DEF Below
  <2>2. FillSet(g) \subseteq Int
    <3>1. \A i \in DOMAIN arrived : arrived[i] \in Fills
      BY ElementOfSeq
    <3>2. Fills \subseteq Int
      BY BoundsArePositive DEF Fills
    <3>3. QED
      BY <1>4, <3>1, <3>2 DEF ToSet
  <2>3. QED
    BY <2>1, <2>2
<1>9. FillSet(b) = FillsAt(pending, Ready) \cup ToSet(arrived) /\ Once(b)
  BY <1>1, <1>2, <1>3, <1>4, <1>8, ConcatOnce
<1>10. ASSUME NEW k \in 1 .. m + n
       PROVE  \/ Carries(b, k, pending) /\ b[k].attempts > 0 /\ k \in 1 .. m
              \/ /\ b[k].fill \in ToSet(arrived) /\ b[k].attempts = 0
                 /\ \E i \in 1 .. n : k = m + i /\ b[k].fill = arrived[i]
  <2>1. CASE k \in 1 .. m
    <3>1. b[k] = r[k] /\ r[k].attempts > 0 /\ Carries(r, k, pending)
      BY <1>3, <1>6, <2>1
    <3>2. Carries(b, k, pending)
      BY <3>1 DEF Carries
    <3>3. QED
      BY <2>1, <3>1, <3>2
  <2>2. CASE k \notin 1 .. m
    <3>1. PICK i \in 1 .. n : k = m + i
      BY <1>6, <2>2
    <3>2. b[k].fill = arrived[i] /\ b[k].attempts = 0 /\ i \in DOMAIN arrived
      BY <1>4, <1>6, <3>1
    <3>3. arrived[i] \in ToSet(arrived)
      BY <3>2, Zenon DEF ToSet
    <3>4. QED
      BY <3>1, <3>2, <3>3
  <2>3. QED
    BY <2>1, <2>2
<1>11. ASSUME NEW i \in 1 .. m + n, NEW j \in 1 .. m + n, i < j,
              b[i].attempts = 0 \/ b[j].attempts = 0
       PROVE  b[i].fill < b[j].fill
  <2>1. b[j].attempts = 0
    <3>1. CASE j \in 1 .. m
      <4>1. i \in 1 .. m
        BY <1>11, <3>1
      <4>2. b[i] = r[i] /\ b[j] = r[j] /\ r[i].attempts > 0 /\ r[j].attempts > 0
        BY <1>3, <1>6, <3>1, <4>1
      <4>3. QED
        BY <1>11, <4>2
    <3>2. CASE j \notin 1 .. m
      BY <1>10, <3>2
    <3>3. QED
      BY <3>1, <3>2
  <2>2. b[j].fill \in ToSet(arrived) /\ \E a \in 1 .. n : j = m + a /\ b[j].fill = arrived[a]
    <3>1. ~ (b[j].attempts > 0)
      BY <2>1
    <3>2. QED
      BY <1>10, <3>1
  <2>3. PICK a \in 1 .. n : j = m + a /\ b[j].fill = arrived[a]
    BY <2>2
  <2>4. CASE Carries(b, i, pending)
    <3>1. b[i].fill \in FillSet(pending)
      BY <2>4 DEF Carries, FillSet
    <3>2. QED
      BY <2>2, <3>1 DEF Below
  <2>5. CASE ~ Carries(b, i, pending)
    <3>1. PICK c \in 1 .. n : i = m + c /\ b[i].fill = arrived[c]
      BY <1>10, <2>5
    <3>2. c < a
      BY <1>11, <2>3, <3>1
    <3>3. QED
      BY <1>4, <1>6, <2>3, <3>1, <3>2 DEF Increasing
  <2>6. QED
    BY <2>4, <2>5
<1>12. QED
  BY <1>6, <1>9, <1>10, <1>11

LEMMA HeldFillsAre ==
  ASSUME FlusherTypeOK, Accounted
  PROVE  /\ ToSet(channel) \subseteq Fills /\ ToSet(active) \subseteq Fills
         /\ FillSet(pending) \subseteq Fills /\ FillSet(batch) \subseteq Fills
         /\ \A f \in ToSet(channel) \cup ToSet(active) \cup FillSet(pending) \cup FillSet(batch) :
              f \in 1 .. sent /\ fate[f] = "None"
<1>1. 1 .. sent \subseteq Fills
  BY BoundsArePositive DEF FlusherTypeOK, Fills
<1>2. QED
  BY <1>1 DEF Accounted

\* flush, called with the fills that arrived and the channel they came from.
LEMMA FlushInv ==
  ASSUME FlusherInv, task = "Waiting", NEW arrived \in Seq(Fills), NEW last \in BOOLEAN,
         Increasing(arrived), Flush(arrived, last), UNCHANGED <<sent, open, tries, fate>>,
         channel' \in Seq(Fills), Increasing(channel'),
         Below(ToSet(arrived), ToSet(channel')),
         ToSet(arrived) \cup ToSet(channel') = ToSet(active) \cup ToSet(channel)
  PROVE  FlusherInv'
<1>1. /\ pending \in Seq(PendingFill) /\ Once(pending) /\ batch = <<>>
      /\ Below(FillSet(pending), ToSet(active) \cup ToSet(channel))
  BY DEF FlusherInv, FlusherTypeOK, Apart, Phases, Below
<1>2. Below(FillSet(pending), ToSet(arrived)) /\ Below(FillSet(pending), ToSet(channel'))
  BY <1>1 DEF Below
<1>3. PICK b : b = batch' /\ b = Retries \o FreshFills(arrived)
  BY DEF Flush
<1>4. /\ b \in Seq(Origin)
      /\ FillSet(b) = FillsAt(pending, Ready) \cup ToSet(arrived)
      /\ Once(b)
      /\ \A i \in DOMAIN b : \/ Carries(b, i, pending)
                             \/ b[i].fill \in ToSet(arrived) /\ b[i].attempts = 0
      /\ \A i, j \in DOMAIN b :
           (i < j /\ (b[i].attempts = 0 \/ b[j].attempts = 0)) => b[i].fill < b[j].fill
  BY <1>1, <1>2, <1>3, BatchIs
<1>5. PICK p : p = pending' /\ p = BackingOff
  BY DEF Flush
<1>6. /\ p \in Seq(PendingFill)
      /\ FillSet(p) = FillsAt(pending, DOMAIN pending \ Ready)
      /\ Once(p)
      /\ \A i \in DOMAIN p : Carries(p, i, pending)
  BY <1>1, <1>5, BackingOffIs
<1>7. /\ active' = <<>> /\ results' = <<>> /\ final' = last
      /\ task' = Batched(b, last)
      /\ sent' = sent /\ open' = open /\ tries' = tries /\ fate' = fate
  BY <1>3 DEF Flush
<1>8. /\ FillsAt(pending, Ready) \cup FillsAt(pending, DOMAIN pending \ Ready) = FillSet(pending)
      /\ FillsAt(pending, Ready) \cap FillsAt(pending, DOMAIN pending \ Ready) = {}
  BY <1>1, ReadyIs, SplitFills
<1>9. FlusherTypeOK'
  <2>1. task' \in {"Waiting", "Settling", "Stopped"}
    BY <1>7 DEF Batched
  <2>2. <<>> \in Seq(Fills) /\ <<>> \in Seq(Outcomes)
    OBVIOUS
  <2>3. QED
    BY <1>3, <1>4, <1>5, <1>6, <1>7, <2>1, <2>2 DEF FlusherTypeOK, FlusherInv
<1>10. Phases'
  <2>1. Len(<<>>) <= Len(b)
    BY <1>4
  <2>2. task' # "Settling" => b = <<>>
    BY <1>7 DEF Batched
  <2>3. QED
    BY <1>3, <1>7, <2>1, <2>2 DEF Phases
<1>11. ToSet(active') = {} /\ Increasing(active')
  BY <1>7 DEF ToSet, Increasing
<1>12. Apart'
  <2>1. Below(ToSet(active'), ToSet(channel'))
    BY <1>11 DEF Below
  <2>2. FillSet(p) \cup FillSet(b) = FillSet(pending) \cup ToSet(arrived)
    BY <1>4, <1>6, <1>8
  <2>3. Below(FillSet(p) \cup FillSet(b), ToSet(active') \cup ToSet(channel'))
    BY <1>2, <1>11, <2>2 DEF Below
  <2>4. FillSet(p) \cap FillSet(b) = {}
    <3>1. FillSet(pending) \cap ToSet(arrived) = {}
      <4>1. ToSet(arrived) \subseteq Int
        <5>1. \A i \in DOMAIN arrived : arrived[i] \in Fills
          BY ElementOfSeq
        <5>2. Fills \subseteq Int
          BY BoundsArePositive DEF Fills
        <5>3. QED
          BY <5>1, <5>2 DEF ToSet
      <4>2. QED
        BY <1>2, <4>1 DEF Below
    <3>2. QED
      BY <1>4, <1>6, <1>8, <3>1
  <2>5. QED
    BY <1>3, <1>4, <1>5, <1>6, <1>11, <2>1, <2>3, <2>4 DEF Apart
<1>13. Accounted'
  <2>1. FillSet(batch) = {}
    BY <1>1 DEF FillSet
  <2>2. ToSet(channel') \cup ToSet(active') \cup FillSet(p) \cup FillSet(b)
          = ToSet(channel) \cup ToSet(active) \cup FillSet(pending) \cup FillSet(batch)
    BY <1>4, <1>6, <1>8, <1>11, <2>1
  <2>3. QED
    BY <1>3, <1>5, <1>7, <2>2 DEF FlusherInv, Accounted
<1>14. Counts'
  <2>1. \A f \in ToSet(channel') \cup ToSet(arrived) : tries[f] = 0
    BY DEF FlusherInv, Counts
  <2>2. ASSUME NEW i \in DOMAIN p PROVE tries[p[i].fill] = p[i].attempts
    <3>1. PICK j \in DOMAIN pending : p[i].fill = pending[j].fill
                                      /\ p[i].attempts = pending[j].attempts
      BY <1>6 DEF Carries
    <3>2. tries[pending[j].fill] = pending[j].attempts
      BY DEF FlusherInv, Counts
    <3>3. QED
      BY <3>1, <3>2
  <2>3. ASSUME NEW i \in DOMAIN b PROVE tries[b[i].fill] = b[i].attempts
    <3>1. CASE Carries(b, i, pending)
      <4>1. PICK j \in DOMAIN pending : b[i].fill = pending[j].fill
                                        /\ b[i].attempts = pending[j].attempts
        BY <3>1 DEF Carries
      <4>2. tries[pending[j].fill] = pending[j].attempts
        BY DEF FlusherInv, Counts
      <4>3. QED
        BY <4>1, <4>2
    <3>2. CASE ~ Carries(b, i, pending)
      BY <1>4, <2>1, <3>2
    <3>3. QED
      BY <3>1, <3>2
  <2>4. \A i \in DOMAIN b : b[i].attempts + (IF i <= Len(<<>>) THEN 1 ELSE 0) = b[i].attempts
    <3>1. TAKE i \in DOMAIN b
    <3>2. b[i] \in Origin /\ i \in Nat /\ i >= 1
      BY <1>4, ElementOfSeq
    <3>3. b[i].attempts \in Int
      BY <3>2, BoundsArePositive DEF Origin
    <3>4. QED
      BY <3>2, <3>3
  <2>5. \A f \in Fills : f > sent => tries[f] = 0 /\ fate[f] = "None"
    BY DEF FlusherInv, Counts
  <2>6. QED
    BY <1>3, <1>5, <1>7, <1>11, <2>1, <2>2, <2>3, <2>4, <2>5 DEF Counts
<1>15. RetriesAreOlder'
  BY <1>3, <1>4 DEF RetriesAreOlder
<1>16. QED
  BY <1>9, <1>10, <1>12, <1>13, <1>14, <1>15 DEF FlusherInv

LEMMA TimerFiresInv ==
  ASSUME FlusherInv, TimerFires
  PROVE  FlusherInv'
<1>1. active \in Seq(Fills) /\ Increasing(active) /\ channel \in Seq(Fills)
      /\ Increasing(channel) /\ Below(ToSet(active), ToSet(channel))
  BY DEF FlusherInv, FlusherTypeOK, Apart
<1>2. task = "Waiting" /\ Flush(active, FALSE) /\ channel' = channel
      /\ UNCHANGED <<sent, open, tries, fate>>
  BY DEF TimerFires
<1>3. QED
  BY <1>1, <1>2, FlushInv

LEMMA RecvClosedInv ==
  ASSUME FlusherInv, RecvClosed
  PROVE  FlusherInv'
<1>1. active \in Seq(Fills) /\ Increasing(active) /\ channel \in Seq(Fills)
      /\ Increasing(channel) /\ Below(ToSet(active), ToSet(channel))
  BY DEF FlusherInv, FlusherTypeOK, Apart
<1>2. task = "Waiting" /\ Flush(active, TRUE) /\ channel' = channel
      /\ UNCHANGED <<sent, open, tries, fate>>
  BY DEF RecvClosed
<1>3. QED
  BY <1>1, <1>2, FlushInv

LEMMA RecvInv ==
  ASSUME FlusherInv, Recv
  PROVE  FlusherInv'
<1>1. active \in Seq(Fills) /\ Increasing(active) /\ channel \in Seq(Fills)
      /\ Increasing(channel) /\ Below(ToSet(active), ToSet(channel))
  BY DEF FlusherInv, FlusherTypeOK, Apart
<1>2. channel # <<>> /\ channel' = Tail(channel) /\ task = "Waiting"
      /\ UNCHANGED <<sent, open, tries, fate>>
  BY DEF Recv
<1>3. PICK arrived : arrived = Append(active, Head(channel))
  OBVIOUS
<1>4. Fills \subseteq Nat
  BY BoundsArePositive DEF Fills
<1>5. channel \in Seq(Nat)
  BY <1>1, <1>4, SeqMonotonic
<1>6. /\ Increasing(channel') /\ ToSet(channel) = ToSet(channel') \cup {Head(channel)}
      /\ Below({Head(channel)}, ToSet(channel'))
  BY <1>1, <1>2, <1>5, TailIs
<1>7. Head(channel) \in Fills /\ channel' \in Seq(Fills)
  BY <1>1, <1>2, HeadTailProperties
<1>8. Below(ToSet(active), {Head(channel)})
  BY <1>1, <1>6 DEF Below
<1>9. arrived \in Seq(Fills) /\ ToSet(arrived) = ToSet(active) \cup {Head(channel)}
      /\ Increasing(arrived)
  <2>1. PICK first \in Fills : first = Head(channel)
    BY <1>7
  <2>2. active \in Seq(Fills) /\ Increasing(active) /\ Below(ToSet(active), {first})
    BY <1>1, <1>8, <2>1
  <2>3. /\ Append(active, first) \in Seq(Fills)
        /\ ToSet(Append(active, first)) = ToSet(active) \cup {first}
        /\ Increasing(Append(active, first))
    BY <2>1, <2>2, AppendIs, AppendOrders
  <2>4. QED
    BY <1>3, <2>1, <2>3
<1>10. Below(ToSet(arrived), ToSet(channel'))
  BY <1>1, <1>6, <1>9 DEF Below
<1>11. ToSet(arrived) \cup ToSet(channel') = ToSet(active) \cup ToSet(channel)
  BY <1>6, <1>9
<1>12. CASE Len(arrived) >= MaxFills
  <2>1. Flush(arrived, FALSE)
    BY <1>3, <1>12 DEF Recv
  <2>2. QED
    BY <1>1, <1>2, <1>6, <1>7, <1>9, <1>10, <1>11, <2>1, FlushInv
<1>13. CASE ~ (Len(arrived) >= MaxFills)
  <2>1. active' = arrived /\ UNCHANGED <<pending, batch, results, task, final>>
    BY <1>3, <1>13 DEF Recv
  <2>2. FlusherTypeOK'
    BY <1>2, <1>7, <1>9, <2>1 DEF FlusherInv, FlusherTypeOK
  <2>3. Phases'
    BY <1>2, <2>1 DEF FlusherInv, Phases
  <2>4. Apart'
    <3>1. Once(pending') /\ Once(batch') /\ FillSet(pending') \cap FillSet(batch') = {}
      BY <2>1 DEF FlusherInv, Apart
    <3>2. Below(FillSet(pending') \cup FillSet(batch'), ToSet(active') \cup ToSet(channel'))
      BY <1>11, <2>1 DEF FlusherInv, Apart
    <3>3. QED
      BY <1>6, <1>9, <1>10, <2>1, <3>1, <3>2 DEF Apart
  <2>5. Accounted'
    BY <1>2, <1>11, <2>1 DEF FlusherInv, Accounted
  <2>6. Counts'
    BY <1>2, <1>11, <2>1 DEF FlusherInv, Counts
  <2>7. RetriesAreOlder'
    BY <2>1 DEF FlusherInv, RetriesAreOlder
  <2>8. QED
    BY <2>2, <2>3, <2>4, <2>5, <2>6, <2>7 DEF FlusherInv
<1>14. QED
  BY <1>12, <1>13

LEMMA SendFillInv ==
  ASSUME FlusherInv, SendFill
  PROVE  FlusherInv'
<1>1. sent \in Nat /\ sent < NumFills /\ sent' = sent + 1 /\ channel' = Append(channel, sent + 1)
      /\ UNCHANGED <<open, active, pending, batch, results, task, final, tries, fate>>
  BY BoundsArePositive DEF SendFill, queues, FlusherInv, FlusherTypeOK
<1>2. PICK e : e = sent + 1
  OBVIOUS
<1>3. e \in Fills /\ Fills \subseteq Nat
  BY <1>1, <1>2, BoundsArePositive DEF Fills
<1>4. \A f \in ToSet(channel) \cup ToSet(active) \cup FillSet(pending) \cup FillSet(batch) :
        f \in 1 .. sent /\ fate[f] = "None"
  BY HeldFillsAre DEF FlusherInv
<1>5. \A f \in ToSet(channel) \cup ToSet(active) \cup FillSet(pending) \cup FillSet(batch) : f < e
  BY <1>1, <1>2, <1>4
<1>6. channel \in Seq(Fills) /\ Increasing(channel) /\ Below(ToSet(channel), {e})
  BY <1>5 DEF FlusherInv, FlusherTypeOK, Apart, Below
<1>7. channel' \in Seq(Fills) /\ ToSet(channel') = ToSet(channel) \cup {e} /\ Increasing(channel')
  <2>1. channel' = Append(channel, e)
    BY <1>1, <1>2
  <2>2. QED
    BY <1>3, <1>6, <2>1, AppendIs, AppendOrders
<1>8. FlusherTypeOK'
  <2>1. sent' \in 0 .. NumFills
    BY <1>1, BoundsArePositive
  <2>2. QED
    BY <1>1, <1>7, <2>1 DEF FlusherInv, FlusherTypeOK
<1>9. Phases' /\ RetriesAreOlder'
  BY <1>1 DEF FlusherInv, Phases, RetriesAreOlder
<1>10. Apart'
  <2>1. Below(ToSet(active), ToSet(channel'))
    BY <1>5, <1>7 DEF FlusherInv, Apart, Below
  <2>2. Below(FillSet(pending) \cup FillSet(batch), ToSet(active) \cup ToSet(channel'))
    BY <1>5, <1>7 DEF FlusherInv, Apart, Below
  <2>3. QED
    BY <1>1, <1>7, <2>1, <2>2 DEF FlusherInv, Apart
<1>11. tries[e] = 0 /\ fate[e] = "None"
  BY <1>1, <1>2, <1>3 DEF FlusherInv, Counts
<1>12. Accounted'
  <2>1. 1 .. sent + 1 = 1 .. sent \cup {e}
    BY <1>1, <1>2
  <2>2. {f \in 1 .. sent + 1 : fate[f] = "None"} = {f \in 1 .. sent : fate[f] = "None"} \cup {e}
    BY <1>11, <2>1
  <2>3. QED
    BY <1>1, <1>7, <2>2 DEF FlusherInv, Accounted
<1>13. Counts'
  <2>1. \A f \in Fills : f > sent + 1 => f > sent
    BY <1>1, <1>3
  <2>2. QED
    BY <1>1, <1>7, <1>11, <2>1 DEF FlusherInv, Counts
<1>14. QED
  BY <1>8, <1>9, <1>10, <1>12, <1>13 DEF FlusherInv

LEMMA FrameInv ==
  ASSUME FlusherInv, \/ Close \/ UNCHANGED flusherVars
  PROVE  FlusherInv'
<1>1. UNCHANGED <<channel, sent, active, pending, batch, results, task, final, tries, fate>>
  BY DEF Close, queues, flusherVars
<1>2. open' \in BOOLEAN
  BY DEF Close, flusherVars, FlusherInv, FlusherTypeOK
<1>3. FlusherTypeOK'
  BY <1>1, <1>2 DEF FlusherInv, FlusherTypeOK
<1>4. Phases' /\ RetriesAreOlder'
  BY <1>1 DEF FlusherInv, Phases, RetriesAreOlder
<1>5. Apart' /\ Accounted'
  BY <1>1 DEF FlusherInv, Apart, Accounted
<1>6. Counts'
  BY <1>1 DEF FlusherInv, Counts
<1>7. QED
  BY <1>3, <1>4, <1>5, <1>6 DEF FlusherInv

LEMMA BackoffElapsesInv ==
  ASSUME FlusherInv, BackoffElapses
  PROVE  FlusherInv'
<1>1. PICK i \in DOMAIN pending : pending' = [pending EXCEPT ![i].ready = TRUE]
  BY DEF BackoffElapses
<1>2. UNCHANGED <<channel, sent, open, active, batch, results, task, final, tries, fate>>
  BY DEF BackoffElapses
<1>3. pending \in Seq(PendingFill)
  BY DEF FlusherInv, FlusherTypeOK
<1>4. PICK n \in Nat : n = Len(pending) /\ DOMAIN pending = 1 .. n
  BY <1>3
<1>5. \A k \in 1 .. n : pending[k] \in PendingFill
  BY <1>3, <1>4, ElementOfSeq
<1>6. PICK e : e = [pending[i] EXCEPT !.ready = TRUE]
  OBVIOUS
<1>7. e \in PendingFill /\ e.fill = pending[i].fill /\ e.attempts = pending[i].attempts
  BY <1>1, <1>4, <1>5, <1>6 DEF PendingFill
<1>8. PICK p : p = pending' /\ p = [pending EXCEPT ![i] = e]
  BY <1>1, <1>6
<1>9. p \in Seq(PendingFill) /\ DOMAIN p = 1 .. n
  <2>1. i \in 1 .. Len(pending)
    BY <1>1, <1>4
  <2>2. p \in Seq(PendingFill)
    BY <1>3, <1>7, <1>8, <2>1, ExceptSeq
  <2>3. DOMAIN p = DOMAIN pending
    BY <1>8
  <2>4. QED
    BY <1>4, <2>2, <2>3
<1>10. \A k \in 1 .. n : p[k].fill = pending[k].fill /\ p[k].attempts = pending[k].attempts
  <2>1. TAKE k \in 1 .. n
  <2>2. CASE k = i
    BY <1>4, <1>7, <1>8, <2>2
  <2>3. CASE k # i
    BY <1>4, <1>8, <2>3
  <2>4. QED
    BY <2>2, <2>3
<1>11. FillSet(p) = FillSet(pending)
  BY <1>4, <1>9, <1>10, Zenon DEF FillSet
<1>12. Once(p)
  BY <1>4, <1>9, <1>10 DEF FlusherInv, Apart, Once
<1>13. FlusherTypeOK'
  BY <1>2, <1>8, <1>9 DEF FlusherInv, FlusherTypeOK
<1>14. Phases' /\ RetriesAreOlder'
  BY <1>2 DEF FlusherInv, Phases, RetriesAreOlder
<1>15. Apart' /\ Accounted'
  BY <1>2, <1>8, <1>11, <1>12 DEF FlusherInv, Apart, Accounted
<1>16. Counts'
  BY <1>2, <1>4, <1>8, <1>9, <1>10 DEF FlusherInv, Counts
<1>17. QED
  BY <1>13, <1>14, <1>15, <1>16 DEF FlusherInv

\* settle_one is called for the next fill of the batch.
NextFill == batch[Len(results) + 1].fill

LEMMA SettlingIs ==
  ASSUME FlusherInv, NEW outcome \in Outcomes, SettleOne(outcome)
  PROVE  \E k \in Nat, n \in Nat, e \in Fills :
           /\ k = Len(results) /\ k < n /\ DOMAIN batch = 1 .. n /\ n = Len(batch)
           /\ batch[k + 1] \in Origin /\ e = batch[k + 1].fill
           /\ fate[e] = "None" /\ tries[e] = batch[k + 1].attempts
           /\ tries' = [tries EXCEPT ![e] = @ + 1]
<1>1. batch \in Seq(Origin) /\ results \in Seq(Outcomes)
  BY DEF FlusherInv, FlusherTypeOK
<1>2. PICK k \in Nat, n \in Nat : k = Len(results) /\ n = Len(batch) /\ DOMAIN batch = 1 .. n
  BY <1>1
<1>3. k < n /\ k + 1 \in 1 .. n
  BY <1>2 DEF SettleOne
<1>4. batch[k + 1] \in Origin
  BY <1>1, <1>2, <1>3, ElementOfSeq
<1>5. PICK e : e = batch[k + 1].fill
  OBVIOUS
<1>6. e \in Fills /\ e \in FillSet(batch) /\ batch[k + 1].attempts \in Int
  BY <1>2, <1>3, <1>4, <1>5, BoundsArePositive DEF Origin, FillSet
<1>7. fate[e] = "None"
  BY <1>6, HeldFillsAre DEF FlusherInv
<1>8. tries[e] = batch[k + 1].attempts
  <2>1. tries[e] = batch[k + 1].attempts + (IF k + 1 <= k THEN 1 ELSE 0)
    BY <1>2, <1>3, <1>5 DEF FlusherInv, Counts
  <2>2. ~ (k + 1 <= k)
    OBVIOUS
  <2>3. QED
    BY <1>6, <2>1, <2>2
<1>9. tries' = [tries EXCEPT ![e] = @ + 1]
  BY <1>2, <1>5 DEF SettleOne
<1>10. QED
  BY <1>2, <1>3, <1>4, <1>5, <1>6, <1>7, <1>8, <1>9

LEMMA SettleOneInv ==
  ASSUME FlusherInv, NEW outcome \in Outcomes, SettleOne(outcome)
  PROVE  FlusherInv'
<1>1. PICK k \in Nat, n \in Nat, e \in Fills :
           /\ k = Len(results) /\ k < n /\ DOMAIN batch = 1 .. n /\ n = Len(batch)
           /\ batch[k + 1] \in Origin /\ e = batch[k + 1].fill
           /\ fate[e] = "None" /\ tries[e] = batch[k + 1].attempts
           /\ tries' = [tries EXCEPT ![e] = @ + 1]
  BY SettlingIs
<1>2. results' = Append(results, outcome) /\ results \in Seq(Outcomes)
      /\ UNCHANGED <<channel, sent, open, active, pending, batch, task, final, fate>>
  BY DEF SettleOne, FlusherInv, FlusherTypeOK
<1>3. results' \in Seq(Outcomes) /\ Len(results') = k + 1
  BY <1>1, <1>2
<1>4. tries \in [Fills -> Nat]
  BY DEF FlusherInv, FlusherTypeOK
<1>5. tries' \in [Fills -> Nat] /\ tries'[e] = tries[e] + 1
      /\ \A f \in Fills : f # e => tries'[f] = tries[f]
  BY <1>1, <1>4
<1>6. k + 1 \in 1 .. n
  BY <1>1
<1>7. e \in FillSet(batch)
  BY <1>1, <1>6, Zenon DEF FillSet
<1>8. /\ ToSet(channel) \subseteq Fills /\ ToSet(active) \subseteq Fills
      /\ FillSet(pending) \subseteq Fills /\ FillSet(batch) \subseteq Fills
      /\ e \in 1 .. sent
  BY <1>7, HeldFillsAre DEF FlusherInv
<1>9. FlusherTypeOK'
  BY <1>2, <1>3, <1>5 DEF FlusherInv, FlusherTypeOK
<1>10. Phases'
  BY <1>1, <1>2, <1>3 DEF FlusherInv, Phases
<1>11. RetriesAreOlder' /\ Apart' /\ Accounted'
  BY <1>2 DEF FlusherInv, RetriesAreOlder, Apart, Accounted
<1>12. e \notin ToSet(channel) \cup ToSet(active) \cup FillSet(pending)
  <2>1. Below(FillSet(pending) \cup FillSet(batch), ToSet(active) \cup ToSet(channel))
        /\ FillSet(pending) \cap FillSet(batch) = {}
    BY DEF FlusherInv, Apart
  <2>2. ~ (e < e)
    BY <1>8, BoundsArePositive DEF Fills
  <2>3. QED
    BY <1>7, <2>1, <2>2 DEF Below
<1>13. Counts'
  <2>1. \A f \in ToSet(channel) \cup ToSet(active) : tries'[f] = 0
    BY <1>5, <1>8, <1>12 DEF FlusherInv, Counts
  <2>2. \A f \in Fills : f > sent => tries'[f] = 0 /\ fate[f] = "None"
    <3>1. ~ (e > sent)
      BY <1>8 DEF FlusherInv, FlusherTypeOK
    <3>2. QED
      BY <1>5, <3>1 DEF FlusherInv, Counts
  <2>3. ASSUME NEW i \in DOMAIN pending
        PROVE  tries'[pending[i].fill] = pending[i].attempts
    <3>1. pending[i].fill \in FillSet(pending)
      BY Zenon DEF FillSet
    <3>2. pending[i].fill # e /\ pending[i].fill \in Fills
      BY <1>8, <1>12, <3>1
    <3>3. QED
      BY <1>5, <3>2 DEF FlusherInv, Counts
  <2>4. ASSUME NEW i \in 1 .. n
        PROVE  tries'[batch[i].fill] = batch[i].attempts + (IF i <= k + 1 THEN 1 ELSE 0)
    <3>1. CASE i = k + 1
      BY <1>1, <1>5, <3>1
    <3>2. CASE i # k + 1
      <4>1. batch[i].fill # e
        BY <1>1, <1>6, <3>2 DEF FlusherInv, Apart, Once
      <4>2. batch[i].fill \in Fills
        BY <1>1, <1>8 DEF FillSet
      <4>3. tries[batch[i].fill] = batch[i].attempts + (IF i <= k THEN 1 ELSE 0)
        BY <1>1 DEF FlusherInv, Counts
      <4>4. (i <= k) <=> (i <= k + 1)
        BY <3>2
      <4>5. QED
        BY <1>5, <4>1, <4>2, <4>3, <4>4
    <3>3. QED
      BY <3>1, <3>2
  <2>5. QED
    BY <1>1, <1>2, <1>3, <2>1, <2>2, <2>3, <2>4 DEF Counts
<1>14. QED
  BY <1>9, <1>10, <1>11, <1>13 DEF FlusherInv

-----------------------------------------------------------------------------
\* The end of a flush: what is retried, and what is let go of.
Again == {i \in DOMAIN batch : Retried(i)}

LetGo == FillsAt(batch, DOMAIN batch \ Again)

LEMMA RescheduledAre ==
  ASSUME FlusherInv, Len(results) = Len(batch)
  PROVE  /\ Rescheduled \in Seq(PendingFill)
         /\ FillSet(Rescheduled) = FillsAt(batch, Again)
         /\ Once(Rescheduled)
         /\ \A i \in DOMAIN Rescheduled : tries[Rescheduled[i].fill] = Rescheduled[i].attempts
<1>1. batch \in Seq(Origin) /\ Once(batch)
  BY DEF FlusherInv, FlusherTypeOK, Apart
<1>2. Again \subseteq DOMAIN batch
  BY DEF Again
<1>3. PICK p : p = Picked(batch, Again)
  OBVIOUS
<1>4. p \in Seq(Origin) /\ Selected(p, batch, Again)
  BY <1>1, <1>2, <1>3, PickedSelects
<1>5. PICK h : SelectedBy(h, p, batch, Again)
  BY <1>4 DEF Selected
<1>6. PICK n \in Nat : n = Len(p) /\ DOMAIN p = 1 .. n
  BY <1>4
<1>7. \A i \in 1 .. n : p[i] \in Origin
  BY <1>4, <1>6, ElementOfSeq
<1>8. PICK r : r = Rescheduled
  OBVIOUS
<1>9. r = [i \in 1 .. n |-> [fill |-> p[i].fill, attempts |-> p[i].attempts + 1,
                             ready |-> FALSE]]
  BY <1>3, <1>6, <1>8 DEF Rescheduled, Again
<1>10. DOMAIN r = 1 .. n
  BY <1>9
<1>11. \A i \in 1 .. n : h[i] \in Again /\ p[i] = batch[h[i]]
  BY <1>5, <1>6 DEF SelectedBy
<1>12. ASSUME NEW i \in 1 .. n
       PROVE  /\ r[i] \in PendingFill /\ r[i].fill = p[i].fill
              /\ tries[r[i].fill] = r[i].attempts
  <2>1. PICK j \in DOMAIN batch : j = h[i] /\ Retried(j) /\ p[i] = batch[j]
    BY <1>11 DEF Again
  <2>2. PICK a \in 0 .. MaxTries - 1 : a = p[i].attempts
    BY <1>7 DEF Origin
  <2>3. a + 1 \in 1 .. MaxTries - 1
    <3>1. ~ (a + 1 >= MaxTries)
      BY <2>1, <2>2 DEF Retried, IsLast
    <3>2. QED
      BY <2>2, <3>1, BoundsArePositive
  <2>4. r[i] = [fill |-> p[i].fill, attempts |-> a + 1, ready |-> FALSE]
    BY <1>9, <2>2
  <2>5. p[i].fill \in Fills
    BY <1>7 DEF Origin
  <2>6. r[i] \in PendingFill
    BY <2>3, <2>4, <2>5 DEF PendingFill
  <2>7. tries[p[i].fill] = a + (IF j <= Len(results) THEN 1 ELSE 0)
    BY <2>1, <2>2 DEF FlusherInv, Counts
  <2>8. j <= Len(results)
    <3>1. DOMAIN batch = 1 .. Len(batch)
      BY <1>1
    <3>2. QED
      BY <2>1, <3>1
  <2>9. QED
    BY <2>4, <2>6, <2>7, <2>8
<1>13. r \in Seq(PendingFill)
  BY <1>9, <1>12
<1>14. \A i \in 1 .. n : r[i].fill = batch[h[i]].fill
  BY <1>11, <1>12
<1>15. FillsBy(h, r, batch, Again)
  BY <1>5, <1>6, <1>10, <1>14 DEF FillsBy, SelectedBy
<1>16. DOMAIN batch \in SUBSET Nat
  BY <1>1
<1>17. Again \in SUBSET Nat
  BY <1>2, <1>16
<1>18. FillSet(r) = FillsAt(batch, Again) /\ Once(r)
  BY <1>1, <1>2, <1>10, <1>15, <1>17, FillsOfPicks
<1>19. QED
  BY <1>8, <1>10, <1>12, <1>13, <1>18

\* Each fill that is let go of gets the outcome of its own try.
LEMMA FatesAre ==
  ASSUME FlusherInv, EndFlush
  PROVE  /\ fate' \in [Fills -> Delivery!Fates \cup {"None"}]
         /\ \A f \in Fills \ LetGo : fate'[f] = fate[f]
         /\ \A f \in LetGo : /\ f \in Fills /\ fate[f] = "None" /\ tries[f] > 0
                             /\ fate'[f] \in Delivery!Fates
                             /\ fate'[f] = "GaveUp" => tries[f] = MaxTries
<1>1. batch \in Seq(Origin) /\ results \in Seq(Outcomes) /\ Once(batch)
      /\ Len(results) = Len(batch)
      /\ fate \in [Fills -> Delivery!Fates \cup {"None"}]
  BY DEF FlusherInv, FlusherTypeOK, Apart, EndFlush, Delivery!Fates
<1>2. PICK n \in Nat : DOMAIN batch = 1 .. n /\ DOMAIN results = 1 .. n /\ Len(results) = n
  BY <1>1
<1>3. \A i \in 1 .. n : batch[i] \in Origin /\ results[i] \in Outcomes
  BY <1>1, <1>2, ElementOfSeq
<1>4. fate' = [f \in Fills |->
                IF \E i \in 1 .. n : batch[i].fill = f /\ ~ Retried(i)
                THEN FateOf(CHOOSE i \in 1 .. n : batch[i].fill = f)
                ELSE fate[f]]
  BY <1>2 DEF EndFlush
<1>5. ASSUME NEW f \in Fills, f \notin LetGo PROVE fate'[f] = fate[f]
  <2>1. ~ \E i \in 1 .. n : batch[i].fill = f /\ ~ Retried(i)
    <3>1. ASSUME NEW i \in 1 .. n, batch[i].fill = f, ~ Retried(i) PROVE FALSE
      <4>1. i \in DOMAIN batch \ Again
        BY <1>2, <3>1 DEF Again
      <4>2. QED
        BY <1>5, <3>1, <4>1, Zenon DEF LetGo, FillsAt
    <3>2. QED
      BY <3>1
  <2>2. QED
    BY <1>4, <2>1
<1>6. ASSUME NEW f \in LetGo
      PROVE  /\ f \in Fills /\ fate[f] = "None" /\ tries[f] > 0
             /\ fate'[f] \in Delivery!Fates
             /\ fate'[f] = "GaveUp" => tries[f] = MaxTries
  <2>1. PICK i \in 1 .. n : batch[i].fill = f /\ i \notin Again
    BY <1>2 DEF LetGo, FillsAt
  <2>2. ~ Retried(i)
    BY <1>2, <2>1 DEF Again
  <2>3. f \in FillSet(batch)
    BY <1>2, <2>1, Zenon DEF FillSet
  <2>4. f \in Fills /\ fate[f] = "None"
    BY <2>3, HeldFillsAre DEF FlusherInv
  <2>5. PICK c : c = CHOOSE j \in 1 .. n : batch[j].fill = f
    OBVIOUS
  <2>6. c \in 1 .. n /\ batch[c].fill = f
    BY <2>1, <2>5, Zenon
  <2>7. c = i
    BY <1>1, <1>2, <2>1, <2>6, Zenon DEF Once
  <2>8. fate'[f] = FateOf(i)
    BY <1>4, <2>1, <2>2, <2>4, <2>5, <2>7, Zenon
  <2>9. FateOf(i) \in Delivery!Fates
    BY <1>3 DEF FateOf, Outcomes, Delivery!Fates
  <2>10. PICK a \in 0 .. MaxTries - 1 : a = batch[i].attempts
    BY <1>3 DEF Origin
  <2>11. tries[f] = a + 1
    BY <1>2, <2>1, <2>10 DEF FlusherInv, Counts
  <2>12. ASSUME fate'[f] = "GaveUp" PROVE tries[f] = MaxTries
    <3>1. results[i] = "Transient"
      BY <1>3, <2>8, <2>12 DEF FateOf, Outcomes
    <3>2. a + 1 >= MaxTries
      BY <2>2, <2>10, <3>1 DEF Retried, IsLast
    <3>3. QED
      BY <2>10, <2>11, <3>2, BoundsArePositive
  <2>13. a + 1 > 0
    BY <2>10, BoundsArePositive
  <2>14. QED
    BY <2>4, <2>8, <2>9, <2>11, <2>12, <2>13
<1>7. fate' \in [Fills -> Delivery!Fates \cup {"None"}]
  <2>1. DOMAIN fate' = Fills /\ fate' = [f \in Fills |-> fate'[f]]
    BY <1>4
  <2>2. \A f \in Fills : fate'[f] \in Delivery!Fates \cup {"None"}
    BY <1>1, <1>5, <1>6
  <2>3. QED
    BY <2>1, <2>2
<1>8. QED
  BY <1>5, <1>6, <1>7

LEMMA EndFlushInv ==
  ASSUME FlusherInv, EndFlush
  PROVE  FlusherInv'
<1>1. /\ task = "Settling" /\ Len(results) = Len(batch)
      /\ pending' = pending \o Rescheduled
      /\ batch' = <<>> /\ results' = <<>>
      /\ task' = IF final THEN "Stopped" ELSE "Waiting"
      /\ UNCHANGED <<channel, sent, open, active, final, tries>>
  BY DEF EndFlush
<1>2. PICK r : r = Rescheduled
  OBVIOUS
<1>3. /\ r \in Seq(PendingFill) /\ FillSet(r) = FillsAt(batch, Again) /\ Once(r)
      /\ \A i \in DOMAIN r : tries[r[i].fill] = r[i].attempts
  BY <1>1, <1>2, RescheduledAre
<1>4. /\ fate' \in [Fills -> Delivery!Fates \cup {"None"}]
      /\ \A f \in Fills \ LetGo : fate'[f] = fate[f]
      /\ \A f \in LetGo : fate'[f] \in Delivery!Fates
  BY FatesAre
<1>5. pending \in Seq(PendingFill) /\ Once(pending) /\ Once(batch)
      /\ FillSet(pending) \cap FillSet(batch) = {}
  BY DEF FlusherInv, FlusherTypeOK, Apart
<1>6. /\ FillsAt(batch, Again) \cup LetGo = FillSet(batch)
      /\ FillsAt(batch, Again) \cap LetGo = {}
  BY <1>5, SplitFills DEF Again, LetGo
<1>7. PICK p : p = pending' /\ p = pending \o r
  BY <1>1, <1>2
<1>8. PICK m \in Nat, n \in Nat : Joins(p, PendingFill, pending, r, m, n)
  BY <1>3, <1>5, <1>7, ConcatIs
<1>9. p \in Seq(PendingFill)
  BY <1>8 DEF Joins
<1>10. FillSet(p) = FillSet(pending) \cup FillSet(r) /\ Once(p)
  BY <1>3, <1>5, <1>6, <1>7, ConcatOnce
<1>11. FlusherTypeOK'
  <2>1. fate' \in [Fills -> {"None", "Settled", "OiBlocked", "Permanent", "GaveUp"}]
    BY <1>4 DEF Delivery!Fates
  <2>2. <<>> \in Seq(Origin) /\ <<>> \in Seq(Outcomes)
    OBVIOUS
  <2>3. QED
    BY <1>1, <1>7, <1>9, <2>1, <2>2 DEF FlusherInv, FlusherTypeOK
<1>12. Phases' /\ RetriesAreOlder'
  <2>1. DOMAIN <<>> = {} /\ Len(<<>>) <= Len(<<>>)
    OBVIOUS
  <2>2. task' # "Settling"
    BY <1>1
  <2>3. QED
    BY <1>1, <2>1, <2>2 DEF Phases, RetriesAreOlder
<1>13. FillSet(batch') = {} /\ Once(batch')
  BY <1>1 DEF FillSet, Once
<1>14. Below(FillSet(pending) \cup FillSet(batch), ToSet(active) \cup ToSet(channel))
  BY DEF FlusherInv, Apart
<1>15. Apart'
  <2>1. FillSet(p) \subseteq FillSet(pending) \cup FillSet(batch)
    BY <1>3, <1>6, <1>10
  <2>2. Below(FillSet(p) \cup FillSet(batch'), ToSet(active) \cup ToSet(channel))
    BY <1>13, <1>14, <2>1 DEF Below
  <2>3. QED
    BY <1>1, <1>7, <1>10, <1>13, <2>2 DEF FlusherInv, Apart
<1>16. /\ ToSet(channel) \subseteq Fills /\ ToSet(active) \subseteq Fills
       /\ FillSet(pending) \subseteq Fills /\ FillSet(batch) \subseteq Fills
       /\ \A f \in FillSet(batch) : f \in 1 .. sent
  BY HeldFillsAre DEF FlusherInv
<1>17. LetGo \cap (ToSet(channel) \cup ToSet(active) \cup FillSet(pending) \cup FillSet(r)) = {}
  <2>1. \A f \in FillSet(batch) : f \notin ToSet(active) \cup ToSet(channel)
    <3>1. \A f \in FillSet(batch) : ~ (f < f)
      BY <1>16, BoundsArePositive DEF Fills
    <3>2. QED
      BY <1>14, <3>1 DEF Below
  <2>2. QED
    BY <1>3, <1>5, <1>6, <2>1
<1>18. Accounted'
  <2>1. PICK H : H = ToSet(channel) \cup ToSet(active) \cup FillSet(pending) \cup FillSet(r)
    OBVIOUS
  <2>2. H \cup LetGo = {f \in 1 .. sent : fate[f] = "None"}
    BY <1>3, <1>6, <2>1 DEF FlusherInv, Accounted
  <2>3. 1 .. sent \subseteq Fills
    BY BoundsArePositive DEF FlusherInv, FlusherTypeOK, Fills
  <2>4. \A f \in LetGo : fate'[f] # "None"
    BY <1>4 DEF Delivery!Fates
  <2>5. ASSUME NEW f PROVE f \in H <=> f \in {g \in 1 .. sent : fate'[g] = "None"}
    BY <1>4, <1>17, <2>1, <2>2, <2>3, <2>4
  <2>6. H = {g \in 1 .. sent : fate'[g] = "None"}
    BY <2>5
  <2>7. QED
    BY <1>1, <1>7, <1>10, <1>13, <2>1, <2>6 DEF Accounted
<1>19. Counts'
  <2>1. \A f \in Fills : f > sent => tries[f] = 0 /\ fate'[f] = "None"
    <3>1. TAKE f \in Fills
    <3>2. f > sent => f \notin LetGo
      BY <1>6, <1>16 DEF FlusherInv, FlusherTypeOK
    <3>3. QED
      BY <1>4, <3>2 DEF FlusherInv, Counts
  <2>2. \A k \in DOMAIN p : tries[p[k].fill] = p[k].attempts
    <3>1. TAKE k \in DOMAIN p
    <3>2. CASE k \in 1 .. m
      <4>1. p[k] = pending[k] /\ k \in DOMAIN pending
        BY <1>8, <3>2 DEF Joins
      <4>2. QED
        BY <4>1 DEF FlusherInv, Counts
    <3>3. CASE k \notin 1 .. m
      <4>1. PICK i \in 1 .. n : k = m + i
        BY <1>8, <3>3 DEF Joins
      <4>2. p[k] = r[i] /\ i \in DOMAIN r
        BY <1>8, <4>1 DEF Joins
      <4>3. QED
        BY <1>3, <4>2
    <3>4. QED
      BY <3>2, <3>3
  <2>3. \A f \in ToSet(channel) \cup ToSet(active) : tries[f] = 0
    BY DEF FlusherInv, Counts
  <2>4. DOMAIN batch' = {}
    BY <1>1
  <2>5. QED
    BY <1>1, <1>7, <2>1, <2>2, <2>3, <2>4 DEF Counts
<1>20. QED
  BY <1>11, <1>12, <1>15, <1>18, <1>19 DEF FlusherInv

-----------------------------------------------------------------------------
LEMMA FlusherInitInv ==
  ASSUME FlusherInit
  PROVE  FlusherInv
<1>1. /\ channel = <<>> /\ active = <<>> /\ pending = <<>> /\ batch = <<>> /\ results = <<>>
      /\ sent = 0 /\ task = "Waiting" /\ open = TRUE /\ final = FALSE
      /\ tries = [f \in Fills |-> 0] /\ fate = [f \in Fills |-> "None"]
  BY DEF FlusherInit
<1>2. DOMAIN <<>> = {} /\ Len(<<>>) = 0
  OBVIOUS
<1>3. FlusherTypeOK
  <2>1. /\ <<>> \in Seq(Fills) /\ <<>> \in Seq(PendingFill)
        /\ <<>> \in Seq(Origin) /\ <<>> \in Seq(Outcomes)
    OBVIOUS
  <2>2. sent \in 0 .. NumFills
    BY <1>1, BoundsArePositive
  <2>3. /\ tries \in [Fills -> Nat]
        /\ fate \in [Fills -> {"None", "Settled", "OiBlocked", "Permanent", "GaveUp"}]
    BY <1>1
  <2>4. QED
    BY <1>1, <2>1, <2>2, <2>3 DEF FlusherTypeOK
<1>4. Phases /\ RetriesAreOlder
  BY <1>1, <1>2 DEF Phases, RetriesAreOlder
<1>5. ToSet(channel) = {} /\ ToSet(active) = {} /\ FillSet(pending) = {} /\ FillSet(batch) = {}
  BY <1>1, <1>2 DEF ToSet, FillSet
<1>6. Apart
  BY <1>1, <1>2, <1>5 DEF Apart, Increasing, Once, Below
<1>7. Accounted
  <2>1. 1 .. sent = {}
    BY <1>1
  <2>2. QED
    BY <1>5, <2>1 DEF Accounted
<1>8. Counts
  BY <1>1, <1>2, <1>5 DEF Counts
<1>9. QED
  BY <1>3, <1>4, <1>6, <1>7, <1>8 DEF FlusherInv

LEMMA FlusherInvHolds == FlusherSpec => []FlusherInv
<1>1. FlusherInit => FlusherInv
  BY FlusherInitInv
<1>2. FlusherInv /\ [FlusherNext]_flusherVars => FlusherInv'
  <2>1. SUFFICES ASSUME FlusherInv, [FlusherNext]_flusherVars PROVE FlusherInv'
    OBVIOUS
  <2>2. CASE SendFill
    BY <2>1, <2>2, SendFillInv
  <2>3. CASE Close \/ UNCHANGED flusherVars
    BY <2>1, <2>3, FrameInv
  <2>4. CASE BackoffElapses
    BY <2>1, <2>4, BackoffElapsesInv
  <2>5. CASE TimerFires
    BY <2>1, <2>5, TimerFiresInv
  <2>6. CASE Recv
    BY <2>1, <2>6, RecvInv
  <2>7. CASE RecvClosed
    BY <2>1, <2>7, RecvClosedInv
  <2>8. CASE \E outcome \in Outcomes : SettleOne(outcome)
    BY <2>1, <2>8, SettleOneInv
  <2>9. CASE EndFlush
    BY <2>1, <2>9, EndFlushInv
  <2>10. QED
    BY <2>1, <2>2, <2>3, <2>4, <2>5, <2>6, <2>7, <2>8, <2>9 DEF FlusherNext
<1>3. QED
  BY <1>1, <1>2, PTL DEF FlusherSpec

\* The queues, the batch and what is counted of each fill stay typed: a fill
\* is never rescheduled with an attempt more than it has.
THEOREM FlusherTypes == FlusherSpec => []FlusherTypeOK
<1>1. FlusherInv => FlusherTypeOK
  BY DEF FlusherInv
<1>2. QED
  BY <1>1, FlusherInvHolds, PTL

LEMMA FillsOfIs ==
  ASSUME NEW T, NEW seq \in Seq(T), \A e \in T : e.fill \in Fills
  PROVE  /\ FillsOf(seq) \in Seq(Fills)
         /\ ToSet(FillsOf(seq)) = FillSet(seq)
         /\ Once(seq) => IsInjective(FillsOf(seq))
<1>1. PICK n \in Nat : n = Len(seq) /\ DOMAIN seq = 1 .. n
  OBVIOUS
<1>2. \A i \in 1 .. n : seq[i].fill \in Fills
  BY <1>1, ElementOfSeq
<1>3. PICK q : q = FillsOf(seq)
  OBVIOUS
<1>4. q = [i \in 1 .. n |-> seq[i].fill]
  BY <1>1, <1>3 DEF FillsOf
<1>5. q \in Seq(Fills) /\ DOMAIN q = 1 .. n
  BY <1>2, <1>4
<1>6. \A i \in 1 .. n : q[i] = seq[i].fill
  BY <1>4
<1>7. ToSet(q) = FillSet(seq)
  BY <1>1, <1>5, <1>6, Zenon DEF ToSet, FillSet
<1>8. Once(seq) => IsInjective(q)
  BY <1>1, <1>5, <1>6, Zenon DEF Once, IsInjective
<1>9. QED
  BY <1>3, <1>5, <1>7, <1>8

\* A fill that was sent is in exactly one queue, and there once, until it is
\* let go of; then it is in none (batch_flusher.rs:8).
THEOREM FlusherNothingLost == FlusherSpec => []NothingLost
<1>1. FlusherInv => NothingLost
  <2>1. SUFFICES ASSUME FlusherInv PROVE NothingLost
    OBVIOUS
  <2>2. /\ channel \in Seq(Fills) /\ active \in Seq(Fills)
        /\ pending \in Seq(PendingFill) /\ batch \in Seq(Origin)
        /\ Increasing(channel) /\ Increasing(active) /\ Once(pending) /\ Once(batch)
        /\ Below(ToSet(active), ToSet(channel))
        /\ Below(FillSet(pending) \cup FillSet(batch), ToSet(active) \cup ToSet(channel))
        /\ FillSet(pending) \cap FillSet(batch) = {}
    BY <2>1 DEF FlusherInv, FlusherTypeOK, Apart
  <2>3. Fills \subseteq Nat
    BY BoundsArePositive DEF Fills
  <2>4. channel \in Seq(Nat) /\ active \in Seq(Nat)
    BY <2>2, <2>3, SeqMonotonic
  <2>5. IsInjective(channel) /\ IsInjective(active)
    BY <2>2, <2>4, IncreasingInjective
  <2>6. \A e \in PendingFill : e.fill \in Fills
    BY DEF PendingFill
  <2>7. \A e \in Origin : e.fill \in Fills
    BY DEF Origin
  <2>8. PICK p : p = FillsOf(pending)
    OBVIOUS
  <2>9. PICK b : b = FillsOf(batch)
    OBVIOUS
  <2>10. p \in Seq(Fills) /\ ToSet(p) = FillSet(pending) /\ IsInjective(p)
    BY <2>2, <2>6, <2>8, FillsOfIs
  <2>11. b \in Seq(Fills) /\ ToSet(b) = FillSet(batch) /\ IsInjective(b)
    BY <2>2, <2>7, <2>9, FillsOfIs
  <2>12. /\ ToSet(channel) \subseteq Fills /\ ToSet(active) \subseteq Fills
         /\ FillSet(pending) \subseteq Fills /\ FillSet(batch) \subseteq Fills
    BY <2>1, HeldFillsAre DEF FlusherInv
  <2>13. \A f \in Fills : ~ (f < f)
    BY <2>3
  <2>14. ToSet(channel) \cap ToSet(active) = {}
    BY <2>2, <2>12, <2>13 DEF Below
  <2>15. (ToSet(channel) \cup ToSet(active)) \cap (FillSet(pending) \cup FillSet(batch)) = {}
    BY <2>2, <2>12, <2>13 DEF Below
  <2>16. PICK q1 : q1 = channel \o active
    OBVIOUS
  <2>17. q1 \in Seq(Fills) /\ ToSet(q1) = ToSet(channel) \cup ToSet(active) /\ IsInjective(q1)
    BY <2>2, <2>5, <2>14, <2>16, ConcatInjective
  <2>18. PICK q2 : q2 = q1 \o p
    OBVIOUS
  <2>19. q2 \in Seq(Fills) /\ ToSet(q2) = ToSet(q1) \cup ToSet(p) /\ IsInjective(q2)
    <3>1. ToSet(q1) \cap ToSet(p) = {}
      BY <2>10, <2>15, <2>17
    <3>2. QED
      BY <2>10, <2>17, <2>18, <3>1, ConcatInjective
  <2>20. PICK q3 : q3 = q2 \o b
    OBVIOUS
  <2>21. ToSet(q3) = ToSet(q2) \cup ToSet(b) /\ IsInjective(q3)
    <3>1. ToSet(q2) \cap ToSet(b) = {}
      BY <2>2, <2>10, <2>11, <2>15, <2>17, <2>19
    <3>2. QED
      BY <2>11, <2>19, <2>20, <3>1, ConcatInjective
  <2>22. q3 = HeldFills
    BY <2>8, <2>9, <2>16, <2>18, <2>20 DEF HeldFills
  <2>23. ToSet(q3) = {f \in 1 .. sent : fate[f] = "None"}
    BY <2>1, <2>10, <2>11, <2>17, <2>19, <2>21 DEF FlusherInv, Accounted
  <2>24. QED
    BY <2>21, <2>22, <2>23 DEF NothingLost
<1>2. QED
  BY <1>1, FlusherInvHolds, PTL

\* In every batch the retries are older than the fills tried for the first
\* time, and these keep the order they were sent in (batch_flusher.rs:180).
THEOREM FlusherRetriesOlder == FlusherSpec => []RetriesAreOlder
<1>1. FlusherInv => RetriesAreOlder
  BY DEF FlusherInv
<1>2. QED
  BY <1>1, FlusherInvHolds, PTL

\* The flusher implements the delivery it promises: a bounded number of tries
\* of each fill, one fate, and no fill given up before its last try.
THEOREM FlusherDelivers == FlusherSpec => DeliversFills
<1>1. FlusherInit => Delivery!Init
  BY DEF FlusherInit, Delivery!Init
<1>2. FlusherInv /\ [FlusherNext]_flusherVars => [Delivery!Next]_Delivery!vars
  <2>1. SUFFICES ASSUME FlusherInv, [FlusherNext]_flusherVars
                 PROVE  [Delivery!Next]_Delivery!vars
    OBVIOUS
  <2>2. ASSUME NEW outcome \in Outcomes, SettleOne(outcome)
        PROVE  Delivery!Next
    <3>1. PICK k \in Nat, n \in Nat, e \in Fills :
             /\ k = Len(results) /\ k < n /\ DOMAIN batch = 1 .. n /\ n = Len(batch)
             /\ batch[k + 1] \in Origin /\ e = batch[k + 1].fill
             /\ fate[e] = "None" /\ tries[e] = batch[k + 1].attempts
             /\ tries' = [tries EXCEPT ![e] = @ + 1]
      BY <2>1, <2>2, SettlingIs
    <3>2. tries[e] < MaxTries
      <4>1. PICK a \in 0 .. MaxTries - 1 : a = batch[k + 1].attempts
        BY <3>1 DEF Origin
      <4>2. QED
        BY <3>1, <4>1, BoundsArePositive
    <3>3. fate' = fate
      BY <2>2 DEF SettleOne
    <3>4. Delivery!Try(e)
      BY <3>1, <3>2, <3>3 DEF Delivery!Try
    <3>5. QED
      BY <3>4 DEF Delivery!Next
  <2>3. ASSUME EndFlush PROVE Delivery!Next
    <3>1. LetGo \in SUBSET Fills
      BY <2>1, <2>3, FatesAre
    <3>2. tries' = tries
      BY <2>3 DEF EndFlush
    <3>3. Delivery!Release(LetGo)
      BY <2>1, <2>3, <3>2, FatesAre DEF Delivery!Release
    <3>4. QED
      BY <3>1, <3>3 DEF Delivery!Next
  <2>4. ASSUME \/ SendFill \/ Close \/ BackoffElapses \/ TimerFires \/ Recv \/ RecvClosed
               \/ UNCHANGED flusherVars
        PROVE  UNCHANGED Delivery!vars
    <3>1. UNCHANGED <<tries, fate>>
      BY <2>4 DEF SendFill, Close, BackoffElapses, TimerFires, Recv, RecvClosed, flusherVars
    <3>2. QED
      BY <3>1 DEF Delivery!vars
  <2>5. QED
    BY <2>1, <2>2, <2>3, <2>4 DEF FlusherNext
<1>3. QED
  BY <1>1, <1>2, FlusherInvHolds, PTL DEF FlusherSpec, DeliversFills, Delivery!Spec
=============================================================================
