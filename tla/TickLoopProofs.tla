--------------------------- MODULE TickLoopProofs ---------------------------
(***************************************************************************)
(* Proofs about the tick loop and its order handlers: for every set of     *)
(* orders, every interleaving and every number of passes and crashes.      *)
(*                                                                         *)
(* A pass folds match_intent, itself an iteration, over the rows it lists. *)
(* The two recursive functions behind these operators are shown to exist   *)
(* on the data at hand (IterationExists, FoldExists), by an induction over *)
(* Nat stated with sets; what they return is then typed along them.        *)
(*                                                                         *)
(* The last part follows one order through book, fills and chain: what the *)
(* book holds of it, what the fills yet to settle take of it and what the  *)
(* chain has settled stay within its size (Within, Budget).                *)
(***************************************************************************)
EXTENDS TickLoop, FiniteSetTheorems, SequenceTheorems, WellFoundedInduction, TLAPS

-----------------------------------------------------------------------------
LEMMA LeastNat ==
  ASSUME NEW T, T \subseteq Nat, T # {}
  PROVE  \E x \in T : \A y \in T : x <= y
<1>1. PICK x \in T : \A y \in T : ~ (<<y, x>> \in OpToRel(<, Nat))
  BY WFMin, NatLessThanWellFounded
<1>2. \A y \in T : ~ (y < x)
  BY <1>1 DEF OpToRel
<1>3. QED
  BY <1>2

\* A set of naturals with 0 and the successors of its elements is all of Nat.
LEMMA Inductive ==
  ASSUME NEW S, S \subseteq Nat, 0 \in S, \A n \in S : n + 1 \in S
  PROVE  \A n \in Nat : n \in S
<1>1. SUFFICES ASSUME Nat \ S # {} PROVE FALSE
  OBVIOUS
<1>2. PICK x \in Nat \ S : \A y \in Nat \ S : x <= y
  <2>1. Nat \ S \subseteq Nat
    OBVIOUS
  <2>2. QED
    BY <1>1, <2>1, LeastNat
<1>3. x - 1 \in Nat /\ x - 1 < x
  BY <1>2
<1>4. x - 1 \in S
  BY <1>2, <1>3
<1>5. (x - 1) + 1 = x
  BY <1>2
<1>6. QED
  BY <1>2, <1>4, <1>5

LEMMA MaxIs ==
  ASSUME NEW n \in Nat, NEW T, T \subseteq 0 .. n, T # {}
  PROVE  Max(T) \in T /\ \A y \in T : Max(T) >= y
<1>1. \E x \in T : \A y \in T : x >= y
  <2>1. PICK z \in {n - x : x \in T} : \A y \in {n - x : x \in T} : z <= y
    <3>1. {n - x : x \in T} \subseteq Nat
      OBVIOUS
    <3>2. {n - x : x \in T} # {}
      OBVIOUS
    <3>3. QED
      BY <3>1, <3>2, LeastNat
  <2>2. PICK x \in T : z = n - x
    BY <2>1
  <2>3. \A y \in T : n - x <= n - y
    BY <2>1, <2>2
  <2>4. QED
    BY <2>3
<1>2. QED
  BY <1>1 DEF Max

LEMMA MaxOfIndices ==
  ASSUME NEW n \in Nat
  PROVE  \A s \in SUBSET (1 .. n) : s # {} => Max(s) \in s /\ \A y \in s : y <= Max(s)
<1>1. TAKE s \in SUBSET (1 .. n)
<1>2. HAVE s # {}
<1>3. s \subseteq 0 .. n
  OBVIOUS
<1>4. Max(s) \in s /\ \A y \in s : Max(s) >= y
  BY <1>2, <1>3, MaxIs
<1>5. QED
  BY <1>3, <1>4

\* Without its largest index, the prefix 1 .. k + 1 is the prefix 1 .. k.
UpToNext(n, k) ==
  /\ 1 .. k + 1 \in SUBSET (1 .. n) /\ 1 .. k + 1 # {}
  /\ Max(1 .. k + 1) = k + 1
  /\ (1 .. k + 1) \ {k + 1} = 1 .. k

LEMMA NextPrefix ==
  ASSUME NEW n \in Nat, NEW k \in Nat, k + 1 <= n
  PROVE  UpToNext(n, k)
<1>1. 1 .. k + 1 \in SUBSET (1 .. n)
  OBVIOUS
<1>2. k + 1 \in 1 .. k + 1 /\ \A y \in 1 .. k + 1 : y <= k + 1
  OBVIOUS
<1>3. 1 .. k + 1 # {}
  BY <1>2
<1>4. PICK s : s = 1 .. k + 1
  OBVIOUS
<1>5. Max(s) \in s /\ \A y \in s : y <= Max(s)
  BY <1>1, <1>3, <1>4, MaxOfIndices
<1>6. Max(s) = k + 1
  <2>1. k + 1 <= Max(s) /\ Max(s) <= k + 1 /\ Max(s) \in Int
    BY <1>2, <1>4, <1>5
  <2>2. QED
    BY <2>1
<1>7. (1 .. k + 1) \ {k + 1} = 1 .. k
  <2>1. \A x : x \in (1 .. k + 1) \ {k + 1} <=> x \in 1 .. k
    OBVIOUS
  <2>2. QED
    BY <2>1
<1>8. Max(1 .. k + 1) = k + 1
  BY <1>4, <1>6
<1>9. QED
  BY <1>1, <1>3, <1>7, <1>8, Zenon DEF UpToNext

\* Iterating a function of W from a point of W is a function on Nat.
LEMMA IterationExists ==
  ASSUME NEW W, NEW F \in [W -> W], NEW a \in W
  PROVE  \E f \in [Nat -> W] : f = [n \in Nat |-> IF n = 0 THEN a ELSE F[f[n - 1]]]
<1> DEFINE Upto(n, g) == /\ g[0] = a
                         /\ \A k \in Nat : k < n => g[k + 1] = F[g[k]]
<1>1. \A n \in Nat : \E g \in [Nat -> W] : Upto(n, g)
  <2> DEFINE S == {n \in Nat : \E g \in [Nat -> W] : Upto(n, g)}
  <2>1. 0 \in S
    <3>1. [k \in Nat |-> a] \in [Nat -> W] /\ Upto(0, [k \in Nat |-> a])
      OBVIOUS
    <3>2. QED
      BY <3>1
  <2>2. \A n \in S : n + 1 \in S
    <3>1. TAKE n \in S
    <3>2. PICK g \in [Nat -> W] : Upto(n, g)
      OBVIOUS
    <3> DEFINE h == [k \in Nat |-> IF k = 0 THEN a ELSE F[g[k - 1]]]
    <3>3. h \in [Nat -> W]
      <4>1. \A k \in Nat : k # 0 => k - 1 \in Nat
        OBVIOUS
      <4>2. QED
        BY <4>1
    <3>4. \A k \in Nat : k < n + 1 => h[k] = g[k]
      <4>1. TAKE k \in Nat
      <4>2. CASE k = 0
        BY <3>2, <4>2
      <4>3. CASE k # 0
        <5>1. k - 1 \in Nat /\ (k - 1) + 1 = k /\ (k < n + 1 => k - 1 < n)
          BY <4>3
        <5>2. k < n + 1 => g[k] = F[g[k - 1]]
          BY <3>2, <5>1
        <5>3. QED
          BY <4>3, <5>2
      <4>4. QED
        BY <4>2, <4>3
    <3>5. Upto(n + 1, h)
      <4>1. h[0] = a
        OBVIOUS
      <4>2. \A k \in Nat : h[k + 1] = F[g[k]]
        OBVIOUS
      <4>3. QED
        BY <3>4, <4>1, <4>2
    <3>6. n + 1 \in Nat
      OBVIOUS
    <3>7. QED
      BY <3>3, <3>5, <3>6
  <2>3. S \subseteq Nat
    OBVIOUS
  <2>4. \A n \in Nat : n \in S
    <3> HIDE DEF S
    <3>1. QED
      BY <2>1, <2>2, <2>3, Inductive
  <2>5. QED
    BY <2>4
<1>2. ASSUME NEW n \in Nat, NEW m \in Nat, NEW g, NEW h, Upto(n, g), Upto(m, h)
      PROVE  \A k \in Nat : k <= n /\ k <= m => g[k] = h[k]
  <2> DEFINE S == {k \in Nat : k <= n /\ k <= m => g[k] = h[k]}
  <2>1. 0 \in S
    BY <1>2
  <2>2. \A k \in S : k + 1 \in S
    BY <1>2
  <2>3. S \subseteq Nat
    OBVIOUS
  <2>4. \A k \in Nat : k \in S
    <3> HIDE DEF S
    <3>1. QED
      BY <2>1, <2>2, <2>3, Inductive
  <2>5. QED
    BY <2>4
<1> DEFINE part(n) == CHOOSE g \in [Nat -> W] : Upto(n, g)
           f == [n \in Nat |-> part(n)[n]]
<1>3. \A n \in Nat : part(n) \in [Nat -> W] /\ Upto(n, part(n))
  BY <1>1
<1> HIDE DEF part
<1>4. f \in [Nat -> W]
  BY <1>3
<1>5. f[0] = a
  BY <1>3
<1>6. ASSUME NEW n \in Nat PROVE f[n + 1] = F[f[n]]
  <2>1. n + 1 \in Nat /\ n < n + 1
    OBVIOUS
  <2>2. part(n + 1)[n + 1] = F[part(n + 1)[n]]
    BY <1>3, <2>1
  <2>3. part(n + 1)[n] = part(n)[n]
    <3>1. Upto(n + 1, part(n + 1)) /\ Upto(n, part(n))
      BY <1>3, <2>1
    <3> HIDE DEF Upto
    <3>2. QED
      BY <1>2, <2>1, <3>1
  <2>4. QED
    BY <2>1, <2>2, <2>3
<1>7. \A n \in Nat : f[n] = IF n = 0 THEN a ELSE F[f[n - 1]]
  <2>1. TAKE n \in Nat
  <2>2. CASE n = 0
    BY <1>5, <2>2
  <2>3. CASE n # 0
    <3>1. n - 1 \in Nat /\ (n - 1) + 1 = n
      BY <2>3
    <3>2. f[(n - 1) + 1] = F[f[n - 1]]
      BY <1>6, <3>1
    <3>3. QED
      BY <2>3, <3>1, <3>2
  <2>4. QED
    BY <2>2, <2>3
<1>8. f = [n \in Nat |-> IF n = 0 THEN a ELSE F[f[n - 1]]]
  BY <1>7
<1>9. QED
  BY <1>4, <1>8

\* Folding a function of A over 1 .. n, the largest index last.
FoldsOf(n, A, a, F) ==
  {g \in [SUBSET (1 .. n) -> A] :
     \A s \in SUBSET (1 .. n) :
       g[s] = IF s = {} THEN a ELSE F[<<g[s \ {Max(s)}], Max(s)>>]}

LEMMA FoldExists ==
  ASSUME NEW n \in Nat, NEW A, NEW a \in A, NEW F \in [A \X (1 .. n) -> A]
  PROVE  FoldsOf(n, A, a, F) # {}
<1> DEFINE D == 1 .. n
           At(g, s) == IF s = {} THEN a ELSE F[<<g[s \ {Max(s)}], Max(s)>>]
           Upto(k, g) == \A s \in SUBSET D : s \subseteq 1 .. k => g[s] = At(g, s)
           S == {k \in Nat : \E g \in [SUBSET D -> A] : Upto(k, g)}
<1>1. \A s \in SUBSET D : s # {} => Max(s) \in s /\ \A y \in s : y <= Max(s)
  BY MaxOfIndices
<1>2. ASSUME NEW g \in [SUBSET D -> A], NEW s \in SUBSET D PROVE At(g, s) \in A
  <2>1. CASE s = {}
    BY <2>1
  <2>2. CASE s # {}
    <3>1. s \ {Max(s)} \in SUBSET D /\ Max(s) \in 1 .. n
      BY <1>1, <2>2
    <3>2. g[s \ {Max(s)}] \in A
      BY <3>1
    <3>3. <<g[s \ {Max(s)}], Max(s)>> \in A \X (1 .. n)
      BY <3>1, <3>2
    <3>4. QED
      BY <2>2, <3>3
  <2>3. QED
    BY <2>1, <2>2
<1>3. 0 \in S
  <2> DEFINE g == [s \in SUBSET D |-> a]
  <2>1. g \in [SUBSET D -> A]
    OBVIOUS
  <2>2. Upto(0, g)
    <3>1. \A s \in SUBSET D : s \subseteq 1 .. 0 => s = {}
      OBVIOUS
    <3>2. QED
      BY <3>1
  <2>3. QED
    BY <2>1, <2>2
<1>4. \A k \in S : k + 1 \in S
  <2>1. TAKE k \in S
  <2>2. PICK g \in [SUBSET D -> A] : Upto(k, g)
    OBVIOUS
  <2>3. k \in Nat
    OBVIOUS
  <2> DEFINE h == [s \in SUBSET D |-> At(g, s)]
  <2>4. h \in [SUBSET D -> A]
    <3> HIDE DEF At
    <3>1. QED
      BY <1>2
  <2>5. \A s \in SUBSET D : s \subseteq 1 .. k => h[s] = g[s]
    BY <2>2
  <2>6. Upto(k + 1, h)
    <3>1. SUFFICES ASSUME NEW s \in SUBSET D, s \subseteq 1 .. k + 1
                   PROVE  h[s] = At(h, s)
      OBVIOUS
    <3>2. CASE s = {}
      BY <3>2
    <3>3. CASE s # {}
      <4>1. Max(s) \in s /\ \A y \in s : y <= Max(s)
        BY <1>1, <3>3
      <4>2. s \ {Max(s)} \subseteq 1 .. k
        <5>1. PICK m \in s : m = Max(s) /\ \A y \in s : y <= m
          BY <4>1
        <5>2. \A y \in s \ {m} : y \in 1 .. k
          BY <2>3, <3>1, <5>1
        <5>3. QED
          BY <5>1, <5>2
      <4>3. h[s \ {Max(s)}] = g[s \ {Max(s)}]
        BY <2>5, <4>2
      <4>4. QED
        BY <3>3, <4>3
    <3>4. QED
      BY <3>2, <3>3
  <2>7. k + 1 \in Nat
    BY <2>3
  <2> HIDE DEF h, Upto
  <2>8. QED
    BY <2>4, <2>6, <2>7
<1>5. n \in S
  <2>1. S \subseteq Nat
    OBVIOUS
  <2> HIDE DEF S
  <2>2. QED
    BY <1>3, <1>4, <2>1, Inductive
<1>6. PICK g \in [SUBSET D -> A] : Upto(n, g)
  BY <1>5
<1>7. \A s \in SUBSET D : g[s] = At(g, s)
  BY <1>6
<1>8. g \in FoldsOf(n, A, a, F)
  BY <1>7 DEF FoldsOf
<1>9. QED
  BY <1>8

-----------------------------------------------------------------------------
\* A book in which every resting order has size left, and fills that moved
\* some.  After a resubmission an id may rest twice, so that the index is no
\* longer that of MatchLoop: none of this depends on it.
GoodBook(b) ==
  /\ b \in Book
  /\ \A slot \in Slots :
       \A i \in 1 .. Len(b.queue[slot]) : b.queue[slot][i].remaining > 0

GoodFills(seq) == seq \in Seq(Fill) /\ \A i \in 1 .. Len(seq) : seq[i].size > 0

LEMMA QueueType ==
  ASSUME NEW b, GoodBook(b), NEW slot \in Slots
  PROVE  /\ b.queue[slot] \in Seq(Order)
         /\ \A i \in 1 .. Len(b.queue[slot]) :
              b.queue[slot][i] \in Order /\ b.queue[slot][i].remaining > 0
<1>1. b.queue[slot] \in Seq(Order)
  BY DEF GoodBook, Book
<1>2. QED
  BY <1>1, ElementOfSeq DEF GoodBook

\* A level and an index entry may be replaced by others of their kind.
LEMMA WithQueueGood ==
  ASSUME NEW b, GoodBook(b), NEW slot \in Slots, NEW q \in Seq(Order),
         \A i \in 1 .. Len(q) : q[i].remaining > 0
  PROVE  GoodBook(WithQueue(b, slot, q)) /\ WithQueue(b, slot, q).queue[slot] = q
<1>1. b.queue \in [Slots -> Seq(Order)] /\ b.index \in [Ids -> Slots \cup {NoSlot}]
  BY DEF GoodBook, Book
<1>2. PICK c \in Book : c = WithQueue(b, slot, q)
  BY <1>1 DEF WithQueue, Book
<1>3. \A t \in Slots : c.queue[t] = IF t = slot THEN q ELSE b.queue[t]
  BY <1>1, <1>2 DEF WithQueue
<1>4. QED
  BY <1>2, <1>3 DEF GoodBook

LEMMA WithEntryGood ==
  ASSUME NEW b, GoodBook(b), NEW id \in Ids, NEW slot \in Slots \cup {NoSlot}
  PROVE  GoodBook(WithEntry(b, id, slot)) /\ WithEntry(b, id, slot).queue = b.queue
BY DEF GoodBook, Book, WithEntry

LEMMA AppendGood ==
  ASSUME NEW p \in Seq(Order), \A i \in 1 .. Len(p) : p[i].remaining > 0,
         NEW o \in Order, o.remaining > 0
  PROVE  /\ Append(p, o) \in Seq(Order)
         /\ \A i \in 1 .. Len(Append(p, o)) : Append(p, o)[i].remaining > 0
<1>1. Append(p, o) \in Seq(Order)
  OBVIOUS
<1>2. PICK q \in Seq(Order) : q = Append(p, o)
  BY <1>1
<1>3. /\ Len(p) \in Nat /\ Len(q) = Len(p) + 1 /\ q[Len(p) + 1] = o
      /\ \A i \in 1 .. Len(p) : q[i] = p[i]
  BY <1>2
<1>4. \A i \in 1 .. Len(q) : i \in 1 .. Len(p) \/ i = Len(p) + 1
  BY <1>3
<1>5. QED
  BY <1>2, <1>3, <1>4

LEMMA FillGood ==
  ASSUME NEW b, GoodBook(b), NEW slot \in Slots, b.queue[slot] # <<>>,
         NEW size \in Nat, size <= Head(b.queue[slot]).remaining
  PROVE  GoodBook(BookAfterFill(b, slot, Head(b.queue[slot]), size))
<1>1. PICK p \in Seq(Order) : p = b.queue[slot]
  BY QueueType
<1>2. PICK m \in Order : m = Head(p)
  BY <1>1, HeadTailProperties
<1>3. PICK t \in Seq(Order) : t = Tail(p)
  BY <1>1, HeadTailProperties
<1>4. \A i \in 1 .. Len(p) : p[i].remaining > 0
  BY <1>1, QueueType
<1>5. \A i \in 1 .. Len(t) : t[i].remaining > 0
  <2>1. \A i \in 1 .. Len(t) : i + 1 \in 1 .. Len(p) /\ t[i] = p[i + 1]
    BY <1>1, <1>3, HeadTailProperties
  <2>2. QED
    BY <1>4, <2>1
<1>6. PICK d : d = PopFrontAt(b, slot)
  OBVIOUS
<1>7. GoodBook(d) /\ d.queue[slot] = t
  BY <1>1, <1>3, <1>5, <1>6, WithQueueGood DEF PopFrontAt
<1>8. PICK left \in Nat : left = m.remaining - size
  BY <1>1, <1>2 DEF Order
<1>9. CASE left = 0
  <2>1. m.id \in Ids
    BY DEF Order
  <2>2. GoodBook(DropFromIndex(d, m.id))
    BY <1>7, <2>1, WithEntryGood DEF DropFromIndex
  <2>3. QED
    BY <1>1, <1>2, <1>6, <1>8, <1>9, <2>2 DEF BookAfterFill
<1>10. CASE left # 0
  <2>1. PICK o \in Order : o = [m EXCEPT !.remaining = left]
    <3>1. [m EXCEPT !.remaining = left] \in Order
      BY DEF Order
    <3>2. QED
      BY <3>1
  <2>2. o.remaining > 0
    BY <1>10, <2>1 DEF Order
  <2>3. PICK q \in Seq(Order) : q = <<o>> \o t
    <3>1. <<o>> \in Seq(Order)
      OBVIOUS
    <3>2. <<o>> \o t \in Seq(Order)
      BY <3>1, ConcatProperties
    <3>3. QED
      BY <3>2
  <2>4. /\ Len(q) = Len(<<o>>) + Len(t)
        /\ \A i \in 1 .. Len(<<o>>) + Len(t) :
             q[i] = IF i <= Len(<<o>>) THEN <<o>>[i] ELSE t[i - Len(<<o>>)]
    <3>1. <<o>> \in Seq(Order)
      OBVIOUS
    <3>2. QED
      BY <2>3, <3>1, ConcatProperties
  <2>5. Len(<<o>>) = 1 /\ <<o>>[1] = o /\ Len(t) \in Nat
    OBVIOUS
  <2>6. \A i \in 1 .. Len(q) : q[i] = o \/ (i - 1 \in 1 .. Len(t) /\ q[i] = t[i - 1])
    BY <2>4, <2>5
  <2>7. \A i \in 1 .. Len(q) : q[i].remaining > 0
    BY <1>5, <2>2, <2>6
  <2>8. GoodBook(PushFrontAt(d, slot, o))
    BY <1>7, <2>3, <2>7, WithQueueGood DEF PushFrontAt
  <2>9. QED
    BY <1>1, <1>2, <1>6, <1>8, <1>10, <2>1, <2>8 DEF BookAfterFill
<1>11. QED
  BY <1>9, <1>10

LEMMA BestMakerGood ==
  ASSUME NEW b, GoodBook(b), NEW intent \in Intent, NEW remaining \in Nat,
         CanFill(b, intent, remaining)
  PROVE  LET slot == BestSlot(b, intent)
             maker == BestMaker(b, intent)
             size == FillSize(maker, remaining)
         IN /\ slot \in Slots /\ b.queue[slot] # <<>>
            /\ maker = Head(b.queue[slot]) /\ maker \in Order
            /\ size \in Nat /\ size > 0 /\ size <= maker.remaining /\ size <= remaining
<1> DEFINE side == Opposite(intent.side)
<1>1. side \in Sides
  BY DEF Opposite, Sides, Intent
<1>2. BestPrice(b, side) \in Levels(b, side)
  <2>1. Levels(b, side) \subseteq 0 .. MaxPrice /\ Levels(b, side) # {}
    BY DEF CanFill, Levels, Prices
  <2>2. Max(Levels(b, side)) \in Levels(b, side)
    BY <2>1, MaxIs, MaxPriceIsNat
  <2>3. Min(Levels(b, side)) \in Levels(b, side)
    <3>1. Levels(b, side) \subseteq Nat
      BY <2>1, MaxPriceIsNat
    <3>2. \E x \in Levels(b, side) : \A y \in Levels(b, side) : x <= y
      BY <2>1, <3>1, LeastNat
    <3>3. QED
      BY <3>2 DEF Min
  <2>4. QED
    BY <2>2, <2>3 DEF BestPrice
<1>3. PICK slot \in Slots : slot = BestSlot(b, intent)
  <2>1. BestSlot(b, intent) \in Slots
    BY <1>1, <1>2 DEF BestSlot, Levels, Slots
  <2>2. QED
    BY <2>1
<1>4. b.queue[slot] # <<>>
  BY <1>2, <1>3 DEF BestSlot, Levels
<1>5. PICK p \in Seq(Order) : p = b.queue[slot]
  BY QueueType
<1>6. PICK maker \in Order : maker = BestMaker(b, intent)
  <2>1. Head(p) \in Order /\ BestMaker(b, intent) = Head(p)
    BY <1>3, <1>4, <1>5, HeadTailProperties DEF BestMaker
  <2>2. QED
    BY <2>1
<1>7. maker = Head(p) /\ maker = p[1] /\ 1 \in 1 .. Len(p)
  BY <1>3, <1>4, <1>5, <1>6 DEF BestMaker
<1>8. maker.remaining \in Nat /\ maker.remaining > 0
  BY <1>5, <1>7, QueueType DEF Order
<1>9. remaining > 0
  BY DEF CanFill
<1>10. LET size == FillSize(maker, remaining)
       IN size \in Nat /\ size > 0 /\ size <= maker.remaining /\ size <= remaining
  BY <1>8, <1>9 DEF FillSize
<1>11. QED
  BY <1>3, <1>4, <1>5, <1>6, <1>7, <1>10

-----------------------------------------------------------------------------
\* The walk of MatchIntent, step by step.
Walks == {w \in [book : Book, remaining : Nat, fills : Seq(Fill)] :
            GoodBook(w.book) /\ GoodFills(w.fills)}

WalkStart(b, intent) ==
  [book |-> b, remaining |-> intent.magnitude, fills |-> <<>>]

WalkStep(intent, w) ==
  IF ~ CanFill(w.book, intent, w.remaining) THEN w
  ELSE LET slot == BestSlot(w.book, intent)
           maker == BestMaker(w.book, intent)
           size == FillSize(maker, w.remaining)
       IN [book |-> BookAfterFill(w.book, slot, maker, size),
           remaining |-> w.remaining - size,
           fills |-> Append(w.fills, MakeFill(intent, maker, size))]

WalkOf(b, intent) ==
  CHOOSE walk : walk = [n \in Nat |-> IF n = 0 THEN WalkStart(b, intent)
                                      ELSE WalkStep(intent, walk[n - 1])]

LEMMA MatchIntentIs ==
  ASSUME NEW b, NEW intent, NEW t
  PROVE  MatchIntent(b, intent, t) =
           (LET end == WalkOf(b, intent)[intent.magnitude]
                any == end.fills # <<>>
            IN IF ~ Admitted(b, intent, t)
               THEN [book |-> b, fills |-> <<>>, status |-> "Rejected",
                     residual |-> intent.magnitude]
               ELSE [book |-> BookAfterResidual(end.book, intent, end.remaining, any),
                     fills |-> end.fills,
                     status |-> MatchStatus(intent, end.remaining, any),
                     residual |-> end.remaining])
BY DEF MatchIntent, WalkOf, WalkStart, WalkStep

LEMMA AppendFill ==
  ASSUME NEW seq, GoodFills(seq), NEW fill \in Fill, fill.size > 0
  PROVE  GoodFills(Append(seq, fill))
<1>1. PICK p \in Seq(Fill) : p = seq
  BY DEF GoodFills
<1>2. PICK q \in Seq(Fill) : q = Append(p, fill)
  <2>1. Append(p, fill) \in Seq(Fill)
    OBVIOUS
  <2>2. QED
    BY <2>1
<1>3. /\ Len(p) \in Nat /\ Len(q) = Len(p) + 1 /\ q[Len(p) + 1] = fill
      /\ \A i \in 1 .. Len(p) : q[i] = p[i]
  BY <1>2
<1>4. \A i \in 1 .. Len(q) : i \in 1 .. Len(p) \/ i = Len(p) + 1
  BY <1>3
<1>5. \A i \in 1 .. Len(p) : p[i].size > 0
  BY <1>1 DEF GoodFills
<1>6. QED
  BY <1>1, <1>2, <1>3, <1>4, <1>5 DEF GoodFills

LEMMA WalkStepGood ==
  ASSUME NEW intent \in Intent, NEW w \in Walks
  PROVE  WalkStep(intent, w) \in Walks
<1>1. CASE ~ CanFill(w.book, intent, w.remaining)
  BY <1>1 DEF WalkStep
<1>2. CASE CanFill(w.book, intent, w.remaining)
  <2>1. PICK b \in Book : b = w.book /\ GoodBook(b)
    BY DEF Walks
  <2>2. PICK remaining \in Nat : remaining = w.remaining
    BY DEF Walks
  <2>3. PICK slot \in Slots : slot = BestSlot(b, intent)
    BY <1>2, <2>1, <2>2, BestMakerGood
  <2>4. PICK maker \in Order : maker = BestMaker(b, intent)
    BY <1>2, <2>1, <2>2, BestMakerGood
  <2>5. PICK size \in Nat : size = FillSize(maker, remaining)
    BY <1>2, <2>1, <2>2, <2>4, BestMakerGood
  <2>6. /\ b.queue[slot] # <<>> /\ maker = Head(b.queue[slot])
        /\ size > 0 /\ size <= maker.remaining /\ size <= remaining
    BY <1>2, <2>1, <2>2, <2>3, <2>4, <2>5, BestMakerGood
  <2>7. PICK c \in Book : c = BookAfterFill(b, slot, maker, size) /\ GoodBook(c)
    <3>1. GoodBook(BookAfterFill(b, slot, maker, size))
      BY <2>1, <2>6, FillGood
    <3>2. QED
      BY <3>1 DEF GoodBook
  <2>8. PICK left \in Nat : left = remaining - size
    BY <2>6
  <2>9. PICK fill \in Fill : fill = MakeFill(intent, maker, size) /\ fill.size > 0
    <3>1. MakeFill(intent, maker, size) \in Fill
      BY DEF MakeFill, Fill, Order, Intent
    <3>2. MakeFill(intent, maker, size).size > 0
      BY <2>6 DEF MakeFill
    <3>3. QED
      BY <3>1, <3>2
  <2>10. PICK seq \in Seq(Fill) : seq = Append(w.fills, fill) /\ GoodFills(seq)
    <3>1. GoodFills(Append(w.fills, fill))
      BY <2>9, AppendFill DEF Walks
    <3>2. QED
      BY <3>1 DEF GoodFills
  <2>11. WalkStep(intent, w) = [book |-> c, remaining |-> left, fills |-> seq]
    BY <1>2, <2>1, <2>2, <2>3, <2>4, <2>5, <2>7, <2>8, <2>9, <2>10 DEF WalkStep
  <2>12. PICK v \in [book : Book, remaining : Nat, fills : Seq(Fill)] :
           v = [book |-> c, remaining |-> left, fills |-> seq]
    OBVIOUS
  <2>13. v.book = c /\ v.fills = seq
    BY <2>12
  <2>14. v \in Walks
    BY <2>7, <2>10, <2>13 DEF Walks
  <2>15. QED
    BY <2>11, <2>12, <2>14
<1>3. QED
  BY <1>1, <1>2

LEMMA WalkStartGood ==
  ASSUME NEW b, GoodBook(b), NEW intent \in Intent
  PROVE  WalkStart(b, intent) \in Walks
<1>1. GoodFills(<<>>)
  BY DEF GoodFills
<1>2. b \in Book /\ intent.magnitude \in Nat
  BY DEF GoodBook, Intent
<1>3. QED
  BY <1>1, <1>2 DEF WalkStart, Walks

LEMMA WalkIs ==
  ASSUME NEW b, GoodBook(b), NEW intent \in Intent
  PROVE  /\ WalkOf(b, intent)[0] = WalkStart(b, intent)
         /\ \A n \in Nat : WalkOf(b, intent)[n + 1] = WalkStep(intent, WalkOf(b, intent)[n])
<1>1. WalkStart(b, intent) \in Walks
  BY WalkStartGood
<1> DEFINE F == [w \in Walks |-> WalkStep(intent, w)]
<1>2. F \in [Walks -> Walks]
  BY WalkStepGood
<1>3. PICK f \in [Nat -> Walks] :
        f = [n \in Nat |-> IF n = 0 THEN WalkStart(b, intent) ELSE F[f[n - 1]]]
  <2> HIDE DEF F
  <2>1. QED
    BY <1>1, <1>2, IterationExists
<1>4. f = [n \in Nat |-> IF n = 0 THEN WalkStart(b, intent)
                         ELSE WalkStep(intent, f[n - 1])]
  <2>1. \A n \in Nat : n # 0 => F[f[n - 1]] = WalkStep(intent, f[n - 1])
    <3>1. \A n \in Nat : n # 0 => n - 1 \in Nat
      OBVIOUS
    <3>2. QED
      BY <3>1
  <2> HIDE DEF F
  <2>2. QED
    BY <1>3, <2>1
<1> DEFINE walk == WalkOf(b, intent)
<1>5. walk = [n \in Nat |-> IF n = 0 THEN WalkStart(b, intent)
                            ELSE WalkStep(intent, walk[n - 1])]
  BY <1>4, Zenon DEF WalkOf
<1> HIDE DEF walk
<1>6. walk[0] = WalkStart(b, intent)
  BY <1>5
<1>7. ASSUME NEW n \in Nat PROVE walk[n + 1] = WalkStep(intent, walk[n])
  <2>1. n + 1 \in Nat /\ n + 1 # 0 /\ (n + 1) - 1 = n
    OBVIOUS
  <2>2. QED
    BY <1>5, <2>1
<1>8. QED
  BY <1>6, <1>7 DEF walk

LEMMA WalkGood ==
  ASSUME NEW b, GoodBook(b), NEW intent \in Intent
  PROVE  \A n \in Nat : WalkOf(b, intent)[n] \in Walks
<1>1. PICK walk : walk = WalkOf(b, intent)
  OBVIOUS
<1>2. walk[0] \in Walks /\ \A n \in Nat : walk[n + 1] = WalkStep(intent, walk[n])
  BY <1>1, WalkIs, WalkStartGood
<1> DEFINE S == {n \in Nat : walk[n] \in Walks}
<1>3. 0 \in S
  BY <1>2
<1>4. \A n \in S : n + 1 \in S
  BY <1>2, WalkStepGood
<1>5. S \subseteq Nat
  OBVIOUS
<1>6. \A n \in Nat : n \in S
  <2> HIDE DEF S
  <2>1. QED
    BY <1>3, <1>4, <1>5, Inductive
<1>7. QED
  BY <1>1, <1>6

\* match_intent, the whole call: a good book and good fills.
LEMMA MatchIntentGood ==
  ASSUME NEW b, GoodBook(b), NEW intent \in Intent, NEW t
  PROVE  LET m == MatchIntent(b, intent, t) IN GoodBook(m.book) /\ GoodFills(m.fills)
<1>1. CASE ~ Admitted(b, intent, t)
  <2>1. GoodFills(<<>>)
    BY DEF GoodFills
  <2>2. QED
    BY <1>1, <2>1, MatchIntentIs
<1>2. CASE Admitted(b, intent, t)
  <2>1. PICK end \in Walks : end = WalkOf(b, intent)[intent.magnitude]
    BY WalkGood DEF Intent
  <2>2. PICK any \in BOOLEAN : any = (end.fills # <<>>)
    OBVIOUS
  <2>3. GoodBook(BookAfterResidual(end.book, intent, end.remaining, any))
    <3>1. CASE ~ Rests(intent, end.remaining, any)
      BY <3>1 DEF BookAfterResidual, Walks
    <3>2. CASE Rests(intent, end.remaining, any)
      <4>1. PICK o \in Order : o = Residual(intent, end.remaining) /\ o.remaining > 0
        <5>1. Residual(intent, end.remaining) \in Order
          BY DEF Residual, Order, Intent, Walks
        <5>2. Residual(intent, end.remaining).remaining > 0
          BY <3>2 DEF Residual, Rests, Walks
        <5>3. QED
          BY <5>1, <5>2
      <4>2. PICK s \in Slots : s = SlotOf(o)
        <5>1. SlotOf(o) \in Slots
          BY DEF SlotOf, Order, Slots
        <5>2. QED
          BY <5>1
      <4>3. GoodBook(end.book) /\ o.id \in Ids
        BY DEF Walks, Order
      <4>4. PICK d : d = WithEntry(end.book, o.id, s) /\ GoodBook(d)
                     /\ d.queue = end.book.queue
        BY <4>3, WithEntryGood
      <4>5. PICK p \in Seq(Order) : p = end.book.queue[s]
                                    /\ \A i \in 1 .. Len(p) : p[i].remaining > 0
        BY <4>3, QueueType
      <4>6. GoodBook(WithQueue(d, s, Append(p, o)))
        BY <4>1, <4>4, <4>5, AppendGood, WithQueueGood
      <4>7. QED
        BY <3>2, <4>1, <4>2, <4>4, <4>5, <4>6 DEF BookAfterResidual, Insert
    <3>3. QED
      BY <3>1, <3>2
  <2>4. LET m == MatchIntent(b, intent, t)
        IN /\ m.book = BookAfterResidual(end.book, intent, end.remaining, any)
           /\ m.fills = end.fills
    BY <1>2, <2>1, <2>2, MatchIntentIs
  <2>5. QED
    BY <2>3, <2>4 DEF Walks
<1>3. QED
  BY <1>1, <1>2

-----------------------------------------------------------------------------
\* The fold of a pass over the rows it offers, in any order of theirs.
Accs == {acc \in [book : Book, fills : Seq(Fill)] :
           GoodBook(acc.book) /\ GoodFills(acc.fills)}

AccStep(acc, id) ==
  LET m == MatchIntent(acc.book, Offered(id), now)
  IN [book |-> m.book, fills |-> acc.fills \o m.fills]

AccOf(seq) ==
  CHOOSE iter : iter = [s \in SUBSET (DOMAIN seq) |->
                          IF s = {} THEN [book |-> book, fills |-> <<>>]
                          ELSE AccStep(iter[s \ {Max(s)}], seq[Max(s)])]

LEMMA MatchAllIs ==
  ASSUME NEW seq
  PROVE  MatchAll(seq) = AccOf(seq)[DOMAIN seq]
BY DEF MatchAll, FoldLeft, MapThenFoldSet, AccOf, AccStep

LEMMA ConcatFills ==
  ASSUME NEW s, NEW t, GoodFills(s), GoodFills(t)
  PROVE  GoodFills(s \o t)
<1>1. PICK p \in Seq(Fill) : p = s /\ \A i \in 1 .. Len(p) : p[i].size > 0
  BY DEF GoodFills
<1>2. PICK q \in Seq(Fill) : q = t /\ \A i \in 1 .. Len(q) : q[i].size > 0
  BY DEF GoodFills
<1>3. PICK r \in Seq(Fill) : r = p \o q
  BY ConcatProperties
<1>4. /\ Len(r) = Len(p) + Len(q)
      /\ \A i \in 1 .. Len(p) + Len(q) :
           r[i] = IF i <= Len(p) THEN p[i] ELSE q[i - Len(p)]
  BY <1>3, ConcatProperties
<1>5. Len(p) \in Nat /\ Len(q) \in Nat
  OBVIOUS
<1>6. \A i \in 1 .. Len(r) : (i \in 1 .. Len(p) /\ r[i] = p[i])
                             \/ (i - Len(p) \in 1 .. Len(q) /\ r[i] = q[i - Len(p)])
  BY <1>4, <1>5
<1>7. \A i \in 1 .. Len(r) : r[i].size > 0
  BY <1>1, <1>2, <1>6
<1>8. QED
  BY <1>1, <1>2, <1>3, <1>7 DEF GoodFills

\* A row that is offered has an intent of what it has not been filled.
RowsFit ==
  \A id \in Ids : db[id] # NoRow =>
    db[id] \in Row /\ db[id].filled <= OrderOf[id].magnitude

LEMMA OfferedType ==
  ASSUME RowsFit, NEW id \in Ids, db[id] # NoRow
  PROVE  Offered(id) \in Intent
<1>1. OrderOf[id] \in Intent /\ db[id].filled \in Nat
      /\ db[id].filled <= OrderOf[id].magnitude
  BY OrdersAreIntents DEF RowsFit, Row
<1>2. PICK left \in Nat : left = OrderOf[id].magnitude - db[id].filled
  BY <1>1 DEF Intent
<1>3. Offered(id) = [OrderOf[id] EXCEPT !.magnitude = left]
  BY <1>2 DEF Offered
<1>4. QED
  BY <1>1, <1>3 DEF Intent

LEMMA AccStepGood ==
  ASSUME RowsFit, NEW acc \in Accs, NEW id \in Ids, db[id] # NoRow
  PROVE  AccStep(acc, id) \in Accs
<1>1. PICK m : m = MatchIntent(acc.book, Offered(id), now)
  OBVIOUS
<1>2. GoodBook(m.book) /\ GoodFills(m.fills)
  BY <1>1, OfferedType, MatchIntentGood DEF Accs
<1>3. PICK b \in Book : b = m.book /\ GoodBook(b)
  BY <1>2 DEF GoodBook
<1>4. PICK seq \in Seq(Fill) : seq = acc.fills \o m.fills /\ GoodFills(seq)
  <2>1. GoodFills(acc.fills \o m.fills)
    BY <1>2, ConcatFills DEF Accs
  <2>2. QED
    BY <2>1 DEF GoodFills
<1>5. PICK v \in [book : Book, fills : Seq(Fill)] : v = [book |-> b, fills |-> seq]
  OBVIOUS
<1>6. v.book = b /\ v.fills = seq
  BY <1>5
<1>7. v \in Accs
  BY <1>3, <1>4, <1>6 DEF Accs
<1>8. AccStep(acc, id) = v
  BY <1>1, <1>3, <1>4, <1>5 DEF AccStep
<1>9. QED
  BY <1>7, <1>8

AccStart == [book |-> book, fills |-> <<>>]

LEMMA AccStartGood ==
  ASSUME GoodBook(book)
  PROVE  AccStart \in Accs
<1>1. GoodFills(<<>>) /\ book \in Book
  BY DEF GoodFills, GoodBook
<1>2. QED
  BY <1>1 DEF Accs, AccStart

LEMMA AccIs ==
  ASSUME RowsFit, GoodBook(book), NEW n \in Nat, NEW seq, DOMAIN seq = 1 .. n,
         \A i \in 1 .. n : seq[i] \in Ids /\ db[seq[i]] # NoRow
  PROVE  /\ AccOf(seq)[1 .. 0] = AccStart
         /\ \A k \in Nat : k + 1 <= n =>
              AccOf(seq)[1 .. k + 1] = AccStep(AccOf(seq)[1 .. k], seq[k + 1])
<1> DEFINE F == [x \in Accs \X (1 .. n) |-> AccStep(x[1], seq[x[2]])]
           iter == AccOf(seq)
<1>1. AccStart \in Accs
  BY AccStartGood
<1>2. F \in [Accs \X (1 .. n) -> Accs]
  BY AccStepGood
<1>3. \A acc \in Accs, i \in 1 .. n : F[<<acc, i>>] = AccStep(acc, seq[i])
  OBVIOUS
<1>4. \A s \in SUBSET (1 .. n) : s # {} => Max(s) \in s /\ \A y \in s : y <= Max(s)
  BY MaxOfIndices
<1> HIDE DEF F
<1>5. PICK g \in [SUBSET (1 .. n) -> Accs] :
        \A s \in SUBSET (1 .. n) :
          g[s] = IF s = {} THEN AccStart ELSE F[<<g[s \ {Max(s)}], Max(s)>>]
  <2>1. FoldsOf(n, Accs, AccStart, F) # {}
    BY <1>1, <1>2, FoldExists
  <2>2. QED
    BY <2>1 DEF FoldsOf
<1>6. g = [s \in SUBSET (1 .. n) |->
             IF s = {} THEN AccStart ELSE AccStep(g[s \ {Max(s)}], seq[Max(s)])]
  <2>1. ASSUME NEW s \in SUBSET (1 .. n), s # {}
        PROVE  F[<<g[s \ {Max(s)}], Max(s)>>] = AccStep(g[s \ {Max(s)}], seq[Max(s)])
    <3>1. s \ {Max(s)} \in SUBSET (1 .. n) /\ Max(s) \in 1 .. n
      BY <1>4, <2>1
    <3>2. g[s \ {Max(s)}] \in Accs
      BY <3>1
    <3>3. QED
      BY <1>3, <3>1, <3>2
  <2>2. QED
    BY <1>5, <2>1
<1>7. iter = [s \in SUBSET (DOMAIN seq) |->
                IF s = {} THEN [book |-> book, fills |-> <<>>]
                ELSE AccStep(iter[s \ {Max(s)}], seq[Max(s)])]
  <2>1. g = [s \in SUBSET (DOMAIN seq) |->
               IF s = {} THEN [book |-> book, fills |-> <<>>]
               ELSE AccStep(g[s \ {Max(s)}], seq[Max(s)])]
    BY <1>6 DEF AccStart
  <2>2. QED
    BY <2>1, Zenon DEF AccOf
<1> HIDE DEF iter
<1>8. iter[1 .. 0] = AccStart
  <2>1. 1 .. 0 = {} /\ {} \in SUBSET (1 .. n)
    OBVIOUS
  <2>2. QED
    BY <1>7, <2>1 DEF AccStart
<1>9. ASSUME NEW k \in Nat, k + 1 <= n
      PROVE  iter[1 .. k + 1] = AccStep(iter[1 .. k], seq[k + 1])
  <2>1. UpToNext(n, k)
    BY <1>9, NextPrefix
  <2>2. QED
    BY <1>7, <2>1 DEF UpToNext
<1>10. QED
  BY <1>8, <1>9 DEF iter

LEMMA MatchAllGood ==
  ASSUME RowsFit, GoodBook(book), NEW n \in Nat, NEW seq, DOMAIN seq = 1 .. n,
         \A i \in 1 .. n : seq[i] \in Ids /\ db[seq[i]] # NoRow
  PROVE  /\ \A k \in Nat : k <= n => AccOf(seq)[1 .. k] \in Accs
         /\ GoodBook(MatchAll(seq).book) /\ GoodFills(MatchAll(seq).fills)
<1>1. PICK iter : iter = AccOf(seq)
  OBVIOUS
<1>2. /\ iter[1 .. 0] \in Accs
      /\ \A k \in Nat : k + 1 <= n => iter[1 .. k + 1] = AccStep(iter[1 .. k], seq[k + 1])
  BY <1>1, AccIs, AccStartGood
<1> DEFINE S == {k \in Nat : k <= n => iter[1 .. k] \in Accs}
<1>3. 0 \in S
  BY <1>2
<1>4. \A k \in S : k + 1 \in S
  <2>1. SUFFICES ASSUME NEW k \in Nat, k <= n => iter[1 .. k] \in Accs, k + 1 <= n
                 PROVE  iter[1 .. k + 1] \in Accs
    OBVIOUS
  <2>2. iter[1 .. k] \in Accs /\ k + 1 \in 1 .. n
    BY <2>1
  <2>3. QED
    BY <1>2, <2>1, <2>2, AccStepGood
<1>5. S \subseteq Nat
  OBVIOUS
<1>6. \A k \in Nat : k \in S
  <2> HIDE DEF S
  <2>1. QED
    BY <1>3, <1>4, <1>5, Inductive
<1>7. iter[DOMAIN seq] \in Accs
  BY <1>6
<1>8. MatchAll(seq) = iter[DOMAIN seq]
  BY <1>1, MatchAllIs
<1>9. QED
  BY <1>1, <1>6, <1>7, <1>8 DEF Accs

\* The fills of a pass that it settles.
PushStep(kept, fill, seen) ==
  IF Paired(fill, seen) THEN Append(kept, fill) ELSE kept

KeptOf(matched, seen) ==
  CHOOSE iter : iter = [s \in SUBSET (DOMAIN matched) |->
                          IF s = {} THEN <<>>
                          ELSE PushStep(iter[s \ {Max(s)}], matched[Max(s)], seen)]

LEMMA PairedFillsAre ==
  ASSUME NEW matched, NEW seen
  PROVE  PairedFills(matched, seen) = KeptOf(matched, seen)[DOMAIN matched]
BY DEF PairedFills, FoldLeft, MapThenFoldSet, KeptOf, PushStep

FillSeqs == {seq \in Seq(Fill) : GoodFills(seq)}

LEMMA PushGood ==
  ASSUME NEW kept \in FillSeqs, NEW fill \in Fill, fill.size > 0, NEW seen
  PROVE  PushStep(kept, fill, seen) \in FillSeqs
<1>1. GoodFills(Append(kept, fill))
  BY AppendFill DEF FillSeqs
<1>2. QED
  BY <1>1 DEF PushStep, FillSeqs, GoodFills

LEMMA KeptIs ==
  ASSUME NEW matched, GoodFills(matched), NEW seen
  PROVE  /\ KeptOf(matched, seen)[1 .. 0] = <<>>
         /\ \A k \in Nat : k + 1 <= Len(matched) =>
              KeptOf(matched, seen)[1 .. k + 1]
                = PushStep(KeptOf(matched, seen)[1 .. k], matched[k + 1], seen)
<1>1. PICK p \in Seq(Fill) : p = matched /\ \A i \in 1 .. Len(p) : p[i].size > 0
  BY DEF GoodFills
<1>2. PICK n \in Nat : n = Len(p) /\ DOMAIN p = 1 .. n
  OBVIOUS
<1>3. \A i \in 1 .. n : p[i] \in Fill /\ p[i].size > 0
  BY <1>1, <1>2, ElementOfSeq
<1> DEFINE F == [x \in FillSeqs \X (1 .. n) |-> PushStep(x[1], p[x[2]], seen)]
           iter == KeptOf(p, seen)
<1>4. \A kept \in FillSeqs, i \in 1 .. n : PushStep(kept, p[i], seen) \in FillSeqs
  BY <1>3, PushGood
<1>5. <<>> \in FillSeqs
  BY DEF FillSeqs, GoodFills
<1>6. F \in [FillSeqs \X (1 .. n) -> FillSeqs]
  BY <1>4
<1>7. \A kept \in FillSeqs, i \in 1 .. n : F[<<kept, i>>] = PushStep(kept, p[i], seen)
  OBVIOUS
<1>8. \A s \in SUBSET (1 .. n) : s # {} => Max(s) \in s /\ \A y \in s : y <= Max(s)
  BY MaxOfIndices
<1> HIDE DEF F
<1>9. PICK g \in [SUBSET (1 .. n) -> FillSeqs] :
        \A s \in SUBSET (1 .. n) :
          g[s] = IF s = {} THEN <<>> ELSE F[<<g[s \ {Max(s)}], Max(s)>>]
  <2>1. FoldsOf(n, FillSeqs, <<>>, F) # {}
    BY <1>5, <1>6, FoldExists
  <2>2. QED
    BY <2>1 DEF FoldsOf
<1>10. g = [s \in SUBSET (1 .. n) |->
              IF s = {} THEN <<>> ELSE PushStep(g[s \ {Max(s)}], p[Max(s)], seen)]
  <2>1. ASSUME NEW s \in SUBSET (1 .. n), s # {}
        PROVE  F[<<g[s \ {Max(s)}], Max(s)>>]
                 = PushStep(g[s \ {Max(s)}], p[Max(s)], seen)
    <3>1. s \ {Max(s)} \in SUBSET (1 .. n) /\ Max(s) \in 1 .. n
      BY <1>8, <2>1
    <3>2. g[s \ {Max(s)}] \in FillSeqs
      BY <3>1
    <3>3. QED
      BY <1>7, <3>1, <3>2
  <2>2. QED
    BY <1>9, <2>1
<1>11. iter = [s \in SUBSET (DOMAIN p) |->
                 IF s = {} THEN <<>>
                 ELSE PushStep(iter[s \ {Max(s)}], p[Max(s)], seen)]
  <2>1. g = [s \in SUBSET (DOMAIN p) |->
               IF s = {} THEN <<>> ELSE PushStep(g[s \ {Max(s)}], p[Max(s)], seen)]
    BY <1>2, <1>10
  <2>2. QED
    BY <2>1, Zenon DEF KeptOf
<1> HIDE DEF iter
<1>12. iter[1 .. 0] = <<>>
  <2>1. 1 .. 0 = {} /\ {} \in SUBSET (DOMAIN p)
    OBVIOUS
  <2>2. QED
    BY <1>11, <2>1
<1>13. ASSUME NEW k \in Nat, k + 1 <= n
       PROVE  iter[1 .. k + 1] = PushStep(iter[1 .. k], p[k + 1], seen)
  <2>1. UpToNext(n, k)
    BY <1>13, NextPrefix
  <2>2. QED
    BY <1>2, <1>11, <2>1 DEF UpToNext
<1>14. QED
  BY <1>1, <1>2, <1>12, <1>13 DEF iter

LEMMA PairedFillsGood ==
  ASSUME NEW matched, GoodFills(matched), NEW seen
  PROVE  /\ \A k \in Nat : k <= Len(matched) => KeptOf(matched, seen)[1 .. k] \in FillSeqs
         /\ GoodFills(PairedFills(matched, seen))
<1>1. PICK p \in Seq(Fill) : p = matched /\ \A i \in 1 .. Len(p) : p[i].size > 0
  BY DEF GoodFills
<1>2. PICK n \in Nat : n = Len(p) /\ DOMAIN p = 1 .. n
  OBVIOUS
<1>3. \A i \in 1 .. n : p[i] \in Fill /\ p[i].size > 0
  BY <1>1, <1>2, ElementOfSeq
<1>4. PICK iter : iter = KeptOf(p, seen)
  OBVIOUS
<1>5. /\ iter[1 .. 0] = <<>>
      /\ \A k \in Nat : k + 1 <= n => iter[1 .. k + 1] = PushStep(iter[1 .. k], p[k + 1], seen)
  BY <1>1, <1>2, <1>4, KeptIs
<1> DEFINE S == {k \in Nat : k <= n => iter[1 .. k] \in FillSeqs}
<1>6. 0 \in S
  <2>1. <<>> \in FillSeqs
    BY DEF FillSeqs, GoodFills
  <2>2. QED
    BY <1>5, <2>1
<1>7. \A k \in S : k + 1 \in S
  <2>1. SUFFICES ASSUME NEW k \in Nat, k <= n => iter[1 .. k] \in FillSeqs, k + 1 <= n
                 PROVE  iter[1 .. k + 1] \in FillSeqs
    OBVIOUS
  <2>2. iter[1 .. k] \in FillSeqs /\ k + 1 \in 1 .. n
    BY <2>1
  <2>3. QED
    BY <1>3, <1>5, <2>1, <2>2, PushGood
<1>8. S \subseteq Nat
  OBVIOUS
<1>9. \A k \in Nat : k \in S
  <2> HIDE DEF S
  <2>1. QED
    BY <1>6, <1>7, <1>8, Inductive
<1>10. iter[DOMAIN p] \in FillSeqs
  BY <1>2, <1>9
<1>11. PairedFills(p, seen) = iter[DOMAIN p]
  BY <1>4, PairedFillsAre
<1>12. QED
  BY <1>1, <1>2, <1>4, <1>9, <1>10, <1>11 DEF FillSeqs

-----------------------------------------------------------------------------
(***************************************************************************)
(* The inductive invariant.  A row on its way to the chain tells what the  *)
(* chain already has: behind a row's own count stands, until record_fill   *)
(* has run for the side in question, the fill that settleMatch has just    *)
(* settled (Owed).  A row that was offered is either gone, no longer       *)
(* pending, or not newer than the newest that a pass has seen (Offers).    *)
(***************************************************************************)
Rows ==
  \A id \in Ids : db[id] # NoRow =>
    /\ db[id].created \in 1 .. MaxNow
    /\ db[id].filled <= OrderOf[id].magnitude
    /\ db[id].status = "Pending" => db[id].filled = 0
    /\ db[id].status = "Filled" => db[id].filled = OrderOf[id].magnitude

Idle ==
  /\ lock = Free => fills = <<>>
  /\ fills = <<>> => stage = "Chain"

Offers ==
  \A id \in Ids :
    /\ offers[id] <= 1
    /\ offers[id] > 0 => \/ db[id] = NoRow
                         \/ db[id].status # "Pending"
                         \/ db[id].created <= lastSeen

Owed(id) ==
  (IF stage = "Maker" /\ Head(fills).maker = id THEN Head(fills).size ELSE 0)
  + (IF stage # "Chain" /\ Head(fills).taker = id THEN Head(fills).size ELSE 0)

Recorded(id) == IF db[id] = NoRow THEN 0 ELSE db[id].filled

Behind == \A id \in Ids : Recorded(id) + Owed(id) <= chain[id]

IInv ==
  TypeOK /\ GoodBook(book) /\ GoodFills(fills) /\ Rows /\ Idle /\ Offers /\ Behind

LEMMA EmptyBookGood == GoodBook(EmptyBook)
<1>1. PICK b \in Book : b = EmptyBook
  <2>1. EmptyBook \in Book
    BY DEF EmptyBook, Book
  <2>2. QED
    BY <2>1
<1>2. \A slot \in Slots : b.queue[slot] = <<>>
  BY <1>1 DEF EmptyBook
<1>3. QED
  BY <1>1, <1>2 DEF GoodBook

LEMMA InitIInv ==
  ASSUME Init PROVE IInv
<1>1. TypeOK
  <2>1. book \in Book
    BY EmptyBookGood DEF Init, GoodBook
  <2>2. QED
    BY <2>1, BoundsAreNat DEF Init, TypeOK, Places
<1>2. GoodBook(book)
  BY EmptyBookGood DEF Init
<1>3. GoodFills(fills)
  BY DEF Init, GoodFills
<1>4. Rows /\ Idle /\ Offers
  BY DEF Init, Rows, Idle, Offers
<1>5. Behind
  BY DEF Init, Behind, Owed, Recorded
<1>6. QED
  BY <1>1, <1>2, <1>3, <1>4, <1>5 DEF IInv

\* A row of the table, and the fill that is being settled.
LEMMA RowIs ==
  ASSUME IInv, NEW id \in Ids, db[id] # NoRow
  PROVE  /\ db[id] \in Row
         /\ db[id].status \in RowStatus /\ db[id].created \in 1 .. MaxNow
         /\ db[id].filled \in Nat /\ db[id].filled <= OrderOf[id].magnitude
<1>1. db[id] \in Row /\ db[id].created \in 1 .. MaxNow
      /\ db[id].filled <= OrderOf[id].magnitude
  BY DEF IInv, TypeOK, Rows
<1>2. QED
  BY <1>1, BoundsAreNat DEF Row

LEMMA FirstFill ==
  ASSUME IInv, fills # <<>>
  PROVE  /\ Head(fills) \in Fill /\ Head(fills).maker \in Ids
         /\ Head(fills).taker \in Ids /\ Head(fills).size \in Nat
         /\ Head(fills).size > 0 /\ GoodFills(Tail(fills))
<1>1. PICK p \in Seq(Fill) : p = fills /\ \A i \in 1 .. Len(p) : p[i].size > 0
  BY DEF IInv, GoodFills
<1>2. PICK first \in Fill : first = Head(p) /\ first.size > 0
  BY <1>1, HeadTailProperties
<1>3. PICK t \in Seq(Fill) : t = Tail(p)
  BY <1>1, HeadTailProperties
<1>4. \A i \in 1 .. Len(t) : t[i].size > 0
  <2>1. \A i \in 1 .. Len(t) : i + 1 \in 1 .. Len(p) /\ t[i] = p[i + 1]
    BY <1>1, <1>3, HeadTailProperties
  <2>2. QED
    BY <1>1, <2>1
<1>5. QED
  BY <1>1, <1>2, <1>3, <1>4 DEF Fill, GoodFills

LEMMA OwedIs ==
  ASSUME IInv, NEW id \in Ids
  PROVE  Owed(id) \in Nat /\ Recorded(id) \in Nat /\ chain[id] \in Nat
<1>1. Owed(id) \in Nat
  <2>1. CASE stage = "Chain"
    BY <2>1 DEF Owed
  <2>2. CASE stage # "Chain"
    <3>1. Head(fills).size \in Nat
      BY <2>2, FirstFill DEF IInv, Idle
    <3>2. QED
      BY <3>1 DEF Owed
  <2>3. QED
    BY <2>1, <2>2
<1>2. Recorded(id) \in Nat
  BY RowIs DEF Recorded
<1>3. chain[id] \in Nat
  BY DEF IInv, TypeOK
<1>4. QED
  BY <1>1, <1>2, <1>3

-----------------------------------------------------------------------------
\* A pass: what it lists, what it makes of the book, and what it settles.
LEMMA FreshIs ==
  ASSUME NEW id \in Fresh
  PROVE  id \in Ids /\ db[id] # NoRow /\ db[id].status = "Pending"
         /\ db[id].created > lastSeen
BY DEF Fresh

LEMMA NewestIs ==
  ASSUME IInv, Fresh # {}
  PROVE  /\ Newest \in 0 .. MaxNow /\ Newest >= lastSeen
         /\ \A id \in Fresh : db[id].created <= Newest
<1> DEFINE T == {db[id].created : id \in Fresh}
<1>1. \A id \in Fresh : db[id].created \in 1 .. MaxNow
  BY FreshIs, RowIs
<1>2. T \subseteq 0 .. MaxNow /\ T # {}
  BY <1>1
<1>3. MaxNow \in Nat
  BY BoundsAreNat
<1>4. Max(T) \in T /\ \A y \in T : Max(T) >= y
  <2> HIDE DEF T
  <2>1. QED
    BY <1>2, <1>3, MaxIs
<1>5. PICK newest \in 0 .. MaxNow : newest = Max(T) /\ newest = Newest
  BY <1>2, <1>4 DEF Newest
<1>6. \A id \in Fresh : db[id].created \in T
  OBVIOUS
<1>7. \A id \in Fresh : newest >= db[id].created
  BY <1>4, <1>5, <1>6
<1>8. PICK row \in Fresh : TRUE
  OBVIOUS
<1>9. newest >= lastSeen
  <2>1. newest >= db[row].created /\ db[row].created > lastSeen
    BY <1>7, <1>8, FreshIs
  <2>2. db[row].created \in Int /\ lastSeen \in Int /\ newest \in Int
    BY <1>1, <1>3, <1>5 DEF IInv, TypeOK
  <2>3. QED
    BY <2>1, <2>2
<1>10. \A id \in Fresh : db[id].created <= newest
  BY <1>1, <1>3, <1>7
<1>11. QED
  BY <1>5, <1>9, <1>10

LEMMA OfferedSeq ==
  ASSUME NEW seen \in SUBSET Ids, NEW seq \in SetToSeqs(seen)
  PROVE  \E n \in Nat : DOMAIN seq = 1 .. n /\ \A i \in 1 .. n : seq[i] \in seen
<1>1. Cardinality(seen) \in Nat
  BY IdsAreFinite, FS_Subset, FS_CardinalityType
<1>2. PICK n \in Nat : n = Cardinality(seen)
  BY <1>1
<1>3. seq \in [1 .. n -> seen]
  BY <1>2 DEF SetToSeqs
<1>4. QED
  BY <1>3

LEMMA TickMemory ==
  ASSUME IInv, NEW holder, Tick(holder)
  PROVE  GoodBook(book') /\ GoodFills(fills') /\ orphans' \subseteq Fill
<1>1. PICK seen \in SUBSET Ids : seen = Fresh \cap Translatable
  BY DEF Fresh
<1>2. PICK seq \in SetToSeqs(seen) :
        LET m == MatchAll(seq)
        IN /\ book' = m.book
           /\ fills' = PairedFills(m.fills, seen)
           /\ orphans' = orphans \cup {f \in ToSet(m.fills) : ~ Paired(f, seen)}
  BY <1>1 DEF Tick
<1>3. PICK n \in Nat : DOMAIN seq = 1 .. n /\ \A i \in 1 .. n : seq[i] \in seen
  BY OfferedSeq
<1>4. \A i \in 1 .. n : seq[i] \in Ids /\ db[seq[i]] # NoRow
  BY <1>1, <1>3, FreshIs
<1>5. RowsFit
  BY RowIs DEF RowsFit
<1>6. GoodBook(book)
  BY DEF IInv
<1>7. PICK m : m = MatchAll(seq)
  OBVIOUS
<1>8. GoodBook(m.book) /\ GoodFills(m.fills)
  BY <1>3, <1>4, <1>5, <1>6, <1>7, MatchAllGood
<1>9. GoodFills(PairedFills(m.fills, seen))
  BY <1>8, PairedFillsGood
<1>10. ToSet(m.fills) \subseteq Fill
  <2>1. PICK p \in Seq(Fill) : p = m.fills
    BY <1>8 DEF GoodFills
  <2>2. QED
    BY <2>1 DEF ToSet
<1>11. orphans' \subseteq Fill
  BY <1>2, <1>7, <1>10 DEF IInv, TypeOK
<1>12. QED
  BY <1>2, <1>7, <1>8, <1>9, <1>11

LEMMA TickRows ==
  ASSUME IInv, NEW holder, Tick(holder)
  PROVE  /\ db' \in [Ids -> Row \cup {NoRow}]
         /\ \A id \in Ids :
              /\ (db'[id] = NoRow) <=> (db[id] = NoRow)
              /\ db[id] # NoRow => /\ db'[id].created = db[id].created
                                   /\ db'[id].filled = db[id].filled
              /\ \/ db'[id] = db[id]
                 \/ /\ db[id] # NoRow /\ db[id].status = "Pending"
                    /\ db'[id].status = "Rejected"
              /\ id \in Fresh /\ id \notin Translatable => db'[id].status = "Rejected"
<1>1. db' = [id \in Ids |-> IF id \in Fresh \ Translatable
                            THEN [db[id] EXCEPT !.status = "Rejected"] ELSE db[id]]
  BY DEF Tick
<1>2. SUFFICES ASSUME NEW id \in Ids
               PROVE  /\ db'[id] \in Row \cup {NoRow}
                      /\ (db'[id] = NoRow) <=> (db[id] = NoRow)
                      /\ db[id] # NoRow => /\ db'[id].created = db[id].created
                                           /\ db'[id].filled = db[id].filled
                      /\ \/ db'[id] = db[id]
                         \/ /\ db[id] # NoRow /\ db[id].status = "Pending"
                            /\ db'[id].status = "Rejected"
                      /\ id \in Fresh /\ id \notin Translatable
                           => db'[id].status = "Rejected"
  BY <1>1
<1>3. CASE id \in Fresh \ Translatable
  <2>1. db'[id] = [db[id] EXCEPT !.status = "Rejected"]
    BY <1>1, <1>3
  <2>2. db[id] \in Row /\ db[id] # NoRow /\ db[id].status = "Pending"
    BY <1>3, FreshIs, RowIs
  <2>3. PICK row \in Row : row = [db[id] EXCEPT !.status = "Rejected"]
    <3>1. [db[id] EXCEPT !.status = "Rejected"] \in Row
      BY <2>2 DEF Row, RowStatus
    <3>2. QED
      BY <3>1
  <2>4. row.status = "Rejected" /\ row.created = db[id].created
        /\ row.filled = db[id].filled
    BY <2>2, <2>3 DEF Row
  <2>5. row # NoRow
    BY NoRowIsNoRow
  <2>6. QED
    BY <2>1, <2>2, <2>3, <2>4, <2>5
<1>4. CASE id \notin Fresh \ Translatable
  <2>1. db'[id] = db[id]
    BY <1>1, <1>4
  <2>2. QED
    BY <1>4, <2>1 DEF IInv, TypeOK
<1>5. QED
  BY <1>3, <1>4

LEMMA TickIInv ==
  ASSUME IInv, NEW holder \in Ids \cup {Loop}, Tick(holder),
         calls' \in [Ids -> [at : Places, created : 1 .. MaxNow]]
  PROVE  IInv'
<1>1. GoodBook(book') /\ GoodFills(fills') /\ orphans' \subseteq Fill
  BY TickMemory
<1>2. stage = "Chain" /\ stage' = "Chain" /\ fills = <<>> /\ lock' # Free
  BY HoldersDiffer DEF IInv, Idle, Tick
<1>3. /\ lastSeen' \in 0 .. MaxNow /\ lastSeen' >= lastSeen
      /\ \A id \in Fresh : db[id].created <= lastSeen'
  <2>1. lastSeen' = IF Fresh = {} THEN lastSeen ELSE Newest
    BY DEF Tick
  <2>2. CASE Fresh = {}
    BY <2>1, <2>2, BoundsAreNat DEF IInv, TypeOK
  <2>3. CASE Fresh # {}
    BY <2>1, <2>3, NewestIs
  <2>4. QED
    BY <2>2, <2>3
<1>4. \A id \in Ids : offers'[id] = IF id \in Fresh \cap Translatable
                                    THEN offers[id] + 1 ELSE offers[id]
  BY DEF Tick
<1>5. TypeOK'
  <2>1. book' \in Book /\ fills' \in Seq(Fill)
    BY <1>1 DEF GoodBook, GoodFills
  <2>2. db' \in [Ids -> Row \cup {NoRow}]
    BY TickRows
  <2>3. offers' \in [Ids -> Nat]
    <3>1. offers' = [id \in Ids |-> IF id \in Fresh \cap Translatable
                                    THEN offers[id] + 1 ELSE offers[id]]
      BY DEF Tick
    <3>2. offers \in [Ids -> Nat]
      BY DEF IInv, TypeOK
    <3>3. QED
      BY <3>1, <3>2
  <2>4. lock' \in Ids \cup {Loop, Free}
    BY DEF Tick
  <2>5. QED
    BY <1>1, <1>2, <1>3, <2>1, <2>2, <2>3, <2>4 DEF IInv, TypeOK, Tick
<1>6. Rows'
  <2>1. SUFFICES ASSUME NEW id \in Ids, db'[id] # NoRow
                 PROVE  /\ db'[id].created \in 1 .. MaxNow
                        /\ db'[id].filled <= OrderOf[id].magnitude
                        /\ db'[id].status = "Pending" => db'[id].filled = 0
                        /\ db'[id].status = "Filled"
                             => db'[id].filled = OrderOf[id].magnitude
    BY DEF Rows
  <2>2. /\ db[id] # NoRow /\ db'[id].created = db[id].created
        /\ db'[id].filled = db[id].filled
        /\ db'[id].status = db[id].status \/ db'[id].status = "Rejected"
    BY <2>1, TickRows
  <2>3. QED
    BY <2>2 DEF IInv, Rows
<1>7. Idle'
  BY <1>2 DEF Idle
<1>8. Offers'
  <2>1. SUFFICES ASSUME NEW id \in Ids
                 PROVE  /\ offers'[id] <= 1
                        /\ offers'[id] > 0 => \/ db'[id] = NoRow
                                              \/ db'[id].status # "Pending"
                                              \/ db'[id].created <= lastSeen'
    BY DEF Offers
  <2>2. offers[id] \in Nat /\ lastSeen \in Nat /\ lastSeen' \in Nat
    BY <1>3, BoundsAreNat DEF IInv, TypeOK
  <2>3. offers[id] <= 1 /\ (offers[id] > 0 => \/ db[id] = NoRow
                                              \/ db[id].status # "Pending"
                                              \/ db[id].created <= lastSeen)
    BY DEF IInv, Offers
  <2>4. CASE id \in Fresh \cap Translatable
    <3>1. db[id] # NoRow /\ db[id].status = "Pending" /\ db[id].created > lastSeen
      BY <2>4, FreshIs
    <3>2. db[id].created \in Nat
      BY <3>1, RowIs, BoundsAreNat
    <3>3. offers[id] = 0
      BY <2>2, <2>3, <3>1, <3>2
    <3>4. db'[id].created <= lastSeen'
      BY <1>3, <2>4, <3>1, TickRows
    <3>5. QED
      BY <1>4, <2>4, <3>3, <3>4
  <2>5. CASE id \notin Fresh \cap Translatable
    <3>1. offers'[id] = offers[id]
      BY <1>4, <2>5
    <3>2. CASE db[id] = NoRow \/ db[id].status # "Pending"
      BY <2>3, <3>1, <3>2, TickRows
    <3>3. CASE db[id] # NoRow /\ db[id].created <= lastSeen
      <4>1. db[id].created \in Nat
        BY <3>3, RowIs, BoundsAreNat
      <4>2. db'[id].created <= lastSeen'
        BY <1>3, <2>2, <3>3, <4>1, TickRows
      <4>3. QED
        BY <2>3, <3>1, <4>2
    <3>4. CASE offers[id] = 0
      BY <3>1, <3>4
    <3>5. QED
      BY <2>2, <2>3, <3>2, <3>3, <3>4
  <2>6. QED
    BY <2>4, <2>5
<1>9. Behind'
  <2>1. SUFFICES ASSUME NEW id \in Ids PROVE Recorded(id)' + Owed(id)' <= chain'[id]
    BY DEF Behind
  <2>2. Owed(id) = 0 /\ Owed(id)' = 0
    BY <1>2 DEF Owed
  <2>3. Recorded(id)' = Recorded(id)
    <3>1. (db'[id] = NoRow) <=> (db[id] = NoRow)
      BY TickRows
    <3>2. db[id] # NoRow => db'[id].filled = db[id].filled
      BY TickRows
    <3>3. QED
      BY <3>1, <3>2 DEF Recorded
  <2>4. chain' = chain
    BY DEF Tick
  <2>5. QED
    BY <2>2, <2>3, <2>4 DEF IInv, Behind
<1>10. QED
  BY <1>1, <1>5, <1>6, <1>7, <1>8, <1>9 DEF IInv

-----------------------------------------------------------------------------
\* settle_one, step by step.
LEMMA DropGood ==
  ASSUME IInv, fills # <<>>, lock # Free, DropFill
  PROVE  /\ fills' \in Seq(Fill) /\ GoodFills(fills') /\ stage' = "Chain"
         /\ (lock' = lock => Idle')
         /\ \A id \in Ids : Owed(id)' = 0
<1>1. GoodFills(fills') /\ stage' = "Chain"
  BY FirstFill DEF DropFill
<1>2. lock' = lock => Idle'
  BY <1>1 DEF Idle
<1>3. \A id \in Ids : Owed(id)' = 0
  BY <1>1 DEF Owed
<1>4. QED
  BY <1>1, <1>2, <1>3 DEF GoodFills

LEMMA SettleMatchIInv ==
  ASSUME IInv, SettleMatch
  PROVE  IInv'
<1>1. /\ lock # Free /\ fills # <<>> /\ stage = "Chain"
      /\ UNCHANGED <<now, db, book, lastSeen, lock, calls, orphans, offers, overtaken,
                  submits, crashes>>
  BY DEF SettleMatch, Settling, history
<1>2. PICK maker \in Ids : maker = Head(fills).maker
  BY <1>1, FirstFill
<1>3. PICK taker \in Ids : taker = Head(fills).taker
  BY <1>1, FirstFill
<1>4. PICK size \in Nat : size = Head(fills).size
  BY <1>1, FirstFill
<1>5. chain' = [id \in Ids |-> chain[id] + (IF id = maker THEN size ELSE 0)
                                         + (IF id = taker THEN size ELSE 0)]
  BY <1>2, <1>3, <1>4 DEF SettleMatch, SettledWith
<1>6. chain \in [Ids -> Nat]
  BY DEF IInv, TypeOK
<1>7. /\ chain' \in [Ids -> Nat]
      /\ \A id \in Ids :
           chain'[id] = chain[id] + (IF id = maker THEN size ELSE 0)
                                  + (IF id = taker THEN size ELSE 0)
  BY <1>5, <1>6
<1>8. Rows' /\ Offers' /\ GoodBook(book')
  BY <1>1 DEF IInv, Rows, Offers
<1>9. \A id \in Ids : Recorded(id)' = Recorded(id)
  BY <1>1 DEF Recorded
<1>10. \A id \in Ids : Recorded(id) <= chain[id]
  <2>1. \A id \in Ids : Owed(id) = 0
    BY <1>1 DEF Owed
  <2>2. QED
    BY <2>1, OwedIs DEF IInv, Behind
<1>11. CASE stage' = "Maker" /\ UNCHANGED fills
  <2>1. TypeOK' /\ Idle' /\ GoodFills(fills')
    BY <1>1, <1>7, <1>11 DEF IInv, TypeOK, Idle
  <2>2. \A id \in Ids : Owed(id)' = (IF id = maker THEN size ELSE 0)
                                    + (IF id = taker THEN size ELSE 0)
    BY <1>2, <1>3, <1>4, <1>11 DEF Owed
  <2>3. Behind'
    <3>1. SUFFICES ASSUME NEW id \in Ids PROVE Recorded(id)' + Owed(id)' <= chain'[id]
      BY DEF Behind
    <3>2. Recorded(id)' = Recorded(id) /\ Recorded(id) <= chain[id]
          /\ Recorded(id) \in Nat /\ chain[id] \in Nat
      BY <1>9, <1>10, OwedIs
    <3>3. QED
      BY <1>7, <2>2, <3>2
  <2>4. QED
    BY <1>8, <2>1, <2>3 DEF IInv
<1>12. CASE DropFill
  <2>1. /\ fills' \in Seq(Fill) /\ GoodFills(fills') /\ stage' = "Chain" /\ Idle'
        /\ \A id \in Ids : Owed(id)' = 0
    BY <1>1, <1>12, DropGood
  <2>2. TypeOK'
    BY <1>1, <1>7, <2>1 DEF IInv, TypeOK
  <2>3. Behind'
    <3>1. SUFFICES ASSUME NEW id \in Ids PROVE Recorded(id)' + Owed(id)' <= chain'[id]
      BY DEF Behind
    <3>2. Recorded(id)' = Recorded(id) /\ Recorded(id) <= chain[id]
          /\ Recorded(id) \in Nat /\ chain[id] \in Nat
      BY <1>9, <1>10, OwedIs
    <3>3. QED
      BY <1>7, <2>1, <3>2
  <2>4. QED
    BY <1>8, <2>1, <2>2, <2>3 DEF IInv
<1>13. QED
  BY <1>11, <1>12 DEF SettleMatch

\* A fill that is given up, with no row and no size of the chain changed.
LEMMA DropIInv ==
  ASSUME IInv, Settling, DropFill,
         UNCHANGED <<now, db, chain, book, lastSeen, lock, calls, history>>
  PROVE  IInv'
<1>1. /\ fills' \in Seq(Fill) /\ GoodFills(fills') /\ stage' = "Chain" /\ Idle'
      /\ \A id \in Ids : Owed(id)' = 0
  BY DropGood DEF Settling
<1>2. TypeOK'
  BY <1>1 DEF IInv, TypeOK, history
<1>3. Rows' /\ Offers' /\ GoodBook(book')
  BY DEF IInv, Rows, Offers, history
<1>4. Behind'
  <2>1. SUFFICES ASSUME NEW id \in Ids PROVE Recorded(id)' + Owed(id)' <= chain'[id]
    BY DEF Behind
  <2>2. Recorded(id)' = Recorded(id) /\ Owed(id)' = 0 /\ chain' = chain
    BY <1>1 DEF Recorded
  <2>3. Recorded(id) + Owed(id) <= chain[id] /\ Owed(id) \in Nat
        /\ Recorded(id) \in Nat /\ chain[id] \in Nat
    BY OwedIs DEF IInv, Behind
  <2>4. QED
    BY <2>2, <2>3
<1>5. QED
  BY <1>1, <1>2, <1>3, <1>4 DEF IInv

\* record_fill, when its guard lets it.
LEMMA RecordIs ==
  ASSUME IInv, NEW id \in Ids, NEW size \in Nat, size > 0,
         CanRecord(id, size), RecordFill(id, size)
  PROVE  /\ db' \in [Ids -> Row \cup {NoRow}] /\ Rows'
         /\ \A n \in Ids : n # id => db'[n] = db[n]
         /\ db[id] # NoRow /\ db'[id] # NoRow
         /\ db[id].status # "Filled" /\ db'[id].status # "Pending"
         /\ \A n \in Ids : Recorded(n)' = IF n = id THEN Recorded(n) + size ELSE Recorded(n)
<1>1. PICK row \in Row : row = db[id] /\ row # NoRow
  BY RowIs DEF CanRecord
<1>2. PICK next \in Nat : next = row.filled + size
  BY <1>1 DEF Row
<1>3. PICK status \in RowStatus :
        status = IF next = OrderOf[id].magnitude THEN "Filled" ELSE "PartiallyFilled"
  BY DEF RowStatus
<1>4. PICK updated \in Row :
        updated = [status |-> status, created |-> row.created, filled |-> next]
  BY DEF Row
<1>5. [[row EXCEPT !.filled = next] EXCEPT !.status = status] = updated
  <2>1. PICK counted \in Row :
          counted = [status |-> row.status, created |-> row.created, filled |-> next]
    BY DEF Row
  <2>2. [row EXCEPT !.filled = next] = counted
    BY <2>1 DEF Row
  <2>3. [counted EXCEPT !.status = status] = updated
    BY <1>4, <2>1 DEF Row
  <2>4. QED
    BY <2>2, <2>3
<1>6. db \in [Ids -> Row \cup {NoRow}]
  BY DEF IInv, TypeOK
<1>7. db' = [db EXCEPT ![id] = updated]
  BY <1>1, <1>2, <1>3, <1>5, <1>6 DEF RecordFill
<1>8. updated.status = status /\ updated.created = row.created /\ updated.filled = next
      /\ updated # NoRow
  BY <1>4, NoRowIsNoRow
<1>9. db' \in [Ids -> Row \cup {NoRow}] /\ db'[id] = updated
      /\ \A n \in Ids : n # id => db'[n] = db[n]
  BY <1>6, <1>7
<1>10. OrderOf[id].magnitude \in Nat
  BY OrdersAreIntents DEF Intent
<1>11. next <= OrderOf[id].magnitude /\ next > row.filled /\ row.filled \in Nat
  BY <1>1, <1>2 DEF CanRecord, Row
<1>12. row.status # "Filled" /\ row.created \in 1 .. MaxNow
  <2>1. row.status = "Filled" => row.filled = OrderOf[id].magnitude
    BY <1>1 DEF IInv, Rows
  <2>2. QED
    BY <1>1, <1>10, <1>11, <2>1 DEF IInv, Rows
<1>13. Rows'
  <2>1. SUFFICES ASSUME NEW n \in Ids, db'[n] # NoRow
                 PROVE  /\ db'[n].created \in 1 .. MaxNow
                        /\ db'[n].filled <= OrderOf[n].magnitude
                        /\ db'[n].status = "Pending" => db'[n].filled = 0
                        /\ db'[n].status = "Filled"
                             => db'[n].filled = OrderOf[n].magnitude
    BY DEF Rows
  <2>2. CASE n = id
    BY <1>3, <1>8, <1>9, <1>11, <1>12, <2>2
  <2>3. CASE n # id
    BY <1>9, <2>1, <2>3 DEF IInv, Rows
  <2>4. QED
    BY <2>2, <2>3
<1>14. \A n \in Ids : Recorded(n)' = IF n = id THEN Recorded(n) + size ELSE Recorded(n)
  BY <1>1, <1>2, <1>8, <1>9 DEF Recorded
<1>15. QED
  BY <1>1, <1>3, <1>8, <1>9, <1>12, <1>13, <1>14

\* A row that is filled further is pending no more: what was offered stays so.
LEMMA RecordOffers ==
  ASSUME IInv, NEW id \in Ids, db[id] # NoRow, db'[id].status # "Pending",
         \A n \in Ids : n # id => db'[n] = db[n],
         UNCHANGED <<offers, lastSeen>>
  PROVE  Offers'
<1>1. SUFFICES ASSUME NEW n \in Ids
               PROVE  /\ offers[n] <= 1
                      /\ offers[n] > 0 => \/ db'[n] = NoRow
                                          \/ db'[n].status # "Pending"
                                          \/ db'[n].created <= lastSeen
  BY DEF Offers
<1>2. QED
  BY DEF IInv, Offers

LEMMA RecordMakerIInv ==
  ASSUME IInv, RecordMaker
  PROVE  IInv'
<1>1. /\ lock # Free /\ fills # <<>> /\ stage = "Maker" /\ Settling
      /\ UNCHANGED <<now, chain, book, lastSeen, lock, calls, orphans, offers, overtaken,
                  submits, crashes>>
      /\ UNCHANGED <<now, chain, book, lastSeen, lock, calls, history>>
  BY DEF RecordMaker, Settling, history
<1>2. PICK maker \in Ids : maker = Head(fills).maker
  BY <1>1, FirstFill
<1>3. PICK taker \in Ids : taker = Head(fills).taker
  BY <1>1, FirstFill
<1>4. PICK size \in Nat : size = Head(fills).size /\ size > 0
  BY <1>1, FirstFill
<1>5. CASE CanRecord(maker, size) /\ RecordFill(maker, size)
           /\ stage' = "Taker" /\ UNCHANGED fills
  <2>1. /\ db' \in [Ids -> Row \cup {NoRow}] /\ Rows'
        /\ \A n \in Ids : n # maker => db'[n] = db[n]
        /\ db[maker] # NoRow /\ db'[maker].status # "Pending"
        /\ \A n \in Ids : Recorded(n)' = IF n = maker THEN Recorded(n) + size ELSE Recorded(n)
    BY <1>4, <1>5, RecordIs
  <2>2. TypeOK' /\ Idle' /\ GoodFills(fills') /\ GoodBook(book')
    BY <1>1, <1>5, <2>1 DEF IInv, TypeOK, Idle
  <2>3. Offers'
    BY <1>1, <2>1, RecordOffers
  <2>4. \A id \in Ids : Owed(id) = (IF id = maker THEN size ELSE 0)
                                   + (IF id = taker THEN size ELSE 0)
    BY <1>1, <1>2, <1>3, <1>4 DEF Owed
  <2>5. \A id \in Ids : Owed(id)' = IF id = taker THEN size ELSE 0
    BY <1>2, <1>3, <1>4, <1>5 DEF Owed
  <2>6. Behind'
    <3>1. SUFFICES ASSUME NEW id \in Ids PROVE Recorded(id)' + Owed(id)' <= chain'[id]
      BY DEF Behind
    <3>2. Recorded(id) + Owed(id) <= chain[id] /\ Recorded(id) \in Nat /\ chain[id] \in Nat
      BY OwedIs DEF IInv, Behind
    <3>3. QED
      BY <1>1, <2>1, <2>4, <2>5, <3>2
  <2>7. QED
    BY <2>1, <2>2, <2>3, <2>6 DEF IInv
<1>6. CASE DropFill /\ UNCHANGED db
  BY <1>1, <1>6, DropIInv
<1>7. QED
  BY <1>2, <1>4, <1>5, <1>6 DEF RecordMaker

LEMMA RecordTakerIInv ==
  ASSUME IInv, RecordTaker
  PROVE  IInv'
<1>1. /\ lock # Free /\ fills # <<>> /\ stage = "Taker" /\ Settling /\ DropFill
      /\ UNCHANGED <<now, chain, book, lastSeen, lock, calls, orphans, offers, overtaken,
                  submits, crashes>>
      /\ UNCHANGED <<now, chain, book, lastSeen, lock, calls, history>>
  BY DEF RecordTaker, Settling, history
<1>2. PICK taker \in Ids : taker = Head(fills).taker
  BY <1>1, FirstFill
<1>3. PICK size \in Nat : size = Head(fills).size /\ size > 0
  BY <1>1, FirstFill
<1>4. CASE CanRecord(taker, size) /\ RecordFill(taker, size)
  <2>1. /\ db' \in [Ids -> Row \cup {NoRow}] /\ Rows'
        /\ \A n \in Ids : n # taker => db'[n] = db[n]
        /\ db[taker] # NoRow /\ db'[taker].status # "Pending"
        /\ \A n \in Ids : Recorded(n)' = IF n = taker THEN Recorded(n) + size ELSE Recorded(n)
    BY <1>3, <1>4, RecordIs
  <2>2. /\ fills' \in Seq(Fill) /\ GoodFills(fills') /\ stage' = "Chain" /\ Idle'
        /\ \A id \in Ids : Owed(id)' = 0
    BY <1>1, DropGood
  <2>3. TypeOK' /\ GoodBook(book')
    BY <1>1, <2>1, <2>2 DEF IInv, TypeOK
  <2>4. Offers'
    BY <1>1, <2>1, RecordOffers
  <2>5. \A id \in Ids : Owed(id) = IF id = taker THEN size ELSE 0
    BY <1>1, <1>2, <1>3 DEF Owed
  <2>6. Behind'
    <3>1. SUFFICES ASSUME NEW id \in Ids PROVE Recorded(id)' + Owed(id)' <= chain'[id]
      BY DEF Behind
    <3>2. Recorded(id) + Owed(id) <= chain[id] /\ Recorded(id) \in Nat /\ chain[id] \in Nat
      BY OwedIs DEF IInv, Behind
    <3>3. QED
      BY <1>1, <2>1, <2>2, <2>5, <3>2
  <2>7. QED
    BY <2>1, <2>2, <2>3, <2>4, <2>6 DEF IInv
<1>5. CASE UNCHANGED db
  BY <1>1, <1>5, DropIInv
<1>6. QED
  BY <1>2, <1>3, <1>4, <1>5 DEF RecordTaker

-----------------------------------------------------------------------------
\* The steps that change neither a row, nor the chain, nor what a pass owes.
LEMMA FrameIInv ==
  ASSUME IInv, TypeOK', Idle',
         UNCHANGED <<db, chain, book, lastSeen, fills, stage>>,
         \A id \in Ids : offers'[id] = offers[id]
  PROVE  IInv'
<1>1. Rows' /\ GoodBook(book') /\ GoodFills(fills')
  BY DEF IInv, Rows
<1>2. Offers'
  BY DEF IInv, Offers
<1>3. Behind'
  BY DEF IInv, Behind, Recorded, Owed
<1>4. QED
  BY <1>1, <1>2, <1>3 DEF IInv

LEMMA LoopEndsIInv ==
  ASSUME IInv, LoopEnds
  PROVE  IInv'
<1>1. TypeOK' /\ Idle'
  BY DEF IInv, TypeOK, Idle, LoopEnds, history
<1>2. QED
  BY <1>1, FrameIInv DEF LoopEnds, history

LEMMA ReceiveIInv ==
  ASSUME IInv, NEW id \in Ids, Receive(id)
  PROVE  IInv'
<1>1. now \in 1 .. MaxNow
  BY BoundsAreNat DEF IInv, TypeOK
<1>2. calls' \in [Ids -> [at : Places, created : 1 .. MaxNow]]
  <2>1. [at |-> "Received", created |-> now] \in [at : Places, created : 1 .. MaxNow]
    BY <1>1 DEF Places
  <2>2. QED
    BY <2>1 DEF IInv, TypeOK, Receive
<1>3. submits' \in [Ids -> Nat]
  BY DEF IInv, TypeOK, Receive
<1>4. TypeOK' /\ Idle'
  BY <1>2, <1>3 DEF IInv, TypeOK, Idle, Receive, memory
<1>5. QED
  BY <1>4, FrameIInv DEF Receive, memory

LEMMA PutIInv ==
  ASSUME IInv, NEW id \in Ids, Put(id)
  PROVE  IInv'
<1>1. UNCHANGED <<now, chain, book, lastSeen, lock, fills, stage, orphans, submits, crashes>>
  BY DEF Put, memory
<1>2. PICK created \in 1 .. MaxNow : created = calls[id].created
  BY DEF IInv, TypeOK
<1>3. PICK row \in Row :
        row = NewRow(created) /\ row.status = "Pending" /\ row.filled = 0
        /\ row.created = created /\ row # NoRow
  <2>1. NewRow(created) \in Row
    BY <1>2, BoundsAreNat DEF NewRow, Row, RowStatus
  <2>2. NewRow(created).status = "Pending" /\ NewRow(created).filled = 0
        /\ NewRow(created).created = created
    BY DEF NewRow
  <2>3. QED
    BY <2>1, <2>2, NoRowIsNoRow
<1>4. /\ db' \in [Ids -> Row \cup {NoRow}]
      /\ db'[id] = row
      /\ \A n \in Ids : n # id => db'[n] = NoRow \/ db'[n] = db[n]
  BY <1>2, <1>3 DEF Put, IInv, TypeOK
<1>5. /\ offers' \in [Ids -> Nat] /\ offers'[id] = 0 /\ overtaken' \subseteq Ids
      /\ \A n \in Ids : n # id => offers'[n] = offers[n]
  BY DEF Put, IInv, TypeOK
<1>6. calls' \in [Ids -> [at : Places, created : 1 .. MaxNow]]
  <2>1. [at |-> "Stored", created |-> 1] \in [at : Places, created : 1 .. MaxNow]
    BY BoundsAreNat DEF Places
  <2>2. QED
    BY <2>1 DEF IInv, TypeOK, Put
<1>7. TypeOK' /\ Idle' /\ GoodBook(book') /\ GoodFills(fills')
  BY <1>1, <1>4, <1>5, <1>6 DEF IInv, TypeOK, Idle
<1>8. Rows'
  <2>1. SUFFICES ASSUME NEW n \in Ids, db'[n] # NoRow
                 PROVE  /\ db'[n].created \in 1 .. MaxNow
                        /\ db'[n].filled <= OrderOf[n].magnitude
                        /\ db'[n].status = "Pending" => db'[n].filled = 0
                        /\ db'[n].status = "Filled"
                             => db'[n].filled = OrderOf[n].magnitude
    BY DEF Rows
  <2>2. CASE n = id
    BY <1>2, <1>3, <1>4, <2>2, OrdersAreIntents, BoundsAreNat DEF Intent
  <2>3. CASE n # id
    BY <1>4, <2>1, <2>3 DEF IInv, Rows
  <2>4. QED
    BY <2>2, <2>3
<1>9. Offers'
  <2>1. SUFFICES ASSUME NEW n \in Ids
                 PROVE  /\ offers'[n] <= 1
                        /\ offers'[n] > 0 => \/ db'[n] = NoRow
                                             \/ db'[n].status # "Pending"
                                             \/ db'[n].created <= lastSeen
    BY <1>1 DEF Offers
  <2>2. QED
    BY <1>4, <1>5 DEF IInv, Offers
<1>10. Behind'
  <2>1. SUFFICES ASSUME NEW n \in Ids PROVE Recorded(n)' + Owed(n)' <= chain'[n]
    BY DEF Behind
  <2>2. Owed(n)' = Owed(n) /\ chain' = chain
    BY <1>1 DEF Owed
  <2>3. Recorded(n)' = 0 \/ Recorded(n)' = Recorded(n)
    BY <1>3, <1>4 DEF Recorded
  <2>4. Recorded(n) + Owed(n) <= chain[n] /\ Recorded(n) \in Nat
        /\ Owed(n) \in Nat /\ chain[n] \in Nat
    BY OwedIs DEF IInv, Behind
  <2>5. QED
    BY <2>2, <2>3, <2>4
<1>11. QED
  BY <1>7, <1>8, <1>9, <1>10 DEF IInv

LEMMA SubmissionIInv ==
  ASSUME IInv, NEW id \in Ids, Submission(id)
  PROVE  IInv'
<1> DEFINE Calls == [at : Places, created : 1 .. MaxNow]
<1>1. CASE SubmitTick(id)
  <2>1. calls' \in [Ids -> Calls]
    BY <1>1 DEF SubmitTick, IInv, TypeOK, Places
  <2>2. QED
    BY <1>1, <2>1, TickIInv DEF SubmitTick
<1>2. CASE SubmitEnds(id)
  <2>1. calls' \in [Ids -> Calls]
    BY <1>2 DEF SubmitEnds, IInv, TypeOK, Places
  <2>2. TypeOK' /\ Idle'
    BY <1>2, <2>1 DEF SubmitEnds, IInv, TypeOK, Idle, history
  <2>3. QED
    BY <1>2, <2>2, FrameIInv DEF SubmitEnds, history
<1>3. CASE Reply(id)
  <2>1. calls' \in [Ids -> Calls]
    BY <1>3 DEF Reply, IInv, TypeOK, Places
  <2>2. TypeOK' /\ Idle'
    BY <1>3, <2>1 DEF Reply, IInv, TypeOK, Idle, history, memory
  <2>3. QED
    BY <1>3, <2>2, FrameIInv DEF Reply, history, memory
<1>4. CASE Abandon(id)
  <2>1. calls' \in [Ids -> Calls]
    <3>1. [at |-> "Idle", created |-> 1] \in Calls
      BY BoundsAreNat DEF Places
    <3>2. QED
      BY <1>4, <3>1 DEF Abandon, IInv, TypeOK
  <2>2. CASE lock = id /\ lock' = Free /\ fills' = <<>> /\ stage' = "Chain"
    <3>1. fills' \in Seq(Fill) /\ GoodFills(fills')
      BY <2>2 DEF GoodFills
    <3>2. TypeOK' /\ Idle' /\ GoodBook(book')
      BY <1>4, <2>1, <2>2, <3>1 DEF Abandon, IInv, TypeOK, Idle, history
    <3>3. Rows' /\ Offers'
      BY <1>4 DEF Abandon, IInv, Rows, Offers, history
    <3>4. Behind'
      <4>1. SUFFICES ASSUME NEW n \in Ids PROVE Recorded(n)' + Owed(n)' <= chain'[n]
        BY DEF Behind
      <4>2. Owed(n)' = 0 /\ Recorded(n)' = Recorded(n) /\ chain' = chain
        BY <1>4, <2>2 DEF Abandon, Owed, Recorded
      <4>3. Recorded(n) + Owed(n) <= chain[n] /\ Recorded(n) \in Nat
            /\ Owed(n) \in Nat /\ chain[n] \in Nat
        BY OwedIs DEF IInv, Behind
      <4>4. QED
        BY <4>2, <4>3
    <3>5. QED
      BY <3>1, <3>2, <3>3, <3>4 DEF IInv
  <2>3. CASE UNCHANGED <<lock, fills, stage>>
    <3>1. TypeOK' /\ Idle'
      BY <1>4, <2>1, <2>3 DEF Abandon, IInv, TypeOK, Idle, history
    <3>2. QED
      BY <1>4, <2>3, <3>1, FrameIInv DEF Abandon, history
  <2>4. QED
    BY <1>4, <2>2, <2>3 DEF Abandon
<1>5. QED
  BY <1>1, <1>2, <1>3, <1>4, ReceiveIInv, PutIInv DEF Submission

LEMMA CancelOrderIInv ==
  ASSUME IInv, NEW id \in Ids, CancelOrder(id)
  PROVE  IInv'
<1>1. /\ UNCHANGED <<now, chain, book, lastSeen, lock, fills, stage>>
      /\ UNCHANGED <<calls, orphans, offers, overtaken,
                  submits, crashes>>
  BY DEF CancelOrder, memory, history
<1>2. PICK row \in Row : row = db[id] /\ row # NoRow
  BY RowIs DEF CancelOrder, Cancelable
<1>3. PICK canceled \in Row : canceled = [row EXCEPT !.status = "Canceled"]
  <2>1. [row EXCEPT !.status = "Canceled"] \in Row
    BY DEF Row, RowStatus
  <2>2. QED
    BY <2>1
<1>4. canceled.status = "Canceled" /\ canceled.created = row.created
      /\ canceled.filled = row.filled /\ canceled # NoRow
  BY <1>3, NoRowIsNoRow DEF Row
<1>5. /\ db' \in [Ids -> Row \cup {NoRow}] /\ db'[id] = canceled
      /\ \A n \in Ids : n # id => db'[n] = db[n]
  BY <1>2, <1>3 DEF CancelOrder, IInv, TypeOK
<1>6. TypeOK' /\ Idle' /\ GoodBook(book') /\ GoodFills(fills')
  BY <1>1, <1>5 DEF IInv, TypeOK, Idle
<1>7. Rows'
  <2>1. SUFFICES ASSUME NEW n \in Ids, db'[n] # NoRow
                 PROVE  /\ db'[n].created \in 1 .. MaxNow
                        /\ db'[n].filled <= OrderOf[n].magnitude
                        /\ db'[n].status = "Pending" => db'[n].filled = 0
                        /\ db'[n].status = "Filled"
                             => db'[n].filled = OrderOf[n].magnitude
    BY DEF Rows
  <2>2. CASE n = id
    BY <1>2, <1>4, <1>5, <2>2 DEF IInv, Rows
  <2>3. CASE n # id
    BY <1>5, <2>1, <2>3 DEF IInv, Rows
  <2>4. QED
    BY <2>2, <2>3
<1>8. Offers'
  BY <1>1, <1>2, <1>4, <1>5, RecordOffers
<1>9. Behind'
  <2>1. SUFFICES ASSUME NEW n \in Ids PROVE Recorded(n)' + Owed(n)' <= chain'[n]
    BY DEF Behind
  <2>2. Recorded(n)' = Recorded(n)
    BY <1>2, <1>4, <1>5 DEF Recorded
  <2>3. Owed(n)' = Owed(n) /\ chain' = chain
    BY <1>1 DEF Owed
  <2>4. QED
    BY <2>2, <2>3 DEF IInv, Behind
<1>10. QED
  BY <1>6, <1>7, <1>8, <1>9 DEF IInv

LEMMA CrashIInv ==
  ASSUME IInv, Crash
  PROVE  IInv'
<1>1. GoodBook(book') /\ book' \in Book
  BY EmptyBookGood DEF Crash, GoodBook
<1>2. GoodFills(fills') /\ fills' \in Seq(Fill)
  BY DEF Crash, GoodFills
<1>3. calls' \in [Ids -> [at : Places, created : 1 .. MaxNow]]
  <2>1. [at |-> "Idle", created |-> 1] \in [at : Places, created : 1 .. MaxNow]
    BY BoundsAreNat DEF Places
  <2>2. QED
    BY <2>1 DEF Crash
<1>4. crashes' \in 0 .. MaxCrashes
  BY BoundsAreNat DEF Crash, IInv, TypeOK
<1>5. TypeOK'
  BY <1>1, <1>2, <1>3, <1>4, BoundsAreNat DEF Crash, IInv, TypeOK
<1>6. Rows' /\ Idle' /\ Offers'
  BY DEF Crash, IInv, Rows, Idle, Offers
<1>7. Behind'
  <2>1. SUFFICES ASSUME NEW n \in Ids PROVE Recorded(n)' + Owed(n)' <= chain'[n]
    BY DEF Behind
  <2>2. Owed(n)' = 0 /\ Recorded(n)' = Recorded(n) /\ chain' = chain
    BY DEF Crash, Owed, Recorded
  <2>3. Recorded(n) + Owed(n) <= chain[n] /\ Recorded(n) \in Nat
        /\ Owed(n) \in Nat /\ chain[n] \in Nat
    BY OwedIs DEF IInv, Behind
  <2>4. QED
    BY <2>2, <2>3
<1>8. QED
  BY <1>1, <1>2, <1>5, <1>6, <1>7 DEF IInv

LEMMA NextIInv ==
  ASSUME IInv, [Next]_vars
  PROVE  IInv'
<1>1. CASE LoopTick
  <2>1. calls' \in [Ids -> [at : Places, created : 1 .. MaxNow]]
    BY <1>1 DEF LoopTick, IInv, TypeOK
  <2>2. QED
    BY <1>1, <2>1, TickIInv DEF LoopTick
<1>2. CASE SettleFails
  BY <1>2, DropIInv DEF SettleFails
<1>3. CASE RecordError
  BY <1>3, DropIInv DEF RecordError
<1>4. CASE TimePasses
  <2>1. TypeOK' /\ Idle'
    BY <1>4, BoundsAreNat DEF TimePasses, IInv, TypeOK, Idle, memory, history
  <2>2. QED
    BY <1>4, <2>1, FrameIInv DEF TimePasses, memory, history
<1>5. CASE UNCHANGED vars
  <2>1. TypeOK' /\ Idle'
    BY <1>5 DEF vars, IInv, TypeOK, Idle, memory, history
  <2>2. QED
    BY <1>5, <2>1, FrameIInv DEF vars, memory, history
<1>6. QED
  BY <1>1, <1>2, <1>3, <1>4, <1>5, SettleMatchIInv, RecordMakerIInv, RecordTakerIInv,
     LoopEndsIInv, SubmissionIInv, CancelOrderIInv, CrashIInv DEF Next, Settlement

\* Every reachable state satisfies the inductive invariant.
THEOREM TickLoopIInv == Spec => []IInv
<1>1. IInv /\ [Next]_vars => IInv'
  BY NextIInv
<1>2. QED
  BY <1>1, InitIInv, PTL DEF Spec

\* Every value stays of its type; grpc.rs and tick.rs share the book as it is.
THEOREM TickLoopTypes == Spec => []TypeOK
<1>1. IInv => TypeOK
  BY DEF IInv
<1>2. QED
  BY <1>1, TickLoopIInv, PTL

\* No row claims a fill that the chain has not settled: settle_one settles
\* first, and what it has settled and not yet recorded is Owed.
THEOREM TickLoopRowBehindChain == Spec => []RowBehindChain
<1>1. IInv => RowBehindChain
  <2>1. SUFFICES ASSUME IInv, NEW id \in Ids, db[id] # NoRow
                 PROVE  db[id].filled <= chain[id]
    BY DEF RowBehindChain
  <2>2. Recorded(id) + Owed(id) <= chain[id] /\ Recorded(id) \in Nat
        /\ Owed(id) \in Nat /\ chain[id] \in Nat
    BY <2>1, OwedIs DEF IInv, Behind
  <2>3. Recorded(id) = db[id].filled
    BY <2>1 DEF Recorded
  <2>4. QED
    BY <2>2, <2>3
<1>2. QED
  BY <1>1, TickLoopIInv, PTL

-----------------------------------------------------------------------------
(***************************************************************************)
(* OfferedOnce.  Offers bounds the offers of a row; that a row at or       *)
(* behind the cursor was offered at all is an invariant of its own: a pass *)
(* moves the cursor to the newest of the rows it lists, and a put behind   *)
(* the cursor is overtaken.                                                *)
(***************************************************************************)
Due(id) ==
  Listed(id) /\ id \in Translatable \ overtaken /\ db[id].created <= lastSeen

Taken == \A id \in Ids : Due(id) => offers[id] = 1

\* No row becomes pending, no time is undone: nothing new is due.
LEMMA KeepsTaken ==
  ASSUME IInv, Taken, now' \in Nat, now' >= now,
         UNCHANGED <<lastSeen, offers, overtaken>>,
         \A id \in Ids : \/ db'[id] = db[id] \/ db'[id] = NoRow
                         \/ db'[id].status # "Pending"
  PROVE  Taken'
<1>1. SUFFICES ASSUME NEW id \in Ids, Due(id)' PROVE offers'[id] = 1
  BY DEF Taken
<1>2. db'[id] = db[id]
  BY <1>1 DEF Due, Listed
<1>3. now \in Nat /\ OrderOf[id].deadline \in Int
  BY OrdersAreIntents, BoundsAreNat DEF IInv, TypeOK, Intent
<1>4. OrderOf[id].deadline > now
  BY <1>1, <1>3 DEF Due, Listed
<1>5. Due(id)
  BY <1>1, <1>2, <1>4 DEF Due, Listed
<1>6. QED
  BY <1>5 DEF Taken

LEMMA TickTaken ==
  ASSUME IInv, Taken, NEW holder \in Ids \cup {Loop}, Tick(holder)
  PROVE  Taken'
<1>1. SUFFICES ASSUME NEW id \in Ids, Due(id)' PROVE offers'[id] = 1
  BY DEF Taken
<1>2. /\ UNCHANGED <<now, overtaken>>
      /\ offers'[id] = IF id \in Fresh \cap Translatable
                       THEN offers[id] + 1 ELSE offers[id]
  BY DEF Tick
<1>3. db'[id] = db[id]
  BY <1>1, TickRows DEF Due, Listed
<1>4. db[id].created \in Nat /\ lastSeen \in Nat /\ offers[id] \in Nat
  BY <1>1, <1>3, RowIs, BoundsAreNat DEF Due, Listed, IInv, TypeOK
<1>5. CASE db[id].created > lastSeen
  <2>1. id \in Fresh \cap Translatable
    BY <1>1, <1>2, <1>3, <1>5 DEF Due, Listed, Fresh
  <2>2. offers[id] = 0
    <3>1. offers[id] <= 1 /\ (offers[id] > 0 => db[id].created <= lastSeen)
      BY <1>1, <1>3 DEF IInv, Offers, Due, Listed
    <3>2. QED
      BY <1>4, <1>5, <3>1
  <2>3. QED
    BY <1>2, <2>1, <2>2
<1>6. CASE db[id].created <= lastSeen
  <2>1. id \notin Fresh
    BY <1>4, <1>6 DEF Fresh
  <2>2. Due(id)
    BY <1>1, <1>2, <1>3, <1>6 DEF Due, Listed
  <2>3. QED
    BY <1>2, <2>1, <2>2 DEF Taken
<1>7. QED
  BY <1>4, <1>5, <1>6

\* A row that is put at or behind the cursor is overtaken, and no other is due.
LEMMA PutTaken ==
  ASSUME IInv, Taken, NEW id \in Ids, Put(id)
  PROVE  Taken'
<1>1. SUFFICES ASSUME NEW n \in Ids, Due(n)' PROVE offers'[n] = 1
  BY DEF Taken
<1>2. PICK created \in 1 .. MaxNow : created = calls[id].created
  BY DEF IInv, TypeOK
<1>3. /\ UNCHANGED <<now, lastSeen>>
      /\ overtaken' = IF created <= lastSeen
                      THEN overtaken \cup {id} ELSE overtaken \ {id}
      /\ db'[id] = NewRow(created)
      /\ n # id => (db'[n] = NoRow \/ db'[n] = db[n]) /\ offers'[n] = offers[n]
  BY <1>2 DEF Put, memory, IInv, TypeOK
<1>4. lastSeen \in 0 .. MaxNow
  BY DEF IInv, TypeOK
<1>5. n # id
  <2>1. SUFFICES ASSUME n = id PROVE FALSE
    OBVIOUS
  <2>2. db'[id].created = created
    BY <1>3 DEF NewRow
  <2>3. created <= lastSeen
    BY <1>1, <1>3, <2>1, <2>2 DEF Due
  <2>4. id \in overtaken'
    BY <1>3, <2>3
  <2>5. QED
    BY <1>1, <2>1, <2>4 DEF Due
<1>6. Due(n)
  BY <1>1, <1>3, <1>5 DEF Due, Listed
<1>7. QED
  BY <1>3, <1>5, <1>6 DEF Taken

LEMMA NextTaken ==
  ASSUME IInv, IInv', Taken, [Next]_vars
  PROVE  Taken'
<1>1. now \in Nat /\ now' \in Nat
  BY BoundsAreNat DEF IInv, TypeOK
<1>2. CASE LoopTick
  BY <1>2, TickTaken DEF LoopTick
<1>3. CASE SettleMatch \/ SettleFails \/ RecordError \/ LoopEnds
  BY <1>1, <1>3, KeepsTaken DEF SettleMatch, SettleFails, RecordError, LoopEnds, history
<1>4. CASE RecordMaker
  <2>1. UNCHANGED <<now, lastSeen, offers, overtaken>>
    BY <1>4 DEF RecordMaker, history
  <2>2. PICK maker \in Ids : maker = Head(fills).maker
    BY <1>4, FirstFill DEF RecordMaker, Settling
  <2>3. PICK size \in Nat : size = Head(fills).size /\ size > 0
    BY <1>4, FirstFill DEF RecordMaker, Settling
  <2>4. \A id \in Ids : db'[id] = db[id] \/ db'[id].status # "Pending"
    BY <1>4, <2>2, <2>3, RecordIs DEF RecordMaker
  <2>5. QED
    BY <1>1, <2>1, <2>4, KeepsTaken
<1>5. CASE RecordTaker
  <2>1. UNCHANGED <<now, lastSeen, offers, overtaken>>
    BY <1>5 DEF RecordTaker, history
  <2>2. PICK taker \in Ids : taker = Head(fills).taker
    BY <1>5, FirstFill DEF RecordTaker, Settling
  <2>3. PICK size \in Nat : size = Head(fills).size /\ size > 0
    BY <1>5, FirstFill DEF RecordTaker, Settling
  <2>4. \A id \in Ids : db'[id] = db[id] \/ db'[id].status # "Pending"
    BY <1>5, <2>2, <2>3, RecordIs DEF RecordTaker
  <2>5. QED
    BY <1>1, <2>1, <2>4, KeepsTaken
<1>6. ASSUME NEW id \in Ids, Submission(id) PROVE Taken'
  <2>1. CASE SubmitTick(id)
    BY <2>1, TickTaken DEF SubmitTick
  <2>2. CASE Put(id)
    BY <2>2, PutTaken
  <2>3. CASE Receive(id) \/ SubmitEnds(id) \/ Reply(id) \/ Abandon(id)
    BY <1>1, <2>3, KeepsTaken DEF Receive, SubmitEnds, Reply, Abandon, memory, history
  <2>4. QED
    BY <1>6, <2>1, <2>2, <2>3 DEF Submission
<1>7. ASSUME NEW id \in Ids, CancelOrder(id) PROVE Taken'
  <2>1. UNCHANGED <<now, lastSeen, offers, overtaken>>
    BY <1>7 DEF CancelOrder, memory, history
  <2>2. PICK row \in Row : row = db[id] /\ row # NoRow
    BY <1>7, RowIs DEF CancelOrder, Cancelable
  <2>3. db' = [db EXCEPT ![id] = [row EXCEPT !.status = "Canceled"]]
    BY <1>7, <2>2 DEF CancelOrder
  <2>4. [row EXCEPT !.status = "Canceled"].status = "Canceled"
    BY DEF Row
  <2>5. \A n \in Ids : db'[n] = db[n] \/ db'[n].status # "Pending"
    BY <2>3, <2>4 DEF IInv, TypeOK
  <2>6. QED
    BY <1>1, <2>1, <2>5, KeepsTaken
<1>8. CASE TimePasses
  BY <1>1, <1>8, KeepsTaken DEF TimePasses, memory, history
<1>9. CASE Crash
  <2>1. SUFFICES ASSUME NEW id \in Ids, Due(id)' PROVE FALSE
    BY DEF Taken
  <2>2. db[id] # NoRow /\ db[id].created <= 0
    BY <1>9, <2>1 DEF Crash, Due, Listed
  <2>3. QED
    BY <2>2, RowIs
<1>10. CASE UNCHANGED vars
  BY <1>1, <1>10, KeepsTaken DEF vars, memory, history
<1>11. QED
  BY <1>2, <1>3, <1>4, <1>5, <1>6, <1>7, <1>8, <1>9, <1>10 DEF Next, Settlement

\* A stored row enters the persistent book exactly once between two restarts,
\* unless a pass had reached its second before it was put: tick keeps what is
\* newer than the newest it has seen.  (tick.rs, tick; grpc.rs, submit_order)
THEOREM TickLoopOfferedOnce == Spec => []OfferedOnce
<1>1. Init => Taken
  BY DEF Init, Taken, Due, Listed
<1>2. IInv /\ IInv' /\ Taken /\ [Next]_vars => Taken'
  BY NextTaken
<1>3. IInv /\ Taken => OfferedOnce
  BY DEF IInv, Offers, Taken, Due, OfferedOnce
<1>4. QED
  BY <1>1, <1>2, <1>3, TickLoopIInv, PTL DEF Spec

\* Nothing but a put of the order or of one with its nonce changes a filled
\* row: record_fill refuses to pass the magnitude, the others look at the status.
THEOREM TickLoopFilledIsFinal == Spec => FilledIsFinal
<1> DEFINE Replaced(id) == \E n \in Ids : NonceOf[n] = NonceOf[id]
                             /\ calls[n].at = "Received" /\ calls'[n].at = "Stored"
           Final == \A id \in Ids :
                      (db[id] # NoRow /\ db[id].status = "Filled" /\ db'[id] # db[id])
                        => Replaced(id)
<1>1. ASSUME IInv, Next PROVE Final
  <2>1. SUFFICES ASSUME NEW id \in Ids, db[id] # NoRow, db[id].status = "Filled",
                        db'[id] # db[id]
                 PROVE  Replaced(id)
    OBVIOUS
  <2>2. ASSUME NEW holder PROVE ~ Tick(holder)
    BY <1>1, <2>1, TickRows
  <2>3. ~ RecordMaker
    <3>1. SUFFICES ASSUME RecordMaker PROVE FALSE
      OBVIOUS
    <3>2. PICK fill \in Fill : fill = Head(fills) /\ fill.maker \in Ids
                               /\ fill.size \in Nat /\ fill.size > 0
      BY <1>1, <3>1, FirstFill DEF RecordMaker, Settling
    <3>3. CanRecord(fill.maker, fill.size) /\ RecordFill(fill.maker, fill.size)
      BY <2>1, <3>1, <3>2 DEF RecordMaker
    <3>4. PICK maker \in Ids : maker = fill.maker
      BY <3>2
    <3>5. db[maker].status # "Filled" /\ \A n \in Ids : n # maker => db'[n] = db[n]
      BY <1>1, <3>2, <3>3, <3>4, RecordIs
    <3>6. QED
      BY <2>1, <3>5
  <2>4. ~ RecordTaker
    <3>1. SUFFICES ASSUME RecordTaker PROVE FALSE
      OBVIOUS
    <3>2. PICK fill \in Fill : fill = Head(fills) /\ fill.taker \in Ids
                               /\ fill.size \in Nat /\ fill.size > 0
      BY <1>1, <3>1, FirstFill DEF RecordTaker, Settling
    <3>3. CanRecord(fill.taker, fill.size) /\ RecordFill(fill.taker, fill.size)
      BY <2>1, <3>1, <3>2 DEF RecordTaker
    <3>4. PICK taker \in Ids : taker = fill.taker
      BY <3>2
    <3>5. db[taker].status # "Filled" /\ \A n \in Ids : n # taker => db'[n] = db[n]
      BY <1>1, <3>2, <3>3, <3>4, RecordIs
    <3>6. QED
      BY <2>1, <3>5
  <2>5. ASSUME NEW n \in Ids PROVE ~ CancelOrder(n)
    BY <1>1, <2>1 DEF CancelOrder, Cancelable, IInv, TypeOK
  <2>6. PICK n \in Ids : Put(n)
    BY <1>1, <2>1, <2>2, <2>3, <2>4, <2>5
    DEF Next, LoopTick, Settlement, Submission, SettleMatch, SettleFails, RecordError,
        LoopEnds, Receive, SubmitTick, SubmitEnds, Reply, Abandon, TimePasses, Crash
  <2>7. calls[n].at = "Received" /\ calls'[n].at = "Stored"
    BY <1>1, <2>6 DEF Put, IInv, TypeOK
  <2>8. NonceOf[n] = NonceOf[id]
    BY <2>1, <2>6 DEF Put
  <2>9. QED
    BY <2>7, <2>8
<1>2. IInv /\ [Next]_vars => [Final]_vars
  BY <1>1
<1>3. QED
  BY <1>2, TickLoopIInv, PTL DEF Spec, FilledIsFinal
-----------------------------------------------------------------------------
(***************************************************************************)
(* What the fills of a sequence do to an order.  Fits: settled one after   *)
(* the other from a on, they bring the order x to b at most.  The rungs    *)
(* tell how far, so that nothing has to be summed.                         *)
(***************************************************************************)
Part(fill, x) ==
  (IF fill.maker = x THEN fill.size ELSE 0) + (IF fill.taker = x THEN fill.size ELSE 0)

Rungs(s, seq, x) ==
  \A i \in 1 .. Len(seq) : s[i - 1] + Part(seq[i], x) <= s[i]

Fits(seq, x, a, b) ==
  \E s \in [0 .. Len(seq) -> Nat] : a <= s[0] /\ s[Len(seq)] <= b /\ Rungs(s, seq, x)

LEMMA PartIs ==
  ASSUME NEW fill \in Fill, NEW x
  PROVE  Part(fill, x) \in Nat
BY DEF Part, Fill

LEMMA FitsEmpty ==
  ASSUME NEW x, NEW a \in Nat
  PROVE  Fits(<<>>, x, a, a)
<1>1. [i \in 0 .. 0 |-> a] \in [0 .. 0 -> Nat] /\ Len(<<>>) = 0
  OBVIOUS
<1>2. Rungs([i \in 0 .. 0 |-> a], <<>>, x)
  BY DEF Rungs
<1>3. QED
  BY <1>1, <1>2 DEF Fits

LEMMA FitsWider ==
  ASSUME NEW seq \in Seq(Fill), NEW x, NEW a \in Nat, NEW b \in Nat, Fits(seq, x, a, b),
         NEW c \in Nat, NEW d \in Nat, c <= a, b <= d
  PROVE  Fits(seq, x, c, d)
<1>1. PICK s \in [0 .. Len(seq) -> Nat] : a <= s[0] /\ s[Len(seq)] <= b /\ Rungs(s, seq, x)
  BY DEF Fits
<1>2. s[0] \in Nat /\ s[Len(seq)] \in Nat
  OBVIOUS
<1>3. c <= s[0] /\ s[Len(seq)] <= d
  BY <1>1, <1>2
<1>4. QED
  BY <1>1, <1>3 DEF Fits

\* What fits goes up.
LEMMA FitsBound ==
  ASSUME NEW seq \in Seq(Fill), NEW x, NEW a \in Nat, NEW b \in Nat, Fits(seq, x, a, b)
  PROVE  a <= b
<1>1. PICK s \in [0 .. Len(seq) -> Nat] : a <= s[0] /\ s[Len(seq)] <= b /\ Rungs(s, seq, x)
  BY DEF Fits
<1>2. PICK n \in Nat : n = Len(seq)
  OBVIOUS
<1> DEFINE S == {k \in Nat : k <= n => s[0] <= s[k]}
<1>3. 0 \in S
  OBVIOUS
<1>4. \A k \in S : k + 1 \in S
  <2>1. SUFFICES ASSUME NEW k \in Nat, k <= n => s[0] <= s[k], k + 1 <= n
                 PROVE  s[0] <= s[k + 1]
    OBVIOUS
  <2>2. k + 1 \in 1 .. Len(seq) /\ (k + 1) - 1 = k
    BY <1>2, <2>1
  <2>3. PICK more \in Nat : more = Part(seq[k + 1], x)
    BY <2>2, ElementOfSeq, PartIs
  <2>4. s[k] + more <= s[k + 1]
    BY <1>1, <2>2, <2>3 DEF Rungs
  <2>5. s[0] \in Nat /\ s[k] \in Nat /\ s[k + 1] \in Nat
    BY <1>2, <2>2
  <2>6. QED
    BY <2>1, <2>4, <2>5
<1>5. S \subseteq Nat
  OBVIOUS
<1>6. n \in S
  <2> HIDE DEF S
  <2>1. QED
    BY <1>3, <1>4, <1>5, Inductive
<1>7. s[0] \in Nat /\ s[n] \in Nat /\ s[0] <= s[n]
  BY <1>2, <1>6
<1>8. QED
  BY <1>1, <1>2, <1>7

LEMMA FitsAppend ==
  ASSUME NEW seq \in Seq(Fill), NEW x, NEW a \in Nat, NEW b \in Nat, Fits(seq, x, a, b),
         NEW fill \in Fill
  PROVE  Fits(Append(seq, fill), x, a, b + Part(fill, x))
<1>1. PICK s \in [0 .. Len(seq) -> Nat] : a <= s[0] /\ s[Len(seq)] <= b /\ Rungs(s, seq, x)
  BY DEF Fits
<1>2. PICK n \in Nat : n = Len(seq)
  OBVIOUS
<1>3. PICK q \in Seq(Fill) : q = Append(seq, fill)
  <2>1. Append(seq, fill) \in Seq(Fill)
    OBVIOUS
  <2>2. QED
    BY <2>1
<1>4. Len(q) = n + 1 /\ q[n + 1] = fill /\ \A i \in 1 .. n : q[i] = seq[i]
  BY <1>2, <1>3
<1>5. PICK more \in Nat : more = Part(fill, x)
  BY PartIs
<1> DEFINE t == [i \in 0 .. n + 1 |-> IF i = n + 1 THEN s[n] + more ELSE s[i]]
<1>6. t \in [0 .. Len(q) -> Nat]
  <2>1. \A i \in 0 .. n + 1 : i # n + 1 => i \in 0 .. n
    OBVIOUS
  <2>2. QED
    BY <1>2, <1>4, <2>1
<1>7. t[0] = s[0] /\ t[n + 1] = s[n] + more /\ t[n] = s[n] /\ s[n] \in Nat
  BY <1>2
<1>8. Rungs(t, q, x)
  <2>1. SUFFICES ASSUME NEW i \in 1 .. n + 1 PROVE t[i - 1] + Part(q[i], x) <= t[i]
    BY <1>4 DEF Rungs
  <2>2. CASE i = n + 1
    BY <1>4, <1>5, <1>7, <2>2
  <2>3. CASE i # n + 1
    <3>1. i \in 1 .. n /\ i - 1 \in 0 .. n
      BY <2>3
    <3>2. t[i - 1] = s[i - 1] /\ t[i] = s[i] /\ q[i] = seq[i]
      BY <1>4, <3>1
    <3>3. QED
      BY <1>1, <1>2, <3>1, <3>2 DEF Rungs
  <2>4. QED
    BY <2>2, <2>3
<1>9. a <= t[0] /\ t[Len(q)] <= b + more
  BY <1>1, <1>2, <1>4, <1>7
<1>10. QED
  BY <1>3, <1>5, <1>6, <1>8, <1>9 DEF Fits

LEMMA FitsConcat ==
  ASSUME NEW p \in Seq(Fill), NEW q \in Seq(Fill), NEW x,
         NEW a \in Nat, NEW b \in Nat, NEW c \in Nat, Fits(p, x, a, b), Fits(q, x, b, c)
  PROVE  Fits(p \o q, x, a, c)
<1>1. PICK s \in [0 .. Len(p) -> Nat] : a <= s[0] /\ s[Len(p)] <= b /\ Rungs(s, p, x)
  BY DEF Fits
<1>2. PICK t \in [0 .. Len(q) -> Nat] : b <= t[0] /\ t[Len(q)] <= c /\ Rungs(t, q, x)
  BY DEF Fits
<1>3. PICK m \in Nat : m = Len(p)
  OBVIOUS
<1>4. PICK n \in Nat : n = Len(q)
  OBVIOUS
<1>5. PICK r \in Seq(Fill) : r = p \o q
  BY ConcatProperties
<1>6. /\ Len(r) = m + n
      /\ \A i \in 1 .. m + n : r[i] = IF i <= m THEN p[i] ELSE q[i - m]
  BY <1>3, <1>4, <1>5, ConcatProperties
<1> DEFINE u == [i \in 0 .. m + n |-> IF i < m THEN s[i] ELSE t[i - m]]
<1>7. u \in [0 .. Len(r) -> Nat]
  <2>1. \A i \in 0 .. m + n : IF i < m THEN i \in 0 .. m ELSE i - m \in 0 .. n
    OBVIOUS
  <2>2. QED
    BY <1>3, <1>4, <1>6, <2>1
<1>8. s[m] \in Nat /\ t[0] \in Nat /\ s[m] <= t[0]
  <2>1. m \in 0 .. Len(p) /\ 0 \in 0 .. Len(q)
    BY <1>3, <1>4
  <2>2. s[m] \in Nat /\ t[0] \in Nat
    BY <2>1
  <2>3. s[m] <= b /\ b <= t[0]
    BY <1>1, <1>2, <1>3
  <2>4. QED
    BY <2>2, <2>3
<1>9. a <= u[0]
  <2>1. CASE m = 0
    BY <1>1, <1>3, <1>8, <2>1
  <2>2. CASE m # 0
    BY <1>1, <2>2
  <2>3. QED
    BY <2>1, <2>2
<1>10. u[m + n] <= c
  BY <1>2, <1>4
<1>11. Rungs(u, r, x)
  <2>1. SUFFICES ASSUME NEW i \in 1 .. m + n PROVE u[i - 1] + Part(r[i], x) <= u[i]
    BY <1>6 DEF Rungs
  <2>2. CASE i <= m
    <3>1. i \in 1 .. m /\ r[i] = p[i] /\ u[i - 1] = s[i - 1]
      BY <1>6, <2>2
    <3>2. s[i - 1] + Part(p[i], x) <= s[i]
      BY <1>1, <1>3, <3>1 DEF Rungs
    <3>3. s[i] \in Nat /\ s[i] <= u[i] /\ u[i] \in Nat
      <4>1. CASE i = m
        BY <1>8, <4>1
      <4>2. CASE i # m
        <5>1. i < m /\ i \in 0 .. Len(p) /\ i \in 0 .. m + n
          BY <1>3, <2>2, <4>2
        <5>2. u[i] = s[i] /\ s[i] \in Nat
          BY <5>1
        <5>3. QED
          BY <5>2
      <4>3. QED
        BY <4>1, <4>2
    <3>4. s[i - 1] \in Nat /\ Part(p[i], x) \in Nat
      <4>1. i - 1 \in 0 .. Len(p) /\ i \in 1 .. Len(p)
        BY <1>3, <3>1
      <4>2. QED
        BY <4>1, ElementOfSeq, PartIs
    <3>5. u[i - 1] + Part(r[i], x) = s[i - 1] + Part(p[i], x)
      BY <3>1
    <3>6. PICK y \in Nat : y = s[i - 1] + Part(p[i], x)
      BY <3>4
    <3>7. y <= u[i]
      BY <3>2, <3>3, <3>6
    <3>8. QED
      BY <3>5, <3>6, <3>7
  <2>3. CASE ~ (i <= m)
    <3>1. i - m \in 1 .. n /\ r[i] = q[i - m] /\ (i - 1) - m = (i - m) - 1 /\ ~ (i - 1 < m)
      BY <1>6, <2>3
    <3>2. u[i - 1] = t[(i - m) - 1] /\ u[i] = t[i - m]
      BY <3>1
    <3>3. QED
      BY <1>2, <1>4, <3>1, <3>2 DEF Rungs
  <2>4. QED
    BY <2>2, <2>3
<1>12. QED
  BY <1>5, <1>6, <1>7, <1>9, <1>10, <1>11 DEF Fits

LEMMA FitsTail ==
  ASSUME NEW seq \in Seq(Fill), seq # <<>>, NEW x, NEW a \in Nat, NEW b \in Nat,
         Fits(seq, x, a, b)
  PROVE  Fits(Tail(seq), x, a + Part(Head(seq), x), b)
<1>1. PICK s \in [0 .. Len(seq) -> Nat] : a <= s[0] /\ s[Len(seq)] <= b /\ Rungs(s, seq, x)
  BY DEF Fits
<1>2. PICK n \in Nat : n + 1 = Len(seq)
  BY EmptySeq, LenProperties
<1>3. PICK t \in Seq(Fill) : t = Tail(seq)
  BY HeadTailProperties
<1>4. Len(t) = n /\ \A i \in 1 .. n : t[i] = seq[i + 1]
  BY <1>2, <1>3, HeadTailProperties
<1>5. PICK first \in Fill : first = Head(seq) /\ first = seq[1]
  BY HeadTailProperties
<1>6. PICK more \in Nat : more = Part(first, x)
  BY PartIs
<1> DEFINE u == [i \in 0 .. n |-> s[i + 1]]
<1>7. u \in [0 .. Len(t) -> Nat]
  BY <1>2, <1>4
<1>8. s[0] \in Nat /\ s[1] \in Nat /\ s[0] + more <= s[1]
  BY <1>1, <1>2, <1>5, <1>6 DEF Rungs
<1>9. a + more <= u[0] /\ u[n] <= b
  BY <1>1, <1>2, <1>8
<1>10. Rungs(u, t, x)
  <2>1. SUFFICES ASSUME NEW i \in 1 .. n PROVE u[i - 1] + Part(t[i], x) <= u[i]
    BY <1>4 DEF Rungs
  <2>2. i + 1 \in 1 .. Len(seq) /\ (i + 1) - 1 = i /\ (i - 1) + 1 = i
        /\ i - 1 \in 0 .. n /\ i \in 0 .. n
    BY <1>2
  <2>3. s[i] + Part(seq[i + 1], x) <= s[i + 1]
    BY <1>1, <2>2 DEF Rungs
  <2>4. u[i - 1] = s[i] /\ u[i] = s[i + 1] /\ t[i] = seq[i + 1]
    BY <1>4, <2>2
  <2>5. QED
    BY <2>3, <2>4
<1>11. QED
  BY <1>3, <1>4, <1>5, <1>6, <1>7, <1>9, <1>10 DEF Fits

\* What a pass does not settle only makes it fit better.
LEMMA FitsPaired ==
  ASSUME NEW matched, GoodFills(matched), NEW seen, NEW x, NEW a \in Nat, NEW b \in Nat,
         Fits(matched, x, a, b)
  PROVE  Fits(PairedFills(matched, seen), x, a, b)
<1>1. PICK p \in Seq(Fill) : p = matched
  BY DEF GoodFills
<1>2. PICK s \in [0 .. Len(p) -> Nat] : a <= s[0] /\ s[Len(p)] <= b /\ Rungs(s, p, x)
  BY <1>1 DEF Fits
<1>3. PICK n \in Nat : n = Len(p) /\ DOMAIN p = 1 .. n
  OBVIOUS
<1>4. PICK iter : iter = KeptOf(p, seen)
  OBVIOUS
<1>5. /\ iter[1 .. 0] = <<>>
      /\ \A k \in Nat : k + 1 <= n => iter[1 .. k + 1] = PushStep(iter[1 .. k], p[k + 1], seen)
  BY <1>1, <1>3, <1>4, KeptIs
<1>6. \A k \in Nat : k <= n => iter[1 .. k] \in Seq(Fill)
  BY <1>1, <1>3, <1>4, PairedFillsGood DEF FillSeqs
<1> DEFINE S == {k \in Nat : k <= n => Fits(iter[1 .. k], x, a, s[k])}
<1>7. 0 \in S
  <2>1. Fits(<<>>, x, a, s[0])
    <3>1. s[0] \in Nat
      OBVIOUS
    <3>2. Fits(<<>>, x, a, a) /\ <<>> \in Seq(Fill)
      BY FitsEmpty
    <3>3. QED
      BY <1>2, <3>1, <3>2, FitsWider
  <2>2. QED
    BY <1>5, <2>1
<1>8. \A k \in S : k + 1 \in S
  <2>1. SUFFICES ASSUME NEW k \in Nat, k <= n => Fits(iter[1 .. k], x, a, s[k]), k + 1 <= n
                 PROVE  Fits(iter[1 .. k + 1], x, a, s[k + 1])
    OBVIOUS
  <2>2. k <= n /\ k + 1 \in 1 .. n /\ (k + 1) - 1 = k
    BY <2>1
  <2>3. PICK kept \in Seq(Fill) : kept = iter[1 .. k] /\ Fits(kept, x, a, s[k])
    BY <1>6, <2>1, <2>2
  <2>4. PICK fill \in Fill : fill = p[k + 1]
    BY <1>3, <2>2, ElementOfSeq
  <2>5. PICK more \in Nat : more = Part(fill, x)
    BY PartIs
  <2>6. PICK low \in Nat : low = s[k]
    BY <1>3, <2>2
  <2>7. PICK high \in Nat : high = s[k + 1]
    BY <1>3, <2>2
  <2>8. low + more <= high
    BY <1>2, <1>3, <2>2, <2>4, <2>5, <2>6, <2>7 DEF Rungs
  <2>9. iter[1 .. k + 1] = PushStep(kept, fill, seen)
    BY <1>5, <2>1, <2>3, <2>4
  <2>10. Fits(kept, x, a, high)
    <3>1. low <= high
      BY <2>8
    <3>2. QED
      BY <2>3, <2>6, <3>1, FitsWider
  <2>11. Fits(Append(kept, fill), x, a, high)
    <3>1. Fits(Append(kept, fill), x, a, low + more)
      BY <2>3, <2>5, <2>6, FitsAppend
    <3>2. Append(kept, fill) \in Seq(Fill) /\ low + more \in Nat
      OBVIOUS
    <3>3. QED
      BY <2>8, <3>1, <3>2, FitsWider
  <2>12. QED
    BY <2>7, <2>9, <2>10, <2>11 DEF PushStep
<1>9. S \subseteq Nat
  OBVIOUS
<1>10. n \in S
  <2> HIDE DEF S
  <2>1. QED
    BY <1>7, <1>8, <1>9, Inductive
<1>11. Fits(iter[1 .. n], x, a, s[n])
  BY <1>10
<1>12. iter[1 .. n] \in Seq(Fill) /\ s[n] \in Nat /\ s[n] <= b
  BY <1>2, <1>3, <1>6
<1>13. Fits(iter[1 .. n], x, a, b)
  BY <1>11, <1>12, FitsWider
<1>14. PairedFills(p, seen) = iter[1 .. n]
  BY <1>3, <1>4, PairedFillsAre
<1>15. QED
  BY <1>1, <1>13, <1>14

-----------------------------------------------------------------------------
\* The order x rests in one place at most, and has no more than r left there.
At(b, slot, i, x) == i \in 1 .. Len(b.queue[slot]) /\ b.queue[slot][i].id = x

Stake(b, x, r) ==
  \A slot \in Slots, i \in Nat : At(b, slot, i, x) =>
    /\ b.queue[slot][i].remaining <= r
    /\ \A other \in Slots, j \in Nat : At(b, other, j, x) => other = slot /\ j = i

LEMMA StakeWider ==
  ASSUME NEW b, GoodBook(b), NEW x, NEW r \in Nat, NEW t \in Nat, r <= t, Stake(b, x, r)
  PROVE  Stake(b, x, t)
<1>1. SUFFICES ASSUME NEW slot \in Slots, NEW i \in Nat, At(b, slot, i, x)
               PROVE  b.queue[slot][i].remaining <= t
  BY DEF Stake
<1>2. b.queue[slot][i].remaining \in Nat /\ b.queue[slot][i].remaining <= r
  BY <1>1, QueueType DEF At, Stake, Order
<1>3. QED
  BY <1>2

\* With nothing left to it an order is not on the book.
LEMMA StakeNone ==
  ASSUME NEW b, GoodBook(b), NEW x, Stake(b, x, 0)
  PROVE  \A slot \in Slots, i \in Nat : ~ At(b, slot, i, x)
<1>1. SUFFICES ASSUME NEW slot \in Slots, NEW i \in Nat, At(b, slot, i, x)
               PROVE  FALSE
  OBVIOUS
<1>2. b.queue[slot][i].remaining \in Nat /\ b.queue[slot][i].remaining > 0
  BY <1>1, QueueType DEF At, Order
<1>3. b.queue[slot][i].remaining <= 0
  BY <1>1 DEF Stake
<1>4. QED
  BY <1>2, <1>3

\* The places of x in c are those of b, but that one level may have lost its
\* first h orders, and x has t left at most.
Moved(b, c, x, level, h, t) ==
  \A slot \in Slots, i \in Nat : At(c, slot, i, x) =>
    /\ At(b, slot, IF slot = level THEN i + h ELSE i, x)
    /\ c.queue[slot][i].remaining <= t

LEMMA StakeMoved ==
  ASSUME NEW b, NEW c, NEW x, NEW r, NEW t, NEW level \in Slots, NEW h \in Nat,
         Stake(b, x, r), Moved(b, c, x, level, h, t)
  PROVE  Stake(c, x, t)
<1>1. SUFFICES ASSUME NEW slot \in Slots, NEW i \in Nat, At(c, slot, i, x),
                      NEW other \in Slots, NEW j \in Nat, At(c, other, j, x)
               PROVE  other = slot /\ j = i
  BY DEF Stake, Moved
<1>2. PICK k \in Nat : k = IF slot = level THEN i + h ELSE i
  OBVIOUS
<1>3. PICK l \in Nat : l = IF other = level THEN j + h ELSE j
  OBVIOUS
<1>4. At(b, slot, k, x) /\ At(b, other, l, x)
  BY <1>1, <1>2, <1>3 DEF Moved
<1>5. other = slot /\ l = k
  BY <1>4 DEF Stake
<1>6. QED
  BY <1>2, <1>3, <1>5

\* What a fill leaves of its maker's level, and of the others.
Filled(b, c, level, p, size) ==
  /\ \A slot \in Slots : slot # level => c.queue[slot] = b.queue[slot]
  /\ \/ /\ Head(p).remaining = size
        /\ c.queue[level] = Tail(p)
     \/ /\ Head(p).remaining # size
        /\ c.queue[level] =
             <<[Head(p) EXCEPT !.remaining = Head(p).remaining - size]>> \o Tail(p)

LEMMA FillQueues ==
  ASSUME NEW b, GoodBook(b), NEW level \in Slots, NEW p \in Seq(Order),
         p = b.queue[level], p # <<>>, NEW size \in Nat, size <= Head(p).remaining
  PROVE  Filled(b, BookAfterFill(b, level, Head(p), size), level, p, size)
<1> DEFINE c == BookAfterFill(b, level, Head(p), size)
<1>1. b.queue \in [Slots -> Seq(Order)]
  BY DEF GoodBook, Book
<1>2. Head(p) \in Order
  BY HeadTailProperties
<1>3. PICK m \in Order : m = Head(p) /\ m.remaining \in Nat
  BY <1>2 DEF Order
<1>4. PICK q : q = Tail(p)
  OBVIOUS
<1>5. CASE m.remaining = size
  <2>1. m.remaining - size = 0
    BY <1>3, <1>5
  <2>2. c.queue = [b.queue EXCEPT ![level] = q]
    BY <1>3, <1>4, <2>1 DEF BookAfterFill, DropFromIndex, PopFrontAt, WithEntry, WithQueue
  <2> HIDE DEF c
  <2>3. Filled(b, c, level, p, size)
    BY <1>1, <1>3, <1>4, <1>5, <2>2 DEF Filled
  <2>4. QED
    BY <2>3 DEF c
<1>6. CASE m.remaining # size
  <2>1. m.remaining - size # 0
    BY <1>3, <1>6
  <2>2. PICK o : o = [m EXCEPT !.remaining = m.remaining - size]
    OBVIOUS
  <2>3. PICK d : d = PopFrontAt(b, level)
    OBVIOUS
  <2>4. d.queue = [b.queue EXCEPT ![level] = q]
    BY <1>4, <2>3 DEF PopFrontAt, WithQueue
  <2>5. c = PushFrontAt(d, level, o)
    BY <1>3, <2>1, <2>2, <2>3 DEF BookAfterFill
  <2>6. c.queue = [d.queue EXCEPT ![level] = <<o>> \o q]
    BY <1>1, <2>4, <2>5 DEF PushFrontAt, WithQueue
  <2> HIDE DEF c
  <2>7. Filled(b, c, level, p, size)
    BY <1>1, <1>3, <1>4, <1>6, <2>2, <2>4, <2>6 DEF Filled
  <2>8. QED
    BY <2>7 DEF c
<1>7. QED
  BY <1>5, <1>6

\* A fill takes from the maker what it moves, and nothing from anyone else.
LEMMA StakeAfterFill ==
  ASSUME NEW b, GoodBook(b), NEW level \in Slots, NEW p \in Seq(Order),
         p = b.queue[level], p # <<>>, NEW size \in Nat, size <= Head(p).remaining,
         NEW x \in Ids, NEW r \in Nat, Stake(b, x, r)
  PROVE  /\ Head(p).id = x => size <= r
         /\ Stake(BookAfterFill(b, level, Head(p), size), x,
                  IF Head(p).id = x THEN r - size ELSE r)
<1>1. PICK c : c = BookAfterFill(b, level, Head(p), size)
  OBVIOUS
<1>2. PICK m \in Order : /\ m = Head(p) /\ m = p[1] /\ m.remaining \in Nat
                         /\ size <= m.remaining
  <2>1. Head(p) \in Order /\ Head(p) = p[1]
    BY HeadTailProperties
  <2>2. QED
    BY <2>1 DEF Order
<1>3. 1 \in 1 .. Len(p) /\ Len(p) \in Nat
  BY EmptySeq, LenProperties
<1>4. m.id = x => /\ m.remaining <= r
                  /\ \A slot \in Slots, i \in Nat : At(b, slot, i, x) => slot = level /\ i = 1
  BY <1>2, <1>3 DEF At, Stake
<1>5. PICK q \in Seq(Order) : q = Tail(p)
  BY HeadTailProperties
<1>6. Len(q) = Len(p) - 1 /\ \A i \in 1 .. Len(q) : q[i] = p[i + 1]
  BY <1>5, HeadTailProperties
<1>7. \A slot \in Slots, i \in Nat : At(b, slot, i, x) =>
        b.queue[slot][i].remaining \in Nat /\ b.queue[slot][i].remaining <= r
  BY QueueType DEF At, Stake, Order
<1>8. PICK t \in Nat : t = IF m.id = x THEN r - size ELSE r
  <2>1. m.id = x => r - size \in Nat
    <3>1. m.id = x => m.remaining <= r
      BY <1>4
    <3>2. QED
      BY <1>2, <3>1
  <2>2. QED
    BY <2>1
<1>9. Filled(b, c, level, p, size)
  BY <1>1, FillQueues
<1>10. CASE m.remaining = size /\ c.queue[level] = q
  <2>1. ASSUME NEW slot \in Slots, NEW i \in Nat, At(c, slot, i, x)
        PROVE  /\ At(b, slot, IF slot = level THEN i + 1 ELSE i, x)
               /\ c.queue[slot][i].remaining <= t
    <3>1. CASE slot = level
      <4>1. i \in 1 .. Len(q) /\ q[i].id = x /\ q[i] = p[i + 1] /\ i + 1 \in 1 .. Len(p)
        BY <1>3, <1>6, <1>10, <2>1, <3>1 DEF At
      <4>2. At(b, slot, i + 1, x)
        BY <3>1, <4>1 DEF At
      <4>3. m.id # x
        BY <1>4, <4>1, <4>2
      <4>4. QED
        BY <1>7, <1>8, <1>10, <3>1, <4>1, <4>2, <4>3
    <3>2. CASE slot # level
      <4>1. At(b, slot, i, x)
        BY <1>9, <2>1, <3>2 DEF At, Filled
      <4>2. m.id # x
        BY <1>4, <3>2, <4>1
      <4>3. QED
        BY <1>7, <1>8, <1>9, <3>2, <4>1, <4>2 DEF Filled
    <3>3. QED
      BY <3>1, <3>2
  <2>2. Stake(c, x, t)
    <3>1. PICK h \in Nat : h = 1
      OBVIOUS
    <3>2. Moved(b, c, x, level, h, t)
      BY <2>1, <3>1 DEF Moved
    <3>3. QED
      BY <3>2, StakeMoved
  <2>3. QED
    BY <1>1, <1>2, <1>4, <1>8, <2>2
<1>11. CASE c.queue[level] = <<[m EXCEPT !.remaining = m.remaining - size]>> \o q
  <2>1. PICK o \in Order : /\ o = [m EXCEPT !.remaining = m.remaining - size]
                           /\ o.id = m.id /\ o.remaining = m.remaining - size
    <3>1. m.remaining - size \in Nat
      BY <1>2
    <3>2. [m EXCEPT !.remaining = m.remaining - size] \in Order
      BY <3>1 DEF Order
    <3>3. QED
      BY <3>2 DEF Order
  <2>2. PICK s \in Seq(Order) : s = <<o>> /\ Len(s) = 1 /\ s[1] = o
    <3>1. <<o>> \in Seq(Order) /\ Len(<<o>>) = 1 /\ <<o>>[1] = o
      OBVIOUS
    <3>2. QED
      BY <3>1
  <2>3. PICK u \in Seq(Order) : u = s \o q
    BY ConcatProperties
  <2>4. /\ Len(u) = Len(p)
        /\ \A i \in 1 .. Len(p) : u[i] = IF i = 1 THEN o ELSE p[i]
    <3>1. /\ Len(u) = Len(s) + Len(q)
          /\ \A i \in 1 .. Len(s) + Len(q) : u[i] = IF i <= Len(s) THEN s[i] ELSE q[i - Len(s)]
      BY <2>3, ConcatProperties
    <3>2. Len(u) = Len(p)
      BY <1>3, <1>6, <2>2, <3>1
    <3>3. ASSUME NEW i \in 1 .. Len(p), i # 1 PROVE u[i] = p[i]
      <4>1. i - 1 \in 1 .. Len(q) /\ (i - 1) + 1 = i /\ ~ (i <= Len(s))
        BY <1>3, <1>6, <2>2, <3>3
      <4>2. u[i] = q[i - 1]
        BY <2>2, <3>1, <3>2, <4>1
      <4>3. QED
        BY <1>6, <4>1, <4>2
    <3>4. u[1] = o
      BY <1>3, <2>2, <3>1, <3>2
    <3>5. QED
      BY <3>2, <3>3, <3>4
  <2>5. c.queue[level] = u
    BY <1>11, <2>1, <2>2, <2>3
  <2>6. ASSUME NEW slot \in Slots, NEW i \in Nat, At(c, slot, i, x)
        PROVE  /\ At(b, slot, IF slot = level THEN i + 0 ELSE i, x)
               /\ c.queue[slot][i].remaining <= t
    <3>1. CASE slot = level
      <4>1. i \in 1 .. Len(p) /\ u[i].id = x
        BY <2>4, <2>5, <2>6, <3>1 DEF At
      <4>2. At(b, slot, i, x)
        BY <1>2, <2>1, <2>4, <3>1, <4>1 DEF At
      <4>3. u[i].remaining <= t
        <5>1. CASE i = 1
          <6>1. u[i] = o /\ m.id = x
            BY <2>1, <2>4, <4>1, <5>1
          <6>2. m.remaining <= r /\ t = r - size
            BY <1>4, <1>8, <6>1
          <6>3. u[i].remaining = m.remaining - size
            BY <2>1, <6>1
          <6>4. QED
            BY <1>2, <6>2, <6>3
        <5>2. CASE i # 1
          <6>1. u[i] = p[i] /\ m.id # x
            BY <1>4, <2>4, <4>1, <4>2, <5>2
          <6>2. QED
            BY <1>7, <1>8, <3>1, <4>2, <6>1
        <5>3. QED
          BY <5>1, <5>2
      <4>4. QED
        BY <2>5, <3>1, <4>2, <4>3
    <3>2. CASE slot # level
      <4>1. At(b, slot, i, x)
        BY <1>9, <2>6, <3>2 DEF At, Filled
      <4>2. m.id # x
        BY <1>4, <3>2, <4>1
      <4>3. QED
        BY <1>7, <1>8, <1>9, <3>2, <4>1, <4>2 DEF Filled
    <3>3. QED
      BY <3>1, <3>2
  <2>7. Stake(c, x, t)
    <3>1. PICK h \in Nat : h = 0
      OBVIOUS
    <3>2. Moved(b, c, x, level, h, t)
      BY <2>6, <3>1 DEF Moved
    <3>3. QED
      BY <3>2, StakeMoved
  <2>8. QED
    BY <1>1, <1>2, <1>4, <1>8, <2>7
<1>12. \/ m.remaining = size /\ c.queue[level] = q
       \/ c.queue[level] = <<[m EXCEPT !.remaining = m.remaining - size]>> \o q
  BY <1>2, <1>5, <1>9 DEF Filled
<1>13. QED
  BY <1>10, <1>11, <1>12

\* A residual goes to the back of its level: others keep their places.
LEMMA StakeAfterInsert ==
  ASSUME NEW b, GoodBook(b), NEW o \in Order, NEW x \in Ids, NEW r \in Nat, Stake(b, x, r),
         o.id = x => r = 0
  PROVE  Stake(Insert(b, o), x, IF o.id = x THEN o.remaining ELSE r)
<1>1. PICK c : c = Insert(b, o)
  OBVIOUS
<1>2. PICK level \in Slots : level = SlotOf(o)
  BY DEF SlotOf, Order, Slots
<1>3. PICK p \in Seq(Order) : p = b.queue[level]
  BY QueueType
<1>4. PICK q \in Seq(Order) : q = Append(p, o)
  <2>1. Append(p, o) \in Seq(Order)
    OBVIOUS
  <2>2. QED
    BY <2>1
<1>5. /\ Len(p) \in Nat /\ Len(q) = Len(p) + 1 /\ q[Len(p) + 1] = o
      /\ \A i \in 1 .. Len(p) : q[i] = p[i]
  BY <1>4
<1>6. b.queue \in [Slots -> Seq(Order)]
  BY DEF GoodBook, Book
<1>7. c.queue = [b.queue EXCEPT ![level] = q]
  BY <1>1, <1>2, <1>3, <1>4 DEF Insert, WithQueue, WithEntry
<1>8. ASSUME NEW slot \in Slots, NEW i \in Nat, At(c, slot, i, x)
      PROVE  \/ At(b, slot, i, x) /\ c.queue[slot][i] = b.queue[slot][i]
             \/ slot = level /\ i = Len(p) + 1 /\ o.id = x /\ c.queue[slot][i] = o
  <2>1. CASE slot = level
    <3>1. c.queue[slot] = q
      BY <1>6, <1>7, <2>1
    <3>2. i \in 1 .. Len(p) \/ i = Len(p) + 1
      BY <1>5, <1>8, <3>1 DEF At
    <3>3. QED
      BY <1>3, <1>5, <1>8, <2>1, <3>1, <3>2 DEF At
  <2>2. CASE slot # level
    BY <1>6, <1>7, <1>8, <2>2 DEF At
  <2>3. QED
    BY <2>1, <2>2
<1>9. CASE o.id = x
  <2>1. \A slot \in Slots, i \in Nat : ~ At(b, slot, i, x)
    BY <1>9, StakeNone
  <2>2. \A slot \in Slots, i \in Nat : At(c, slot, i, x) =>
          slot = level /\ i = Len(p) + 1 /\ c.queue[slot][i] = o
    BY <1>8, <2>1
  <2>3. o.remaining \in Nat
    BY DEF Order
  <2>4. Stake(c, x, o.remaining)
    <3>1. SUFFICES ASSUME NEW slot \in Slots, NEW i \in Nat, At(c, slot, i, x)
                   PROVE  /\ c.queue[slot][i].remaining <= o.remaining
                          /\ \A other \in Slots, j \in Nat :
                               At(c, other, j, x) => other = slot /\ j = i
      BY DEF Stake
    <3>2. QED
      BY <2>2, <2>3, <3>1
  <2>5. QED
    BY <1>1, <1>9, <2>4
<1>10. CASE o.id # x
  <2>1. \A slot \in Slots, i \in Nat : At(c, slot, i, x) =>
          At(b, slot, i, x) /\ c.queue[slot][i] = b.queue[slot][i]
    BY <1>8, <1>10
  <2>2. Stake(c, x, r)
    BY <2>1 DEF Stake
  <2>3. QED
    BY <1>1, <1>10, <2>2
<1>11. QED
  BY <1>9, <1>10

-----------------------------------------------------------------------------
\* What has been filled of x since a, and what rests of it, is within `total`.
Within(b, seq, x, a, total) ==
  \E c, r \in Nat : Stake(b, x, r) /\ Fits(seq, x, a, c) /\ c + r <= total

\* While x itself is matched, what it still wants takes the place of what rests.
WalkWithin(w, intent, x, a, total) ==
  \E c, r \in Nat :
    /\ Stake(w.book, x, r) /\ Fits(w.fills, x, a, c)
    /\ IF intent.id = x THEN r = 0 /\ c + w.remaining <= total ELSE c + r <= total

LEMMA WalkStepWithin ==
  ASSUME NEW intent \in Intent, NEW w \in Walks, NEW x \in Ids, NEW a \in Nat, NEW total \in Nat,
         WalkWithin(w, intent, x, a, total)
  PROVE  WalkWithin(WalkStep(intent, w), intent, x, a, total)
<1>1. CASE ~ CanFill(w.book, intent, w.remaining)
  BY <1>1 DEF WalkStep
<1>2. CASE CanFill(w.book, intent, w.remaining)
  <2>1. PICK b \in Book : b = w.book /\ GoodBook(b)
    BY DEF Walks
  <2>2. PICK remaining \in Nat : remaining = w.remaining
    BY DEF Walks
  <2>3. PICK slot \in Slots : slot = BestSlot(b, intent)
    BY <1>2, <2>1, <2>2, BestMakerGood
  <2>4. PICK maker \in Order : maker = BestMaker(b, intent)
    BY <1>2, <2>1, <2>2, BestMakerGood
  <2>5. PICK size \in Nat : size = FillSize(maker, remaining)
    BY <1>2, <2>1, <2>2, <2>4, BestMakerGood
  <2>6. /\ b.queue[slot] # <<>> /\ maker = Head(b.queue[slot])
        /\ size > 0 /\ size <= maker.remaining /\ size <= remaining
    BY <1>2, <2>1, <2>2, <2>3, <2>4, <2>5, BestMakerGood
  <2>7. PICK p \in Seq(Order) : p = b.queue[slot]
    BY <2>1, QueueType
  <2>8. PICK d : d = BookAfterFill(b, slot, maker, size)
    OBVIOUS
  <2>9. PICK fill \in Fill : /\ fill = MakeFill(intent, maker, size)
                             /\ fill.maker = maker.id /\ fill.taker = intent.id
                             /\ fill.size = size
    <3>1. MakeFill(intent, maker, size) \in Fill
      BY DEF MakeFill, Fill, Order, Intent
    <3>2. QED
      BY <3>1 DEF MakeFill
  <2>10. PICK seq \in Seq(Fill) : seq = w.fills
    BY DEF Walks
  <2>11. PICK v : /\ v = WalkStep(intent, w) /\ v.book = d /\ v.remaining = remaining - size
                  /\ v.fills = Append(seq, fill)
    <3>1. PICK left, longer : left = remaining - size /\ longer = Append(seq, fill)
      OBVIOUS
    <3>2. PICK v : v = [book |-> d, remaining |-> left, fills |-> longer]
      OBVIOUS
    <3>3. v = WalkStep(intent, w)
      BY <1>2, <2>1, <2>2, <2>3, <2>4, <2>5, <2>8, <2>9, <2>10, <3>1, <3>2 DEF WalkStep
    <3>4. v.book = d /\ v.remaining = left /\ v.fills = longer
      BY <3>2
    <3>5. QED
      BY <3>1, <3>3, <3>4
  <2>12. PICK c \in Nat, r \in Nat :
           /\ Stake(b, x, r) /\ Fits(seq, x, a, c)
           /\ IF intent.id = x THEN r = 0 /\ c + remaining <= total ELSE c + r <= total
    BY <2>1, <2>2, <2>10 DEF WalkWithin
  <2>13. PICK left : left = (IF maker.id = x THEN r - size ELSE r)
                     /\ (maker.id = x => size <= r) /\ Stake(d, x, left)
    <3>1. /\ Head(p).id = x => size <= r
          /\ Stake(BookAfterFill(b, slot, Head(p), size), x,
                   IF Head(p).id = x THEN r - size ELSE r)
      BY <2>1, <2>6, <2>7, <2>12, StakeAfterFill
    <3>2. QED
      BY <2>6, <2>7, <2>8, <3>1
  <2>14. left \in Nat
    BY <2>13
  <2>15. PICK more \in Nat : /\ more = Part(fill, x)
                             /\ more = (IF maker.id = x THEN size ELSE 0)
                                       + (IF intent.id = x THEN size ELSE 0)
    <3>1. Part(fill, x) = (IF maker.id = x THEN size ELSE 0) + (IF intent.id = x THEN size ELSE 0)
      BY <2>9 DEF Part
    <3>2. QED
      BY <3>1, PartIs
  <2>16. Fits(Append(seq, fill), x, a, c + more)
    BY <2>12, <2>15, FitsAppend
  <2>17. IF intent.id = x THEN left = 0 /\ (c + more) + (remaining - size) <= total
                          ELSE (c + more) + left <= total
    <3>1. CASE intent.id = x
      <4>1. r = 0 /\ maker.id # x
        BY <2>6, <2>12, <2>13, <3>1
      <4>2. more = size /\ left = 0
        BY <2>13, <2>15, <3>1, <4>1
      <4>3. QED
        BY <2>6, <2>12, <3>1, <4>2
    <3>2. CASE intent.id # x
      <4>1. more + left = r
        BY <2>13, <2>15, <3>2
      <4>2. c + r <= total
        BY <2>12, <3>2
      <4>3. QED
        BY <2>14, <3>2, <4>1, <4>2
    <3>3. QED
      BY <3>1, <3>2
  <2>18. c + more \in Nat
    OBVIOUS
  <2>19. WalkWithin(v, intent, x, a, total)
    BY <2>11, <2>13, <2>14, <2>16, <2>17, <2>18 DEF WalkWithin
  <2>20. QED
    BY <2>11, <2>19
<1>3. QED
  BY <1>1, <1>2

LEMMA WalksWithin ==
  ASSUME NEW b, GoodBook(b), NEW intent \in Intent, NEW x \in Ids, NEW a \in Nat,
         NEW total \in Nat, WalkWithin(WalkStart(b, intent), intent, x, a, total)
  PROVE  \A n \in Nat : WalkWithin(WalkOf(b, intent)[n], intent, x, a, total)
<1>1. PICK walk : /\ walk = WalkOf(b, intent) /\ walk[0] = WalkStart(b, intent)
                  /\ \A n \in Nat : walk[n + 1] = WalkStep(intent, walk[n])
  BY WalkIs
<1>2. \A n \in Nat : walk[n] \in Walks
  BY <1>1, WalkGood
<1> DEFINE S == {n \in Nat : WalkWithin(walk[n], intent, x, a, total)}
<1>3. 0 \in S
  BY <1>1
<1>4. \A n \in S : n + 1 \in S
  <2>1. TAKE n \in S
  <2>2. WalkWithin(WalkStep(intent, walk[n]), intent, x, a, total)
    BY <1>2, WalkStepWithin
  <2>3. QED
    BY <1>1, <2>2
<1>5. S \subseteq Nat
  OBVIOUS
<1>6. \A n \in Nat : n \in S
  <2> HIDE DEF S
  <2>1. QED
    BY <1>3, <1>4, <1>5, Inductive
<1>7. QED
  BY <1>1, <1>6

\* match_intent of another order keeps x within what it was; of x itself, which
\* must not rest yet, within what it asks for.
LEMMA MatchIntentWithin ==
  ASSUME NEW b, GoodBook(b), NEW intent \in Intent, NEW t, NEW x \in Ids,
         NEW a \in Nat, NEW r \in Nat, NEW total \in Nat, Stake(b, x, r),
         IF intent.id = x THEN r = 0 /\ a + intent.magnitude <= total ELSE a + r <= total
  PROVE  LET m == MatchIntent(b, intent, t) IN Within(m.book, m.fills, x, a, total)
<1>1. intent.magnitude \in Nat
  BY DEF Intent
<1>2. Fits(<<>>, x, a, a)
  BY FitsEmpty
<1>3. CASE ~ Admitted(b, intent, t)
  <2>1. a + r <= total
    BY <1>1
  <2>2. Within(b, <<>>, x, a, total)
    BY <1>2, <2>1 DEF Within
  <2>3. QED
    BY <1>3, <2>2, MatchIntentIs
<1>4. CASE Admitted(b, intent, t)
  <2>1. PICK end \in Walks : end = WalkOf(b, intent)[intent.magnitude]
    BY <1>1, WalkGood
  <2>2. WalkWithin(WalkStart(b, intent), intent, x, a, total)
    BY <1>2 DEF WalkWithin, WalkStart
  <2>3. WalkWithin(end, intent, x, a, total)
    BY <1>1, <2>1, <2>2, WalksWithin
  <2>4. PICK c \in Nat, left \in Nat :
          /\ Stake(end.book, x, left) /\ Fits(end.fills, x, a, c)
          /\ IF intent.id = x THEN left = 0 /\ c + end.remaining <= total ELSE c + left <= total
    BY <2>3 DEF WalkWithin
  <2>5. end.remaining \in Nat /\ GoodBook(end.book)
    BY DEF Walks
  <2>6. PICK any \in BOOLEAN : any = (end.fills # <<>>)
    OBVIOUS
  <2>7. Within(BookAfterResidual(end.book, intent, end.remaining, any), end.fills, x, a, total)
    <3>1. CASE ~ Rests(intent, end.remaining, any)
      <4>1. c + left <= total
        BY <2>4, <2>5
      <4>2. QED
        BY <2>4, <3>1, <4>1 DEF BookAfterResidual, Within
    <3>2. CASE Rests(intent, end.remaining, any)
      <4>1. PICK o \in Order : /\ o = Residual(intent, end.remaining)
                               /\ o.id = intent.id /\ o.remaining = end.remaining
        <5>1. Residual(intent, end.remaining) \in Order
          BY <2>5 DEF Residual, Order, Intent
        <5>2. QED
          BY <5>1 DEF Residual
      <4>2. PICK rest \in Nat : rest = IF o.id = x THEN o.remaining ELSE left
        BY <2>5, <4>1
      <4>3. Stake(Insert(end.book, o), x, rest)
        BY <2>4, <2>5, <4>1, <4>2, StakeAfterInsert
      <4>4. c + rest <= total
        BY <2>4, <4>1, <4>2
      <4>5. Within(Insert(end.book, o), end.fills, x, a, total)
        BY <2>4, <4>3, <4>4 DEF Within
      <4>6. QED
        BY <3>2, <4>1, <4>5 DEF BookAfterResidual
    <3>3. QED
      BY <3>1, <3>2
  <2>8. LET m == MatchIntent(b, intent, t)
        IN /\ m.book = BookAfterResidual(end.book, intent, end.remaining, any)
           /\ m.fills = end.fills
    BY <1>4, <2>1, <2>6, MatchIntentIs
  <2>9. QED
    BY <2>7, <2>8
<1>5. QED
  BY <1>3, <1>4

\* What a pass allows x: its own size once x has been offered.
Cap(seq, k, x, total) ==
  IF \E i \in 1 .. k : seq[i] = x THEN OrderOf[x].magnitude ELSE total

LEMMA AccStepWithin ==
  ASSUME RowsFit, NEW acc \in Accs, NEW id \in Ids, db[id] # NoRow, NEW x \in Ids,
         NEW a \in Nat, NEW total \in Nat, Within(acc.book, acc.fills, x, a, total),
         id = x => total = 0
  PROVE  LET next == AccStep(acc, id)
         IN Within(next.book, next.fills, x, a,
                   IF id = x THEN OrderOf[x].magnitude ELSE total)
<1>1. PICK intent \in Intent : /\ intent = Offered(id) /\ intent.id = id
                               /\ intent.magnitude <= OrderOf[id].magnitude
  <2>1. Offered(id) \in Intent
    BY OfferedType
  <2>2. OrderOf[id] \in Intent /\ OrderOf[id].id = id
    BY OrdersAreIntents
  <2>3. db[id].filled \in Nat /\ OrderOf[id].magnitude \in Nat
    BY <2>2 DEF RowsFit, Row, Intent
  <2>4. Offered(id).id = id /\ Offered(id).magnitude = OrderOf[id].magnitude - db[id].filled
    BY <2>2 DEF Offered, Intent
  <2>5. QED
    BY <2>1, <2>3, <2>4
<1>2. PICK m : m = MatchIntent(acc.book, intent, now)
  OBVIOUS
<1>3. GoodBook(acc.book) /\ GoodFills(m.fills)
  BY <1>2, MatchIntentGood DEF Accs
<1>4. PICK p \in Seq(Fill) : p = acc.fills
  BY DEF Accs
<1>5. PICK q \in Seq(Fill) : q = m.fills
  BY <1>3 DEF GoodFills
<1>6. PICK c \in Nat, r \in Nat : Stake(acc.book, x, r) /\ Fits(p, x, a, c) /\ c + r <= total
  BY <1>4 DEF Within
<1>7. PICK cap \in Nat : cap = IF id = x THEN OrderOf[x].magnitude ELSE total
  BY OrdersAreIntents DEF Intent
<1>8. IF intent.id = x THEN r = 0 /\ c + intent.magnitude <= cap ELSE c + r <= cap
  <2>1. CASE id = x
    <3>1. c = 0 /\ r = 0
      BY <1>6, <2>1
    <3>2. intent.magnitude \in Nat
      BY DEF Intent
    <3>3. QED
      BY <1>1, <1>7, <2>1, <3>1, <3>2
  <2>2. CASE id # x
    BY <1>1, <1>6, <1>7, <2>2
  <2>3. QED
    BY <2>1, <2>2
<1>9. Within(m.book, q, x, c, cap)
  BY <1>2, <1>3, <1>5, <1>6, <1>8, MatchIntentWithin
<1>10. PICK d \in Nat, s \in Nat : Stake(m.book, x, s) /\ Fits(q, x, c, d) /\ d + s <= cap
  BY <1>9 DEF Within
<1>11. Fits(p \o q, x, a, d)
  BY <1>6, <1>10, FitsConcat
<1>12. Within(m.book, p \o q, x, a, cap)
  BY <1>10, <1>11 DEF Within
<1>13. AccStep(acc, id) = [book |-> m.book, fills |-> p \o q]
  BY <1>1, <1>2, <1>4, <1>5 DEF AccStep
<1>14. QED
  BY <1>7, <1>12, <1>13

LEMMA MatchAllWithin ==
  ASSUME RowsFit, GoodBook(book), NEW n \in Nat, NEW seq, DOMAIN seq = 1 .. n,
         \A i \in 1 .. n : seq[i] \in Ids /\ db[seq[i]] # NoRow,
         \A i, j \in 1 .. n : seq[i] = seq[j] => i = j,
         NEW x \in Ids, NEW a \in Nat, NEW total \in Nat, Within(book, <<>>, x, a, total),
         (\E i \in 1 .. n : seq[i] = x) => total = 0
  PROVE  Within(MatchAll(seq).book, MatchAll(seq).fills, x, a, Cap(seq, n, x, total))
<1>1. PICK iter : /\ iter = AccOf(seq) /\ iter[1 .. 0] = AccStart
                  /\ \A k \in Nat : k + 1 <= n => iter[1 .. k + 1] = AccStep(iter[1 .. k], seq[k + 1])
  BY AccIs
<1>2. \A k \in Nat : k <= n => iter[1 .. k] \in Accs
  BY <1>1, MatchAllGood
<1>3. \A k \in Nat : Cap(seq, k, x, total) \in Nat
  BY OrdersAreIntents DEF Cap, Intent
<1> DEFINE S == {k \in Nat : k <= n =>
                   Within(iter[1 .. k].book, iter[1 .. k].fills, x, a, Cap(seq, k, x, total))}
<1>4. 0 \in S
  <2>1. Cap(seq, 0, x, total) = total
    BY DEF Cap
  <2>2. QED
    BY <1>1, <2>1 DEF AccStart
<1>5. \A k \in S : k + 1 \in S
  <2>1. SUFFICES ASSUME NEW k \in Nat, k + 1 <= n,
                        k <= n => Within(iter[1 .. k].book, iter[1 .. k].fills, x, a,
                                         Cap(seq, k, x, total))
                 PROVE  Within(iter[1 .. k + 1].book, iter[1 .. k + 1].fills, x, a,
                               Cap(seq, k + 1, x, total))
    OBVIOUS
  <2>2. k <= n /\ k + 1 \in 1 .. n /\ \A i \in 1 .. k : i \in 1 .. n /\ i # k + 1
    BY <2>1
  <2>3. PICK id \in Ids : id = seq[k + 1] /\ db[id] # NoRow
    BY <2>2
  <2>4. PICK acc \in Accs : acc = iter[1 .. k]
    BY <1>2, <2>2
  <2>5. PICK cap \in Nat : cap = Cap(seq, k, x, total)
    BY <1>3
  <2>6. id = x => cap = 0
    BY <2>2, <2>3, <2>5 DEF Cap
  <2>7. Cap(seq, k + 1, x, total) = IF id = x THEN OrderOf[x].magnitude ELSE cap
    <3>1. (\E i \in 1 .. k + 1 : seq[i] = x) <=> (id = x \/ \E i \in 1 .. k : seq[i] = x)
      <4>1. \A i \in 1 .. k + 1 : i \in 1 .. k \/ i = k + 1
        OBVIOUS
      <4>2. \A i \in 1 .. k : i \in 1 .. k + 1
        OBVIOUS
      <4>3. k + 1 \in 1 .. k + 1
        OBVIOUS
      <4>4. QED
        BY <2>3, <4>1, <4>2, <4>3
    <3>2. QED
      BY <2>5, <3>1 DEF Cap
  <2>8. Within(acc.book, acc.fills, x, a, cap)
    BY <2>1, <2>2, <2>4, <2>5
  <2>9. PICK next : /\ next = AccStep(acc, id)
                    /\ Within(next.book, next.fills, x, a,
                              IF id = x THEN OrderOf[x].magnitude ELSE cap)
    BY <2>3, <2>6, <2>8, AccStepWithin
  <2>10. iter[1 .. k + 1] = next
    BY <1>1, <2>1, <2>3, <2>4, <2>9
  <2>11. QED
    BY <2>7, <2>9, <2>10
<1>6. S \subseteq Nat
  OBVIOUS
<1>7. n \in S
  <2> HIDE DEF S
  <2>1. QED
    BY <1>4, <1>5, <1>6, Inductive
<1>8. MatchAll(seq) = iter[1 .. n]
  BY <1>1, MatchAllIs
<1>9. QED
  BY <1>7, <1>8

-----------------------------------------------------------------------------
(***************************************************************************)
(* While nothing has crashed, an order that was submitted once: before its *)
(* row is put there is none and nothing was offered (Unsent); what the     *)
(* chain has, what the pass has yet to settle and what rests are together  *)
(* within its size, and nothing before it was offered (Budget).  Behind    *)
(* settleMatch, the chain already has the first fill (Afoot).              *)
(***************************************************************************)
Unsent(x) ==
  /\ submits[x] = 0 => calls[x].at = "Idle"
  /\ submits[x] = 0 \/ calls[x].at = "Received" => db[x] = NoRow /\ offers[x] = 0

Allowed(x) == IF offers[x] = 0 THEN 0 ELSE OrderOf[x].magnitude

Afoot(x) == IF stage = "Chain" THEN 0 ELSE Part(Head(fills), x)

Budget(x) ==
  \E a \in Nat : chain[x] <= a + Afoot(x) /\ Within(book, fills, x, a, Allowed(x))

Once == crashes = 0 => \A x \in Ids : submits[x] <= 1 => Unsent(x) /\ Budget(x)

LEMMA AllowedIs ==
  ASSUME IInv, NEW x \in Ids
  PROVE  /\ Allowed(x) \in Nat /\ Allowed(x) <= OrderOf[x].magnitude
         /\ OrderOf[x].magnitude \in Nat /\ chain[x] \in Nat
<1>1. OrderOf[x].magnitude \in Nat
  BY OrdersAreIntents DEF Intent
<1>2. chain[x] \in Nat
  BY DEF IInv, TypeOK
<1>3. QED
  BY <1>1, <1>2 DEF Allowed

\* The chain has no more than what the fills of the pass bring it to.
LEMMA ChainBelow ==
  ASSUME IInv, NEW x \in Ids, Budget(x)
  PROVE  \E c, r \in Nat : chain[x] <= c /\ Stake(book, x, r) /\ c + r <= Allowed(x)
<1>1. PICK a \in Nat : chain[x] <= a + Afoot(x) /\ Within(book, fills, x, a, Allowed(x))
  BY DEF Budget
<1>2. PICK c \in Nat, r \in Nat : Stake(book, x, r) /\ Fits(fills, x, a, c) /\ c + r <= Allowed(x)
  BY <1>1 DEF Within
<1>3. PICK p \in Seq(Fill) : p = fills
  BY DEF IInv, TypeOK
<1>4. chain[x] \in Nat
  BY AllowedIs
<1>5. chain[x] <= c
  <2>1. CASE stage = "Chain"
    <3>1. a <= c
      BY <1>2, <1>3, FitsBound
    <3>2. chain[x] <= a
      BY <1>1, <2>1 DEF Afoot
    <3>3. QED
      BY <1>4, <3>1, <3>2
  <2>2. CASE stage # "Chain"
    <3>1. p # <<>>
      BY <1>3, <2>2 DEF IInv, Idle
    <3>2. PICK more \in Nat : more = Part(Head(p), x)
      BY <1>3, <3>1, FirstFill, PartIs
    <3>3. PICK t \in Seq(Fill) : t = Tail(p)
      BY <3>1, HeadTailProperties
    <3>4. Fits(t, x, a + more, c)
      BY <1>2, <1>3, <3>1, <3>2, <3>3, FitsTail
    <3>5. a + more <= c
      <4>1. PICK low \in Nat : low = a + more
        OBVIOUS
      <4>2. QED
        BY <3>4, <4>1, FitsBound
    <3>6. chain[x] <= a + more
      BY <1>1, <1>3, <2>2, <3>2 DEF Afoot
    <3>7. QED
      BY <1>4, <3>5, <3>6
  <2>3. QED
    BY <2>1, <2>2
<1>6. QED
  BY <1>2, <1>5

\* A fill that is through, or given up, leaves the pass.
LEMMA DropBudget ==
  ASSUME IInv, NEW x \in Ids, Budget(x), fills # <<>>, DropFill,
         UNCHANGED <<book, offers>>, chain'[x] \in Nat,
         chain'[x] <= chain[x] + (IF stage = "Chain" THEN Part(Head(fills), x) ELSE 0)
  PROVE  Budget(x)'
<1>1. PICK a \in Nat : chain[x] <= a + Afoot(x) /\ Within(book, fills, x, a, Allowed(x))
  BY DEF Budget
<1>2. PICK c \in Nat, r \in Nat : Stake(book, x, r) /\ Fits(fills, x, a, c) /\ c + r <= Allowed(x)
  BY <1>1 DEF Within
<1>3. PICK p \in Seq(Fill) : p = fills /\ p # <<>>
  BY DEF IInv, TypeOK
<1>4. PICK more \in Nat : more = Part(Head(p), x)
  BY <1>3, FirstFill, PartIs
<1>5. PICK low \in Nat : low = a + more
  OBVIOUS
<1>6. Fits(Tail(p), x, low, c)
  BY <1>2, <1>3, <1>4, <1>5, FitsTail
<1>7. fills' = Tail(p) /\ stage' = "Chain"
  BY <1>3 DEF DropFill
<1>8. chain'[x] <= low
  <2>1. chain[x] \in Nat
    BY AllowedIs
  <2>2. CASE stage = "Chain"
    <3>1. chain[x] <= a /\ chain'[x] <= chain[x] + more
      BY <1>1, <1>3, <1>4, <2>2 DEF Afoot
    <3>2. QED
      BY <1>5, <2>1, <3>1
  <2>3. CASE stage # "Chain"
    <3>1. chain[x] <= a + more /\ chain'[x] <= chain[x]
      BY <1>1, <1>3, <1>4, <2>1, <2>3 DEF Afoot
    <3>2. QED
      BY <1>5, <2>1, <3>1
  <2>4. QED
    BY <2>2, <2>3
<1>9. Allowed(x)' = Allowed(x)
  BY DEF Allowed
<1>10. Within(book', fills', x, low, Allowed(x)')
  BY <1>2, <1>6, <1>7, <1>9 DEF Within
<1>11. chain'[x] <= low + Afoot(x)'
  BY <1>7, <1>8 DEF Afoot
<1>12. QED
  BY <1>10, <1>11 DEF Budget

LEMMA SameBudget ==
  ASSUME NEW x \in Ids, Budget(x), UNCHANGED <<chain, book, fills>>,
         (stage = "Chain") <=> (stage' = "Chain"), offers'[x] = offers[x]
  PROVE  Budget(x)'
<1>1. Afoot(x)' = Afoot(x) /\ Allowed(x)' = Allowed(x)
  BY DEF Afoot, Allowed
<1>2. QED
  BY <1>1 DEF Budget

LEMMA StillUnsent ==
  ASSUME NEW x \in Ids, Unsent(x), submits'[x] = submits[x],
         \/ calls'[x].at = calls[x].at
         \/ calls[x].at # "Idle" /\ calls'[x].at # "Received",
         db[x] = NoRow => db'[x] = NoRow,
         db[x] = NoRow => offers'[x] = offers[x]
  PROVE  Unsent(x)'
BY DEF Unsent

\* What a pass makes of an order's budget.
LEMMA TickBudget ==
  ASSUME IInv, NEW holder, Tick(holder), NEW x \in Ids, Budget(x)
  PROVE  Budget(x)'
<1>1. PICK seen \in SUBSET Ids : seen = Fresh \cap Translatable
  BY DEF Fresh
<1>2. PICK seq \in SetToSeqs(seen) :
        LET m == MatchAll(seq) IN book' = m.book /\ fills' = PairedFills(m.fills, seen)
  BY <1>1 DEF Tick
<1>3. PICK n \in Nat : DOMAIN seq = 1 .. n /\ seq \in [1 .. n -> seen]
                       /\ \A i, j \in 1 .. n : seq[i] = seq[j] => i = j
  <2>1. Cardinality(seen) \in Nat
    BY IdsAreFinite, FS_Subset, FS_CardinalityType
  <2>2. PICK n \in Nat : n = Cardinality(seen)
    BY <2>1
  <2>3. QED
    BY <2>2 DEF SetToSeqs
<1>4. \A id \in seen : \E i \in 1 .. n : seq[i] = id
  <2>1. IsFiniteSet(seen) /\ n = Cardinality(seen)
    <3>1. IsFiniteSet(seen)
      BY IdsAreFinite, FS_Subset
    <3>2. PICK k \in Nat : k = Cardinality(seen)
      BY <3>1, FS_CardinalityType
    <3>3. DOMAIN seq = 1 .. k
      BY <3>2 DEF SetToSeqs
    <3>4. n = k
      <4>1. Cardinality(1 .. n) = n /\ Cardinality(1 .. k) = k
        BY FS_Interval
      <4>2. QED
        BY <1>3, <3>3, <4>1
    <3>5. QED
      BY <3>1, <3>2, <3>4
  <2>2. seq \in Injection(1 .. n, seen)
    BY <1>3 DEF Injection, IsInjective
  <2>3. Cardinality(1 .. n) = Cardinality(seen)
    BY <2>1, FS_Interval
  <2>4. seq \in Surjection(1 .. n, seen)
    BY <2>1, <2>2, <2>3, FS_Injection
  <2>5. QED
    BY <2>4 DEF Surjection
<1>5. \A i \in 1 .. n : seq[i] \in Ids /\ db[seq[i]] # NoRow
  BY <1>1, <1>3, FreshIs
<1>6. RowsFit /\ GoodBook(book)
  BY RowIs DEF RowsFit, IInv
<1>7. fills = <<>> /\ stage = "Chain" /\ stage' = "Chain" /\ chain' = chain
  BY DEF IInv, Idle, Tick
<1>8. PICK m : m = MatchAll(seq)
  OBVIOUS
<1>9. PICK total \in Nat : total = Allowed(x)
  BY AllowedIs
<1>10. PICK a \in Nat : chain[x] <= a /\ Within(book, <<>>, x, a, total)
  <2>1. PICK a \in Nat : chain[x] <= a + Afoot(x) /\ Within(book, fills, x, a, Allowed(x))
    BY DEF Budget
  <2>2. chain[x] <= a
    BY <1>7, <2>1 DEF Afoot
  <2>3. QED
    BY <1>7, <1>9, <2>1, <2>2
<1>11. x \in seen => offers[x] = 0
  <2>1. SUFFICES ASSUME x \in seen PROVE offers[x] = 0
    OBVIOUS
  <2>2. db[x] # NoRow /\ db[x].status = "Pending" /\ db[x].created > lastSeen
    BY <1>1, <2>1, FreshIs
  <2>3. db[x].created \in Nat /\ lastSeen \in Nat /\ offers[x] \in Nat
    BY <2>2, RowIs, BoundsAreNat DEF IInv, TypeOK
  <2>4. QED
    BY <2>2, <2>3 DEF IInv, Offers
<1>12. (\E i \in 1 .. n : seq[i] = x) <=> x \in seen
  BY <1>3, <1>4
<1>13. (\E i \in 1 .. n : seq[i] = x) => total = 0
  BY <1>9, <1>11, <1>12 DEF Allowed
<1>14. Within(m.book, m.fills, x, a, Cap(seq, n, x, total))
  BY <1>3, <1>5, <1>6, <1>8, <1>10, <1>13, MatchAllWithin
<1>15. offers'[x] = IF x \in seen THEN offers[x] + 1 ELSE offers[x]
  BY <1>1 DEF Tick
<1>16. Allowed(x)' = Cap(seq, n, x, total)
  BY <1>9, <1>11, <1>12, <1>15 DEF Allowed, Cap
<1>17. PICK c \in Nat, r \in Nat :
         /\ Stake(m.book, x, r) /\ Fits(m.fills, x, a, c)
         /\ c + r <= Cap(seq, n, x, total)
  BY <1>14 DEF Within
<1>18. GoodFills(m.fills)
  BY <1>3, <1>5, <1>6, <1>8, MatchAllGood
<1>19. Fits(PairedFills(m.fills, seen), x, a, c)
  BY <1>17, <1>18, FitsPaired
<1>20. Within(book', fills', x, a, Allowed(x)')
  BY <1>2, <1>8, <1>16, <1>17, <1>19 DEF Within
<1>21. chain'[x] <= a + Afoot(x)'
  BY <1>7, <1>10 DEF Afoot
<1>22. QED
  BY <1>20, <1>21 DEF Budget

LEMMA SettleMatchBudget ==
  ASSUME IInv, SettleMatch, NEW x \in Ids, Budget(x)
  PROVE  Budget(x)'
<1>1. fills # <<>> /\ stage = "Chain" /\ UNCHANGED <<book, offers>>
  BY DEF SettleMatch, Settling, history
<1>2. PICK p \in Seq(Fill) : p = fills /\ p # <<>>
  BY <1>1 DEF IInv, TypeOK
<1>3. PICK fill \in Fill : fill = Head(p)
  BY <1>1, <1>2, FirstFill
<1>4. PICK more \in Nat : more = Part(fill, x)
  BY PartIs
<1>5. chain[x] \in Nat
  BY AllowedIs
<1>6. chain'[x] = chain[x] + more
  <2>1. chain'[x] = chain[x] + (IF x = fill.maker THEN fill.size ELSE 0)
                             + (IF x = fill.taker THEN fill.size ELSE 0)
    BY <1>2, <1>3 DEF SettleMatch, SettledWith
  <2>2. fill.size \in Nat
    BY DEF Fill
  <2>3. QED
    BY <1>4, <1>5, <2>1, <2>2 DEF Part
<1>7. CASE DropFill
  BY <1>1, <1>2, <1>3, <1>4, <1>5, <1>6, <1>7, DropBudget
<1>8. CASE stage' = "Maker" /\ UNCHANGED fills
  <2>1. PICK a \in Nat : chain[x] <= a + Afoot(x) /\ Within(book, fills, x, a, Allowed(x))
    BY DEF Budget
  <2>2. chain[x] <= a
    BY <1>1, <2>1 DEF Afoot
  <2>3. Afoot(x)' = more
    BY <1>2, <1>3, <1>4, <1>8 DEF Afoot
  <2>4. chain'[x] <= a + Afoot(x)'
    BY <1>5, <1>6, <2>2, <2>3
  <2>5. Within(book', fills', x, a, Allowed(x)')
    BY <1>1, <1>8, <2>1 DEF Allowed
  <2>6. QED
    BY <2>4, <2>5 DEF Budget
<1>9. QED
  BY <1>7, <1>8 DEF SettleMatch

LEMMA RecordBudget ==
  ASSUME IInv, RecordMaker \/ RecordTaker \/ RecordError \/ SettleFails,
         NEW x \in Ids, Budget(x)
  PROVE  Budget(x)'
<1>1. fills # <<>> /\ UNCHANGED <<chain, book, offers>>
  BY DEF RecordMaker, RecordTaker, RecordError, SettleFails, Settling, history
<1>2. CASE DropFill
  <2>1. PICK p \in Seq(Fill) : p = fills /\ p # <<>>
    BY <1>1 DEF IInv, TypeOK
  <2>2. Part(Head(fills), x) \in Nat
    BY <1>1, FirstFill, PartIs
  <2>3. chain[x] \in Nat /\ chain'[x] = chain[x]
    BY <1>1, AllowedIs
  <2>4. chain'[x] <= chain[x] + (IF stage = "Chain" THEN Part(Head(fills), x) ELSE 0)
    BY <2>2, <2>3
  <2>5. QED
    BY <1>1, <1>2, <2>3, <2>4, DropBudget
<1>3. CASE UNCHANGED fills /\ stage = "Maker" /\ stage' = "Taker"
  BY <1>1, <1>3, SameBudget
<1>4. DropFill \/ (UNCHANGED fills /\ stage = "Maker" /\ stage' = "Taker")
  BY DEF RecordMaker, RecordTaker, RecordError, SettleFails
<1>5. QED
  BY <1>2, <1>3, <1>4

LEMMA SettlementUnsent ==
  ASSUME IInv, Settlement, NEW x \in Ids, Unsent(x)
  PROVE  Unsent(x)'
<1>1. UNCHANGED <<calls, submits, offers>>
  BY DEF Settlement, SettleMatch, SettleFails, RecordMaker, RecordTaker, RecordError, history
<1>2. db[x] = NoRow => db'[x] = NoRow
  <2>1. ASSUME NEW id, NEW size, CanRecord(id, size), RecordFill(id, size), db[x] = NoRow
        PROVE  db'[x] = NoRow
    <3>1. x # id
      BY <2>1 DEF CanRecord
    <3>2. db \in [Ids -> Row \cup {NoRow}]
      BY DEF IInv, TypeOK
    <3>3. db'[x] = db[x]
      BY <2>1, <3>1, <3>2 DEF RecordFill
    <3>4. QED
      BY <2>1, <3>3
  <2>2. UNCHANGED db \/ \E id, size : CanRecord(id, size) /\ RecordFill(id, size)
    BY DEF Settlement, SettleMatch, SettleFails, RecordMaker, RecordTaker, RecordError
  <2>3. QED
    BY <2>1, <2>2
<1>3. QED
  BY <1>1, <1>2, StillUnsent

LEMMA TickUnsent ==
  ASSUME IInv, NEW holder, Tick(holder), NEW x \in Ids, Unsent(x),
         \/ calls'[x].at = calls[x].at
         \/ calls[x].at # "Idle" /\ calls'[x].at # "Received"
  PROVE  Unsent(x)'
<1>1. db[x] = NoRow => db'[x] = NoRow
  BY TickRows
<1>2. db[x] = NoRow => offers'[x] = offers[x]
  BY FreshIs DEF Tick
<1>3. submits'[x] = submits[x]
  BY DEF Tick
<1>4. QED
  BY <1>1, <1>2, <1>3, StillUnsent

\* Among the submissions only the one that runs its pass holds the lock.
HolderMatches == \A id \in Ids : lock = id => calls[id].at = "Matching"

LEMMA NextHolder ==
  ASSUME IInv, HolderMatches, [Next]_vars
  PROVE  HolderMatches'
<1>1. SUFFICES ASSUME NEW x \in Ids, lock' = x PROVE calls'[x].at = "Matching"
  BY DEF HolderMatches
<1>2. x # Free /\ x # Loop /\ (lock = x => calls[x].at = "Matching")
  BY HoldersDiffer DEF HolderMatches
<1>3. calls \in [Ids -> [at : Places, created : 1 .. MaxNow]]
  BY DEF IInv, TypeOK
<1>4. CASE UNCHANGED <<lock, calls>>
  BY <1>1, <1>2, <1>4
<1>5. ~ (LoopTick \/ LoopEnds \/ Crash)
  BY <1>1, <1>2 DEF LoopTick, LoopEnds, Crash, Tick
<1>6. ASSUME NEW id \in Ids, Submission(id) PROVE calls'[x].at = "Matching"
  <2>1. CASE Receive(id) \/ Put(id) \/ Reply(id)
    <3>1. lock = x /\ calls[id].at # "Matching"
      BY <1>1, <2>1 DEF Receive, Put, Reply, memory
    <3>2. calls'[x] = calls[x]
      BY <1>2, <1>3, <2>1, <3>1 DEF Receive, Put, Reply
    <3>3. QED
      BY <1>2, <3>1, <3>2
  <2>2. CASE SubmitTick(id)
    <3>1. x = id /\ calls' = [calls EXCEPT ![id].at = "Matching"]
      BY <1>1, <2>2 DEF SubmitTick, Tick
    <3>2. QED
      BY <1>3, <3>1
  <2>3. CASE SubmitEnds(id)
    BY <1>1, <1>2, <2>3 DEF SubmitEnds
  <2>4. CASE Abandon(id)
    <3>1. lock = x /\ lock # id
      BY <1>1, <1>2, <2>4 DEF Abandon
    <3>2. calls'[x] = calls[x]
      BY <1>3, <2>4, <3>1 DEF Abandon
    <3>3. QED
      BY <1>2, <3>1, <3>2
  <2>5. QED
    BY <1>6, <2>1, <2>2, <2>3, <2>4 DEF Submission
<1>7. Settlement \/ TimePasses \/ (\E id \in Ids : CancelOrder(id)) \/ UNCHANGED vars
      => UNCHANGED <<lock, calls>>
  BY DEF Settlement, SettleMatch, SettleFails, RecordMaker, RecordTaker, RecordError,
         TimePasses, CancelOrder, vars, memory
<1>8. QED
  BY <1>4, <1>5, <1>6, <1>7 DEF Next

LEMMA SubmissionOnce ==
  ASSUME IInv, HolderMatches, NEW id \in Ids, Submission(id),
         NEW x \in Ids, submits'[x] <= 1,
         submits[x] <= 1 => Unsent(x) /\ Budget(x)
  PROVE  Unsent(x)' /\ Budget(x)'
<1>1. submits[x] \in Nat /\ calls[x].at \in Places
      /\ calls \in [Ids -> [at : Places, created : 1 .. MaxNow]]
      /\ offers \in [Ids -> Nat]
  BY DEF IInv, TypeOK
<1>2. CASE Receive(id)
  <2>1. submits' = [submits EXCEPT ![id] = submits[id] + 1] /\ submits \in [Ids -> Nat]
    BY <1>2 DEF Receive, IInv, TypeOK
  <2>2. submits[x] <= 1 /\ (x = id => submits[x] = 0)
    <3>1. CASE x = id
      <4>1. submits'[x] = submits[x] + 1 /\ submits'[x] <= 1
        BY <2>1, <3>1
      <4>2. QED
        BY <1>1, <4>1
    <3>2. CASE x # id
      <4>1. submits'[x] = submits[x] /\ submits'[x] <= 1
        BY <2>1, <3>2
      <4>2. QED
        BY <3>2, <4>1
    <3>3. QED
      BY <3>1, <3>2
  <2>3. Unsent(x) /\ Budget(x)
    BY <2>2
  <2>4. UNCHANGED <<db, chain, book, fills, stage, offers>>
    BY <1>2 DEF Receive, memory
  <2>5. Budget(x)'
    BY <2>3, <2>4, SameBudget
  <2>6. CASE x = id
    <3>1. submits'[x] = 1 /\ db[x] = NoRow /\ offers[x] = 0
      BY <2>1, <2>2, <2>3, <2>6 DEF Unsent
    <3>2. Unsent(x)'
      BY <2>4, <3>1 DEF Unsent
    <3>3. QED
      BY <2>5, <3>2
  <2>7. CASE x # id
    <3>1. submits'[x] = submits[x] /\ calls'[x] = calls[x]
      BY <1>1, <1>2, <2>1, <2>7 DEF Receive
    <3>2. QED
      BY <2>3, <2>4, <2>5, <3>1, StillUnsent
  <2>8. QED
    BY <2>6, <2>7
<1>3. CASE ~ Receive(id)
  <2>1. submits' = submits
    BY <1>3 DEF Submission, Put, SubmitTick, SubmitEnds, Reply, Abandon, Tick, history
  <2>2. Unsent(x) /\ Budget(x)
    BY <2>1
  <2>3. CASE Put(id)
    <3>1. UNCHANGED <<chain, book, fills, stage>>
      BY <2>3 DEF Put, memory
    <3>2. offers'[x] = offers[x]
      <4>1. calls[id].at = "Received" /\ offers' = [offers EXCEPT ![id] = 0]
        BY <2>3 DEF Put
      <4>2. x = id => offers[x] = 0
        BY <2>2, <4>1 DEF Unsent
      <4>3. QED
        BY <1>1, <4>1, <4>2
    <3>3. Budget(x)'
      BY <2>2, <3>1, <3>2, SameBudget
    <3>4. calls' = [calls EXCEPT ![id] = [at |-> "Stored", created |-> 1]]
          /\ calls[id].at = "Received"
      BY <2>3 DEF Put
    <3>5. CASE x = id
      <4>1. calls'[x].at = "Stored" /\ submits'[x] # 0
        BY <1>1, <2>1, <2>2, <3>4, <3>5 DEF Unsent
      <4>2. Unsent(x)'
        BY <4>1 DEF Unsent
      <4>3. QED
        BY <3>3, <4>2
    <3>6. CASE x # id
      <4>1. calls'[x] = calls[x] /\ (db[x] = NoRow => db'[x] = NoRow)
        BY <1>1, <2>3, <3>4, <3>6 DEF Put
      <4>2. QED
        BY <2>1, <2>2, <3>2, <3>3, <4>1, StillUnsent
    <3>7. QED
      BY <3>5, <3>6
  <2>4. CASE SubmitTick(id)
    <3>1. \/ calls'[x].at = calls[x].at
          \/ calls[x].at # "Idle" /\ calls'[x].at # "Received"
      <4>1. calls' = [calls EXCEPT ![id].at = "Matching"] /\ calls[id].at = "Stored"
        BY <2>4 DEF SubmitTick
      <4>2. CASE x = id
        BY <1>1, <4>1, <4>2
      <4>3. CASE x # id
        BY <1>1, <4>1, <4>3
      <4>4. QED
        BY <4>2, <4>3
    <3>2. QED
      BY <2>2, <2>4, <3>1, TickBudget, TickUnsent DEF SubmitTick
  <2>5. CASE SubmitEnds(id)
    <3>1. UNCHANGED <<db, chain, book, fills, stage, offers>>
      BY <2>5 DEF SubmitEnds, history
    <3>2. calls' = [calls EXCEPT ![id].at = "Matched"] /\ calls[id].at = "Matching"
      BY <2>5 DEF SubmitEnds, HolderMatches
    <3>3. \/ calls'[x].at = calls[x].at
          \/ calls[x].at # "Idle" /\ calls'[x].at # "Received"
      BY <1>1, <3>2
    <3>4. QED
      BY <2>1, <2>2, <3>1, <3>3, SameBudget, StillUnsent
  <2>6. CASE Reply(id)
    <3>1. UNCHANGED <<db, chain, book, fills, stage, offers>>
      BY <2>6 DEF Reply, memory, history
    <3>2. calls' = [calls EXCEPT ![id].at = "Idle"] /\ calls[id].at = "Matched"
      BY <2>6 DEF Reply
    <3>3. \/ calls'[x].at = calls[x].at
          \/ calls[x].at # "Idle" /\ calls'[x].at # "Received"
      BY <1>1, <3>2
    <3>4. QED
      BY <2>1, <2>2, <3>1, <3>3, SameBudget, StillUnsent
  <2>7. CASE Abandon(id)
    <3>1. UNCHANGED <<db, chain, book, offers>>
      BY <2>7 DEF Abandon, history
    <3>2. calls' = [calls EXCEPT ![id] = [at |-> "Idle", created |-> 1]] /\ calls[id].at # "Idle"
      BY <2>7 DEF Abandon
    <3>3. \/ calls'[x].at = calls[x].at
          \/ calls[x].at # "Idle" /\ calls'[x].at # "Received"
      BY <1>1, <3>2
    <3>4. Budget(x)'
      <4>1. CASE UNCHANGED <<fills, stage>>
        BY <2>2, <3>1, <4>1, SameBudget
      <4>2. CASE fills' = <<>> /\ stage' = "Chain"
        <5>1. PICK c \in Nat, r \in Nat :
                chain[x] <= c /\ Stake(book, x, r) /\ c + r <= Allowed(x)
          BY <2>2, ChainBelow
        <5>2. Fits(<<>>, x, c, c)
          BY FitsEmpty
        <5>3. Within(book', fills', x, c, Allowed(x)')
          BY <3>1, <4>2, <5>1, <5>2 DEF Within, Allowed
        <5>4. chain'[x] <= c + Afoot(x)'
          BY <3>1, <4>2, <5>1 DEF Afoot
        <5>5. QED
          BY <5>3, <5>4 DEF Budget
      <4>3. QED
        BY <2>7, <4>1, <4>2 DEF Abandon
    <3>5. QED
      BY <2>1, <2>2, <3>1, <3>3, <3>4, StillUnsent
  <2>8. QED
    BY <1>3, <2>3, <2>4, <2>5, <2>6, <2>7 DEF Submission
<1>4. QED
  BY <1>2, <1>3

LEMMA InitOnce ==
  ASSUME Init
  PROVE  Once
<1>1. SUFFICES ASSUME NEW x \in Ids PROVE Unsent(x) /\ Budget(x)
  BY DEF Once
<1>2. Unsent(x)
  BY DEF Init, Unsent
<1>3. PICK zero \in Nat : zero = 0
  OBVIOUS
<1>4. Stake(book, x, zero)
  BY DEF Init, EmptyBook, Stake, At
<1>5. Fits(fills, x, zero, zero)
  BY <1>3, FitsEmpty DEF Init
<1>6. Within(book, fills, x, zero, Allowed(x))
  <2>1. zero + zero <= Allowed(x)
    BY <1>3 DEF Init, Allowed
  <2>2. QED
    BY <1>4, <1>5, <2>1 DEF Within
<1>7. chain[x] <= zero + Afoot(x)
  BY <1>3 DEF Init, Afoot
<1>8. QED
  BY <1>2, <1>6, <1>7 DEF Budget

LEMMA NextOnce ==
  ASSUME IInv, HolderMatches, Once, [Next]_vars
  PROVE  Once'
<1>1. SUFFICES ASSUME crashes' = 0, NEW x \in Ids, submits'[x] <= 1
               PROVE  Unsent(x)' /\ Budget(x)'
  BY DEF Once
<1>2. crashes = 0 /\ ~ Crash
  <2>1. crashes \in Nat
    BY BoundsAreNat DEF IInv, TypeOK
  <2>2. crashes' = crashes \/ crashes' = crashes + 1
    BY DEF Next, vars, LoopTick, LoopEnds, Settlement, Submission, CancelOrder, TimePasses,
           Crash, Tick, SettleMatch, SettleFails, RecordMaker, RecordTaker, RecordError,
           Receive, Put, SubmitTick, SubmitEnds, Reply, Abandon, history
  <2>3. Crash => crashes' = crashes + 1
    BY DEF Crash
  <2>4. QED
    BY <1>1, <2>1, <2>2, <2>3
<1>3. submits[x] <= 1 => Unsent(x) /\ Budget(x)
  BY <1>2 DEF Once
<1>4. ASSUME NEW id \in Ids, Submission(id) PROVE Unsent(x)' /\ Budget(x)'
  BY <1>1, <1>3, <1>4, SubmissionOnce
<1>5. CASE LoopTick
  <2>1. Unsent(x) /\ Budget(x) /\ calls' = calls
    BY <1>1, <1>3, <1>5 DEF LoopTick, Tick
  <2>2. QED
    BY <1>5, <2>1, TickBudget, TickUnsent DEF LoopTick
<1>6. CASE Settlement
  <2>1. submits' = submits
    BY <1>6 DEF Settlement, SettleMatch, SettleFails, RecordMaker, RecordTaker, RecordError, history
  <2>2. Unsent(x) /\ Budget(x)
    BY <1>1, <1>3, <2>1
  <2>3. QED
    BY <1>6, <2>2, SettleMatchBudget, RecordBudget, SettlementUnsent DEF Settlement
<1>7. ASSUME NEW id \in Ids, CancelOrder(id) PROVE Unsent(x)' /\ Budget(x)'
  <2>1. UNCHANGED <<chain, book, fills, stage, calls, submits, offers>>
    BY <1>7 DEF CancelOrder, memory, history
  <2>2. Unsent(x) /\ Budget(x)
    BY <1>1, <1>3, <2>1
  <2>3. db[x] = NoRow => db'[x] = NoRow
    BY <1>7 DEF CancelOrder, Cancelable, IInv, TypeOK
  <2>4. QED
    BY <2>1, <2>2, <2>3, SameBudget, StillUnsent
<1>8. CASE LoopEnds \/ TimePasses \/ UNCHANGED vars
  <2>1. UNCHANGED <<chain, book, fills, stage, calls, submits, offers, db>>
    BY <1>8 DEF LoopEnds, TimePasses, vars, memory, history
  <2>2. Unsent(x) /\ Budget(x)
    BY <1>1, <1>3, <2>1
  <2>3. QED
    BY <2>1, <2>2, SameBudget, StillUnsent
<1>9. QED
  BY <1>2, <1>4, <1>5, <1>6, <1>7, <1>8 DEF Next

\* docs/matcher-architecture.md, invariant 1, end to end: whatever orders meet in
\* the book, whichever fills no pass pairs, whichever receipts and row updates are
\* lost and whoever goes away, an order that was submitted once is not settled
\* beyond its size while the matcher stays up.
THEOREM TickLoopSettledWithinSize == Spec => []SettledWithinSize
<1>1. IInv /\ Once => SettledWithinSize
  <2>1. SUFFICES ASSUME IInv, Once, crashes = 0, NEW x \in Ids, submits[x] = 1
                 PROVE  chain[x] <= OrderOf[x].magnitude
    BY DEF SettledWithinSize
  <2>2. Budget(x)
    BY <2>1 DEF Once
  <2>3. PICK c \in Nat, r \in Nat : chain[x] <= c /\ c + r <= Allowed(x)
    BY <2>1, <2>2, ChainBelow
  <2>4. /\ Allowed(x) \in Nat /\ Allowed(x) <= OrderOf[x].magnitude
        /\ OrderOf[x].magnitude \in Nat /\ chain[x] \in Nat
    BY <2>1, AllowedIs
  <2>5. QED
    BY <2>3, <2>4
<1>2. Init => HolderMatches /\ Once
  <2>1. Init => HolderMatches
    BY HoldersDiffer DEF Init, HolderMatches
  <2>2. QED
    BY <2>1, InitOnce
<1>3. IInv /\ HolderMatches /\ Once /\ [Next]_vars => HolderMatches' /\ Once'
  BY NextHolder, NextOnce
<1>4. QED
  BY <1>1, <1>2, <1>3, TickLoopIInv, PTL DEF Spec
=============================================================================
