-------------------------- MODULE MatchLoopProofs --------------------------
(***************************************************************************)
(* Proofs about the order book and the match loop: for every set of ids,   *)
(* every price range and every set of terms.                               *)
(***************************************************************************)
EXTENDS MatchLoop, SequenceTheorems, FiniteSetTheorems, WellFoundedInduction, TLAPS

-----------------------------------------------------------------------------
\* What every operation on a book preserves: the orders of a level belong
\* there, have size left and are there once, and the index names, for each
\* id, the level that holds it.
IdsOf(queue) == {queue[i].id : i \in 1 .. Len(queue)}

QueueOK(queue, slot) ==
  \A i \in 1 .. Len(queue) :
    /\ SlotOf(queue[i]) = slot
    /\ queue[i].remaining > 0
    /\ \A j \in 1 .. Len(queue) : queue[i].id = queue[j].id => i = j

BookOK(b) ==
  /\ b \in Book
  /\ \A slot \in Slots :
       /\ QueueOK(b.queue[slot], slot)
       /\ \A id \in Ids : id \in IdsOf(b.queue[slot]) <=> b.index[id] = slot

\* Nothing comes to rest: levels and index entries only go.
Shrinks(b, c) ==
  /\ \A slot \in Slots : b.queue[slot] = <<>> => c.queue[slot] = <<>>
  /\ \A id \in Ids : b.index[id] = NoSlot => c.index[id] = NoSlot

\* Two orders of a level stand in `c` as they stood in `b`.
KeepsOrder(b, c) ==
  \A slot \in Slots : \A i, j \in 1 .. Len(c.queue[slot]) :
    i < j => \E k, l \in 1 .. Len(b.queue[slot]) :
               /\ k < l
               /\ b.queue[slot][k].id = c.queue[slot][i].id
               /\ b.queue[slot][l].id = c.queue[slot][j].id

LEMMA BookFields ==
  ASSUME NEW b \in Book
  PROVE  b.queue \in [Slots -> Seq(Order)] /\ b.index \in [Ids -> Slots \cup {NoSlot}]
BY DEF Book

LEMMA WithQueueType ==
  ASSUME NEW b \in Book, NEW slot \in Slots, NEW q \in Seq(Order)
  PROVE  /\ WithQueue(b, slot, q) \in Book
         /\ WithQueue(b, slot, q).index = b.index
         /\ \A t \in Slots :
              WithQueue(b, slot, q).queue[t] = IF t = slot THEN q ELSE b.queue[t]
BY BookFields DEF Book, WithQueue

LEMMA WithEntryType ==
  ASSUME NEW b \in Book, NEW id \in Ids, NEW slot \in Slots \cup {NoSlot}
  PROVE  /\ WithEntry(b, id, slot) \in Book
         /\ WithEntry(b, id, slot).queue = b.queue
         /\ \A n \in Ids :
              WithEntry(b, id, slot).index[n] = IF n = id THEN slot ELSE b.index[n]
BY BookFields DEF Book, WithEntry

\* One queue and the index entry of one id change together.
LEMMA ChangeOK ==
  ASSUME NEW b, BookOK(b), NEW s \in Slots, NEW q \in Seq(Order), QueueOK(q, s),
         NEW x \in Ids, NEW c \in Book, b.index[x] \in {NoSlot, s},
         \A t \in Slots : c.queue[t] = IF t = s THEN q ELSE b.queue[t],
         \A id \in Ids : id # x => c.index[id] = b.index[id],
         \A id \in Ids : id # x => (id \in IdsOf(q) <=> id \in IdsOf(b.queue[s])),
         c.index[x] = IF x \in IdsOf(q) THEN s ELSE NoSlot
  PROVE  BookOK(c)
<1>1. SUFFICES ASSUME NEW slot \in Slots
               PROVE  /\ QueueOK(c.queue[slot], slot)
                      /\ \A id \in Ids :
                           id \in IdsOf(c.queue[slot]) <=> c.index[id] = slot
  BY DEF BookOK
<1>2. slot # NoSlot
  BY NoSlotIsNoSlot
<1>3. /\ QueueOK(b.queue[slot], slot)
      /\ \A id \in Ids : id \in IdsOf(b.queue[slot]) <=> b.index[id] = slot
  BY DEF BookOK
<1>4. CASE slot = s
  BY <1>2, <1>3, <1>4
<1>5. CASE slot # s
  <2>1. c.queue[slot] = b.queue[slot] /\ c.index[x] # slot /\ b.index[x] # slot
    BY <1>2, <1>5
  <2>2. QED
    BY <1>3, <2>1
<1>6. QED
  BY <1>4, <1>5

\* What rests of an id is what is left of the one order with that id.
LEMMA RestingIs ==
  ASSUME NEW b, BookOK(b), NEW slot \in Slots, NEW i \in 1 .. Len(b.queue[slot])
  PROVE  LET o == b.queue[slot][i]
         IN /\ o \in Order /\ b.index[o.id] = slot
            /\ RestingSize(b, o.id) = o.remaining /\ o.remaining > 0
<1>1. PICK p \in Seq(Order) : p = b.queue[slot]
  BY BookFields DEF BookOK
<1>2. PICK o \in Order : o = p[i]
  <2>1. p[i] \in Order
    BY <1>1, ElementOfSeq
  <2>2. QED
    BY <2>1
<1>3. QueueOK(p, slot) /\ o.id \in Ids /\ b.index[o.id] = slot /\ slot # NoSlot
  BY <1>1, <1>2, NoSlotIsNoSlot DEF BookOK, IdsOf, Order
<1>4. \A j \in 1 .. Len(p) : p[j].id = o.id <=> j = i
  BY <1>1, <1>2, <1>3 DEF QueueOK
<1>5. DOMAIN p = 1 .. Len(p)
  OBVIOUS
<1>6. (CHOOSE j \in DOMAIN p : p[j].id = o.id) = i
  BY <1>1, <1>4, <1>5
<1>7. RestingSize(b, o.id) = o.remaining
  BY <1>1, <1>2, <1>3, <1>6 DEF RestingSize
<1>8. o.remaining > 0
  BY <1>1, <1>2, <1>3 DEF QueueOK
<1>9. QED
  BY <1>1, <1>2, <1>3, <1>7, <1>8

LEMMA RestingNat ==
  ASSUME NEW b, BookOK(b), NEW id \in Ids
  PROVE  /\ RestingSize(b, id) \in Nat
         /\ b.index[id] = NoSlot => RestingSize(b, id) = 0
         /\ b.index[id] # NoSlot => RestingSize(b, id) > 0
<1>1. CASE b.index[id] = NoSlot
  BY <1>1 DEF RestingSize
<1>2. CASE b.index[id] # NoSlot
  <2>1. PICK slot \in Slots : slot = b.index[id]
    BY <1>2, BookFields DEF BookOK
  <2>2. PICK i \in 1 .. Len(b.queue[slot]) : b.queue[slot][i].id = id
    BY <2>1 DEF BookOK, IdsOf
  <2>3. RestingSize(b, id) \in Nat /\ RestingSize(b, id) > 0
    BY <2>2, RestingIs DEF Order
  <2>4. QED
    BY <1>2, <2>3
<1>3. QED
  BY <1>1, <1>2

\* A change of one level and of one id leaves what rests of the others.
LEMMA OthersKeep ==
  ASSUME NEW b, BookOK(b), NEW c, BookOK(c), NEW s \in Slots, NEW x \in Ids,
         \A t \in Slots : t # s => c.queue[t] = b.queue[t],
         \A id \in Ids : id # x => c.index[id] = b.index[id],
         \A i \in 1 .. Len(b.queue[s]) :
           b.queue[s][i].id # x =>
             \E j \in 1 .. Len(c.queue[s]) : c.queue[s][j] = b.queue[s][i]
  PROVE  \A id \in Ids : id # x => RestingSize(c, id) = RestingSize(b, id)
<1>1. SUFFICES ASSUME NEW id \in Ids, id # x
               PROVE  RestingSize(c, id) = RestingSize(b, id)
  OBVIOUS
<1>2. c.index[id] = b.index[id] /\ b.index[id] \in Slots \cup {NoSlot}
  BY <1>1, BookFields DEF BookOK
<1>3. CASE b.index[id] = NoSlot
  BY <1>2, <1>3, RestingNat
<1>4. CASE b.index[id] \in Slots /\ b.index[id] # s
  <2>1. PICK t \in Slots : t = b.index[id]
    BY <1>4
  <2>2. PICK i \in 1 .. Len(b.queue[t]) : b.queue[t][i].id = id
    BY <2>1 DEF BookOK, IdsOf
  <2>3. c.queue[t] = b.queue[t]
    BY <1>4, <2>1
  <2>4. RestingSize(b, id) = b.queue[t][i].remaining
    BY <2>2, RestingIs
  <2>5. RestingSize(c, id) = c.queue[t][i].remaining
    BY <2>2, <2>3, RestingIs
  <2>6. QED
    BY <2>3, <2>4, <2>5
<1>5. CASE b.index[id] = s
  <2>1. PICK i \in 1 .. Len(b.queue[s]) : b.queue[s][i].id = id
    BY <1>5 DEF BookOK, IdsOf
  <2>2. PICK j \in 1 .. Len(c.queue[s]) : c.queue[s][j] = b.queue[s][i]
    BY <1>1, <2>1
  <2>3. RestingSize(b, id) = b.queue[s][i].remaining
    BY <2>1, RestingIs
  <2>4. RestingSize(c, id) = c.queue[s][j].remaining
    BY <2>1, <2>2, RestingIs
  <2>5. QED
    BY <2>2, <2>3, <2>4
<1>6. QED
  BY <1>2, <1>3, <1>4, <1>5

-----------------------------------------------------------------------------
\* book.rs, insert: resting a new order keeps the book and its index in step.
LEMMA InsertOK ==
  ASSUME NEW b, BookOK(b), NEW o \in Order, o.remaining > 0, b.index[o.id] = NoSlot
  PROVE  /\ BookOK(Insert(b, o))
         /\ \A slot \in Slots :
              slot # SlotOf(o) => Insert(b, o).queue[slot] = b.queue[slot]
         /\ Insert(b, o).queue[SlotOf(o)] = Append(b.queue[SlotOf(o)], o)
         /\ \A id \in Ids : id # o.id => Insert(b, o).index[id] = b.index[id]
         /\ Insert(b, o).index[o.id] = SlotOf(o)
         /\ RestingSize(Insert(b, o), o.id) = o.remaining
         /\ \A id \in Ids :
              id # o.id => RestingSize(Insert(b, o), id) = RestingSize(b, id)
<1>1. SlotOf(o) \in Slots /\ o.id \in Ids
  BY DEF SlotOf, Order, Slots
<1>2. PICK s \in Slots : s = SlotOf(o)
  BY <1>1
<1>3. PICK p \in Seq(Order) : p = b.queue[s]
  BY BookFields DEF BookOK
<1>4. PICK q \in Seq(Order) : q = Append(p, o)
  <2>1. Append(p, o) \in Seq(Order)
    OBVIOUS
  <2>2. QED
    BY <2>1
<1>5. /\ Len(q) = Len(p) + 1 /\ Len(p) \in Nat
      /\ q[Len(p) + 1] = o
      /\ \A i \in 1 .. Len(p) : q[i] = p[i]
  BY <1>4
<1>6. IdsOf(q) = IdsOf(p) \cup {o.id}
  BY <1>5 DEF IdsOf
<1>7. o.id \notin IdsOf(p) /\ QueueOK(p, s)
  BY <1>1, <1>3, NoSlotIsNoSlot DEF BookOK
<1>8. QueueOK(q, s)
  BY <1>2, <1>5, <1>7 DEF QueueOK, IdsOf
<1>9. PICK d \in Book : d = WithEntry(b, o.id, s)
  BY <1>1, WithEntryType DEF BookOK
<1>10. /\ d.queue = b.queue
       /\ \A n \in Ids : d.index[n] = IF n = o.id THEN s ELSE b.index[n]
  BY <1>1, <1>9, WithEntryType DEF BookOK
<1>11. PICK c \in Book : c = WithQueue(d, s, q)
  BY WithQueueType
<1>12. /\ c.index = d.index
       /\ \A t \in Slots : c.queue[t] = IF t = s THEN q ELSE d.queue[t]
  BY <1>11, WithQueueType
<1>13. c = Insert(b, o)
  BY <1>2, <1>3, <1>4, <1>9, <1>11 DEF Insert
<1>14. BookOK(c)
  BY ChangeOK, <1>1, <1>3, <1>6, <1>8, <1>10, <1>12
<1>15. RestingSize(c, o.id) = o.remaining
  <2>1. c.queue[s] = q /\ Len(p) + 1 \in 1 .. Len(q)
    BY <1>5, <1>12
  <2>2. QED
    BY <1>5, <1>14, <2>1, RestingIs
<1>16. \A id \in Ids : id # o.id => RestingSize(c, id) = RestingSize(b, id)
  <2>1. \A t \in Slots : t # s => c.queue[t] = b.queue[t]
    BY <1>10, <1>12
  <2>2. \A id \in Ids : id # o.id => c.index[id] = b.index[id]
    BY <1>10, <1>12
  <2>3. \A i \in 1 .. Len(b.queue[s]) : i \in 1 .. Len(q) /\ q[i] = b.queue[s][i]
    BY <1>3, <1>5
  <2>4. c.queue[s] = q
    BY <1>12
  <2>5. QED
    BY <1>1, <1>14, <2>1, <2>2, <2>3, <2>4, OthersKeep
<1>17. QED
  BY <1>1, <1>2, <1>3, <1>4, <1>10, <1>12, <1>13, <1>14, <1>15, <1>16

\* match_engine.rs, the body of the loop: the maker leaves book and index
\* together, or goes back to the front of its level with size left.
LEMMA FillOK ==
  ASSUME NEW b, BookOK(b), NEW s \in Slots, b.queue[s] # <<>>,
         NEW size \in Nat, size > 0, size <= Head(b.queue[s]).remaining
  PROVE  /\ BookOK(BookAfterFill(b, s, Head(b.queue[s]), size))
         /\ Shrinks(b, BookAfterFill(b, s, Head(b.queue[s]), size))
         /\ KeepsOrder(b, BookAfterFill(b, s, Head(b.queue[s]), size))
         /\ LET maker == Head(b.queue[s])
                c == BookAfterFill(b, s, maker, size)
            IN /\ RestingSize(c, maker.id) = RestingSize(b, maker.id) - size
               /\ \A id \in Ids : id # maker.id => /\ RestingSize(c, id) = RestingSize(b, id)
                                                  /\ c.index[id] = b.index[id]
               /\ c.index[maker.id] \in {NoSlot, b.index[maker.id]}
<1>1. PICK p \in Seq(Order) : p = b.queue[s]
  BY BookFields DEF BookOK
<1>2. PICK m \in Order : m = Head(p)
  BY <1>1, HeadTailProperties
<1>3. PICK t \in Seq(Order) : t = Tail(p)
  BY <1>1, HeadTailProperties
<1>4. /\ Len(p) \in Nat /\ Len(p) > 0 /\ Len(t) = Len(p) - 1
      /\ m = p[1]
      /\ \A i \in 1 .. Len(t) : t[i] = p[i + 1]
  BY <1>1, <1>2, <1>3, HeadTailProperties
<1>5. QueueOK(p, s) /\ m.id \in Ids /\ b.index[m.id] = s
  BY <1>1, <1>4 DEF BookOK, IdsOf, Order
<1>6. IdsOf(p) = IdsOf(t) \cup {m.id} /\ m.id \notin IdsOf(t)
  <2>1. \A i \in 1 .. Len(p) : i = 1 \/ (i - 1 \in 1 .. Len(t) /\ p[i] = t[i - 1])
    BY <1>4
  <2>2. \A i \in 1 .. Len(t) : i + 1 \in 1 .. Len(p) /\ i + 1 # 1 /\ t[i] = p[i + 1]
    BY <1>4
  <2>3. 1 \in 1 .. Len(p)
    BY <1>4
  <2>4. IdsOf(p) = IdsOf(t) \cup {m.id}
    BY <1>4, <2>1, <2>2, <2>3 DEF IdsOf
  <2>5. m.id \notin IdsOf(t)
    <3>1. \A j \in 1 .. Len(p) : p[j].id = m.id => j = 1
      BY <1>4, <1>5, <2>3 DEF QueueOK
    <3>2. \A i \in 1 .. Len(t) : t[i].id # m.id
      BY <2>2, <3>1
    <3>3. QED
      BY <3>2 DEF IdsOf
  <2>6. QED
    BY <2>4, <2>5
<1>7. QueueOK(t, s)
  <2>1. \A i \in 1 .. Len(t) : i + 1 \in 1 .. Len(p) /\ t[i] = p[i + 1]
    BY <1>4
  <2>2. \A i, j \in 1 .. Len(t) : i + 1 = j + 1 => i = j
    OBVIOUS
  <2>3. QED
    BY <1>5, <2>1, <2>2 DEF QueueOK
<1>8. PICK left \in Nat : left = m.remaining - size
  BY <1>1, <1>2 DEF Order
<1>9. PICK d \in Book : d = PopFrontAt(b, s)
  BY <1>1, <1>3, WithQueueType DEF PopFrontAt, BookOK
<1>10. /\ d.index = b.index
       /\ \A u \in Slots : d.queue[u] = IF u = s THEN t ELSE b.queue[u]
  <2>1. b \in Book /\ d = WithQueue(b, s, t)
    BY <1>1, <1>3, <1>9 DEF PopFrontAt, BookOK
  <2>2. QED
    BY <2>1, WithQueueType
<1>11. RestingSize(b, m.id) = m.remaining
  <2>1. 1 \in 1 .. Len(b.queue[s])
    BY <1>1, <1>4
  <2>2. QED
    BY <1>1, <1>4, <2>1, RestingIs
<1>12. \A i \in 1 .. Len(p) : p[i].id # m.id => \E j \in 1 .. Len(t) : t[j] = p[i]
  <2>1. TAKE i \in 1 .. Len(p)
  <2>2. HAVE p[i].id # m.id
  <2>3. i - 1 \in 1 .. Len(t) /\ t[i - 1] = p[i]
    BY <1>4, <2>2
  <2>4. QED
    BY <2>3
<1>13. CASE left = 0
  <2>1. PICK c \in Book : c = DropFromIndex(d, m.id)
    BY <1>5, WithEntryType DEF DropFromIndex
  <2>2. /\ c.queue = d.queue
        /\ \A n \in Ids : c.index[n] = IF n = m.id THEN NoSlot ELSE d.index[n]
    BY <1>5, <2>1, WithEntryType DEF DropFromIndex
  <2>3. BookOK(c)
    BY ChangeOK, <1>1, <1>5, <1>6, <1>7, <1>10, <2>2
  <2>4. Shrinks(b, c)
    BY <1>10, <2>2 DEF Shrinks
  <2>5. KeepsOrder(b, c)
    <3>1. SUFFICES ASSUME NEW slot \in Slots,
                          NEW i \in 1 .. Len(c.queue[slot]),
                          NEW j \in 1 .. Len(c.queue[slot]), i < j
                   PROVE  \E k, l \in 1 .. Len(b.queue[slot]) :
                            /\ k < l
                            /\ b.queue[slot][k].id = c.queue[slot][i].id
                            /\ b.queue[slot][l].id = c.queue[slot][j].id
      BY DEF KeepsOrder
    <3>2. CASE slot # s
      BY <1>10, <2>2, <3>1, <3>2
    <3>3. CASE slot = s
      <4>1. c.queue[s] = t
        BY <1>10, <2>2
      <4>2. /\ i + 1 \in 1 .. Len(p) /\ j + 1 \in 1 .. Len(p) /\ i + 1 < j + 1
            /\ p[i + 1].id = t[i].id /\ p[j + 1].id = t[j].id
        BY <1>4, <3>1, <3>3, <4>1
      <4>3. QED
        BY <1>1, <3>3, <4>1, <4>2
    <3>4. QED
      BY <3>2, <3>3
  <2>6. RestingSize(c, m.id) = RestingSize(b, m.id) - size /\ c.index[m.id] = NoSlot
    <3>1. c.index[m.id] = NoSlot
      BY <1>5, <2>2
    <3>2. QED
      BY <1>5, <1>8, <1>11, <1>13, <2>3, <3>1, RestingNat DEF Order
  <2>7. \A id \in Ids : id # m.id => /\ RestingSize(c, id) = RestingSize(b, id)
                                     /\ c.index[id] = b.index[id]
    <3>1. \A u \in Slots : u # s => c.queue[u] = b.queue[u]
      BY <1>10, <2>2
    <3>2. \A id \in Ids : id # m.id => c.index[id] = b.index[id]
      BY <1>10, <2>2
    <3>3. c.queue[s] = t
      BY <1>10, <2>2
    <3>4. \A i \in 1 .. Len(b.queue[s]) :
            b.queue[s][i].id # m.id =>
              \E j \in 1 .. Len(c.queue[s]) : c.queue[s][j] = b.queue[s][i]
      BY <1>1, <1>12, <3>3
    <3>5. \A id \in Ids : id # m.id => RestingSize(c, id) = RestingSize(b, id)
      <4>1. PICK x \in Ids : x = m.id
        BY <1>5
      <4>2. \A id \in Ids : id # x => RestingSize(c, id) = RestingSize(b, id)
        BY <4>1, <2>3, <3>1, <3>2, <3>4, OthersKeep
      <4>3. QED
        BY <4>1, <4>2
    <3>6. QED
      BY <3>2, <3>5
  <2>8. c = BookAfterFill(b, s, m, size)
    BY <1>1, <1>2, <1>8, <1>9, <1>13, <2>1 DEF BookAfterFill
  <2>9. m = Head(b.queue[s])
    BY <1>1, <1>2
  <2>10. QED
    BY <2>3, <2>4, <2>5, <2>6, <2>7, <2>8, <2>9
<1>14. CASE left # 0
  <2>1. PICK o \in Order : o = [m EXCEPT !.remaining = left]
    <3>1. [m EXCEPT !.remaining = left] \in Order
      BY DEF Order
    <3>2. QED
      BY <3>1
  <2>2. o.id = m.id /\ SlotOf(o) = SlotOf(m) /\ o.remaining > 0
    BY <1>14, <2>1 DEF Order, SlotOf
  <2>3. PICK q \in Seq(Order) : q = <<o>> \o t
    <3>1. <<o>> \in Seq(Order)
      OBVIOUS
    <3>2. <<o>> \o t \in Seq(Order)
      BY <3>1, ConcatProperties
    <3>3. QED
      BY <3>2
  <2>4. /\ Len(q) = Len(p)
        /\ q[1] = o
        /\ \A i \in 2 .. Len(q) : q[i] = p[i]
    <3>1. /\ Len(q) = Len(<<o>>) + Len(t)
          /\ \A i \in 1 .. Len(<<o>>) + Len(t) :
               q[i] = IF i <= Len(<<o>>) THEN <<o>>[i] ELSE t[i - Len(<<o>>)]
      <4>1. <<o>> \in Seq(Order)
        OBVIOUS
      <4>2. QED
        BY <2>3, <4>1, ConcatProperties
    <3>2. Len(<<o>>) = 1 /\ <<o>>[1] = o
      OBVIOUS
    <3>3. \A i \in 2 .. Len(q) : i - 1 \in 1 .. Len(t) /\ q[i] = t[i - 1]
      <4>1. Len(t) \in Nat
        OBVIOUS
      <4>2. QED
        BY <1>4, <3>1, <3>2, <4>1
    <3>4. QED
      BY <1>4, <3>1, <3>2, <3>3
  <2>5. \A i \in 1 .. Len(q) :
          /\ i \in 1 .. Len(p)
          /\ q[i].id = p[i].id
          /\ SlotOf(q[i]) = SlotOf(p[i])
          /\ q[i].remaining > 0
    <3>1. \A i \in 1 .. Len(q) : i = 1 \/ i \in 2 .. Len(q)
      BY <1>4, <2>4
    <3>2. QED
      BY <1>4, <1>5, <2>2, <2>4, <3>1 DEF QueueOK
  <2>6. QueueOK(q, s) /\ IdsOf(q) = IdsOf(p)
    BY <1>5, <2>4, <2>5 DEF QueueOK, IdsOf
  <2>7. PICK c \in Book : c = WithQueue(d, s, q)
    BY WithQueueType
  <2>8. /\ c.index = b.index
        /\ \A u \in Slots : c.queue[u] = IF u = s THEN q ELSE b.queue[u]
    <3>1. /\ c.index = d.index
          /\ \A u \in Slots : c.queue[u] = IF u = s THEN q ELSE d.queue[u]
      BY <2>7, WithQueueType, SMTT(60)
    <3>2. QED
      BY <1>10, <3>1
  <2>9. BookOK(c)
    <3>1. m.id \in IdsOf(q)
      BY <1>6, <2>6
    <3>2. \A id \in Ids : id \in IdsOf(q) <=> id \in IdsOf(b.queue[s])
      BY <1>1, <2>6
    <3>3. QED
      BY ChangeOK, <1>5, <2>6, <2>8, <3>1, <3>2
  <2>10. c = PushFrontAt(d, s, o)
    BY <1>10, <2>3, <2>7 DEF PushFrontAt
  <2>11. Shrinks(b, c)
    BY <2>8 DEF Shrinks
  <2>12. c.queue[s] = q /\ \A u \in Slots : u # s => c.queue[u] = b.queue[u]
    BY <2>8
  <2>13. KeepsOrder(b, c)
    <3>1. \A slot \in Slots : \A i \in 1 .. Len(c.queue[slot]) :
            i \in 1 .. Len(b.queue[slot]) /\ b.queue[slot][i].id = c.queue[slot][i].id
      BY <1>1, <2>5, <2>12
    <3>2. QED
      BY <3>1 DEF KeepsOrder
  <2>14. RestingSize(c, m.id) = RestingSize(b, m.id) - size
    <3>1. 1 \in 1 .. Len(q) /\ q[1].remaining = left /\ q[1].id = m.id
      BY <1>4, <2>1, <2>2, <2>4 DEF Order
    <3>2. RestingSize(c, m.id) = left
      BY <2>9, <2>12, <3>1, RestingIs
    <3>3. QED
      BY <1>8, <1>11, <3>2
  <2>15. \A id \in Ids : id # m.id => /\ RestingSize(c, id) = RestingSize(b, id)
                                      /\ c.index[id] = b.index[id]
    <3>1. \A i \in 1 .. Len(p) : p[i].id # m.id => \E j \in 1 .. Len(q) : q[j] = p[i]
      <4>1. TAKE i \in 1 .. Len(p)
      <4>2. HAVE p[i].id # m.id
      <4>3. i \in 2 .. Len(q)
        BY <1>4, <2>4, <4>2
      <4>4. i \in 1 .. Len(q) /\ q[i] = p[i]
        BY <2>4, <4>3
      <4>5. QED
        BY <4>4
    <3>2. \A i \in 1 .. Len(b.queue[s]) :
            b.queue[s][i].id # m.id =>
              \E j \in 1 .. Len(c.queue[s]) : c.queue[s][j] = b.queue[s][i]
      BY <1>1, <2>12, <3>1
    <3>3. \A id \in Ids : id # m.id => c.index[id] = b.index[id]
      BY <2>8
    <3>4. \A id \in Ids : id # m.id => RestingSize(c, id) = RestingSize(b, id)
      <4>1. PICK x \in Ids : x = m.id
        BY <1>5
      <4>2. \A id \in Ids : id # x => RestingSize(c, id) = RestingSize(b, id)
        BY <4>1, <2>9, <2>12, <3>2, <3>3, OthersKeep
      <4>3. QED
        BY <4>1, <4>2
    <3>5. QED
      BY <3>3, <3>4
  <2>16. c = BookAfterFill(b, s, m, size) /\ m = Head(b.queue[s])
    BY <1>1, <1>2, <1>8, <1>9, <1>14, <2>1, <2>10 DEF BookAfterFill
  <2>17. QED
    BY <2>8, <2>9, <2>11, <2>13, <2>14, <2>15, <2>16
<1>15. QED
  BY <1>13, <1>14

\* book.rs, cancel: the id leaves book and index together.
LEMMA CancelOK ==
  ASSUME NEW b, BookOK(b), NEW x \in Ids, b.index[x] # NoSlot
  PROVE  /\ BookOK(CancelAt(b, x))
         /\ Shrinks(b, CancelAt(b, x))
         /\ KeepsOrder(b, CancelAt(b, x))
         /\ CancelAt(b, x).index[x] = NoSlot
         /\ \A id \in Ids : id # x => /\ RestingSize(CancelAt(b, x), id) = RestingSize(b, id)
                                     /\ CancelAt(b, x).index[id] = b.index[id]
<1>1. PICK s \in Slots : s = b.index[x]
  BY BookFields DEF BookOK
<1>2. PICK p \in Seq(Order) : p = b.queue[s]
  BY BookFields DEF BookOK
<1>3. QueueOK(p, s)
  BY <1>2 DEF BookOK
<1>4. PICK k \in 1 .. Len(p) : p[k].id = x
  BY <1>1, <1>2 DEF BookOK, IdsOf
<1>5. \A i \in 1 .. Len(p) : p[i].id = x <=> i = k
  BY <1>3, <1>4 DEF QueueOK
<1>6. PICK q : q = RemoveAt(p, k)
  OBVIOUS
<1>7. /\ q \in Seq(Order) /\ Len(q) = Len(p) - 1
      /\ \A i \in 1 .. Len(q) : q[i] = IF i < k THEN p[i] ELSE p[i + 1]
  <2>1. \A i \in 1 .. Len(p) : p[i] \in Order
    OBVIOUS
  <2>2. PICK l \in Seq(Order) : l = SubSeq(p, 1, k - 1)
    <3>1. SubSeq(p, 1, k - 1) \in Seq(Order)
      BY <2>1, SubSeqProperties
    <3>2. QED
      BY <3>1
  <2>3. PICK r \in Seq(Order) : r = SubSeq(p, k + 1, Len(p))
    <3>1. SubSeq(p, k + 1, Len(p)) \in Seq(Order)
      BY <2>1, SubSeqProperties
    <3>2. QED
      BY <3>1
  <2>4. Len(l) = k - 1 /\ \A i \in 1 .. k - 1 : l[i] = p[i]
    BY <2>1, <2>2, SubSeqProperties
  <2>5. Len(r) = Len(p) - k /\ \A i \in 1 .. Len(p) - k : r[i] = p[k + i]
    BY <2>1, <2>3, SubSeqProperties
  <2>6. q = l \o r
    BY <1>6, <2>2, <2>3 DEF RemoveAt
  <2>7. /\ q \in Seq(Order)
        /\ Len(q) = Len(l) + Len(r)
        /\ \A i \in 1 .. Len(l) + Len(r) :
             q[i] = IF i <= Len(l) THEN l[i] ELSE r[i - Len(l)]
    BY <2>6, ConcatProperties
  <2>8. ASSUME NEW i \in 1 .. Len(q)
        PROVE  q[i] = IF i < k THEN p[i] ELSE p[i + 1]
    <3>1. CASE i < k
      BY <2>4, <2>7, <3>1
    <3>2. CASE ~ (i < k)
      <4>1. i - Len(l) \in 1 .. Len(p) - k /\ k + (i - Len(l)) = i + 1
        BY <2>4, <2>5, <2>7, <3>2
      <4>2. q[i] = r[i - Len(l)]
        BY <2>4, <2>7, <3>2
      <4>3. r[i - Len(l)] = p[k + (i - Len(l))]
        BY <2>5, <4>1
      <4>4. QED
        BY <3>2, <4>1, <4>2, <4>3
    <3>3. QED
      BY <3>1, <3>2
  <2>9. QED
    BY <2>4, <2>5, <2>7, <2>8
<1>8. QueueOK(q, s)
  <2> DEFINE at(i) == IF i < k THEN i ELSE i + 1
  <2>1. \A i \in 1 .. Len(q) : at(i) \in 1 .. Len(p) /\ q[i] = p[at(i)]
    BY <1>4, <1>7
  <2>2. \A i, j \in 1 .. Len(q) : at(i) = at(j) => i = j
    BY <1>7
  <2> HIDE DEF at
  <2>3. QED
    <3>1. SUFFICES ASSUME NEW i \in 1 .. Len(q)
                   PROVE  /\ SlotOf(q[i]) = s
                          /\ q[i].remaining > 0
                          /\ \A j \in 1 .. Len(q) : q[i].id = q[j].id => i = j
      BY DEF QueueOK
    <3>2. SlotOf(q[i]) = s /\ q[i].remaining > 0
      BY <1>3, <2>1 DEF QueueOK
    <3>3. ASSUME NEW j \in 1 .. Len(q), q[i].id = q[j].id PROVE i = j
      <4>1. p[at(i)].id = p[at(j)].id /\ at(i) \in 1 .. Len(p) /\ at(j) \in 1 .. Len(p)
        BY <2>1, <3>3
      <4>2. at(i) = at(j)
        BY <1>3, <4>1 DEF QueueOK
      <4>3. QED
        BY <2>2, <4>2
    <3>4. QED
      BY <3>2, <3>3
<1>9. x \notin IdsOf(q) /\ IdsOf(p) = IdsOf(q) \cup {x}
  <2>1. \A i \in 1 .. Len(q) : q[i].id # x
    BY <1>4, <1>5, <1>7
  <2>2. \A i \in 1 .. Len(p) :
          i # k => \E j \in 1 .. Len(q) : q[j] = p[i]
    <3>1. TAKE i \in 1 .. Len(p)
    <3>2. CASE i < k
      BY <1>4, <1>7, <3>2
    <3>3. CASE i > k
      <4>1. i - 1 \in 1 .. Len(q) /\ q[i - 1] = p[i]
        BY <1>4, <1>7, <3>3
      <4>2. QED
        BY <4>1
    <3>4. QED
      BY <3>2, <3>3
  <2>3. \A j \in 1 .. Len(q) : \E i \in 1 .. Len(p) : q[j] = p[i]
    <3>1. TAKE j \in 1 .. Len(q)
    <3>2. j \in 1 .. Len(p) /\ j + 1 \in 1 .. Len(p)
      BY <1>7
    <3>3. QED
      BY <1>7, <3>2
  <2>4. QED
    <3>1. x \notin IdsOf(q) /\ x \in IdsOf(p)
      BY <1>4, <2>1 DEF IdsOf
    <3>2. ASSUME NEW y \in IdsOf(p), y # x PROVE y \in IdsOf(q)
      <4>1. PICK i \in 1 .. Len(p) : y = p[i].id
        BY DEF IdsOf
      <4>2. PICK j \in 1 .. Len(q) : q[j] = p[i]
        BY <1>4, <2>2, <3>2, <4>1
      <4>3. QED
        BY <4>1, <4>2 DEF IdsOf
    <3>3. ASSUME NEW y \in IdsOf(q) PROVE y \in IdsOf(p)
      BY <2>3 DEF IdsOf
    <3>4. QED
      BY <3>1, <3>2, <3>3
<1>10. PICK d \in Book : d = DropFromIndex(b, x)
  BY WithEntryType DEF DropFromIndex, BookOK
<1>11. /\ d.queue = b.queue
       /\ \A n \in Ids : d.index[n] = IF n = x THEN NoSlot ELSE b.index[n]
  BY <1>10, WithEntryType DEF DropFromIndex, BookOK
<1>12. PICK c \in Book : c = WithQueue(d, s, q)
  BY <1>7, WithQueueType
<1>13. /\ c.index = d.index
       /\ \A u \in Slots : c.queue[u] = IF u = s THEN q ELSE d.queue[u]
  BY <1>7, <1>12, WithQueueType
<1>14. BookOK(c)
  BY ChangeOK, <1>1, <1>2, <1>7, <1>8, <1>9, <1>11, <1>13
<1>15. c = CancelAt(b, x)
  <2>1. \A m \in {i \in 1 .. Len(p) : p[i].id = x} : m = k
    BY <1>5
  <2>2. Min({i \in 1 .. Len(p) : p[i].id = x}) = k
    <3>1. {i \in 1 .. Len(p) : p[i].id = x} = {k}
      BY <1>4, <1>5
    <3>2. QED
      BY <3>1 DEF Min
  <2>3. RemoveFirstMatch(p, LAMBDA o : o.id = x) = q
    BY <1>4, <1>6, <2>2 DEF RemoveFirstMatch, SelectInSeq
  <2>4. QED
    BY <1>1, <1>2, <1>10, <1>12, <2>3 DEF CancelAt
<1>16. Shrinks(b, c)
  BY <1>2, <1>4, <1>11, <1>13 DEF Shrinks
<1>17. KeepsOrder(b, c)
  <2> DEFINE at(i) == IF i < k THEN i ELSE i + 1
  <2>1. \A i \in 1 .. Len(q) : at(i) \in 1 .. Len(p) /\ q[i] = p[at(i)]
    BY <1>4, <1>7
  <2>2. \A i, j \in 1 .. Len(q) : i < j => at(i) < at(j)
    BY <1>7
  <2> HIDE DEF at
  <2>3. \A i, j \in 1 .. Len(q) :
          i < j => \E m, l \in 1 .. Len(p) :
                     m < l /\ p[m].id = q[i].id /\ p[l].id = q[j].id
    BY <2>1, <2>2
  <2>4. \A u \in Slots : c.queue[u] = IF u = s THEN q ELSE b.queue[u]
    BY <1>11, <1>13
  <2>5. SUFFICES ASSUME NEW slot \in Slots
                 PROVE  \A i, j \in 1 .. Len(c.queue[slot]) :
                          i < j => \E m, l \in 1 .. Len(b.queue[slot]) :
                                     /\ m < l
                                     /\ b.queue[slot][m].id = c.queue[slot][i].id
                                     /\ b.queue[slot][l].id = c.queue[slot][j].id
    BY DEF KeepsOrder
  <2>6. CASE slot = s
    <3>1. c.queue[slot] = q /\ b.queue[slot] = p
      BY <1>2, <2>4, <2>6
    <3>2. QED
      BY <2>3, <3>1
  <2>7. CASE slot # s
    BY <2>4, <2>7
  <2>8. QED
    BY <2>6, <2>7
<1>18. \A id \in Ids : id # x => /\ RestingSize(c, id) = RestingSize(b, id)
                                 /\ c.index[id] = b.index[id]
  <2>1. \A i \in 1 .. Len(p) : p[i].id # x => \E j \in 1 .. Len(q) : q[j] = p[i]
    <3>1. TAKE i \in 1 .. Len(p)
    <3>2. CASE i < k
      BY <1>4, <1>7, <3>2
    <3>3. CASE i > k
      <4>1. i - 1 \in 1 .. Len(q) /\ q[i - 1] = p[i]
        BY <1>4, <1>7, <3>3
      <4>2. QED
        BY <4>1
    <3>4. QED
      BY <1>4, <3>2, <3>3
  <2>2. c.queue[s] = q /\ \A u \in Slots : u # s => c.queue[u] = b.queue[u]
    BY <1>11, <1>13
  <2>3. \A id \in Ids : id # x => c.index[id] = b.index[id]
    BY <1>11, <1>13
  <2>4. QED
    BY <1>2, <1>14, <2>1, <2>2, <2>3, OthersKeep
<1>19. c.index[x] = NoSlot
  BY <1>11, <1>13
<1>20. QED
  BY <1>14, <1>15, <1>16, <1>17, <1>18, <1>19

-----------------------------------------------------------------------------
LEMMA NatMin ==
  ASSUME NEW T, T \subseteq Nat, T # {}
  PROVE  \E x \in T : \A y \in T : x <= y
<1>1. PICK x \in T : \A y \in T : ~ (<<y, x>> \in OpToRel(<, Nat))
  BY WFMin, NatLessThanWellFounded
<1>2. \A y \in T : ~ (y < x)
  BY <1>1 DEF OpToRel
<1>3. QED
  BY <1>2

LEMMA MinMax ==
  ASSUME NEW n \in Nat, NEW T, T \subseteq 0 .. n, T # {}
  PROVE  /\ Min(T) \in T /\ \A y \in T : Min(T) <= y
         /\ Max(T) \in T /\ \A y \in T : Max(T) >= y
<1>1. \E x \in T : \A y \in T : x <= y
  <2>1. T \subseteq Nat
    OBVIOUS
  <2>2. QED
    BY <2>1, NatMin
<1>2. \E x \in T : \A y \in T : x >= y
  <2>1. PICK z \in {n - x : x \in T} : \A y \in {n - x : x \in T} : z <= y
    <3>1. {n - x : x \in T} \subseteq Nat
      OBVIOUS
    <3>2. {n - x : x \in T} # {}
      OBVIOUS
    <3>3. QED
      BY <3>1, <3>2, NatMin
  <2>2. PICK x \in T : z = n - x
    BY <2>1
  <2>3. \A y \in T : n - x <= n - y
    BY <2>1, <2>2
  <2>4. QED
    BY <2>3
<1>3. QED
  BY <1>1, <1>2 DEF Min, Max

\* The maker the loop takes: it rests in the best slot, and the fill is for
\* some of its size and of the taker's.
LEMMA BestMakerOK ==
  ASSUME NEW b, BookOK(b), NEW intent \in Intent, NEW remaining \in Nat,
         CanFill(b, intent, remaining)
  PROVE  LET slot == BestSlot(b, intent)
             maker == BestMaker(b, intent)
             size == FillSize(maker, remaining)
         IN /\ slot \in Slots
            /\ b.queue[slot] # <<>>
            /\ maker = Head(b.queue[slot])
            /\ maker \in Order
            /\ b.index[maker.id] = slot /\ slot = SlotOf(maker)
            /\ size \in Nat /\ size > 0 /\ size <= maker.remaining /\ size <= remaining
<1> DEFINE side == Opposite(intent.side)
<1>1. side \in Sides
  BY DEF Opposite, Sides, Intent
<1>2. BestPrice(b, side) \in Levels(b, side)
  <2>1. Levels(b, side) \subseteq 0 .. MaxPrice /\ Levels(b, side) # {}
    BY DEF CanFill, Levels, Prices
  <2>2. Min(Levels(b, side)) \in Levels(b, side) /\ Max(Levels(b, side)) \in Levels(b, side)
    BY <2>1, MinMax, MaxPriceIsNat
  <2>3. QED
    BY <2>2 DEF BestPrice
<1>3. PICK slot \in Slots : slot = BestSlot(b, intent)
  <2>1. BestSlot(b, intent) \in Slots
    BY <1>1, <1>2 DEF BestSlot, Levels, Slots
  <2>2. QED
    BY <2>1
<1>4. b.queue[slot] # <<>>
  BY <1>2, <1>3 DEF BestSlot, Levels
<1>5. PICK p \in Seq(Order) : p = b.queue[slot]
  BY BookFields DEF BookOK
<1>6. PICK maker \in Order : maker = BestMaker(b, intent)
  <2>1. Head(p) \in Order /\ BestMaker(b, intent) = Head(p)
    BY <1>3, <1>4, <1>5, HeadTailProperties DEF BestMaker
  <2>2. QED
    BY <2>1
<1>7. maker = Head(p) /\ maker = p[1] /\ 1 \in 1 .. Len(p)
  BY <1>3, <1>4, <1>5, <1>6 DEF BestMaker
<1>8. maker.id \in Ids /\ maker.remaining \in Nat /\ maker.remaining > 0
      /\ b.index[maker.id] = slot /\ slot = SlotOf(maker)
  BY <1>5, <1>7 DEF BookOK, QueueOK, IdsOf, Order
<1>9. remaining > 0
  BY DEF CanFill
<1>10. LET size == FillSize(maker, remaining)
       IN size \in Nat /\ size > 0 /\ size <= maker.remaining /\ size <= remaining
  BY <1>8, <1>9 DEF FillSize
<1>11. QED
  BY <1>3, <1>4, <1>5, <1>6, <1>7, <1>8, <1>10

\* When the loop ends with size left, no level is left that the taker crosses.
LEMMA NothingCrosses ==
  ASSUME NEW b, NEW intent \in Intent, NEW remaining \in Nat, remaining # 0,
         ~ CanFill(b, intent, remaining)
  PROVE  \A p \in Levels(b, Opposite(intent.side)) :
           IF intent.side = "Long" THEN intent.price < p ELSE p < intent.price
<1> DEFINE side == Opposite(intent.side)
           L == Levels(b, side)
<1>1. L \subseteq 0 .. MaxPrice
  BY DEF Levels, Prices
<1>2. SUFFICES ASSUME NEW p \in L
               PROVE  IF intent.side = "Long" THEN intent.price < p ELSE p < intent.price
  OBVIOUS
<1>3. /\ Min(L) \in 0 .. MaxPrice /\ Min(L) <= p
      /\ Max(L) \in 0 .. MaxPrice /\ Max(L) >= p
  BY <1>1, MinMax, MaxPriceIsNat
<1>4. ~ TakerCrosses(intent, BestPrice(b, side))
  BY DEF CanFill
<1>5. intent.price \in Int /\ p \in Int /\ intent.side \in {"Long", "Short"}
  BY <1>1, MaxPriceIsNat DEF Intent, Prices, Sides
<1>6. CASE intent.side = "Long"
  <2>1. BestPrice(b, side) = Min(L)
    BY <1>6 DEF BestPrice, Opposite
  <2>2. QED
    BY <1>3, <1>4, <1>5, <1>6, <2>1, MaxPriceIsNat DEF TakerCrosses
<1>7. CASE intent.side = "Short"
  <2>1. BestPrice(b, side) = Max(L)
    BY <1>7 DEF BestPrice, Opposite
  <2>2. QED
    BY <1>3, <1>4, <1>5, <1>7, <2>1, MaxPriceIsNat DEF TakerCrosses
<1>8. QED
  BY <1>5, <1>6, <1>7

\* A book that only lost levels stays uncrossed.
LEMMA ShrinksUncrossed ==
  ASSUME NEW b, NEW c, Shrinks(b, c), BookIsUncrossed(b)
  PROVE  BookIsUncrossed(c)
<1>1. \A side \in Sides : Levels(c, side) \subseteq Levels(b, side)
  BY DEF Shrinks, Levels, Slots
<1>2. QED
  BY <1>1 DEF BookIsUncrossed, Sides

-----------------------------------------------------------------------------
\* The inductive invariant.  Uncrossed alone is not inductive: it needs the
\* walk to be of a submitted intent that is not itself on the book, and the
\* book and its index to agree, for a cancel or a fill to take what it means.
Links ==
  /\ \A id \in Ids : intents[id] # NoIntent => intents[id].id = id
  /\ \A id \in Ids : book.index[id] # NoSlot => intents[id] # NoIntent
  /\ walk # NoWalk => intents[walk.id] # NoIntent /\ book.index[walk.id] = NoSlot

IInv == TypeOK /\ BookOK(book) /\ Links /\ Uncrossed

LEMMA InitIInv == Init => IInv
<1> SUFFICES ASSUME Init PROVE IInv
  OBVIOUS
<1> USE DEF Init, EmptyBook
<1>1. \A slot \in Slots : book.queue[slot] = <<>>
  OBVIOUS
<1>2. book \in Book
  BY DEF Book
<1>3. BookOK(book)
  BY <1>1, <1>2, NoSlotIsNoSlot DEF BookOK, QueueOK, IdsOf
<1>4. now \in 0 .. MaxNow
  BY MaxNowIsNat
<1>5. TypeOK
  BY <1>2, <1>4 DEF TypeOK, Status
<1>6. Links
  BY DEF Links
<1>7. Uncrossed
  BY <1>1 DEF Uncrossed, BookIsUncrossed, Levels, Slots, Sides
<1>8. QED
  BY <1>3, <1>5, <1>6, <1>7 DEF IInv

\* The intent of the running walk.
LEMMA WalkIntent ==
  ASSUME IInv, walk # NoWalk
  PROVE  /\ walk \in Walk /\ walk.id \in Ids /\ walk.remaining \in Nat
         /\ walk.fills \in Seq(Fill)
         /\ intents[walk.id] \in Intent /\ intents[walk.id].id = walk.id
         /\ book.index[walk.id] = NoSlot
BY DEF IInv, TypeOK, Links, Walk

LEMMA BeginIInv ==
  ASSUME IInv, NEW id \in Ids, NEW terms \in Terms, Begin(id, terms)
  PROVE  IInv'
<1>1. PICK intent \in Intent : intent = WithId(id, terms)
  <2>1. WithId(id, terms) \in Intent
    BY TermsAreIntents
  <2>2. QED
    BY <2>1
<1>2. intent.id = id /\ intent.magnitude \in Nat /\ intent # NoIntent
  BY <1>1, TermsAreIntents DEF WithId, Intent
<1>3. book' = book /\ walk = NoWalk /\ intents[id] = NoIntent
  BY DEF Begin
<1>4. intents' = [intents EXCEPT ![id] = intent]
  BY <1>1 DEF Begin
<1>5. \/ walk' = NoWalk
      \/ walk' = [id |-> id, remaining |-> intent.magnitude, fills |-> <<>>]
  BY <1>1 DEF Begin
<1>6. [id |-> id, remaining |-> intent.magnitude, fills |-> <<>>] \in Walk
  BY <1>2 DEF Walk
<1>7. status' \in [Ids -> Status]
  BY DEF Begin, IInv, TypeOK, Status
<1>8. TypeOK'
  BY <1>3, <1>4, <1>5, <1>6, <1>7 DEF IInv, TypeOK, Begin
<1>9. BookOK(book)' /\ Uncrossed'
  BY <1>3 DEF IInv, BookOK, Uncrossed
<1>10. Links'
  <2>1. book.index[id] = NoSlot
    BY <1>3 DEF IInv, Links
  <2>2. \A n \in Ids : intents'[n] = IF n = id THEN intent ELSE intents[n]
    BY <1>4 DEF IInv, TypeOK
  <2>3. walk' # NoWalk => walk'.id = id
    BY <1>5
  <2>4. QED
    BY <1>2, <1>3, <2>1, <2>2, <2>3 DEF IInv, Links
<1>11. QED
  BY <1>8, <1>9, <1>10 DEF IInv

LEMMA IterateIInv ==
  ASSUME IInv, Iterate
  PROVE  IInv'
<1>1. walk # NoWalk
  BY DEF Iterate
<1>2. PICK intent \in Intent : intent = intents[walk.id]
  BY <1>1, WalkIntent
<1>3. walk.id \in Ids /\ walk.remaining \in Nat /\ walk.fills \in Seq(Fill)
      /\ walk \in Walk /\ intent.id = walk.id /\ book.index[walk.id] = NoSlot
  BY <1>1, <1>2, WalkIntent
<1>4. CanFill(book, intent, walk.remaining) /\ BookOK(book)
  BY <1>2 DEF Iterate, IInv
<1>5. PICK slot \in Slots : slot = BestSlot(book, intent)
  BY <1>3, <1>4, BestMakerOK
<1>6. PICK maker \in Order : maker = BestMaker(book, intent)
  BY <1>3, <1>4, BestMakerOK
<1>7. PICK size \in Nat : size = FillSize(maker, walk.remaining)
  BY <1>3, <1>4, <1>6, BestMakerOK
<1>8. /\ book.queue[slot] # <<>> /\ maker = Head(book.queue[slot])
      /\ size > 0 /\ size <= maker.remaining /\ size <= walk.remaining
  BY <1>3, <1>4, <1>5, <1>6, <1>7, BestMakerOK
<1>9. book' = BookAfterFill(book, slot, maker, size)
  BY <1>2, <1>5, <1>6, <1>7 DEF Iterate
<1>10. BookOK(book') /\ Shrinks(book, book')
  BY <1>4, <1>8, <1>9, FillOK
<1>11. walk' \in Walk /\ walk'.id = walk.id
  <2>1. walk' = [walk EXCEPT !.remaining = walk.remaining - size,
                             !.fills = Append(walk.fills, MakeFill(intent, maker, size))]
    BY <1>2, <1>6, <1>7 DEF Iterate
  <2>2. MakeFill(intent, maker, size) \in Fill
    BY <1>3 DEF MakeFill, Fill, Order
  <2>3. PICK fills \in Seq(Fill) :
          fills = Append(walk.fills, MakeFill(intent, maker, size))
    <3>1. Append(walk.fills, MakeFill(intent, maker, size)) \in Seq(Fill)
      BY <1>3, <2>2
    <3>2. QED
      BY <3>1
  <2>4. PICK left \in Nat : left = walk.remaining - size
    BY <1>3, <1>8
  <2>5. walk' = [walk EXCEPT !.remaining = left, !.fills = fills]
    BY <2>1, <2>3, <2>4
  <2>6. QED
    BY <1>3, <2>5 DEF Walk
<1>12. filled' \in [Ids -> Nat]
  <2>1. filled' = [filled EXCEPT ![maker.id] = @ + size, ![intent.id] = @ + size]
    BY <1>2, <1>6, <1>7 DEF Iterate
  <2>2. maker.id \in Ids /\ intent.id \in Ids /\ filled \in [Ids -> Nat]
    BY <1>3 DEF Order, IInv, TypeOK
  <2>3. QED
    BY <2>1, <2>2
<1>13. TypeOK'
  BY <1>10, <1>11, <1>12 DEF TypeOK, IInv, Iterate, BookOK
<1>14. Links'
  BY <1>1, <1>3, <1>10, <1>11 DEF Links, IInv, Iterate, Shrinks
<1>15. Uncrossed'
  BY <1>10, ShrinksUncrossed DEF Uncrossed, IInv
<1>16. QED
  BY <1>10, <1>13, <1>14, <1>15 DEF IInv

LEMMA FinishIInv ==
  ASSUME IInv, Finish
  PROVE  IInv'
<1>1. walk # NoWalk /\ walk' = NoWalk
  BY DEF Finish
<1>2. PICK intent \in Intent : intent = intents[walk.id]
  BY <1>1, WalkIntent
<1>3. /\ walk.id \in Ids /\ walk.remaining \in Nat
      /\ intent.id = walk.id /\ intent.id \in Ids /\ book.index[intent.id] = NoSlot
  BY <1>1, <1>2, WalkIntent
<1>4. PICK any \in BOOLEAN : any = (walk.fills # <<>>)
  OBVIOUS
<1>5. /\ ~ CanFill(book, intent, walk.remaining)
      /\ book' = BookAfterResidual(book, intent, walk.remaining, any)
      /\ status' = [status EXCEPT ![intent.id] = MatchStatus(intent, walk.remaining, any)]
      /\ arrivals' = IF Rests(intent, walk.remaining, any)
                     THEN Append(arrivals, intent.id) ELSE arrivals
  BY <1>2, <1>4 DEF Finish
<1>6. BookOK(book) /\ BookIsUncrossed(book)
  BY DEF IInv, Uncrossed
<1>7. /\ BookOK(book')
      /\ \A id \in Ids : id # intent.id => book'.index[id] = book.index[id]
      /\ BookIsUncrossed(book')
  <2>1. CASE ~ Rests(intent, walk.remaining, any)
    BY <1>5, <1>6, <2>1 DEF BookAfterResidual
  <2>2. CASE Rests(intent, walk.remaining, any)
    <3>1. walk.remaining # 0 /\ walk.remaining > 0
      BY <1>3, <2>2 DEF Rests
    <3>2. PICK o \in Order : o = Residual(intent, walk.remaining)
      <4>1. Residual(intent, walk.remaining) \in Order
        BY <1>3 DEF Residual, Order, Intent
      <4>2. QED
        BY <4>1
    <3>3. /\ o.id = intent.id /\ o.remaining > 0
          /\ o.side = intent.side /\ o.price = intent.price
      BY <3>1, <3>2 DEF Residual
    <3>4. book' = Insert(book, o)
      BY <1>5, <2>2, <3>2 DEF BookAfterResidual
    <3>5. /\ BookOK(book')
          /\ \A slot \in Slots : slot # SlotOf(o) => book'.queue[slot] = book.queue[slot]
          /\ \A id \in Ids : id # o.id => book'.index[id] = book.index[id]
      BY <1>3, <1>6, <3>3, <3>4, InsertOK
    <3>6. \A side \in Sides, p \in Prices :
            p \in Levels(book', side) =>
              p \in Levels(book, side) \/ (side = intent.side /\ p = intent.price)
      BY <3>3, <3>5 DEF Levels, Slots, SlotOf
    <3>7. \A p \in Levels(book, Opposite(intent.side)) :
            IF intent.side = "Long" THEN intent.price < p ELSE p < intent.price
      BY <1>3, <1>5, <3>1, NothingCrosses
    <3>8. intent.side \in {"Long", "Short"}
      BY DEF Intent, Sides
    <3>9. BookIsUncrossed(book')
      <4>1. SUFFICES ASSUME NEW bid \in Levels(book', "Long"),
                            NEW ask \in Levels(book', "Short")
                     PROVE  bid < ask
        BY DEF BookIsUncrossed
      <4>2. bid \in Prices /\ ask \in Prices
        BY DEF Levels
      <4>3. bid \in Levels(book, "Long") \/ (intent.side = "Long" /\ bid = intent.price)
        BY <3>6, <4>2 DEF Sides
      <4>4. ask \in Levels(book, "Short") \/ (intent.side = "Short" /\ ask = intent.price)
        BY <3>6, <4>2 DEF Sides
      <4>5. CASE intent.side = "Long"
        BY <1>6, <3>7, <4>3, <4>4, <4>5 DEF BookIsUncrossed, Opposite
      <4>6. CASE intent.side = "Short"
        BY <1>6, <3>7, <4>3, <4>4, <4>6 DEF BookIsUncrossed, Opposite
      <4>7. QED
        BY <3>8, <4>5, <4>6
    <3>10. QED
      BY <3>3, <3>5, <3>9
  <2>3. QED
    BY <2>1, <2>2
<1>8. MatchStatus(intent, walk.remaining, any) \in Status
  BY DEF MatchStatus, Status
<1>9. TypeOK'
  <2>1. status' \in [Ids -> Status]
    BY <1>5, <1>8 DEF IInv, TypeOK
  <2>2. arrivals' \in Seq(Ids)
    <3>1. arrivals \in Seq(Ids)
      BY DEF IInv, TypeOK
    <3>2. QED
      BY <1>3, <1>5, <3>1
  <2>3. QED
    BY <1>1, <1>7, <2>1, <2>2 DEF TypeOK, IInv, BookOK, Finish
<1>10. Links'
  <2>1. intents' = intents /\ intents[intent.id] # NoIntent
    BY <1>1, <1>3, <1>2, TermsAreIntents DEF Finish
  <2>2. QED
    BY <1>1, <1>7, <2>1 DEF Links, IInv
<1>11. QED
  BY <1>7, <1>9, <1>10 DEF IInv, Uncrossed

LEMMA CancelIInv ==
  ASSUME IInv, NEW id \in Ids, Cancel(id)
  PROVE  IInv'
<1>1. book.index[id] # NoSlot /\ book' = CancelAt(book, id)
  BY DEF Cancel, CancelIntent, Locate
<1>2. BookOK(book') /\ Shrinks(book, book')
  BY <1>1, CancelOK DEF IInv
<1>3. TypeOK'
  BY <1>2 DEF IInv, TypeOK, Cancel, Status, BookOK
<1>4. Links'
  BY <1>2 DEF IInv, Links, Cancel, Shrinks
<1>5. Uncrossed'
  BY <1>2, ShrinksUncrossed DEF IInv, Uncrossed
<1>6. QED
  BY <1>2, <1>3, <1>4, <1>5 DEF IInv

LEMMA NextIInv == IInv /\ [Next]_vars => IInv'
<1> SUFFICES ASSUME IInv, [Next]_vars PROVE IInv'
  OBVIOUS
<1>1. ASSUME NEW id \in Ids, NEW terms \in Terms, Begin(id, terms) PROVE IInv'
  BY <1>1, BeginIInv
<1>2. CASE Iterate
  BY <1>2, IterateIInv
<1>3. CASE Finish
  BY <1>3, FinishIInv
<1>4. ASSUME NEW id \in Ids, Cancel(id) PROVE IInv'
  BY <1>4, CancelIInv
<1>5. CASE TimePasses
  <2>1. UNCHANGED <<book, intents, walk, status, filled, arrivals>>
    BY <1>5 DEF TimePasses
  <2>2. now' \in 0 .. MaxNow
    BY <1>5, MaxNowIsNat DEF TimePasses, IInv, TypeOK
  <2>3. QED
    BY <2>1, <2>2 DEF IInv, TypeOK, BookOK, Links, Uncrossed
<1>6. CASE UNCHANGED vars
  BY <1>6 DEF vars, IInv, TypeOK, BookOK, Links, Uncrossed
<1>7. QED
  BY <1>1, <1>2, <1>3, <1>4, <1>5, <1>6 DEF Next

LEMMA SpecIInv == Spec => []IInv
BY InitIInv, NextIInv, PTL DEF Spec

\* Every value the match loop holds has its type, whatever the ids, the
\* prices and the terms: no fill takes more than a maker or a taker has left.
THEOREM MatchLoopTypes == Spec => []TypeOK
<1>1. IInv => TypeOK
  BY DEF IInv
<1>2. QED
  BY <1>1, SpecIInv, PTL

\* invariants.rs, book_is_uncrossed: neither a walk nor the residual it
\* leaves can cross the book.
THEOREM MatchLoopUncrossed == Spec => []Uncrossed
<1>1. IInv => Uncrossed
  BY DEF IInv
<1>2. QED
  BY <1>1, SpecIInv, PTL

\* book.rs: cancel-by-id finds every order on the book and nothing else.
THEOREM MatchLoopIndex == Spec => []IndexMatchesBook
<1>1. IInv => IndexMatchesBook
  <2> SUFFICES ASSUME IInv, NEW slot \in Slots
                 PROVE  LET queue == book.queue[slot]
                        IN /\ \A i, j \in DOMAIN queue : queue[i].id = queue[j].id => i = j
                           /\ \A id \in Ids :
                                Locate(book, id) = slot
                                  <=> \E i \in DOMAIN queue : queue[i].id = id
    BY DEF IndexMatchesBook
  <2>2. PICK queue \in Seq(Order) : queue = book.queue[slot]
    <3>1. book \in Book
      BY DEF IInv, BookOK
    <3>2. book.queue[slot] \in Seq(Order)
      BY <3>1, BookFields
    <3>3. QED
      BY <3>2
  <2>3. QueueOK(queue, slot)
        /\ \A id \in Ids : id \in IdsOf(queue) <=> Locate(book, id) = slot
    <3>1. BookOK(book)
      BY DEF IInv
    <3>2. QED
      BY <2>2, <3>1 DEF BookOK, Locate
  <2>4. DOMAIN queue = 1 .. Len(queue)
    OBVIOUS
  <2>5. QED
    BY <2>2, <2>3, <2>4 DEF QueueOK, IdsOf
<1>2. QED
  BY <1>1, SpecIInv, PTL
-----------------------------------------------------------------------------
(***************************************************************************)
(* Sizes and the order of arrival.  What each step does to the open size   *)
(* of every id, and to the levels, is stated once and used three times:    *)
(* for the conservation of sizes, for price-time priority and for the      *)
(* refinement of Exchange.                                                 *)
(***************************************************************************)
LEMMA OpenIs ==
  ASSUME IInv, NEW id \in Ids
  PROVE  /\ Open(id) \in Nat
         /\ walk = NoWalk \/ walk.id # id => Open(id) = RestingSize(book, id)
         /\ walk # NoWalk /\ walk.id = id => Open(id) = walk.remaining
<1>1. RestingSize(book, id) \in Nat
      /\ (book.index[id] = NoSlot => RestingSize(book, id) = 0)
  BY RestingNat DEF IInv
<1>2. CASE walk = NoWalk \/ walk.id # id
  BY <1>1, <1>2 DEF Open, InFlight
<1>3. CASE walk # NoWalk /\ walk.id = id
  <2>1. walk.remaining \in Nat /\ book.index[id] = NoSlot
    BY <1>3, WalkIntent
  <2>2. QED
    BY <1>1, <1>3, <2>1 DEF Open, InFlight
<1>4. QED
  BY <1>2, <1>3

LEMMA BeginStep ==
  ASSUME IInv, NEW id \in Ids, NEW terms \in Terms, Begin(id, terms)
  PROVE  /\ intents[id] = NoIntent /\ intents'[id] \in Intent
         /\ intents' = [intents EXCEPT ![id] = intents'[id]]
         /\ walk' # NoWalk => walk'.id = id
         /\ Open(id) = 0 /\ Open(id)' \in {0, intents'[id].magnitude}
         /\ \A n \in Ids : n # id => Open(n)' = Open(n)
<1>1. PICK intent \in Intent : intent = WithId(id, terms)
  <2>1. WithId(id, terms) \in Intent
    BY TermsAreIntents
  <2>2. QED
    BY <2>1
<1>2. /\ book' = book /\ walk = NoWalk /\ intents[id] = NoIntent
      /\ intents' = [intents EXCEPT ![id] = intent]
  BY <1>1 DEF Begin
<1>3. intents'[id] = intent
  BY <1>2 DEF IInv, TypeOK
<1>4. \/ walk' = NoWalk
      \/ walk' = [id |-> id, remaining |-> intent.magnitude, fills |-> <<>>]
  BY <1>1 DEF Begin
<1>5. RestingSize(book, id) = 0
  <2>1. book.index[id] = NoSlot /\ BookOK(book)
    BY <1>2 DEF IInv, Links
  <2>2. QED
    BY <2>1, RestingNat
<1>6. \A n \in Ids : RestingSize(book', n) = RestingSize(book, n)
  BY <1>2
<1>7. InFlight(id)' \in {0, intent.magnitude}
  BY <1>4 DEF InFlight
<1>8. intent.magnitude \in Nat
  BY DEF Intent
<1>9. Open(id)' \in {0, intent.magnitude}
  BY <1>5, <1>6, <1>7, <1>8 DEF Open
<1>10. ASSUME NEW n \in Ids, n # id PROVE Open(n)' = Open(n)
  BY <1>2, <1>4, <1>6, <1>10 DEF Open, InFlight
<1>11. Open(id) = 0
  BY <1>2, <1>5, OpenIs
<1>12. walk' # NoWalk => walk'.id = id
  BY <1>4
<1>13. QED
  BY <1>2, <1>3, <1>9, <1>10, <1>11, <1>12

LEMMA IterateStep ==
  ASSUME IInv, Iterate
  PROVE  \E taker \in Ids, intent \in Intent, maker \in Order, size \in Nat :
           /\ walk # NoWalk /\ walk.id = taker
           /\ intent = intents[taker] /\ intent.id = taker
           /\ CanFill(book, intent, walk.remaining)
           /\ SlotOf(maker) = BestSlot(book, intent)
           /\ maker = Head(book.queue[SlotOf(maker)])
           /\ book.queue[SlotOf(maker)] # <<>>
           /\ book.index[maker.id] = SlotOf(maker) /\ maker.id # taker
           /\ size > 0 /\ size <= Open(maker.id) /\ size <= Open(taker)
           /\ filled' = [filled EXCEPT ![maker.id] = @ + size, ![taker] = @ + size]
           /\ Open(maker.id)' = Open(maker.id) - size
           /\ Open(taker)' = Open(taker) - size
           /\ \A n \in Ids : n \notin {maker.id, taker} => Open(n)' = Open(n)
           /\ KeepsOrder(book, book')
           /\ \A n \in Ids : book'.index[n] \in {NoSlot, book.index[n]}
           /\ walk' # NoWalk /\ walk'.id = taker
<1>1. walk # NoWalk
  BY DEF Iterate
<1>2. PICK intent \in Intent : intent = intents[walk.id]
  BY <1>1, WalkIntent
<1>3. walk.id \in Ids /\ walk.remaining \in Nat /\ walk \in Walk
      /\ intent.id = walk.id /\ book.index[walk.id] = NoSlot
  BY <1>1, <1>2, WalkIntent
<1>4. CanFill(book, intent, walk.remaining) /\ BookOK(book)
  BY <1>2 DEF Iterate, IInv
<1>5. PICK slot \in Slots : slot = BestSlot(book, intent)
  BY <1>3, <1>4, BestMakerOK
<1>6. PICK maker \in Order : maker = BestMaker(book, intent)
  BY <1>3, <1>4, BestMakerOK
<1>7. PICK size \in Nat : size = FillSize(maker, walk.remaining)
  BY <1>3, <1>4, <1>6, BestMakerOK
<1>8. /\ book.queue[slot] # <<>> /\ maker = Head(book.queue[slot])
      /\ book.index[maker.id] = slot /\ slot = SlotOf(maker)
      /\ size > 0 /\ size <= maker.remaining /\ size <= walk.remaining
  BY <1>3, <1>4, <1>5, <1>6, <1>7, BestMakerOK
<1>9. maker.id \in Ids /\ maker.remaining \in Nat /\ maker.id # walk.id
  BY <1>3, <1>5, <1>8, NoSlotIsNoSlot DEF Order
<1>10. book' = BookAfterFill(book, slot, maker, size)
  BY <1>2, <1>5, <1>6, <1>7 DEF Iterate
<1>11. /\ BookOK(book') /\ Shrinks(book, book') /\ KeepsOrder(book, book')
       /\ RestingSize(book', maker.id) = RestingSize(book, maker.id) - size
       /\ \A n \in Ids : n # maker.id => /\ RestingSize(book', n) = RestingSize(book, n)
                                         /\ book'.index[n] = book.index[n]
       /\ book'.index[maker.id] \in {NoSlot, book.index[maker.id]}
  BY <1>4, <1>8, <1>10, FillOK
<1>12. walk' = [walk EXCEPT !.remaining = walk.remaining - size,
                            !.fills = Append(walk.fills, MakeFill(intent, maker, size))]
  BY <1>2, <1>6, <1>7 DEF Iterate
<1>13. walk'.id = walk.id /\ walk'.remaining = walk.remaining - size
  BY <1>3, <1>12 DEF Walk
<1>14. walk' # NoWalk
  <2>1. IInv' /\ walk'.remaining \in Nat
    BY <1>3, <1>8, <1>13, IterateIInv
  <2>2. PICK fills \in Seq(Fill) :
          fills = Append(walk.fills, MakeFill(intent, maker, size))
    <3>1. MakeFill(intent, maker, size) \in Fill /\ walk.fills \in Seq(Fill)
      BY <1>1, <1>3, WalkIntent DEF MakeFill, Fill, Order
    <3>2. Append(walk.fills, MakeFill(intent, maker, size)) \in Seq(Fill)
      BY <3>1
    <3>3. QED
      BY <3>2
  <2>3. PICK left \in Nat : left = walk.remaining - size
    BY <1>13, <2>1
  <2>4. walk' = [walk EXCEPT !.remaining = left, !.fills = fills]
    BY <1>12, <2>2, <2>3
  <2>5. walk' \in Walk
    BY <1>3, <2>4 DEF Walk
  <2>6. QED
    BY <2>5, TermsAreIntents
<1>15. RestingSize(book, maker.id) = maker.remaining
  <2>1. PICK p \in Seq(Order) : p = book.queue[slot]
    BY <1>4, BookFields DEF BookOK
  <2>2. 1 \in 1 .. Len(p) /\ p[1] = maker
    BY <1>8, <2>1, HeadTailProperties
  <2>3. QED
    BY <1>4, <2>1, <2>2, RestingIs
<1>16. /\ Open(maker.id) = maker.remaining /\ Open(walk.id) = walk.remaining
       /\ \A n \in Ids : n # walk.id => Open(n) = RestingSize(book, n)
  BY <1>1, <1>3, <1>9, <1>15, OpenIs
<1>17. \A n \in Ids : n # walk.id => Open(n)' = RestingSize(book', n)
  <2>1. ASSUME NEW n \in Ids, n # walk.id PROVE Open(n)' = RestingSize(book', n)
    <3>1. RestingSize(book', n) \in Nat /\ InFlight(n)' = 0
      BY <1>11, <1>13, <2>1, RestingNat DEF InFlight
    <3>2. QED
      BY <3>1 DEF Open
  <2>2. QED
    BY <2>1
<1>18. PICK taker \in Ids : taker = walk.id
  BY <1>3
<1>19. Open(taker) = walk.remaining /\ Open(taker)' = walk.remaining - size
  <2>1. RestingSize(book', taker) = 0
    BY <1>3, <1>9, <1>11, <1>18, RestingNat
  <2>2. InFlight(taker)' = walk.remaining - size
    BY <1>13, <1>14, <1>18 DEF InFlight
  <2>3. QED
    BY <1>3, <1>16, <1>18, <2>1, <2>2 DEF Open
<1>20. filled' = [filled EXCEPT ![maker.id] = @ + size, ![taker] = @ + size]
  BY <1>2, <1>3, <1>6, <1>7, <1>18 DEF Iterate
<1>21. \A n \in Ids : book'.index[n] \in {NoSlot, book.index[n]}
  BY <1>11
<1>22. Open(maker.id)' = Open(maker.id) - size
  BY <1>9, <1>11, <1>15, <1>16, <1>17
<1>23. /\ CanFill(book, intent, walk.remaining)
       /\ SlotOf(maker) = BestSlot(book, intent)
       /\ maker = Head(book.queue[SlotOf(maker)])
       /\ book.queue[SlotOf(maker)] # <<>>
       /\ book.index[maker.id] = SlotOf(maker) /\ maker.id # taker
  BY <1>4, <1>5, <1>8, <1>9, <1>18
<1>24. /\ size > 0 /\ size <= Open(maker.id) /\ size <= Open(taker)
       /\ Open(taker)' = Open(taker) - size
       /\ \A n \in Ids : n \notin {maker.id, taker} => Open(n)' = Open(n)
  <2>1. size > 0 /\ size <= Open(maker.id) /\ size <= Open(taker)
    BY <1>8, <1>16, <1>18
  <2>2. \A n \in Ids : n \notin {maker.id, taker} => Open(n)' = Open(n)
    BY <1>11, <1>16, <1>17, <1>18
  <2>3. QED
    BY <1>16, <1>18, <1>19, <2>1, <2>2
<1>25. /\ walk # NoWalk /\ walk.id = taker
       /\ intent = intents[taker] /\ intent.id = taker
       /\ KeepsOrder(book, book')
       /\ walk' # NoWalk /\ walk'.id = taker
  BY <1>1, <1>2, <1>3, <1>11, <1>13, <1>14, <1>18
<1>26. QED
  BY <1>20, <1>21, <1>22, <1>23, <1>24, <1>25

LEMMA FinishStep ==
  ASSUME IInv, Finish
  PROVE  \E id \in Ids, intent \in Intent :
           /\ walk # NoWalk /\ walk' = NoWalk /\ walk.id = id
           /\ intent = intents[id] /\ intent.id = id
           /\ Open(id)' \in {0, Open(id)}
           /\ \A n \in Ids : n # id => Open(n)' = Open(n)
           /\ \/ book' = book /\ arrivals' = arrivals
              \/ /\ \E o \in Order :
                      /\ o.id = id /\ SlotOf(o) = <<intent.side, intent.price>>
                      /\ book'.queue[SlotOf(o)] = Append(book.queue[SlotOf(o)], o)
                      /\ \A slot \in Slots :
                           slot # SlotOf(o) => book'.queue[slot] = book.queue[slot]
                 /\ book'.index[id] = <<intent.side, intent.price>>
                 /\ \A n \in Ids : n # id => book'.index[n] = book.index[n]
                 /\ arrivals' = Append(arrivals, id)
<1>1. walk # NoWalk /\ walk' = NoWalk
  BY DEF Finish
<1>2. PICK id \in Ids : id = walk.id
  BY <1>1, WalkIntent
<1>3. PICK intent \in Intent : intent = intents[id]
  BY <1>1, <1>2, WalkIntent
<1>4. walk.remaining \in Nat /\ intent.id = id /\ book.index[id] = NoSlot
  BY <1>1, <1>2, <1>3, WalkIntent
<1>5. PICK any \in BOOLEAN : any = (walk.fills # <<>>)
  OBVIOUS
<1>6. /\ book' = BookAfterResidual(book, intent, walk.remaining, any)
      /\ arrivals' = IF Rests(intent, walk.remaining, any)
                     THEN Append(arrivals, intent.id) ELSE arrivals
  BY <1>2, <1>3, <1>5 DEF Finish
<1>7. Open(id) = walk.remaining
      /\ \A n \in Ids : n # id => Open(n) = RestingSize(book, n)
  BY <1>1, <1>2, OpenIs
<1>8. BookOK(book') /\ BookOK(book)
  BY FinishIInv DEF IInv
<1>9. \A n \in Ids : Open(n)' = RestingSize(book', n)
  <2>1. ASSUME NEW n \in Ids PROVE Open(n)' = RestingSize(book', n)
    <3>1. RestingSize(book', n) \in Nat /\ InFlight(n)' = 0
      BY <1>1, <1>8, RestingNat DEF InFlight
    <3>2. QED
      BY <3>1 DEF Open
  <2>2. QED
    BY <2>1
<1>10. CASE ~ Rests(intent, walk.remaining, any)
  <2>1. book' = book /\ arrivals' = arrivals
    BY <1>6, <1>10 DEF BookAfterResidual
  <2>2. RestingSize(book', id) = 0
    BY <1>4, <1>8, <2>1, RestingNat
  <2>3. /\ Open(id)' \in {0, Open(id)}
        /\ \A n \in Ids : n # id => Open(n)' = Open(n)
    BY <1>7, <1>9, <2>1, <2>2
  <2>4. QED
    BY <1>1, <1>2, <1>3, <1>4, <2>1, <2>3
<1>11. CASE Rests(intent, walk.remaining, any)
  <2>1. walk.remaining > 0
    BY <1>4, <1>11 DEF Rests
  <2>2. PICK o \in Order : o = Residual(intent, walk.remaining)
    <3>1. Residual(intent, walk.remaining) \in Order
      BY <1>4 DEF Residual, Order, Intent
    <3>2. QED
      BY <3>1
  <2>3. /\ o.id = id /\ o.remaining > 0 /\ o.remaining = walk.remaining
        /\ SlotOf(o) = <<intent.side, intent.price>>
    BY <1>4, <2>1, <2>2 DEF Residual, SlotOf
  <2>4. book' = Insert(book, o) /\ arrivals' = Append(arrivals, id)
    BY <1>4, <1>6, <1>11, <2>2 DEF BookAfterResidual
  <2>5. /\ \A slot \in Slots : slot # SlotOf(o) => book'.queue[slot] = book.queue[slot]
        /\ book'.queue[SlotOf(o)] = Append(book.queue[SlotOf(o)], o)
        /\ \A n \in Ids : n # o.id => book'.index[n] = book.index[n]
        /\ book'.index[o.id] = SlotOf(o)
        /\ RestingSize(book', o.id) = o.remaining
        /\ \A n \in Ids : n # o.id => RestingSize(book', n) = RestingSize(book, n)
    BY <1>4, <1>8, <2>3, <2>4, InsertOK
  <2>6. /\ Open(id)' \in {0, Open(id)}
        /\ \A n \in Ids : n # id => Open(n)' = Open(n)
    BY <1>7, <1>9, <2>3, <2>5
  <2>7. book'.index[id] = <<intent.side, intent.price>>
        /\ \A n \in Ids : n # id => book'.index[n] = book.index[n]
    BY <2>3, <2>5
  <2>8. \E r \in Order :
          /\ r.id = id /\ SlotOf(r) = <<intent.side, intent.price>>
          /\ book'.queue[SlotOf(r)] = Append(book.queue[SlotOf(r)], r)
          /\ \A slot \in Slots : slot # SlotOf(r) => book'.queue[slot] = book.queue[slot]
    BY <2>3, <2>5
  <2>9. QED
    BY <1>1, <1>2, <1>3, <1>4, <2>4, <2>6, <2>7, <2>8
<1>12. QED
  BY <1>10, <1>11

LEMMA CancelStep ==
  ASSUME IInv, NEW id \in Ids, Cancel(id)
  PROVE  /\ Open(id) > 0 /\ Open(id)' = 0
         /\ \A n \in Ids : n # id => Open(n)' = Open(n)
         /\ KeepsOrder(book, book')
         /\ \A n \in Ids : book'.index[n] \in {NoSlot, book.index[n]}
<1>1. /\ book.index[id] # NoSlot /\ book' = CancelAt(book, id)
      /\ walk = NoWalk /\ walk' = NoWalk
  BY DEF Cancel, CancelIntent, Locate
<1>2. BookOK(book) /\ BookOK(book')
  BY CancelIInv DEF IInv
<1>3. /\ KeepsOrder(book, book') /\ book'.index[id] = NoSlot
      /\ \A n \in Ids : n # id => /\ RestingSize(book', n) = RestingSize(book, n)
                                  /\ book'.index[n] = book.index[n]
  BY <1>1, <1>2, CancelOK
<1>4. \A n \in Ids : Open(n) = RestingSize(book, n)
  BY <1>1, OpenIs
<1>5. \A n \in Ids : Open(n)' = RestingSize(book', n)
  <2>1. ASSUME NEW n \in Ids PROVE Open(n)' = RestingSize(book', n)
    <3>1. RestingSize(book', n) \in Nat /\ InFlight(n)' = 0
      BY <1>1, <1>2, RestingNat DEF InFlight
    <3>2. QED
      BY <3>1 DEF Open
  <2>2. QED
    BY <2>1
<1>6. RestingSize(book, id) > 0 /\ RestingSize(book', id) = 0
  BY <1>1, <1>2, <1>3, RestingNat
<1>7. QED
  BY <1>3, <1>4, <1>5, <1>6

-----------------------------------------------------------------------------
\* What SizeConserved needs to be inductive: an id not submitted has no fill.
Sizes ==
  /\ SizeConserved
  /\ \A id \in Ids : intents[id] = NoIntent => filled[id] = 0

LEMMA InitSizes == Init => Sizes
<1> SUFFICES ASSUME Init, NEW id \in Ids
             PROVE  intents[id] = NoIntent /\ filled[id] = 0
  BY DEF Sizes, SizeConserved
<1>1. QED
  BY DEF Init

LEMMA NextSizes == IInv /\ Sizes /\ [Next]_vars => Sizes'
<1> SUFFICES ASSUME IInv, Sizes, [Next]_vars PROVE Sizes'
  OBVIOUS
<1>1. \A n \in Ids : Open(n) \in Nat /\ filled[n] \in Nat
  BY OpenIs DEF IInv, TypeOK
<1>2. \A n \in Ids : intents[n] # NoIntent => intents[n].magnitude \in Nat
  BY DEF IInv, TypeOK, Intent
<1> SUFFICES ASSUME NEW n \in Ids
             PROVE  /\ intents'[n] # NoIntent =>
                         /\ filled'[n] + Open(n)' <= intents'[n].magnitude
                         /\ Open(n)' > 0 => filled'[n] + Open(n)' = intents'[n].magnitude
                    /\ intents'[n] = NoIntent => filled'[n] = 0
  BY DEF Sizes, SizeConserved
<1>3. /\ intents[n] # NoIntent =>
           /\ filled[n] + Open(n) <= intents[n].magnitude
           /\ Open(n) > 0 => filled[n] + Open(n) = intents[n].magnitude
      /\ intents[n] = NoIntent => filled[n] = 0
  BY DEF Sizes, SizeConserved
<1>4. ASSUME NEW id \in Ids, NEW terms \in Terms, Begin(id, terms)
      PROVE  /\ intents'[n] # NoIntent =>
                  /\ filled'[n] + Open(n)' <= intents'[n].magnitude
                  /\ Open(n)' > 0 => filled'[n] + Open(n)' = intents'[n].magnitude
             /\ intents'[n] = NoIntent => filled'[n] = 0
  <2>1. /\ intents[id] = NoIntent /\ intents'[id] \in Intent
        /\ intents' = [intents EXCEPT ![id] = intents'[id]]
        /\ Open(id)' \in {0, intents'[id].magnitude}
        /\ \A m \in Ids : m # id => Open(m)' = Open(m)
    BY <1>4, BeginStep
  <2>2. filled' = filled /\ intents'[id] # NoIntent
    BY <1>4, <2>1, TermsAreIntents DEF Begin
  <2>3. CASE n = id
    <3>1. intents'[id].magnitude \in Nat
      BY <2>1 DEF Intent
    <3>2. filled[id] = 0
      BY <1>3, <2>1, <2>3
    <3>3. QED
      BY <2>1, <2>2, <2>3, <3>1, <3>2
  <2>4. CASE n # id
    <3>1. intents'[n] = intents[n]
      BY <2>1, <2>4 DEF IInv, TypeOK
    <3>2. QED
      BY <1>3, <2>1, <2>2, <2>4, <3>1
  <2>5. QED
    BY <2>3, <2>4
<1>5. CASE Iterate
  <2>1. PICK taker \in Ids, maker \in Order, size \in Nat :
          /\ walk # NoWalk /\ walk.id = taker
          /\ book.index[maker.id] = SlotOf(maker) /\ maker.id # taker
          /\ size > 0 /\ size <= Open(maker.id) /\ size <= Open(taker)
          /\ filled' = [filled EXCEPT ![maker.id] = @ + size, ![taker] = @ + size]
          /\ Open(maker.id)' = Open(maker.id) - size
          /\ Open(taker)' = Open(taker) - size
          /\ \A m \in Ids : m \notin {maker.id, taker} => Open(m)' = Open(m)
    BY <1>5, IterateStep
  <2>2. intents' = intents
    BY <1>5 DEF Iterate
  <2>3. PICK m \in Ids : m = maker.id
    BY DEF Order
  <2>4. intents[m] # NoIntent /\ intents[taker] # NoIntent
    <3>1. book.index[m] # NoSlot
      <4>1. SlotOf(maker) \in Slots
        BY DEF SlotOf, Order, Slots
      <4>2. QED
        BY <2>1, <2>3, <4>1, NoSlotIsNoSlot
    <3>2. QED
      BY <2>1, <3>1 DEF IInv, Links
  <2>5. filled'[n] = IF n \in {m, taker} THEN filled[n] + size ELSE filled[n]
    BY <2>1, <2>3 DEF IInv, TypeOK
  <2>6. n \in {m, taker} => Open(n)' = Open(n) - size /\ size <= Open(n)
    BY <2>1, <2>3
  <2>7. CASE n \in {m, taker}
    BY <1>1, <1>2, <1>3, <2>1, <2>2, <2>4, <2>5, <2>6, <2>7
  <2>8. CASE n \notin {m, taker}
    BY <1>3, <2>1, <2>2, <2>3, <2>5, <2>8
  <2>9. QED
    BY <2>7, <2>8
<1>6. CASE Finish
  <2>1. Open(n)' \in {0, Open(n)}
    BY <1>6, FinishStep
  <2>2. intents' = intents /\ filled' = filled
    BY <1>6 DEF Finish
  <2>3. QED
    BY <1>1, <1>2, <1>3, <2>1, <2>2
<1>7. ASSUME NEW id \in Ids, Cancel(id)
      PROVE  /\ intents'[n] # NoIntent =>
                  /\ filled'[n] + Open(n)' <= intents'[n].magnitude
                  /\ Open(n)' > 0 => filled'[n] + Open(n)' = intents'[n].magnitude
             /\ intents'[n] = NoIntent => filled'[n] = 0
  <2>1. Open(n)' \in {0, Open(n)}
    BY <1>7, CancelStep
  <2>2. intents' = intents /\ filled' = filled
    BY <1>7 DEF Cancel
  <2>3. QED
    BY <1>1, <1>2, <1>3, <2>1, <2>2
<1>8. CASE TimePasses \/ UNCHANGED vars
  <2>1. /\ intents' = intents /\ filled' = filled
        /\ book' = book /\ walk' = walk
    BY <1>8 DEF TimePasses, vars
  <2>2. Open(n)' = Open(n)
    BY <2>1 DEF Open, InFlight
  <2>3. QED
    BY <1>3, <2>1, <2>2
<1>9. QED
  BY <1>4, <1>5, <1>6, <1>7, <1>8 DEF Next

\* What each intent has been filled, what rests of it and what the running
\* match holds of it never exceed its size, and add up to it while it is open.
THEOREM MatchLoopSizes == Spec => []SizeConserved
<1>1. Spec => [](IInv /\ Sizes)
  BY InitIInv, NextIInv, InitSizes, NextSizes, PTL DEF Spec
<1>2. Sizes => SizeConserved
  BY DEF Sizes
<1>3. QED
  BY <1>1, <1>2, PTL

-----------------------------------------------------------------------------
\* An id rests where its terms say.
Placed ==
  \A id \in Ids :
    book.index[id] # NoSlot =>
      book.index[id] = <<intents[id].side, intents[id].price>>

\* It has come to rest once, and not while it is matched.
Arrived ==
  /\ \A k \in 1 .. Len(arrivals) :
       /\ intents[arrivals[k]] # NoIntent
       /\ walk # NoWalk => arrivals[k] # walk.id
  /\ \A k, l \in 1 .. Len(arrivals) : arrivals[k] = arrivals[l] => k = l
  /\ \A id \in Ids :
       book.index[id] # NoSlot => \E k \in 1 .. Len(arrivals) : arrivals[k] = id

\* The orders of a level came to rest in the order they stand there.
Queued ==
  \A slot \in Slots : \A i, j \in 1 .. Len(book.queue[slot]) :
    i < j => RestedBefore(book.queue[slot][i].id, book.queue[slot][j].id)

Ordered == Placed /\ Arrived /\ Queued

LEMMA RestedIs ==
  ASSUME IInv, NEW a, NEW b
  PROVE  RestedBefore(a, b) <=>
           \E i, j \in 1 .. Len(arrivals) : i < j /\ arrivals[i] = a /\ arrivals[j] = b
<1>1. PICK s \in Seq(Ids) : s = arrivals
  BY DEF IInv, TypeOK
<1>2. DOMAIN s = 1 .. Len(s)
  OBVIOUS
<1>3. QED
  BY <1>1, <1>2 DEF RestedBefore

LEMMA InitOrdered == Init => Ordered
<1> SUFFICES ASSUME Init PROVE Ordered
  OBVIOUS
<1>1. /\ \A slot \in Slots : book.queue[slot] = <<>>
      /\ \A id \in Ids : book.index[id] = NoSlot
      /\ arrivals = <<>>
  BY DEF Init, EmptyBook
<1>2. QED
  BY <1>1 DEF Ordered, Placed, Arrived, Queued

\* No new arrival: the levels keep their order and lose entries.
LEMMA KeepsOrdered ==
  ASSUME IInv, Ordered, KeepsOrder(book, book'), UNCHANGED <<intents, arrivals>>,
         walk' # NoWalk => walk # NoWalk /\ walk'.id = walk.id,
         \A n \in Ids : book'.index[n] \in {NoSlot, book.index[n]}
  PROVE  Ordered'
<1>1. Placed' /\ Arrived'
  BY DEF Ordered, Placed, Arrived
<1>2. Queued'
  <2>1. SUFFICES ASSUME NEW slot \in Slots,
                        NEW i \in 1 .. Len(book'.queue[slot]),
                        NEW j \in 1 .. Len(book'.queue[slot]), i < j
                 PROVE  \E k, l \in DOMAIN arrivals' :
                          /\ k < l
                          /\ arrivals'[k] = book'.queue[slot][i].id
                          /\ arrivals'[l] = book'.queue[slot][j].id
    BY DEF Queued, RestedBefore
  <2>2. PICK k, l \in 1 .. Len(book.queue[slot]) :
          /\ k < l
          /\ book.queue[slot][k].id = book'.queue[slot][i].id
          /\ book.queue[slot][l].id = book'.queue[slot][j].id
    BY <2>1 DEF KeepsOrder
  <2>3. RestedBefore(book.queue[slot][k].id, book.queue[slot][l].id)
    BY <2>2 DEF Ordered, Queued
  <2>4. QED
    BY <2>2, <2>3 DEF RestedBefore
<1>3. QED
  BY <1>1, <1>2 DEF Ordered

LEMMA FinishOrdered ==
  ASSUME IInv, Ordered, Finish
  PROVE  Ordered'
<1>1. PICK id \in Ids, intent \in Intent :
        /\ walk # NoWalk /\ walk' = NoWalk /\ walk.id = id
        /\ intent = intents[id] /\ intent.id = id
        /\ \/ book' = book /\ arrivals' = arrivals
           \/ /\ \E o \in Order :
                   /\ o.id = id /\ SlotOf(o) = <<intent.side, intent.price>>
                   /\ book'.queue[SlotOf(o)] = Append(book.queue[SlotOf(o)], o)
                   /\ \A slot \in Slots :
                        slot # SlotOf(o) => book'.queue[slot] = book.queue[slot]
              /\ book'.index[id] = <<intent.side, intent.price>>
              /\ \A n \in Ids : n # id => book'.index[n] = book.index[n]
              /\ arrivals' = Append(arrivals, id)
  BY FinishStep
<1>2. intents' = intents /\ intents[id] # NoIntent
  BY <1>1, TermsAreIntents DEF Finish
<1>3. CASE book' = book /\ arrivals' = arrivals
  <2>1. Placed' /\ Arrived'
    BY <1>1, <1>2, <1>3 DEF Ordered, Placed, Arrived
  <2>2. Queued'
    BY <1>3 DEF Ordered, Queued, RestedBefore
  <2>3. QED
    BY <2>1, <2>2 DEF Ordered
<1>4. CASE ~ (book' = book /\ arrivals' = arrivals)
  <2>1. PICK o \in Order :
          /\ o.id = id /\ SlotOf(o) = <<intent.side, intent.price>>
          /\ book'.queue[SlotOf(o)] = Append(book.queue[SlotOf(o)], o)
          /\ \A slot \in Slots :
               slot # SlotOf(o) => book'.queue[slot] = book.queue[slot]
    BY <1>1, <1>4
  <2>2. PICK s \in Slots : s = SlotOf(o)
    <3>1. SlotOf(o) \in Slots
      BY DEF SlotOf, Order, Slots
    <3>2. QED
      BY <3>1
  <2>3. PICK seen \in Seq(Ids) : seen = arrivals
    BY DEF IInv, TypeOK
  <2>4. PICK next \in Seq(Ids) : next = Append(seen, id)
    <3>1. Append(seen, id) \in Seq(Ids)
      OBVIOUS
    <3>2. QED
      BY <3>1
  <2>5. /\ arrivals' = next
        /\ book'.index[id] = <<intent.side, intent.price>>
        /\ \A n \in Ids : n # id => book'.index[n] = book.index[n]
    BY <1>1, <1>4, <2>3, <2>4
  <2>6. /\ Len(seen) \in Nat /\ Len(next) = Len(seen) + 1
        /\ DOMAIN next = 1 .. Len(next) /\ DOMAIN seen = 1 .. Len(seen)
        /\ next[Len(seen) + 1] = id
        /\ \A k \in 1 .. Len(seen) : next[k] = seen[k]
    BY <2>4
  <2>7. /\ \A k \in 1 .. Len(seen) : intents[seen[k]] # NoIntent /\ seen[k] # id
        /\ \A k, l \in 1 .. Len(seen) : seen[k] = seen[l] => k = l
        /\ \A n \in Ids :
             book.index[n] # NoSlot => \E k \in 1 .. Len(seen) : seen[k] = n
    BY <1>1, <2>3 DEF Ordered, Arrived
  <2>8. Placed'
    BY <1>1, <1>2, <2>5 DEF Ordered, Placed
  <2>9. Arrived'
    <3>1. \A k \in 1 .. Len(next) : k \in 1 .. Len(seen) \/ k = Len(seen) + 1
      BY <2>6
    <3>2. \A k \in 1 .. Len(next) : intents'[next[k]] # NoIntent
      BY <1>2, <2>6, <2>7, <3>1
    <3>3. \A k, l \in 1 .. Len(next) : next[k] = next[l] => k = l
      BY <2>6, <2>7, <3>1
    <3>4. \A n \in Ids :
            book'.index[n] # NoSlot => \E k \in 1 .. Len(next) : next[k] = n
      <4>1. TAKE n \in Ids
      <4>2. HAVE book'.index[n] # NoSlot
      <4>3. CASE n = id
        BY <2>6, <4>3
      <4>4. CASE n # id
        <5>1. PICK k \in 1 .. Len(seen) : seen[k] = n
          BY <2>5, <2>7, <4>2, <4>4
        <5>2. k \in 1 .. Len(next) /\ next[k] = n
          BY <2>6, <5>1
        <5>3. QED
          BY <5>2
      <4>5. QED
        BY <4>3, <4>4
    <3>5. QED
      BY <1>1, <2>5, <3>2, <3>3, <3>4 DEF Arrived
  <2>10. PICK p \in Seq(Order) : p = book.queue[s]
    BY BookFields DEF IInv, BookOK
  <2>11. PICK q \in Seq(Order) : q = Append(p, o)
    <3>1. Append(p, o) \in Seq(Order)
      OBVIOUS
    <3>2. QED
      BY <3>1
  <2>12. /\ Len(p) \in Nat /\ Len(q) = Len(p) + 1 /\ q[Len(p) + 1] = o
         /\ \A i \in 1 .. Len(p) : q[i] = p[i]
    BY <2>11
  <2>13. \A i \in 1 .. Len(p) : \E k \in 1 .. Len(seen) : seen[k] = p[i].id
    <3>1. TAKE i \in 1 .. Len(p)
    <3>2. p[i].id \in Ids /\ book.index[p[i].id] = s
      <4>1. p[i] \in Order
        BY ElementOfSeq
      <4>2. QED
        BY <2>10, <4>1 DEF IInv, BookOK, IdsOf, Order
    <3>3. QED
      BY <2>7, <3>2, NoSlotIsNoSlot
  <2>14. Queued'
    <3>1. SUFFICES ASSUME NEW slot \in Slots,
                          NEW i \in 1 .. Len(book'.queue[slot]),
                          NEW j \in 1 .. Len(book'.queue[slot]), i < j
                   PROVE  \E k, l \in DOMAIN next :
                            /\ k < l
                            /\ next[k] = book'.queue[slot][i].id
                            /\ next[l] = book'.queue[slot][j].id
      BY <2>5 DEF Queued, RestedBefore
    <3>2. CASE slot # s \/ j # Len(p) + 1
      <4>1. /\ i \in 1 .. Len(book.queue[slot]) /\ j \in 1 .. Len(book.queue[slot])
            /\ book'.queue[slot][i] = book.queue[slot][i]
            /\ book'.queue[slot][j] = book.queue[slot][j]
        <5>1. CASE slot # s
          BY <2>1, <2>2, <5>1
        <5>2. CASE slot = s
          <6>1. book'.queue[slot] = q
            BY <2>1, <2>2, <2>10, <2>11, <5>2
          <6>2. i \in 1 .. Len(p) /\ j \in 1 .. Len(p)
            <7>1. i \in 1 .. Len(q) /\ j \in 1 .. Len(q) /\ i < j
              BY <3>1, <6>1
            <7>2. j # Len(p) + 1
              BY <3>2, <5>2
            <7>3. QED
              BY <2>12, <7>1, <7>2
          <6>3. QED
            BY <2>10, <2>12, <5>2, <6>1, <6>2
        <5>3. QED
          BY <5>1, <5>2
      <4>2. PICK k, l \in 1 .. Len(seen) :
              /\ k < l
              /\ seen[k] = book.queue[slot][i].id /\ seen[l] = book.queue[slot][j].id
        <5>1. RestedBefore(book.queue[slot][i].id, book.queue[slot][j].id)
          BY <3>1, <4>1 DEF Ordered, Queued
        <5>2. QED
          BY <2>3, <5>1, RestedIs
      <4>3. k \in DOMAIN next /\ l \in DOMAIN next /\ next[k] = seen[k] /\ next[l] = seen[l]
        BY <2>6
      <4>4. QED
        BY <4>1, <4>2, <4>3
    <3>3. CASE slot = s /\ j = Len(p) + 1
      <4>1. book'.queue[slot] = q /\ i \in 1 .. Len(p)
        <5>1. book'.queue[slot] = q
          BY <2>1, <2>2, <2>10, <2>11, <3>3
        <5>2. i \in 1 .. Len(q) /\ i < Len(p) + 1
          BY <3>1, <3>3, <5>1
        <5>3. QED
          BY <2>12, <5>1, <5>2
      <4>2. PICK k \in 1 .. Len(seen) : seen[k] = p[i].id
        BY <2>13, <4>1
      <4>3. /\ k \in DOMAIN next /\ Len(seen) + 1 \in DOMAIN next /\ k < Len(seen) + 1
            /\ next[k] = q[i].id /\ next[Len(seen) + 1] = q[j].id
        BY <2>1, <2>6, <2>12, <3>3, <4>1, <4>2
      <4>4. QED
        BY <4>1, <4>3
    <3>4. QED
      BY <3>2, <3>3
  <2>15. QED
    BY <2>8, <2>9, <2>14 DEF Ordered
<1>5. QED
  BY <1>3, <1>4

LEMMA NextOrdered == IInv /\ Ordered /\ [Next]_vars => Ordered'
<1> SUFFICES ASSUME IInv, Ordered, [Next]_vars PROVE Ordered'
  OBVIOUS
<1>1. ASSUME NEW id \in Ids, NEW terms \in Terms, Begin(id, terms) PROVE Ordered'
  <2>1. /\ intents[id] = NoIntent
        /\ intents' = [intents EXCEPT ![id] = intents'[id]]
        /\ walk' # NoWalk => walk'.id = id
    BY <1>1, BeginStep
  <2>2. book' = book /\ arrivals' = arrivals
    BY <1>1 DEF Begin
  <2>3. \A n \in Ids : intents[n] # NoIntent => n # id /\ intents'[n] = intents[n]
    BY <2>1 DEF IInv, TypeOK
  <2>4. Placed'
    BY <2>2, <2>3 DEF IInv, Links, Ordered, Placed
  <2>5. Arrived'
    <3>1. \A k \in 1 .. Len(arrivals) : arrivals[k] \in Ids
      BY ElementOfSeq DEF IInv, TypeOK
    <3>2. \A k \in 1 .. Len(arrivals) :
            intents'[arrivals[k]] # NoIntent /\ arrivals[k] # id
      BY <2>3, <3>1 DEF Ordered, Arrived
    <3>3. QED
      BY <2>1, <2>2, <3>2 DEF Ordered, Arrived
  <2>6. Queued'
    BY <2>2 DEF Ordered, Queued, RestedBefore
  <2>7. QED
    BY <2>4, <2>5, <2>6 DEF Ordered
<1>2. CASE Iterate
  <2>1. /\ walk # NoWalk /\ walk'.id = walk.id
        /\ KeepsOrder(book, book')
        /\ \A n \in Ids : book'.index[n] \in {NoSlot, book.index[n]}
    BY <1>2, IterateStep
  <2>2. UNCHANGED <<intents, arrivals>>
    BY <1>2 DEF Iterate
  <2>3. QED
    BY <2>1, <2>2, KeepsOrdered
<1>3. CASE Finish
  BY <1>3, FinishOrdered
<1>4. ASSUME NEW id \in Ids, Cancel(id) PROVE Ordered'
  <2>1. /\ KeepsOrder(book, book')
        /\ \A n \in Ids : book'.index[n] \in {NoSlot, book.index[n]}
    BY <1>4, CancelStep
  <2>2. UNCHANGED <<intents, arrivals>> /\ walk' = walk
    BY <1>4 DEF Cancel
  <2>3. QED
    BY <2>1, <2>2, KeepsOrdered
<1>5. CASE TimePasses \/ UNCHANGED vars
  <2>1. UNCHANGED <<intents, arrivals, book, walk>>
    BY <1>5 DEF TimePasses, vars
  <2>2. Placed' /\ Arrived'
    BY <2>1 DEF Ordered, Placed, Arrived
  <2>3. Queued'
    BY <2>1 DEF Ordered, Queued, RestedBefore
  <2>4. QED
    BY <2>2, <2>3 DEF Ordered
<1>6. QED
  BY <1>1, <1>2, <1>3, <1>4, <1>5 DEF Next

\* What the loop takes is first in price, then in time.
LEMMA BestRanks ==
  ASSUME IInv, Ordered, NEW intent \in Intent, NEW maker \in Order,
         CanFill(book, intent, walk.remaining), walk # NoWalk,
         SlotOf(maker) = BestSlot(book, intent),
         maker = Head(book.queue[SlotOf(maker)]),
         book.queue[SlotOf(maker)] # <<>>,
         NEW other \in Ids, book.index[other] # NoSlot
  PROVE  ~ Outranks(other, maker.id)
<1>1. PICK s \in Slots : s = SlotOf(maker)
  <2>1. SlotOf(maker) \in Slots
    BY DEF SlotOf, Order, Slots
  <2>2. QED
    BY <2>1
<1>2. PICK p \in Seq(Order) : p = book.queue[s]
  BY BookFields DEF IInv, BookOK
<1>3. Len(p) \in Nat /\ 1 \in 1 .. Len(p) /\ p[1] = maker
  BY <1>1, <1>2, HeadTailProperties
<1>4. book.index[maker.id] = s /\ maker.id \in Ids
  BY <1>2, <1>3 DEF IInv, BookOK, IdsOf, Order
<1>5. <<intents[maker.id].side, intents[maker.id].price>> = s
  BY <1>4, NoSlotIsNoSlot DEF Ordered, Placed
<1>6. PICK t \in Slots : t = book.index[other]
  BY BookFields DEF IInv, BookOK
<1>7. <<intents[other].side, intents[other].price>> = t
  BY <1>6 DEF Ordered, Placed
<1>8. SUFFICES ASSUME Outranks(other, maker.id) PROVE FALSE
  OBVIOUS
<1>9. t[1] = s[1]
  BY <1>5, <1>7, <1>8 DEF Outranks
<1>10. PICK i \in 1 .. Len(book.queue[t]) : book.queue[t][i].id = other
  <2>1. BookOK(book)
    BY DEF IInv
  <2>2. other \in IdsOf(book.queue[t])
    BY <1>6, <2>1 DEF BookOK
  <2>3. QED
    BY <2>2 DEF IdsOf
<1>11. CASE t = s
  <2>1. RestedBefore(other, maker.id)
    <3>1. intents[other].price = intents[maker.id].price
      BY <1>5, <1>7, <1>11
    <3>2. intents[other].price \in Int
      BY <1>7, MaxPriceIsNat DEF Slots, Prices
    <3>3. QED
      BY <1>8, <3>1, <3>2 DEF Outranks
  <2>2. PICK a, b \in 1 .. Len(arrivals) :
          a < b /\ arrivals[a] = other /\ arrivals[b] = maker.id
    BY <2>1, RestedIs
  <2>3. \A k, l \in 1 .. Len(arrivals) : arrivals[k] = arrivals[l] => k = l
    BY DEF Ordered, Arrived
  <2>4. CASE i = 1
    <3>1. other = maker.id
      BY <1>2, <1>3, <1>10, <1>11, <2>4
    <3>2. QED
      BY <2>2, <2>3, <3>1
  <2>5. CASE i # 1
    <3>1. i \in 1 .. Len(p) /\ p[i].id = other /\ 1 < i
      BY <1>2, <1>10, <1>11, <2>5
    <3>2. RestedBefore(maker.id, other)
      BY <1>2, <1>3, <3>1 DEF Ordered, Queued
    <3>3. PICK c, d \in 1 .. Len(arrivals) :
            c < d /\ arrivals[c] = maker.id /\ arrivals[d] = other
      BY <3>2, RestedIs
    <3>4. a = d /\ b = c
      BY <2>2, <2>3, <3>3
    <3>5. QED
      BY <2>2, <3>3, <3>4
  <2>6. QED
    BY <2>4, <2>5
<1>12. CASE t # s
  <2> DEFINE side == Opposite(intent.side)
             L == Levels(book, side)
  <2>1. side \in Sides
    BY DEF Opposite, Sides, Intent
  <2>2. s = <<side, BestPrice(book, side)>>
    BY <1>1 DEF BestSlot
  <2>3. t = <<side, t[2]>> /\ t[2] \in Prices
    BY <1>9, <2>2 DEF Slots
  <2>4. book.queue[t] # <<>>
    BY <1>10
  <2>5. t[2] \in L
    <3>1. book.queue[<<side, t[2]>>] # <<>>
      BY <2>3, <2>4
    <3>2. QED
      BY <2>3, <3>1 DEF Levels
  <2>6. L \subseteq 0 .. MaxPrice
    BY DEF Levels, Prices
  <2>7. Min(L) \in 0 .. MaxPrice /\ Min(L) <= t[2] /\ Max(L) \in 0 .. MaxPrice /\ Max(L) >= t[2]
    BY <2>5, <2>6, MinMax, MaxPriceIsNat
  <2>8. s[2] = IF side = "Short" THEN Min(L) ELSE Max(L)
    BY <2>2 DEF BestPrice
  <2>9. t[2] # s[2]
    BY <1>12, <2>2, <2>3
  <2>10. /\ intents[other].side = side /\ intents[other].price = t[2]
         /\ intents[maker.id].side = side /\ intents[maker.id].price = s[2]
    BY <1>5, <1>7, <2>2, <2>3
  <2> HIDE DEF L, side
  <2>11. t[2] \in Int /\ s[2] \in Int
    BY <2>3, <2>7, <2>8, MaxPriceIsNat DEF Prices
  <2>12. \/ side = "Long" /\ t[2] > s[2]
         \/ side = "Short" /\ t[2] < s[2]
    BY <1>8, <2>9, <2>10 DEF Outranks
  <2>13. QED
    BY <2>7, <2>8, <2>11, <2>12, MaxPriceIsNat
<1>13. QED
  BY <1>11, <1>12

\* Price-time priority: whenever a resting order is filled, no other order of
\* its side is better priced, and none at its price came to rest earlier.
THEOREM MatchLoopPriority == Spec => PriceTimePriority
<1> DEFINE A == \A maker \in Ids :
                  (filled'[maker] # filled[maker] /\ walk.id # maker) =>
                    \A other \in Ids :
                      Locate(book, other) # NoSlot => ~ Outranks(other, maker)
<1>1. IInv /\ Ordered /\ [Next]_vars => [A]_vars
  <2> SUFFICES ASSUME IInv, Ordered, Next,
                      NEW maker \in Ids, filled'[maker] # filled[maker], walk.id # maker,
                      NEW other \in Ids, book.index[other] # NoSlot
               PROVE  ~ Outranks(other, maker)
    BY DEF Locate
  <2>1. Iterate
    BY DEF Next, Begin, Finish, Cancel, TimePasses
  <2>2. PICK taker \in Ids, intent \in Intent, o \in Order, size \in Nat :
          /\ walk # NoWalk /\ walk.id = taker
          /\ CanFill(book, intent, walk.remaining)
          /\ SlotOf(o) = BestSlot(book, intent)
          /\ o = Head(book.queue[SlotOf(o)])
          /\ book.queue[SlotOf(o)] # <<>>
          /\ filled' = [filled EXCEPT ![o.id] = @ + size, ![taker] = @ + size]
    BY <2>1, IterateStep
  <2>3. maker = o.id
    BY <2>2 DEF IInv, TypeOK
  <2>4. QED
    BY <2>2, <2>3, BestRanks
<1>2. Spec => [](IInv /\ Ordered)
  BY InitIInv, NextIInv, InitOrdered, NextOrdered, PTL DEF Spec
<1>3. QED
  BY <1>1, <1>2, PTL DEF Spec, PriceTimePriority

-----------------------------------------------------------------------------
(***************************************************************************)
(* The refinement: a Begin submits, an iteration trades, a Finish or a     *)
(* Cancel closes what it lets go of, and everything else stutters.         *)
(***************************************************************************)
OpenOf == [id \in Ids |-> Open(id)]

LEMMA InitPromise == Init => Promise!Init
<1> SUFFICES ASSUME Init PROVE Promise!Init
  OBVIOUS
<1>1. IInv
  BY InitIInv
<1>2. \A id \in Ids : Open(id) = 0
  <2>1. TAKE id \in Ids
  <2>2. walk = NoWalk /\ book.index[id] = NoSlot /\ BookOK(book)
    BY <1>1 DEF Init, EmptyBook, IInv
  <2>3. QED
    BY <1>1, <2>2, OpenIs, RestingNat
<1>3. QED
  BY <1>2 DEF Init, Promise!Init

\* A step that leaves every open size alone, or takes one of them to zero.
LEMMA ClosePromise ==
  ASSUME IInv, UNCHANGED <<intents, filled>>, NEW id \in Ids, Open(id)' \in {0, Open(id)},
         \A n \in Ids : n # id => Open(n)' = Open(n)
  PROVE  Promise!Next \/ UNCHANGED Promise!vars
<1>1. Open(id) \in Nat
  BY OpenIs
<1>2. OpenOf' = [OpenOf EXCEPT ![id] = Open(id)']
  BY DEF OpenOf
<1>3. CASE Open(id)' = Open(id)
  BY <1>3 DEF Promise!vars
<1>4. CASE Open(id)' # Open(id)
  <2>1. Open(id)' = 0 /\ Open(id) > 0
    BY <1>1, <1>4
  <2>2. OpenOf' = [OpenOf EXCEPT ![id] = 0] /\ OpenOf[id] > 0
    BY <1>2, <2>1 DEF OpenOf
  <2>3. Promise!Close(id)
    BY <2>2 DEF OpenOf, Promise!Close
  <2>4. QED
    BY <2>3 DEF Promise!Next
<1>5. QED
  BY <1>3, <1>4

LEMMA IteratePromise ==
  ASSUME IInv, Ordered, Iterate
  PROVE  Promise!Next
<1>1. PICK taker \in Ids, intent \in Intent, maker \in Order, size \in Nat :
        /\ walk # NoWalk /\ walk.id = taker
        /\ intent = intents[taker] /\ intent.id = taker
        /\ CanFill(book, intent, walk.remaining)
        /\ SlotOf(maker) = BestSlot(book, intent)
        /\ book.index[maker.id] = SlotOf(maker) /\ maker.id # taker
        /\ size > 0 /\ size <= Open(maker.id) /\ size <= Open(taker)
        /\ filled' = [filled EXCEPT ![maker.id] = @ + size, ![taker] = @ + size]
        /\ Open(maker.id)' = Open(maker.id) - size
        /\ Open(taker)' = Open(taker) - size
        /\ \A n \in Ids : n \notin {maker.id, taker} => Open(n)' = Open(n)
  BY IterateStep
<1>2. PICK m \in Ids : m = maker.id
  BY DEF Order
<1>3. intents' = intents
  BY DEF Iterate
<1>4. SlotOf(maker) \in Slots /\ maker.price \in Prices
  BY DEF SlotOf, Order, Slots
<1>5. intents[m].side = maker.side /\ intents[m].price = maker.price
  <2>1. book.index[m] # NoSlot /\ book.index[m] = <<maker.side, maker.price>>
    BY <1>1, <1>2, <1>4, NoSlotIsNoSlot DEF SlotOf
  <2>2. book.index[m] = <<intents[m].side, intents[m].price>>
    BY <2>1 DEF Ordered, Placed
  <2>3. <<intents[m].side, intents[m].price>> = <<maker.side, maker.price>>
    BY <2>1, <2>2
  <2>4. QED
    BY <2>3
<1>6. maker.side = Opposite(intent.side) /\ TakerCrosses(intent, maker.price)
  BY <1>1 DEF SlotOf, BestSlot, CanFill
<1>7. maker.side \in Sides /\ intent.side \in Sides /\ maker.price \in Int
  BY <1>4, MaxPriceIsNat DEF Order, Intent, Prices
<1>8. Promise!Accepts(m, maker.price)
  BY <1>5, <1>7 DEF Promise!Accepts, Sides
<1>9. Promise!Accepts(taker, maker.price)
  BY <1>1, <1>6 DEF Promise!Accepts, TakerCrosses
<1>10. /\ filled' = [filled EXCEPT ![m] = filled[m] + size, ![taker] = filled[taker] + size]
       /\ filled' = [filled EXCEPT ![taker] = filled[taker] + size, ![m] = filled[m] + size]
  BY <1>1, <1>2 DEF IInv, TypeOK
<1>11. OpenOf' = [OpenOf EXCEPT ![m] = OpenOf[m] - size, ![taker] = OpenOf[taker] - size]
       /\ OpenOf' = [OpenOf EXCEPT ![taker] = OpenOf[taker] - size, ![m] = OpenOf[m] - size]
  BY <1>1, <1>2 DEF OpenOf
<1>12. OpenOf[m] >= size /\ OpenOf[taker] >= size
  <2>1. Open(m) \in Nat /\ Open(taker) \in Nat
    BY OpenIs
  <2>2. QED
    BY <1>1, <1>2, <2>1 DEF OpenOf
<1>13. CASE intent.side = "Long"
  <2>1. Promise!Trade(taker, m, size)
    BY <1>1, <1>2, <1>3, <1>4, <1>5, <1>6, <1>8, <1>9, <1>10, <1>11, <1>12, <1>13
       DEF Promise!Trade, OpenOf, Opposite
  <2>2. size \in 1 .. OpenOf[taker]
    BY <1>1, <1>12, OpenIs DEF OpenOf
  <2>3. QED
    BY <2>1, <2>2 DEF Promise!Next, OpenOf
<1>14. CASE intent.side = "Short"
  <2>1. Promise!Trade(m, taker, size)
    BY <1>1, <1>2, <1>3, <1>4, <1>5, <1>6, <1>8, <1>9, <1>10, <1>11, <1>12, <1>14
       DEF Promise!Trade, OpenOf, Opposite
  <2>2. size \in 1 .. OpenOf[m]
    BY <1>1, <1>2, <1>12, OpenIs DEF OpenOf
  <2>3. QED
    BY <2>1, <2>2 DEF Promise!Next, OpenOf
<1>15. QED
  BY <1>7, <1>13, <1>14 DEF Sides

LEMMA NextPromise ==
  IInv /\ Ordered /\ [Next]_vars => [Promise!Next]_(Promise!vars)
<1> SUFFICES ASSUME IInv, Ordered, [Next]_vars
             PROVE  Promise!Next \/ UNCHANGED Promise!vars
  OBVIOUS
<1>1. ASSUME NEW id \in Ids, NEW terms \in Terms, Begin(id, terms) PROVE Promise!Next
  <2>1. /\ intents[id] = NoIntent /\ intents'[id] \in Intent
        /\ intents' = [intents EXCEPT ![id] = intents'[id]]
        /\ Open(id)' \in {0, intents'[id].magnitude}
        /\ \A n \in Ids : n # id => Open(n)' = Open(n)
    BY <1>1, BeginStep
  <2>2. filled' = filled /\ intents'[id] # NoIntent
    BY <1>1, <2>1, TermsAreIntents DEF Begin
  <2>3. /\ OpenOf' = [OpenOf EXCEPT ![id] = OpenOf'[id]]
        /\ OpenOf'[id] = Open(id)'
    BY <2>1 DEF OpenOf
  <2>4. Promise!Submit(id)
    BY <2>1, <2>2, <2>3 DEF Promise!Submit, OpenOf
  <2>5. QED
    BY <2>4 DEF Promise!Next
<1>2. CASE Iterate
  BY <1>2, IteratePromise
<1>3. CASE Finish
  <2>1. PICK id \in Ids : /\ Open(id)' \in {0, Open(id)}
                          /\ \A n \in Ids : n # id => Open(n)' = Open(n)
    BY <1>3, FinishStep
  <2>2. UNCHANGED <<intents, filled>>
    BY <1>3 DEF Finish
  <2>3. QED
    BY <2>1, <2>2, ClosePromise
<1>4. ASSUME NEW id \in Ids, Cancel(id) PROVE Promise!Next \/ UNCHANGED Promise!vars
  <2>1. /\ Open(id)' \in {0, Open(id)}
        /\ \A n \in Ids : n # id => Open(n)' = Open(n)
    BY <1>4, CancelStep
  <2>2. UNCHANGED <<intents, filled>>
    BY <1>4 DEF Cancel
  <2>3. QED
    BY <2>1, <2>2, ClosePromise
<1>5. CASE TimePasses \/ UNCHANGED vars
  <2>1. UNCHANGED <<intents, filled, book, walk>>
    BY <1>5 DEF TimePasses, vars
  <2>2. \A n \in Ids : Open(n)' = Open(n)
    BY <2>1 DEF Open, InFlight
  <2>3. QED
    BY <2>1, <2>2 DEF Promise!vars
<1>6. QED
  BY <1>1, <1>2, <1>3, <1>4, <1>5 DEF Next

\* The match loop implements the exchange: whatever the book does inside a
\* call, its caller sees intents admitted once, traded at a price both sides
\* accept and never beyond what is open, and let go of for good.
THEOREM MatchLoopRefines == Spec => ImplementsExchange
<1>1. Spec => [](IInv /\ Ordered)
  BY InitIInv, NextIInv, InitOrdered, NextOrdered, PTL DEF Spec
<1>2. QED
  BY <1>1, InitPromise, NextPromise, PTL DEF Spec, ImplementsExchange, Promise!Spec

-----------------------------------------------------------------------------
(***************************************************************************)
(* The sum over a finite set, as the fold of the community modules defines *)
(* it: by a recursive function on its subsets, which takes an element that *)
(* CHOOSE picks.  The function exists, and the order does not matter.      *)
(***************************************************************************)
Inductive(T) == T \subseteq Nat /\ 0 \in T /\ \A n \in T : n + 1 \in T

LEMMA Induction ==
  ASSUME NEW T, Inductive(T)
  PROVE  \A n \in Nat : n \in T
<1>1. SUFFICES ASSUME Nat \ T # {} PROVE FALSE
  OBVIOUS
<1>2. PICK x \in Nat \ T : \A y \in Nat \ T : x <= y
  <2>1. Nat \ T \subseteq Nat
    OBVIOUS
  <2>2. QED
    BY <1>1, <2>1, NatMin
<1>3. x - 1 \in Nat /\ x - 1 < x
  BY <1>2 DEF Inductive
<1>4. x - 1 \in T
  BY <1>2, <1>3
<1>5. (x - 1) + 1 = x
  BY <1>2
<1>6. QED
  BY <1>2, <1>4, <1>5 DEF Inductive

Some(s) == CHOOSE x \in s : TRUE

SumStep(g, m, s) == IF s = {} THEN 0 ELSE m[Some(s)] + g[s \ {Some(s)}]

Sums(S, m) == {g \in [SUBSET S -> Nat] : \A s \in SUBSET S : g[s] = SumStep(g, m, s)}

\* Without one element, a finite set has one element less.
LEMMA OneLess ==
  ASSUME NEW s, IsFiniteSet(s), NEW x \in s
  PROVE  /\ Cardinality(s) \in Nat \ {0} /\ IsFiniteSet(s \ {x})
         /\ Cardinality(s \ {x}) = Cardinality(s) - 1
<1>1. Cardinality(s) \in Nat /\ IsFiniteSet(s \ {x})
      /\ Cardinality(s \ {x}) = Cardinality(s) - 1
  BY FS_RemoveElement, FS_CardinalityType
<1>2. s # {}
  OBVIOUS
<1>3. Cardinality(s) # 0
  BY <1>2, FS_EmptySet
<1>4. QED
  BY <1>1, <1>3

LEMMA SomeIn == \A s : s # {} => Some(s) \in s
BY DEF Some

LEMMA SumExists ==
  ASSUME NEW S, IsFiniteSet(S), NEW m \in [S -> Nat]
  PROVE  Sums(S, m) # {}
<1> DEFINE Upto(k, g) == \A s \in SUBSET S : Cardinality(s) <= k => g[s] = SumStep(g, m, s)
           T == {k \in Nat : \E g \in [SUBSET S -> Nat] : Upto(k, g)}
<1>1. \A s \in SUBSET S : IsFiniteSet(s) /\ Cardinality(s) \in Nat /\ Cardinality(s) <= Cardinality(S)
  BY FS_Subset, FS_CardinalityType
<1>2. ASSUME NEW g \in [SUBSET S -> Nat], NEW s \in SUBSET S PROVE SumStep(g, m, s) \in Nat
  <2>1. CASE s = {}
    BY <2>1 DEF SumStep
  <2>2. CASE s # {}
    <3>1. Some(s) \in S /\ s \ {Some(s)} \in SUBSET S
      BY <2>2, SomeIn
    <3>2. m[Some(s)] \in Nat /\ g[s \ {Some(s)}] \in Nat
      BY <3>1
    <3>3. QED
      BY <2>2, <3>2 DEF SumStep
  <2>3. QED
    BY <2>1, <2>2
<1>3. 0 \in T
  <2> DEFINE g == [s \in SUBSET S |-> 0]
  <2>1. g \in [SUBSET S -> Nat]
    OBVIOUS
  <2>2. ASSUME NEW s \in SUBSET S, Cardinality(s) <= 0 PROVE g[s] = SumStep(g, m, s)
    <3>1. Cardinality(s) = 0
      BY <1>1, <2>2
    <3>2. s = {}
      BY <1>1, <3>1, FS_EmptySet
    <3>3. QED
      BY <3>2 DEF SumStep
  <2> HIDE DEF g
  <2>3. QED
    BY <2>1, <2>2
<1>4. \A k \in T : k + 1 \in T
  <2>1. TAKE k \in T
  <2>2. PICK g \in [SUBSET S -> Nat] : Upto(k, g)
    OBVIOUS
  <2>3. k \in Nat
    OBVIOUS
  <2> DEFINE h == [s \in SUBSET S |-> SumStep(g, m, s)]
  <2>4. h \in [SUBSET S -> Nat]
    BY <1>2
  <2>5. \A s \in SUBSET S : Cardinality(s) <= k => h[s] = g[s]
    BY <2>2
  <2>6. ASSUME NEW s \in SUBSET S, Cardinality(s) <= k + 1 PROVE h[s] = SumStep(h, m, s)
    <3>1. CASE s = {}
      BY <3>1 DEF SumStep
    <3>2. CASE s # {}
      <4>1. Some(s) \in s
        BY <3>2, SomeIn
      <4>2. Cardinality(s \ {Some(s)}) = Cardinality(s) - 1
        BY <1>1, <4>1, OneLess
      <4>3. Cardinality(s \ {Some(s)}) <= k
        BY <1>1, <2>3, <2>6, <4>2
      <4>4. h[s \ {Some(s)}] = g[s \ {Some(s)}]
        BY <2>5, <4>3
      <4>5. h[s] = SumStep(g, m, s)
        OBVIOUS
      <4> HIDE DEF h
      <4>6. QED
        BY <3>2, <4>4, <4>5 DEF SumStep
    <3>3. QED
      BY <3>1, <3>2
  <2> HIDE DEF h
  <2>7. QED
    BY <2>3, <2>4, <2>6
<1>5. PICK g \in [SUBSET S -> Nat] : Upto(Cardinality(S), g)
  <2>1. Cardinality(S) \in Nat /\ T \subseteq Nat
    BY <1>1
  <2> HIDE DEF T
  <2>2. Cardinality(S) \in T
    BY <1>3, <1>4, <2>1, Induction DEF Inductive
  <2>3. QED
    BY <2>2 DEF T
<1>6. g \in Sums(S, m)
  BY <1>1, <1>5 DEF Sums
<1>7. QED
  BY <1>6

\* A function that follows the recursion is the sum.
LEMMA SumIsUnique ==
  ASSUME NEW S, IsFiniteSet(S), NEW m, NEW g \in [SUBSET S -> Nat],
         \A s \in SUBSET S : g[s] = SumStep(g, m, s),
         NEW h, h = [s \in SUBSET S |-> h[s]], \A s \in SUBSET S : h[s] = SumStep(h, m, s)
  PROVE  h \in Sums(S, m)
<1> DEFINE T == {k \in Nat : \A s \in SUBSET S : Cardinality(s) = k => h[s] = g[s]}
<1>1. \A s \in SUBSET S : IsFiniteSet(s) /\ Cardinality(s) \in Nat
  BY FS_Subset, FS_CardinalityType
<1>2. 0 \in T
  <2>1. \A s \in SUBSET S : Cardinality(s) = 0 => s = {}
    BY <1>1, FS_EmptySet
  <2>2. h[{}] = 0 /\ g[{}] = 0
    BY DEF SumStep
  <2>3. QED
    BY <2>1, <2>2
<1>3. ASSUME NEW k \in T PROVE k + 1 \in T
  <2>1. k \in Nat /\ \A s \in SUBSET S : Cardinality(s) = k => h[s] = g[s]
    OBVIOUS
  <2>2. ASSUME NEW s \in SUBSET S, Cardinality(s) = k + 1 PROVE h[s] = g[s]
    <3>1. CASE s = {}
      BY <3>1 DEF SumStep
    <3>2. CASE s # {}
      <4>1. PICK x \in s : x = Some(s)
        BY <3>2, SomeIn
      <4>2. Cardinality(s \ {x}) = k
        BY <1>1, <2>1, <2>2, OneLess
      <4>3. h[s \ {x}] = g[s \ {x}]
        BY <2>1, <4>2
      <4>4. QED
        BY <3>2, <4>1, <4>3 DEF SumStep
    <3>3. QED
      BY <3>1, <3>2
  <2>3. \A s \in SUBSET S : Cardinality(s) = k + 1 => h[s] = g[s]
    BY <2>2
  <2>4. k + 1 \in Nat
    BY <2>1
  <2>5. QED
    BY <2>3, <2>4
<1>4. \A k \in Nat : k \in T
  <2>1. T \subseteq Nat
    OBVIOUS
  <2> HIDE DEF T
  <2>2. QED
    BY <1>2, <1>3, <2>1, Induction DEF Inductive
<1>5. \A s \in SUBSET S : h[s] = g[s]
  BY <1>1, <1>4
<1>6. h \in [SUBSET S -> Nat]
  BY <1>5
<1>7. QED
  BY <1>6 DEF Sums

\* Whatever element is taken first.
Splits(S, m, g) == \A s \in SUBSET S : \A p \in s : g[s] = m[p] + g[s \ {p}]

LEMMA SumTakes ==
  ASSUME NEW S, IsFiniteSet(S), NEW m \in [S -> Nat], NEW g \in Sums(S, m)
  PROVE  Splits(S, m, g)
<1> DEFINE Takes(s) == \A p \in s : g[s] = m[p] + g[s \ {p}]
           T == {k \in Nat : \A s \in SUBSET S : Cardinality(s) = k => Takes(s)}
<1>1. \A s \in SUBSET S : IsFiniteSet(s) /\ Cardinality(s) \in Nat
  BY FS_Subset, FS_CardinalityType
<1>2. g \in [SUBSET S -> Nat]
      /\ \A s \in SUBSET S : s # {} => g[s] = m[Some(s)] + g[s \ {Some(s)}]
  BY DEF Sums, SumStep
<1>3. 0 \in T
  <2>1. \A s \in SUBSET S : Cardinality(s) = 0 => s = {}
    BY <1>1, FS_EmptySet
  <2>2. QED
    BY <2>1
<1>4. ASSUME NEW k \in T PROVE k + 1 \in T
  <2>1. k \in Nat /\ \A s \in SUBSET S : Cardinality(s) = k => Takes(s)
    OBVIOUS
  <2>2. ASSUME NEW s \in SUBSET S, Cardinality(s) = k + 1, NEW p \in s
        PROVE  g[s] = m[p] + g[s \ {p}]
    <3>1. PICK x \in s : x = Some(s)
      BY SomeIn
    <3>2. g[s] = m[x] + g[s \ {x}]
      BY <1>2, <3>1
    <3>3. CASE x = p
      BY <3>2, <3>3
    <3>4. CASE x # p
      <4>1. Cardinality(s \ {x}) = k /\ Cardinality(s \ {p}) = k
        BY <1>1, <2>1, <2>2, OneLess
      <4>2. g[s \ {x}] = m[p] + g[(s \ {x}) \ {p}]
        BY <2>1, <3>4, <4>1
      <4>3. g[s \ {p}] = m[x] + g[(s \ {p}) \ {x}]
        BY <2>1, <3>4, <4>1
      <4>4. (s \ {x}) \ {p} = (s \ {p}) \ {x}
        OBVIOUS
      <4>5. PICK w \in Nat : w = g[(s \ {p}) \ {x}]
        BY <1>2
      <4>6. PICK i \in Nat, j \in Nat : i = m[x] /\ j = m[p]
        OBVIOUS
      <4>7. g[s] = i + (j + w)
        BY <3>2, <4>2, <4>4, <4>5, <4>6
      <4>8. m[p] + g[s \ {p}] = j + (i + w)
        BY <4>3, <4>5, <4>6
      <4>9. QED
        BY <4>7, <4>8
    <3>5. QED
      BY <3>3, <3>4
  <2>3. QED
    BY <2>1, <2>2
<1>5. \A k \in Nat : k \in T
  <2>1. T \subseteq Nat
    OBVIOUS
  <2> HIDE DEF T
  <2>2. QED
    BY <1>3, <1>4, <2>1, Induction DEF Inductive
<1>6. ASSUME NEW s \in SUBSET S PROVE Takes(s)
  <2>1. Cardinality(s) \in T
    BY <1>1, <1>5
  <2>2. QED
    BY <2>1
<1>7. QED
  BY <1>6 DEF Splits

\* Sums of functions that agree are the same.
LEMMA SumAgrees ==
  ASSUME NEW S, IsFiniteSet(S), NEW m \in [S -> Nat], NEW g \in Sums(S, m),
         NEW R, IsFiniteSet(R), NEW l \in [R -> Nat], NEW h \in Sums(R, l),
         NEW U \in SUBSET S, U \in SUBSET R, \A x \in U : m[x] = l[x]
  PROVE  g[U] = h[U]
<1> DEFINE T == {k \in Nat : \A s \in SUBSET U : Cardinality(s) = k => g[s] = h[s]}
<1>1. \A s \in SUBSET U : IsFiniteSet(s) /\ Cardinality(s) \in Nat
  BY FS_Subset, FS_CardinalityType
<1>2. /\ \A s \in SUBSET S : g[s] = SumStep(g, m, s)
      /\ \A s \in SUBSET R : h[s] = SumStep(h, l, s)
  BY DEF Sums
<1>3. 0 \in T
  <2>1. \A s \in SUBSET U : Cardinality(s) = 0 => s = {}
    BY <1>1, FS_EmptySet
  <2>2. g[{}] = 0 /\ h[{}] = 0
    BY <1>2 DEF SumStep
  <2>3. QED
    BY <2>1, <2>2
<1>4. ASSUME NEW k \in T PROVE k + 1 \in T
  <2>1. k \in Nat /\ \A s \in SUBSET U : Cardinality(s) = k => g[s] = h[s]
    OBVIOUS
  <2>2. ASSUME NEW s \in SUBSET U, Cardinality(s) = k + 1 PROVE g[s] = h[s]
    <3>0. IsFiniteSet(s) /\ Cardinality(s) = k + 1 /\ k \in Nat
      BY <1>1, <2>1, <2>2
    <3>1. s # {}
      <4>1. Cardinality({}) = 0
        BY FS_EmptySet
      <4>2. Cardinality(s) # 0
        BY <3>0
      <4>3. QED
        BY <4>1, <4>2
    <3>2. PICK x \in s : x = Some(s)
      BY <3>1, SomeIn
    <3>3. Cardinality(s \ {x}) = k
      <4>1. Cardinality(s \ {x}) = (k + 1) - 1
        BY <3>0, OneLess
      <4>2. QED
        BY <3>0, <4>1
    <3>4. g[s \ {x}] = h[s \ {x}]
      BY <2>1, <3>3
    <3>5. g[s] = m[x] + g[s \ {x}] /\ h[s] = l[x] + h[s \ {x}]
      BY <1>2, <3>1, <3>2 DEF SumStep
    <3>6. QED
      BY <3>4, <3>5
  <2>3. QED
    BY <2>1, <2>2
<1>5. \A k \in Nat : k \in T
  <2>1. T \subseteq Nat
    OBVIOUS
  <2> HIDE DEF T
  <2>2. QED
    BY <1>3, <1>4, <2>1, Induction DEF Inductive
<1>6. Cardinality(U) \in T
  BY <1>1, <1>5
<1>7. QED
  BY <1>6

-----------------------------------------------------------------------------
\* The size that rests on a level, as the fill-or-kill peek adds it up.
LevelSize(queue) == FoldSeq(LAMBDA o, sum : o.remaining + sum, 0, queue)

Remainders(queue) == [i \in 1 .. Len(queue) |-> queue[i].remaining]

LevelSum(queue) ==
  CHOOSE iter : iter = [s \in SUBSET (DOMAIN queue) |->
                          IF s = {} THEN 0
                          ELSE queue[Some(s)].remaining + iter[s \ {Some(s)}]]

LEMMA LevelSizeIs ==
  ASSUME NEW queue
  PROVE  LevelSize(queue) = LevelSum(queue)[DOMAIN queue]
BY DEF LevelSize, FoldSeq, FoldFunction, FoldFunctionOnSet, MapThenFoldSet, LevelSum, Some

LEMMA RemaindersAre ==
  ASSUME NEW queue \in Seq(Order)
  PROVE  /\ Remainders(queue) \in [1 .. Len(queue) -> Nat]
         /\ \A i \in 1 .. Len(queue) : Remainders(queue)[i] = queue[i].remaining
         /\ DOMAIN queue = 1 .. Len(queue) /\ Len(queue) \in Nat
         /\ IsFiniteSet(1 .. Len(queue))
<1>1. ASSUME NEW i \in 1 .. Len(queue) PROVE queue[i].remaining \in Nat
  <2>1. queue[i] \in Order
    BY ElementOfSeq
  <2>2. QED
    BY <2>1 DEF Order
<1>2. IsFiniteSet(1 .. Len(queue))
  BY FS_Interval
<1>3. QED
  BY <1>1, <1>2 DEF Remainders

LEMMA LevelSumIs ==
  ASSUME NEW queue \in Seq(Order)
  PROVE  LevelSum(queue) \in Sums(1 .. Len(queue), Remainders(queue))
<1> DEFINE S == 1 .. Len(queue)
           m == Remainders(queue)
           iter == LevelSum(queue)
<1>1. m \in [S -> Nat] /\ DOMAIN queue = S /\ IsFiniteSet(S)
      /\ \A i \in S : m[i] = queue[i].remaining
  BY RemaindersAre
<1> HIDE DEF m, S
<1>2. PICK g \in [SUBSET S -> Nat] : \A s \in SUBSET S : g[s] = SumStep(g, m, s)
  <2>1. Sums(S, m) # {}
    BY <1>1, SumExists
  <2>2. QED
    BY <2>1 DEF Sums
<1>3. ASSUME NEW s \in SUBSET S, NEW f
      PROVE  SumStep(f, m, s) = IF s = {} THEN 0
                                ELSE queue[Some(s)].remaining + f[s \ {Some(s)}]
  BY <1>1, SomeIn DEF SumStep
<1>4. g = [s \in SUBSET S |-> IF s = {} THEN 0
                              ELSE queue[Some(s)].remaining + g[s \ {Some(s)}]]
  BY <1>2, <1>3
<1>5. iter = [s \in SUBSET S |-> IF s = {} THEN 0
                                 ELSE queue[Some(s)].remaining + iter[s \ {Some(s)}]]
  BY <1>1, <1>4, Zenon DEF LevelSum
<1> HIDE DEF iter
<1>6. \A s \in SUBSET S : iter[s] = SumStep(iter, m, s)
  BY <1>3, <1>5
<1>7. iter = [s \in SUBSET S |-> iter[s]]
  BY <1>5
<1>8. iter \in Sums(S, m)
  BY <1>1, <1>2, <1>6, <1>7, SumIsUnique
<1>9. QED
  BY <1>8 DEF S, m, iter

LEMMA LevelIsEmpty == LevelSize(<<>>) = 0
<1>1. <<>> \in Seq(Order) /\ DOMAIN <<>> = {} /\ 1 .. Len(<<>>) = {}
  OBVIOUS
<1>2. LevelSum(<<>>) \in Sums({}, Remainders(<<>>))
  BY <1>1, LevelSumIs
<1>3. LevelSum(<<>>)[{}] = 0
  BY <1>2 DEF Sums, SumStep
<1>4. QED
  BY <1>1, <1>3, LevelSizeIs

LEMMA LevelHasHead ==
  ASSUME NEW queue \in Seq(Order), queue # <<>>
  PROVE  /\ LevelSize(queue) = Head(queue).remaining + LevelSize(Tail(queue))
         /\ LevelSize(Tail(queue)) \in Nat
<1>1. PICK t \in Seq(Order) : t = Tail(queue)
  BY HeadTailProperties
<1>2. PICK n \in Nat : Len(t) = n /\ Len(queue) = n + 1 /\ \A i \in 1 .. n : t[i] = queue[i + 1]
  BY <1>1, HeadTailProperties
<1>3. Head(queue) = queue[1]
  OBVIOUS
<1> DEFINE g == LevelSum(queue)
           h == LevelSum(t)
           m == Remainders(queue)
           l == Remainders(t)
           T == {k \in Nat : k <= n => g[1 .. k + 1] = m[1] + h[1 .. k]}
<1>4. /\ g \in Sums(1 .. n + 1, m) /\ m \in [1 .. n + 1 -> Nat] /\ IsFiniteSet(1 .. n + 1)
      /\ h \in Sums(1 .. n, l) /\ l \in [1 .. n -> Nat] /\ IsFiniteSet(1 .. n)
      /\ m[1] = Head(queue).remaining
      /\ \A i \in 1 .. n : l[i] = m[i + 1]
  <2>1. /\ g \in Sums(1 .. n + 1, m) /\ m \in [1 .. n + 1 -> Nat]
        /\ IsFiniteSet(1 .. n + 1)
        /\ \A i \in 1 .. n + 1 : m[i] = queue[i].remaining
    BY <1>2, LevelSumIs, RemaindersAre
  <2>2. /\ h \in Sums(1 .. n, l) /\ l \in [1 .. n -> Nat] /\ IsFiniteSet(1 .. n)
        /\ \A i \in 1 .. n : l[i] = t[i].remaining
    BY <1>2, LevelSumIs, RemaindersAre
  <2> HIDE DEF g, h, m, l
  <2>3. m[1] = Head(queue).remaining
    BY <1>3, <2>1
  <2>4. ASSUME NEW i \in 1 .. n PROVE l[i] = m[i + 1]
    <3>1. i + 1 \in 1 .. n + 1
      OBVIOUS
    <3>2. t[i] = queue[i + 1]
      BY <1>2
    <3>3. QED
      BY <2>1, <2>2, <3>1, <3>2
  <2>5. QED
    BY <2>1, <2>2, <2>3, <2>4
<1> HIDE DEF g, h, m, l
<1>5a. \A s \in SUBSET (1 .. n + 1) : \A p \in s : g[s] = m[p] + g[s \ {p}]
  <2>1. PICK S : S = 1 .. n + 1
    OBVIOUS
  <2>2. IsFiniteSet(S) /\ m \in [S -> Nat] /\ g \in Sums(S, m)
    BY <1>4, <2>1
  <2>3. Splits(S, m, g)
    BY <2>2, SumTakes
  <2>4. QED
    BY <2>1, <2>3 DEF Splits
<1>5b. \A s \in SUBSET (1 .. n) : \A p \in s : h[s] = l[p] + h[s \ {p}]
  <2>1. PICK S : S = 1 .. n
    OBVIOUS
  <2>2. IsFiniteSet(S) /\ l \in [S -> Nat] /\ h \in Sums(S, l)
    BY <1>4, <2>1
  <2>3. Splits(S, l, h)
    BY <2>2, SumTakes
  <2>4. QED
    BY <2>1, <2>3 DEF Splits
<1>6. /\ g \in [SUBSET (1 .. n + 1) -> Nat] /\ h \in [SUBSET (1 .. n) -> Nat]
      /\ g[{}] = 0 /\ h[{}] = 0
  BY <1>4 DEF Sums, SumStep
<1>7. 0 \in T
  <2>1. 1 .. 0 + 1 = {1} /\ 1 .. 0 = {} /\ {1} \ {1} = {} /\ {1} \in SUBSET (1 .. n + 1)
    OBVIOUS
  <2>2. g[{1}] = m[1] + g[{}]
    BY <1>5a, <2>1
  <2>3. QED
    BY <1>6, <2>1, <2>2
<1>8. ASSUME NEW k \in T PROVE k + 1 \in T
  <2>1. k \in Nat
    OBVIOUS
  <2>2. SUFFICES ASSUME k + 1 <= n PROVE g[1 .. (k + 1) + 1] = m[1] + h[1 .. k + 1]
    BY <2>1
  <2>3. /\ (1 .. (k + 1) + 1) \ {(k + 1) + 1} = 1 .. k + 1
        /\ (1 .. k + 1) \ {k + 1} = 1 .. k
        /\ 1 .. (k + 1) + 1 \in SUBSET (1 .. n + 1) /\ 1 .. k + 1 \in SUBSET (1 .. n)
        /\ 1 .. k \in SUBSET (1 .. n)
        /\ (k + 1) + 1 \in 1 .. (k + 1) + 1 /\ k + 1 \in 1 .. k + 1 /\ k + 1 \in 1 .. n
    BY <2>1, <2>2
  <2>4. g[1 .. (k + 1) + 1] = m[(k + 1) + 1] + g[1 .. k + 1]
    <3>1. PICK s \in SUBSET (1 .. n + 1), p \in 1 .. n + 1 :
            p \in s /\ s = 1 .. (k + 1) + 1 /\ p = (k + 1) + 1
      BY <2>3
    <3>2. g[s] = m[p] + g[s \ {p}]
      BY <1>5a, <3>1
    <3>3. QED
      BY <2>3, <3>1, <3>2
  <2>5. h[1 .. k + 1] = l[k + 1] + h[1 .. k]
    <3>1. PICK s \in SUBSET (1 .. n), p \in 1 .. n :
            p \in s /\ s = 1 .. k + 1 /\ p = k + 1
      BY <2>3
    <3>2. h[s] = l[p] + h[s \ {p}]
      BY <1>5b, <3>1
    <3>3. QED
      BY <2>3, <3>1, <3>2
  <2>6. g[1 .. k + 1] = m[1] + h[1 .. k]
    BY <2>1, <2>2
  <2>7. l[k + 1] = m[(k + 1) + 1]
    BY <1>4, <2>3
  <2>8. PICK a \in Nat, b \in Nat, c \in Nat : a = m[1] /\ b = l[k + 1] /\ c = h[1 .. k]
    <3>1. 1 \in 1 .. n + 1
      OBVIOUS
    <3>2. m[1] \in Nat /\ l[k + 1] \in Nat /\ h[1 .. k] \in Nat
      BY <1>4, <1>6, <2>3, <3>1
    <3>3. QED
      BY <3>2
  <2>9. g[1 .. (k + 1) + 1] = b + (a + c)
    BY <2>4, <2>6, <2>7, <2>8
  <2>10. m[1] + h[1 .. k + 1] = a + (b + c)
    BY <2>5, <2>8
  <2>11. QED
    BY <2>9, <2>10
<1>9. n \in T
  <2>1. T \subseteq Nat
    OBVIOUS
  <2> HIDE DEF T
  <2>2. QED
    BY <1>7, <1>8, <2>1, Induction DEF Inductive
<1>10. g[1 .. n + 1] = m[1] + h[1 .. n] /\ h[1 .. n] \in Nat
  BY <1>6, <1>9
<1>11. LevelSize(queue) = g[1 .. n + 1] /\ LevelSize(t) = h[1 .. n]
  BY <1>2, LevelSizeIs, RemaindersAre DEF g, h
<1>12. QED
  BY <1>1, <1>4, <1>10, <1>11

-----------------------------------------------------------------------------
(***************************************************************************)
(* The peek against the walk.  The peek sums the levels that the intent    *)
(* crosses; a fill takes its size from the best of them, so the sum falls  *)
(* by what the taker gets, and is zero when the loop ends with size left.  *)
(***************************************************************************)
SideSize(b, side, p) == LevelSize(b.queue[<<side, p>>])

Crossing(b, intent) ==
  {p \in Levels(b, Opposite(intent.side)) : TakerCrosses(intent, p)}

CrossingSums(b, intent) == [p \in Crossing(b, intent) |-> SideSize(b, Opposite(intent.side), p)]

CrossingSum(b, intent) ==
  CHOOSE iter : iter = [s \in SUBSET Crossing(b, intent) |->
                          IF s = {} THEN 0
                          ELSE SideSize(b, Opposite(intent.side), Some(s)) + iter[s \ {Some(s)}]]

LEMMA CrossingSizeIs ==
  ASSUME NEW b, NEW intent
  PROVE  CrossingSize(b, intent) = CrossingSum(b, intent)[Crossing(b, intent)]
BY DEF CrossingSize, MapThenSumSet, MapThenFoldSet, CrossingSum, Some, SideSize, LevelSize,
       Crossing

LEMMA LevelSizeType ==
  ASSUME NEW queue \in Seq(Order)
  PROVE  LevelSize(queue) \in Nat
<1>1. CASE queue = <<>>
  BY <1>1, LevelIsEmpty
<1>2. CASE queue # <<>>
  <2>1. Head(queue) \in Order
    BY <1>2, HeadTailProperties
  <2>2. Head(queue).remaining \in Nat
    BY <2>1 DEF Order
  <2>3. QED
    BY <1>2, <2>2, LevelHasHead
<1>3. QED
  BY <1>1, <1>2

LEMMA CrossingIs ==
  ASSUME NEW b \in Book, NEW intent \in Intent
  PROVE  /\ IsFiniteSet(Crossing(b, intent))
         /\ CrossingSums(b, intent) \in [Crossing(b, intent) -> Nat]
         /\ Opposite(intent.side) \in Sides
         /\ Crossing(b, intent) \subseteq Prices
<1>1. Opposite(intent.side) \in Sides
  BY DEF Opposite, Sides, Intent
<1>2. Crossing(b, intent) \subseteq Prices
  BY DEF Crossing, Levels
<1>3. IsFiniteSet(Prices)
  BY MaxPriceIsNat, FS_Interval DEF Prices
<1>4. IsFiniteSet(Crossing(b, intent))
  BY <1>2, <1>3, FS_Subset
<1>5. ASSUME NEW p \in Crossing(b, intent)
      PROVE  SideSize(b, Opposite(intent.side), p) \in Nat
  <2>1. <<Opposite(intent.side), p>> \in Slots
    BY <1>1, <1>2 DEF Slots
  <2>2. b.queue[<<Opposite(intent.side), p>>] \in Seq(Order)
    BY <2>1, BookFields
  <2>3. QED
    BY <2>2, LevelSizeType DEF SideSize
<1>6. CrossingSums(b, intent) \in [Crossing(b, intent) -> Nat]
  BY <1>5 DEF CrossingSums
<1>7. QED
  BY <1>1, <1>2, <1>4, <1>6

LEMMA CrossingSumIs ==
  ASSUME NEW b \in Book, NEW intent \in Intent
  PROVE  CrossingSum(b, intent) \in Sums(Crossing(b, intent), CrossingSums(b, intent))
<1> DEFINE S == Crossing(b, intent)
           m == CrossingSums(b, intent)
           side == Opposite(intent.side)
           iter == CrossingSum(b, intent)
<1>1. m \in [S -> Nat] /\ IsFiniteSet(S) /\ \A p \in S : m[p] = SideSize(b, side, p)
  BY CrossingIs DEF CrossingSums
<1>2. iter = CHOOSE f : f = [s \in SUBSET S |->
                               IF s = {} THEN 0
                               ELSE SideSize(b, side, Some(s)) + f[s \ {Some(s)}]]
  BY DEF CrossingSum
<1> HIDE DEF m, S, side, iter
<1>3. PICK g \in [SUBSET S -> Nat] : \A s \in SUBSET S : g[s] = SumStep(g, m, s)
  <2>1. Sums(S, m) # {}
    BY <1>1, SumExists
  <2>2. QED
    BY <2>1 DEF Sums
<1>4. ASSUME NEW t \in SUBSET S, NEW f
      PROVE  SumStep(f, m, t) = IF t = {} THEN 0
                                ELSE SideSize(b, side, Some(t)) + f[t \ {Some(t)}]
  BY <1>1, SomeIn DEF SumStep
<1>5. g = [s \in SUBSET S |-> IF s = {} THEN 0
                              ELSE SideSize(b, side, Some(s)) + g[s \ {Some(s)}]]
  BY <1>3, <1>4
<1>6. iter = [s \in SUBSET S |-> IF s = {} THEN 0
                                 ELSE SideSize(b, side, Some(s)) + iter[s \ {Some(s)}]]
  BY <1>2, <1>5, Zenon
<1>7. /\ DOMAIN iter = SUBSET S
      /\ iter = [s \in SUBSET S |-> iter[s]]
      /\ \A s \in SUBSET S : iter[s] = SumStep(iter, m, s)
  BY <1>4, <1>6
<1>8. iter \in Sums(S, m)
  BY <1>1, <1>3, <1>7, SumIsUnique
<1>9. QED
  BY <1>8 DEF S, m, iter

LEMMA CrossingSizeType ==
  ASSUME NEW b \in Book, NEW intent \in Intent
  PROVE  CrossingSize(b, intent) \in Nat
<1>1. CrossingSum(b, intent) \in [SUBSET Crossing(b, intent) -> Nat]
  BY CrossingSumIs DEF Sums
<1>2. QED
  BY <1>1, CrossingSizeIs

\* What a fill leaves of its level, and of the others.
Lowers(b, c, slot, size) ==
  /\ BookOK(c)
  /\ \A s \in Slots : s # slot => c.queue[s] = b.queue[s]
  /\ LevelSize(c.queue[slot]) = LevelSize(b.queue[slot]) - size

LEMMA FillLevels ==
  ASSUME NEW b, BookOK(b), NEW slot \in Slots, NEW maker \in Order, NEW size \in Nat,
         b.queue[slot] # <<>>, maker = Head(b.queue[slot]),
         size > 0, size <= maker.remaining
  PROVE  Lowers(b, BookAfterFill(b, slot, maker, size), slot, size)
<1> DEFINE left == maker.remaining - size
           popped == PopFrontAt(b, slot)
<1>1. b \in Book
  BY DEF BookOK
<1>2. PICK q \in Seq(Order) : q = b.queue[slot] /\ q # <<>>
  BY <1>1, BookFields
<1>3. PICK t \in Seq(Order) : t = Tail(q)
  BY <1>2, HeadTailProperties
<1>4. PICK r \in Nat : r = maker.remaining
  BY DEF Order
<1>5. LevelSize(q) = r + LevelSize(t) /\ LevelSize(t) \in Nat
  BY <1>2, <1>3, <1>4, LevelHasHead
<1>6. PICK c : c = BookAfterFill(b, slot, maker, size)
  OBVIOUS
<1>7. BookOK(c)
  BY <1>6, FillOK
<1>8. popped = WithQueue(b, slot, t)
  BY <1>2, <1>3 DEF PopFrontAt
<1>8a. popped \in Book
       /\ \A s \in Slots : popped.queue[s] = IF s = slot THEN t ELSE b.queue[s]
  <2> HIDE DEF popped
  <2>1. QED
    BY <1>1, <1>8, WithQueueType
<1> HIDE DEF popped
<1>9. CASE left = 0
  <2>1. c = DropFromIndex(popped, maker.id)
    BY <1>6, <1>9 DEF BookAfterFill, popped
  <2>2. maker.id \in Ids
    BY DEF Order
  <2>3. c.queue = popped.queue
    BY <1>8a, <2>1, <2>2, WithEntryType DEF DropFromIndex
  <2>4. c.queue[slot] = t /\ \A s \in Slots : s # slot => c.queue[s] = b.queue[s]
    BY <1>8a, <2>3
  <2>5. LevelSize(t) = LevelSize(q) - size
    <3>1. PICK z \in Nat : z = LevelSize(t)
      BY <1>5
    <3>2. r - size = 0
      BY <1>4, <1>9
    <3>3. LevelSize(q) = r + z
      BY <1>5, <3>1
    <3>4. QED
      BY <3>1, <3>2, <3>3
  <2>6. QED
    BY <1>2, <1>6, <1>7, <2>4, <2>5 DEF Lowers
<1>10. CASE left # 0
  <2>1. left \in Nat
    BY <1>4
  <2>2. PICK o \in Order : o = [maker EXCEPT !.remaining = left] /\ o.remaining = left
    <3>1. PICK n \in Nat : n = left
      BY <2>1
    <3>2. [maker EXCEPT !.remaining = n] \in Order
      BY DEF Order
    <3>3. [maker EXCEPT !.remaining = n].remaining = n
      BY DEF Order
    <3> HIDE DEF left
    <3>4. QED
      BY <3>1, <3>2, <3>3
  <2>3. PICK p \in Seq(Order) : p = <<o>> \o t /\ p # <<>> /\ Head(p) = o /\ Tail(p) = t
    <3>1. <<o>> \o t \in Seq(Order) /\ <<o>> \o t # <<>>
          /\ Head(<<o>> \o t) = o /\ Tail(<<o>> \o t) = t
      OBVIOUS
    <3>2. QED
      BY <3>1
  <2>4. c = WithQueue(popped, slot, p)
    <3>1. c = PushFrontAt(popped, slot, o)
      BY <1>6, <1>10, <2>2 DEF BookAfterFill, popped
    <3>2. popped.queue[slot] = t
      BY <1>8a
    <3>3. QED
      BY <2>3, <3>1, <3>2 DEF PushFrontAt
  <2>5. c.queue[slot] = p /\ \A s \in Slots : s # slot => c.queue[s] = b.queue[s]
    <3>1. \A s \in Slots : c.queue[s] = IF s = slot THEN p ELSE popped.queue[s]
      <4>1. PICK d \in Book : d = popped
        BY <1>8a
      <4>2. c = WithQueue(d, slot, p)
        BY <2>4, <4>1
      <4>3. \A s \in Slots : c.queue[s] = IF s = slot THEN p ELSE d.queue[s]
        <5>1. \A s \in Slots :
                WithQueue(d, slot, p).queue[s] = IF s = slot THEN p ELSE d.queue[s]
          BY WithQueueType
        <5>2. QED
          BY <4>2, <5>1
      <4>4. QED
        BY <4>1, <4>3
    <3>2. QED
      BY <1>8a, <3>1
  <2>6. LevelSize(p) = left + LevelSize(t)
    BY <2>2, <2>3, LevelHasHead
  <2>7. LevelSize(p) = LevelSize(q) - size
    <3>1. PICK z \in Nat : z = LevelSize(t)
      BY <1>5
    <3>2. LevelSize(q) = r + z /\ LevelSize(p) = (r - size) + z
      BY <1>4, <1>5, <2>6, <3>1
    <3>3. QED
      BY <3>2
  <2>8. QED
    BY <1>2, <1>6, <1>7, <2>5, <2>7 DEF Lowers
<1>11. QED
  BY <1>9, <1>10

LEMMA FillLowersPeek ==
  ASSUME NEW b, BookOK(b), NEW intent \in Intent, NEW remaining \in Nat,
         CanFill(b, intent, remaining)
  PROVE  LET maker == BestMaker(b, intent)
             size == FillSize(maker, remaining)
             c == BookAfterFill(b, BestSlot(b, intent), maker, size)
         IN CrossingSize(c, intent) = CrossingSize(b, intent) - size
<1> DEFINE side == Opposite(intent.side)
<1>1. PICK slot \in Slots, maker \in Order, size \in Nat :
        /\ slot = BestSlot(b, intent) /\ maker = BestMaker(b, intent)
        /\ size = FillSize(maker, remaining)
        /\ b.queue[slot] # <<>> /\ maker = Head(b.queue[slot])
        /\ size > 0 /\ size <= maker.remaining
  BY BestMakerOK
<1>2. PICK c : c = BookAfterFill(b, slot, maker, size)
  OBVIOUS
<1>3. /\ BookOK(c)
      /\ \A s \in Slots : s # slot => c.queue[s] = b.queue[s]
      /\ LevelSize(c.queue[slot]) = LevelSize(b.queue[slot]) - size
  <2>1. Lowers(b, BookAfterFill(b, slot, maker, size), slot, size)
    BY <1>1, FillLevels
  <2>2. QED
    BY <1>2, <2>1 DEF Lowers
<1>4. b \in Book /\ c \in Book
  BY <1>3 DEF BookOK
<1>5. PICK best : best = BestPrice(b, side) /\ slot = <<side, best>>
  BY <1>1 DEF BestSlot
<1>6. side \in Sides /\ best \in Prices
  BY <1>5 DEF Slots
<1>7. PICK B, C : B = Crossing(b, intent) /\ C = Crossing(c, intent)
  OBVIOUS
<1>8. best \in B
  BY <1>1, <1>5, <1>6, <1>7 DEF CanFill, Crossing, Levels
<1>9. \A p \in Prices : p # best => <<side, p>> \in Slots /\ <<side, p>> # slot
  BY <1>5, <1>6 DEF Slots
<1>10. \A p \in Prices : p # best => c.queue[<<side, p>>] = b.queue[<<side, p>>]
  BY <1>3, <1>9
<1>11. \A p \in Prices : p # best => (p \in B <=> p \in C)
  BY <1>7, <1>10 DEF Crossing, Levels
<1>12. best \in C <=> c.queue[slot] # <<>>
  BY <1>5, <1>6, <1>7, <1>8 DEF Crossing, Levels
<1>13. PICK m, l, g, h : /\ m = CrossingSums(b, intent) /\ l = CrossingSums(c, intent)
                         /\ g = CrossingSum(b, intent) /\ h = CrossingSum(c, intent)
  OBVIOUS
<1>14. /\ IsFiniteSet(B) /\ m \in [B -> Nat] /\ g \in Sums(B, m) /\ B \subseteq Prices
       /\ IsFiniteSet(C) /\ l \in [C -> Nat] /\ h \in Sums(C, l) /\ C \subseteq Prices
  BY <1>4, <1>7, <1>13, CrossingIs, CrossingSumIs
<1>15. /\ \A p \in B : m[p] = LevelSize(b.queue[<<side, p>>])
       /\ \A p \in C : l[p] = LevelSize(c.queue[<<side, p>>])
  BY <1>7, <1>13 DEF CrossingSums, SideSize
<1>16. PICK U : U = B \ {best} /\ U = C \ {best}
  BY <1>11, <1>14
<1>17. g[U] = h[U] /\ g[U] \in Nat
  <2>1. \A p \in U : m[p] = l[p]
    BY <1>10, <1>14, <1>15, <1>16
  <2>2. U \in SUBSET B /\ U \in SUBSET C
    BY <1>16
  <2>3. g[U] = h[U]
    BY <1>14, <2>1, <2>2, SumAgrees
  <2>4. QED
    BY <1>14, <2>2, <2>3 DEF Sums
<1>18. g[B] = m[best] + g[U] /\ m[best] \in Nat
  <2>1. Splits(B, m, g)
    BY <1>14, SumTakes
  <2>2. QED
    BY <1>8, <1>14, <1>16, <2>1 DEF Splits
<1>19. LevelSize(c.queue[slot]) = m[best] - size
  BY <1>3, <1>5, <1>8, <1>15
<1>20. h[C] = g[B] - size
  <2>1. CASE best \in C
    <3>1. Splits(C, l, h)
      BY <1>14, SumTakes
    <3>2. h[C] = l[best] + h[U]
      BY <1>16, <2>1, <3>1 DEF Splits
    <3>3. l[best] = m[best] - size
      BY <1>5, <1>15, <1>19, <2>1
    <3>4. QED
      BY <1>17, <1>18, <3>2, <3>3
  <2>2. CASE best \notin C
    <3>1. C = U /\ c.queue[slot] = <<>>
      BY <1>12, <1>16, <2>2
    <3>2. m[best] - size = 0
      BY <1>19, <3>1, LevelIsEmpty
    <3>3. QED
      BY <1>17, <1>18, <3>1, <3>2
  <2>3. QED
    BY <2>1, <2>2
<1>21. CrossingSize(b, intent) = g[B] /\ CrossingSize(c, intent) = h[C]
  BY <1>7, <1>13, CrossingSizeIs
<1>22. QED
  BY <1>1, <1>2, <1>20, <1>21

\* The loop never ends with size left while the peek would still find some.
LEMMA PeekIsSpent ==
  ASSUME NEW b \in Book, NEW intent \in Intent, NEW remaining \in Nat, remaining # 0,
         ~ CanFill(b, intent, remaining)
  PROVE  CrossingSize(b, intent) = 0
<1> DEFINE side == Opposite(intent.side)
<1>1. Crossing(b, intent) = {}
  <2> SUFFICES ASSUME NEW p \in Levels(b, side), TakerCrosses(intent, p) PROVE FALSE
    BY DEF Crossing
  <2>1. IF intent.side = "Long" THEN intent.price < p ELSE p < intent.price
    BY NothingCrosses
  <2>2. intent.price \in Int /\ p \in Int /\ intent.side \in {"Long", "Short"}
    BY MaxPriceIsNat DEF Intent, Prices, Sides, Levels
  <2>3. intent.type # "Market"
    BY DEF CanFill, TakerCrosses
  <2>4. QED
    BY <2>1, <2>2, <2>3 DEF TakerCrosses
<1>2. CrossingSum(b, intent) \in Sums(Crossing(b, intent), CrossingSums(b, intent))
  BY CrossingSumIs
<1>3. CrossingSum(b, intent)[{}] = 0
  BY <1>1, <1>2 DEF Sums, SumStep
<1>4. QED
  BY <1>1, <1>3, CrossingSizeIs

-----------------------------------------------------------------------------
(***************************************************************************)
(* Fill-or-kill.  An intent that was let through keeps, while it runs, at  *)
(* least as much crossing size as it still wants: the peek said so at the  *)
(* start, and a fill takes as much from the one as from the other.  When   *)
(* the loop ends no crossing size is left, hence nothing is wanted.        *)
(***************************************************************************)
IsFok(id) == intents[id] # NoIntent /\ intents[id].tif = "FOK"

Peeked(id) ==
  /\ book.index[id] = NoSlot
  /\ status[id] \in {"Filled", "Rejected", "Running"}
  /\ status[id] = "Filled" => filled[id] = intents[id].magnitude
  /\ status[id] = "Rejected" => filled[id] = 0
  /\ status[id] = "Running" =>
       /\ walk # NoWalk /\ walk.id = id
       /\ filled[id] + walk.remaining = intents[id].magnitude
       /\ CrossingSize(book, intents[id]) >= walk.remaining

Kills ==
  /\ walk # NoWalk => status[walk.id] = "Running"
  /\ \A id \in Ids : IsFok(id) => Peeked(id)

LEMMA InitKills == Init => Kills
BY DEF Init, Kills, IsFok

LEMMA BeginKills ==
  ASSUME IInv, Sizes, Kills, NEW id \in Ids, NEW terms \in Terms, Begin(id, terms)
  PROVE  Kills'
<1>1. PICK intent \in Intent : intent = WithId(id, terms)
  <2>1. WithId(id, terms) \in Intent
    BY TermsAreIntents
  <2>2. QED
    BY <2>1
<1>2. intent.id = id /\ intent.magnitude \in Nat /\ intent # NoIntent
  BY <1>1, TermsAreIntents DEF WithId, Intent
<1>3. /\ book' = book /\ walk = NoWalk /\ intents[id] = NoIntent /\ filled' = filled
      /\ intents' = [intents EXCEPT ![id] = intent]
  BY <1>1 DEF Begin
<1>4. /\ \A n \in Ids : intents'[n] = IF n = id THEN intent ELSE intents[n]
      /\ filled[id] = 0 /\ book.index[id] = NoSlot
  BY <1>3 DEF IInv, TypeOK, Links, Sizes
<1>5. PICK start \in Walk :
        start = [id |-> id, remaining |-> intent.magnitude, fills |-> <<>>]
  <2>1. [id |-> id, remaining |-> intent.magnitude, fills |-> <<>>] \in Walk
    BY <1>2 DEF Walk
  <2>2. QED
    BY <2>1
<1>6. start # NoWalk /\ start.id = id /\ start.remaining = intent.magnitude
  BY <1>5, TermsAreIntents
<1>7. \A n \in Ids : n # id => status'[n] = status[n]
  BY DEF Begin, IInv, TypeOK
<1>8. \/ Admitted(book, intent, now) /\ walk' = start /\ status'[id] = "Running"
      \/ walk' = NoWalk /\ status'[id] = "Rejected"
  BY <1>1, <1>5 DEF Begin, IInv, TypeOK
<1>9. walk' # NoWalk => status'[walk'.id] = "Running"
  BY <1>6, <1>8
<1>10. ASSUME NEW n \in Ids, IsFok(n)' PROVE Peeked(n)'
  <2>1. CASE n = id
    <3>1. intents'[n] = intent /\ intent.tif = "FOK"
      BY <1>4, <1>10, <2>1 DEF IsFok
    <3>2. CASE Admitted(book, intent, now) /\ walk' = start /\ status'[id] = "Running"
      <4>1. CrossingSize(book, intent) >= intent.magnitude
        BY <3>1, <3>2 DEF Admitted, PeekMatch
      <4>2. CrossingSize(book', intents'[n]) >= walk'.remaining
        BY <1>3, <1>6, <3>1, <3>2, <4>1
      <4>3. filled'[n] + walk'.remaining = intents'[n].magnitude
        BY <1>2, <1>3, <1>4, <1>6, <2>1, <3>1, <3>2
      <4>4. QED
        BY <1>3, <1>4, <1>6, <2>1, <3>2, <4>2, <4>3 DEF Peeked
    <3>3. CASE walk' = NoWalk /\ status'[id] = "Rejected"
      BY <1>3, <1>4, <2>1, <3>3 DEF Peeked
    <3>4. QED
      BY <1>8, <3>2, <3>3
  <2>2. CASE n # id
    <3>1. intents'[n] = intents[n] /\ IsFok(n)
      BY <1>4, <1>10, <2>2 DEF IsFok
    <3>2. Peeked(n) /\ status[n] # "Running"
      BY <1>3, <3>1 DEF Kills, Peeked
    <3>3. QED
      BY <1>3, <1>7, <2>2, <3>1, <3>2 DEF Peeked
  <2>3. QED
    BY <2>1, <2>2
<1>11. QED
  BY <1>9, <1>10 DEF Kills

LEMMA IterateKills ==
  ASSUME IInv, Sizes, Kills, Iterate
  PROVE  Kills'
<1>1. PICK taker \in Ids, maker \in Order, size \in Nat :
        /\ walk # NoWalk /\ walk.id = taker
        /\ book.index[maker.id] = SlotOf(maker) /\ maker.id # taker
        /\ filled' = [filled EXCEPT ![maker.id] = @ + size, ![taker] = @ + size]
        /\ Open(taker)' = Open(taker) - size
        /\ \A n \in Ids : book'.index[n] \in {NoSlot, book.index[n]}
        /\ walk' # NoWalk /\ walk'.id = taker
  BY IterateStep
<1>2. intents' = intents /\ status' = status
  BY DEF Iterate
<1>3. PICK intent \in Intent : intent = intents[taker]
  BY <1>1, WalkIntent
<1>4. walk.remaining \in Nat /\ IInv' /\ BookOK(book)
  BY <1>1, IterateIInv, WalkIntent DEF IInv
<1>5. CanFill(book, intent, walk.remaining)
  BY <1>1, <1>3 DEF Iterate
<1>6. PICK step, c :
        /\ step \in Nat
        /\ step = FillSize(BestMaker(book, intent), walk.remaining)
        /\ c = BookAfterFill(book, BestSlot(book, intent), BestMaker(book, intent), step)
        /\ CrossingSize(c, intent) = CrossingSize(book, intent) - step
  BY <1>3, <1>4, <1>5, BestMakerOK, FillLowersPeek
<1>7. book' = c /\ walk'.remaining = walk.remaining - step
  <2>1. book' = c
    BY <1>1, <1>3, <1>6 DEF Iterate
  <2>2. walk' = [walk EXCEPT !.remaining = @ - step,
                   !.fills = Append(@, MakeFill(intent, BestMaker(book, intent), step))]
    BY <1>1, <1>3, <1>6 DEF Iterate
  <2>3. walk \in Walk
    BY <1>1, WalkIntent
  <2>4. QED
    BY <2>1, <2>2, <2>3 DEF Walk
<1>8. walk.remaining - size = walk.remaining - step
  <2>1. Open(taker) = walk.remaining
    BY <1>1, OpenIs
  <2>2. Open(taker)' = walk'.remaining
    <3>1. RestingSize(book', taker) = 0
      <4>1. BookOK(book') /\ book'.index[taker] = NoSlot
        BY <1>1, <1>4 DEF IInv, Links
      <4>2. QED
        BY <4>1, RestingNat
    <3>2. InFlight(taker)' = walk'.remaining /\ walk'.remaining \in Nat
      BY <1>1, <1>4 DEF InFlight, IInv, TypeOK, Walk
    <3>3. QED
      BY <3>1, <3>2 DEF Open
  <2>3. QED
    BY <1>1, <1>7, <2>1, <2>2
<1>9. size = step
  BY <1>4, <1>6, <1>8
<1>10. maker.id \in Ids /\ book.index[maker.id] # NoSlot
  <2>1. SlotOf(maker) \in Slots /\ maker.id \in Ids
    BY DEF SlotOf, Order, Slots
  <2>2. QED
    BY <1>1, <2>1, NoSlotIsNoSlot
<1>11. ASSUME NEW n \in Ids, IsFok(n)' PROVE Peeked(n)'
  <2>1. IsFok(n) /\ Peeked(n)
    BY <1>2, <1>11 DEF Kills, IsFok
  <2>2. n # maker.id /\ book'.index[n] = NoSlot
    BY <1>1, <1>10, <2>1 DEF Peeked
  <2>3. CASE n = taker
    <3>1. status[n] = "Running"
      BY <1>1, <2>3 DEF Kills
    <3>2. PICK f \in Nat, r \in Nat, m \in Nat, x \in Nat :
            /\ f = filled[n] /\ r = walk.remaining /\ m = intent.magnitude
            /\ x = CrossingSize(book, intent)
      <4>1. filled[n] \in Nat /\ intent.magnitude \in Nat /\ book \in Book
        BY DEF IInv, TypeOK, Intent
      <4>2. CrossingSize(book, intent) \in Nat
        BY <4>1, CrossingSizeType
      <4>3. QED
        BY <1>4, <4>1, <4>2
    <3>3. f + r = m /\ x >= r
      BY <1>3, <2>1, <2>3, <3>1, <3>2 DEF Peeked
    <3>4. filled'[n] = f + step /\ walk'.remaining = r - step
          /\ CrossingSize(book', intents'[n]) = x - step
          /\ intents'[n].magnitude = m
      BY <1>1, <1>2, <1>3, <1>6, <1>7, <1>9, <1>10, <2>2, <2>3, <3>2 DEF IInv, TypeOK
    <3>5. filled'[n] + walk'.remaining = intents'[n].magnitude
      BY <1>6, <3>2, <3>3, <3>4
    <3>6. CrossingSize(book', intents'[n]) >= walk'.remaining
      BY <1>6, <3>2, <3>3, <3>4
    <3>7. QED
      BY <1>1, <1>2, <2>2, <2>3, <3>1, <3>5, <3>6 DEF Peeked
  <2>4. CASE n # taker
    <3>1. status[n] # "Running"
      BY <1>1, <2>1, <2>4 DEF Peeked
    <3>2. filled'[n] = filled[n]
      BY <1>1, <1>10, <2>2, <2>4 DEF IInv, TypeOK
    <3>3. QED
      BY <1>2, <2>1, <2>2, <3>1, <3>2 DEF Peeked
  <2>5. QED
    BY <2>3, <2>4
<1>12. QED
  BY <1>1, <1>2, <1>11 DEF Kills

LEMMA FinishKills ==
  ASSUME IInv, Sizes, Kills, Finish
  PROVE  Kills'
<1>1. PICK id \in Ids : walk # NoWalk /\ walk' = NoWalk /\ walk.id = id
  BY WalkIntent DEF Finish
<1>2. PICK intent \in Intent : intent = intents[id] /\ intent.id = id
  BY <1>1, WalkIntent
<1>3. walk.remaining \in Nat /\ book.index[id] = NoSlot /\ BookOK(book) /\ book \in Book
  BY <1>1, WalkIntent DEF IInv, BookOK
<1>4. PICK any \in BOOLEAN : any = (walk.fills # <<>>)
  OBVIOUS
<1>5. /\ ~ CanFill(book, intent, walk.remaining)
      /\ book' = BookAfterResidual(book, intent, walk.remaining, any)
      /\ status' = [status EXCEPT ![id] = MatchStatus(intent, walk.remaining, any)]
      /\ intents' = intents /\ filled' = filled
  BY <1>1, <1>2, <1>4 DEF Finish
<1>6. \A n \in Ids : n # id => book'.index[n] = book.index[n]
  BY <1>1, FinishStep
<1>7. ASSUME NEW n \in Ids, IsFok(n)' PROVE Peeked(n)'
  <2>1. IsFok(n) /\ Peeked(n)
    BY <1>5, <1>7 DEF Kills, IsFok
  <2>2. CASE n = id
    <3>1. /\ status[n] = "Running"
          /\ filled[n] + walk.remaining = intent.magnitude
          /\ CrossingSize(book, intent) >= walk.remaining
      BY <1>1, <1>2, <2>1, <2>2 DEF Kills, Peeked
    <3>2. walk.remaining = 0
      <4>1. SUFFICES ASSUME walk.remaining # 0 PROVE FALSE
        OBVIOUS
      <4>2. CrossingSize(book, intent) = 0
        BY <1>3, <1>5, <4>1, PeekIsSpent
      <4>3. QED
        BY <1>3, <3>1, <4>1, <4>2
    <3>3. status'[n] = "Filled" /\ book' = book
      BY <1>5, <2>2, <3>2 DEF MatchStatus, BookAfterResidual, Rests, IInv, TypeOK
    <3>4. filled'[n] = intents'[n].magnitude
      BY <1>2, <1>5, <2>2, <3>1, <3>2 DEF IInv, TypeOK
    <3>5. QED
      BY <2>1, <3>3, <3>4 DEF Peeked
  <2>3. CASE n # id
    <3>1. status[n] # "Running" /\ status'[n] = status[n]
      BY <1>1, <1>5, <2>1, <2>3 DEF Peeked, IInv, TypeOK
    <3>2. QED
      BY <1>5, <1>6, <2>1, <2>3, <3>1 DEF Peeked
  <2>4. QED
    BY <2>2, <2>3
<1>8. QED
  BY <1>1, <1>7 DEF Kills

LEMMA CancelKills ==
  ASSUME IInv, Kills, NEW id \in Ids, Cancel(id)
  PROVE  Kills'
<1>1. /\ book.index[id] # NoSlot /\ walk = NoWalk /\ walk' = NoWalk
      /\ intents' = intents /\ filled' = filled
      /\ \A n \in Ids : n # id => status'[n] = status[n]
  BY DEF Cancel, Locate, IInv, TypeOK
<1>2. \A n \in Ids : book'.index[n] \in {NoSlot, book.index[n]}
  BY CancelStep
<1>3. ASSUME NEW n \in Ids, IsFok(n)' PROVE Peeked(n)'
  <2>1. IsFok(n) /\ Peeked(n)
    BY <1>1, <1>3 DEF Kills, IsFok
  <2>2. n # id /\ status[n] # "Running" /\ book'.index[n] = NoSlot
    BY <1>1, <1>2, <2>1 DEF Peeked
  <2>3. QED
    BY <1>1, <2>1, <2>2 DEF Peeked
<1>4. QED
  BY <1>1, <1>3 DEF Kills

LEMMA NextKills == IInv /\ Sizes /\ Kills /\ [Next]_vars => Kills'
<1> SUFFICES ASSUME IInv, Sizes, Kills, [Next]_vars PROVE Kills'
  OBVIOUS
<1>1. CASE TimePasses \/ UNCHANGED vars
  <2>1. /\ intents' = intents /\ filled' = filled /\ status' = status
        /\ book' = book /\ walk' = walk
    BY <1>1 DEF TimePasses, vars
  <2>2. QED
    BY <2>1 DEF Kills, IsFok, Peeked
<1>2. QED
  BY <1>1, BeginKills, IterateKills, FinishKills, CancelKills DEF Next

\* A killed intent has traded nothing, and one that was let through trades all
\* of its size: the peek at the levels and the walk over the makers agree.
THEOREM MatchLoopFillOrKill == Spec => []FillOrKill
<1>1. Kills => FillOrKill
  BY DEF Kills, IsFok, Peeked, FillOrKill
<1>2. Spec => [](IInv /\ Sizes /\ Kills)
  BY InitIInv, NextIInv, InitSizes, NextSizes, InitKills, NextKills, PTL DEF Spec
<1>3. QED
  BY <1>1, <1>2, PTL
=============================================================================
