----------------------------- MODULE OrderBook -----------------------------
(***************************************************************************)
(* The per-market order book of the matcher                                *)
(* (services/matcher/crates/orderbook/src/{book,order,invariants}.rs).     *)
(*                                                                         *)
(* A book is a value: it has no variables of its own, so that the match    *)
(* loop, the tick loop and the sequencer can all hold one.  A slot is a    *)
(* price level of one side; a level that the BTreeMap does not hold is an  *)
(* empty queue here.  The intent index is a total function whose absent    *)
(* entries are NoSlot.                                                     *)
(***************************************************************************)
EXTENDS Integers, Sequences, SequencesExt, FiniteSetsExt

CONSTANTS
  Ids,        \* intent ids (the EIP-712 digests)
  MaxPrice,   \* prices are 0 .. MaxPrice ticks
  NoSlot      \* the index entry of an id that the index does not hold

ASSUME MaxPriceIsNat == MaxPrice \in Nat

Sides == {"Long", "Short"}
Prices == 0 .. MaxPrice
Slots == Sides \X Prices

ASSUME NoSlotIsNoSlot == NoSlot \notin Slots

Opposite(side) == IF side = "Long" THEN "Short" ELSE "Long"

\* A resting maker.  Trader, flags and insertion time play no role in the book.
Order == [id : Ids, side : Sides, price : Prices, remaining : Nat]

Book == [queue : [Slots -> Seq(Order)], index : [Ids -> Slots \cup {NoSlot}]]

EmptyBook == [queue |-> [slot \in Slots |-> <<>>],
              index |-> [id \in Ids |-> NoSlot]]

SlotOf(order) == <<order.side, order.price>>

-----------------------------------------------------------------------------
\* Prices of `side` that carry at least one order.
Levels(book, side) == {p \in Prices : book.queue[<<side, p>>] # <<>>}

\* The lowest ask or the highest bid; asked for only when the side has levels.
BestPrice(book, side) ==
  IF side = "Short" THEN Min(Levels(book, side)) ELSE Max(Levels(book, side))

\* The book with the queue of one slot, and the index entry of one id, replaced.
WithQueue(book, slot, queue) ==
  [queue |-> [book.queue EXCEPT ![slot] = queue], index |-> book.index]

WithEntry(book, id, slot) ==
  [queue |-> book.queue, index |-> [book.index EXCEPT ![id] = slot]]

Insert(book, order) ==
  LET slot == SlotOf(order)
  IN WithQueue(WithEntry(book, order.id, slot), slot, Append(book.queue[slot], order))

PopFrontAt(book, slot) == WithQueue(book, slot, Tail(book.queue[slot]))

PushFrontAt(book, slot, order) ==
  WithQueue(book, slot, <<order>> \o book.queue[slot])

DropFromIndex(book, id) == WithEntry(book, id, NoSlot)

Locate(book, id) == book.index[id]

\* The index entry goes first; then the first order of the level with that id.
CancelAt(book, id) ==
  LET slot == book.index[id]
      IsTarget(order) == order.id = id
  IN WithQueue(DropFromIndex(book, id), slot,
               RemoveFirstMatch(book.queue[slot], IsTarget))

-----------------------------------------------------------------------------
\* The check of invariants.rs: the best bid lies below the best ask.
BookIsUncrossed(book) ==
  \A bid \in Levels(book, "Long"), ask \in Levels(book, "Short") : bid < ask

\* What rests on the book for `id`, and zero when the index does not hold it.
RestingSize(book, id) ==
  LET slot == book.index[id]
  IN IF slot = NoSlot THEN 0
     ELSE LET queue == book.queue[slot]
          IN queue[CHOOSE i \in DOMAIN queue : queue[i].id = id].remaining
=============================================================================
