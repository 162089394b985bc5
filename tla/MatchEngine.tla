---------------------------- MODULE MatchEngine ----------------------------
(***************************************************************************)
(* The price-time-priority match of one intent against one book, as        *)
(* operators (services/matcher/crates/orderbook/src/match_engine.rs).      *)
(*                                                                         *)
(* MatchLoop runs the loop one iteration per step; callers that hold the   *)
(* book exclusively use MatchIntent, the whole call.                       *)
(***************************************************************************)
EXTENDS OrderBook

OrderTypes == {"Market", "Limit"}
TimesInForce == {"GTC", "IOC", "FOK"}

Intent == [id : Ids, side : Sides, type : OrderTypes, price : Prices,
           magnitude : Nat, tif : TimesInForce, deadline : Int]
Fill == [maker : Ids, taker : Ids, price : Prices, size : Nat]

\* The inputs include what Valid refuses: zero sizes, zero limit prices, past deadlines.
Valid(intent, now) ==
  /\ intent.magnitude # 0
  /\ intent.type = "Limit" => intent.price > 0
  /\ intent.deadline > now

\* Mutant of TakerCrosses: a limit equal to the best price does not cross.
CrossesStrictly(intent, best) ==
  \/ intent.type = "Market"
  \/ intent.side = "Long" /\ intent.price > best
  \/ intent.side = "Short" /\ intent.price < best

\* Mutant of TakerCrosses: the limit is ignored, as for a market order.
CrossesAlways(intent, best) == TRUE

TakerCrosses(intent, best) ==
  \/ intent.type = "Market"
  \/ intent.side = "Long" /\ intent.price >= best
  \/ intent.side = "Short" /\ intent.price <= best

-----------------------------------------------------------------------------
(***************************************************************************)
(* One iteration of the loop.  The maker is the front of the best opposite *)
(* level; it goes back to the front of its level when size is left.        *)
(***************************************************************************)
CanFill(book, intent, remaining) ==
  LET side == Opposite(intent.side)
  IN /\ remaining # 0
     /\ Levels(book, side) # {}
     /\ TakerCrosses(intent, BestPrice(book, side))

BestSlot(book, intent) ==
  LET side == Opposite(intent.side) IN <<side, BestPrice(book, side)>>

BestMaker(book, intent) == Head(book.queue[BestSlot(book, intent)])

\* Mutant of FillSize: the whole maker, whatever the taker still wants.
WholeMaker(maker, remaining) == maker.remaining

FillSize(maker, remaining) ==
  IF remaining < maker.remaining THEN remaining ELSE maker.remaining

MakeFill(intent, maker, size) ==
  [maker |-> maker.id, taker |-> intent.id, price |-> maker.price, size |-> size]

\* Mutant of BookAfterFill: the entry of an exhausted maker stays in the index.
StaleIndexAfterFill(book, slot, maker, size) ==
  LET popped == PopFrontAt(book, slot)
      left == maker.remaining - size
  IN IF left = 0 THEN popped
     ELSE PushFrontAt(popped, slot, [maker EXCEPT !.remaining = left])

\* Mutant of BookAfterFill: a partly filled maker goes to the back of its level.
RequeueAfterFill(book, slot, maker, size) ==
  LET popped == DropFromIndex(PopFrontAt(book, slot), maker.id)
      left == maker.remaining - size
  IN IF left = 0 THEN popped ELSE Insert(popped, [maker EXCEPT !.remaining = left])

BookAfterFill(book, slot, maker, size) ==
  LET popped == PopFrontAt(book, slot)
      left == maker.remaining - size
  IN IF left = 0
     THEN DropFromIndex(popped, maker.id)
     ELSE PushFrontAt(popped, slot, [maker EXCEPT !.remaining = left])

-----------------------------------------------------------------------------
(***************************************************************************)
(* The residual when the loop has ended.  A good-till-cancel residual      *)
(* rests, except that of a market intent without a single fill.            *)
(***************************************************************************)
Rests(intent, remaining, filled) ==
  /\ remaining # 0
  /\ intent.tif = "GTC"
  /\ filled \/ intent.type = "Limit"

\* Mutant of Residual: the order rests with the size it was submitted with.
ResidualOfAll(intent, remaining) ==
  [id |-> intent.id, side |-> intent.side, price |-> intent.price,
   remaining |-> intent.magnitude]

Residual(intent, remaining) ==
  [id |-> intent.id, side |-> intent.side, price |-> intent.price,
   remaining |-> remaining]

MatchStatus(intent, remaining, filled) ==
  IF remaining = 0 THEN "Filled"
  ELSE IF filled THEN "Partial"
  ELSE IF Rests(intent, remaining, filled) THEN "Resting" ELSE "Rejected"

BookAfterResidual(book, intent, remaining, filled) ==
  IF Rests(intent, remaining, filled)
  THEN Insert(book, Residual(intent, remaining))
  ELSE book

-----------------------------------------------------------------------------
\* Mutant of CrossingSize: the peek counts the levels beyond the limit too.
OppositeSize(book, intent) ==
  LET side == Opposite(intent.side)
      SizeAt(p) == FoldSeq(LAMBDA o, sum : o.remaining + sum, 0, book.queue[<<side, p>>])
  IN MapThenSumSet(SizeAt, Levels(book, side))

\* Resting size that the intent crosses: what the fill-or-kill peek adds up.
CrossingSize(book, intent) ==
  LET side == Opposite(intent.side)
      SizeAt(p) == FoldSeq(LAMBDA o, sum : o.remaining + sum, 0, book.queue[<<side, p>>])
  IN MapThenSumSet(SizeAt, {p \in Levels(book, side) : TakerCrosses(intent, p)})

PeekMatch(book, intent) == CrossingSize(book, intent) >= intent.magnitude

Admitted(book, intent, now) ==
  /\ Valid(intent, now)
  /\ intent.tif = "FOK" => PeekMatch(book, intent)

(***************************************************************************)
(* The whole call: the loop runs until it can fill no more, and each       *)
(* iteration empties the taker or pops a maker for good, so the number of  *)
(* crossing orders bounds it.                                              *)
(***************************************************************************)
MatchIntent(book, intent, now) ==
  LET start == [book |-> book, remaining |-> intent.magnitude, fills |-> <<>>]
      Iterate(w) ==
        IF ~ CanFill(w.book, intent, w.remaining) THEN w
        ELSE LET slot == BestSlot(w.book, intent)
                 maker == BestMaker(w.book, intent)
                 size == FillSize(maker, w.remaining)
             IN [book |-> BookAfterFill(w.book, slot, maker, size),
                 remaining |-> w.remaining - size,
                 fills |-> Append(w.fills, MakeFill(intent, maker, size))]
      walk[n \in Nat] == IF n = 0 THEN start ELSE Iterate(walk[n - 1])
      end == walk[intent.magnitude]
      filled == end.fills # <<>>
  IN IF ~ Admitted(book, intent, now)
     THEN [book |-> book, fills |-> <<>>, status |-> "Rejected",
           residual |-> intent.magnitude]
     ELSE [book |-> BookAfterResidual(end.book, intent, end.remaining, filled),
           fills |-> end.fills,
           status |-> MatchStatus(intent, end.remaining, filled),
           residual |-> end.remaining]

\* A cancel of an id that the index does not hold changes nothing.
CancelIntent(book, id) ==
  IF Locate(book, id) = NoSlot THEN book ELSE CancelAt(book, id)
=============================================================================
