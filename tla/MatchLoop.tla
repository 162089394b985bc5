----------------------------- MODULE MatchLoop -----------------------------
(***************************************************************************)
(* One book, its owner, and the intents the owner matches one at a time:   *)
(* match_intent with one step per loop iteration, and cancel_intent.       *)
(* The owner holds the book exclusively (`&mut OrderBook`), so no other    *)
(* operation falls between Begin and Finish.  Time passes only between     *)
(* calls: `now_ms` is an argument, read once.                              *)
(*                                                                         *)
(* Each id is matched at most once here: the caller's duty, which the      *)
(* engine does not enforce (see TickLoop for what a resubmission does).    *)
(***************************************************************************)
EXTENDS MatchEngine

CONSTANTS
  Terms,      \* the terms an intent may carry: an intent without its id
  MaxNow,     \* bound on the clock, in seconds
  NoIntent,   \* value of `intents` for an id not yet submitted
  NoWalk      \* value of `walk` between calls

VARIABLES
  book,       \* the book
  now,        \* the caller's clock
  intents,    \* what has been submitted, per id
  walk,       \* the locals of a running match_intent: id, remaining, fills
  status,     \* the disposition each id last got
  filled,     \* history: the sum of the fills of each id, as maker or taker
  arrivals    \* history: the ids that came to rest, in that order

vars == <<book, now, intents, walk, status, filled, arrivals>>

Walk == [id : Ids, remaining : Nat, fills : Seq(Fill)]
Status == {"None", "Running", "Filled", "Partial", "Resting", "Rejected", "Canceled"}

WithId(id, terms) ==
  [id |-> id, side |-> terms.side, type |-> terms.type, price |-> terms.price,
   magnitude |-> terms.magnitude, tif |-> terms.tif, deadline |-> terms.deadline]

ASSUME MaxNowIsNat == MaxNow \in Nat

ASSUME TermsAreIntents ==
  /\ \A id \in Ids, t \in Terms : WithId(id, t) \in Intent
  /\ NoIntent \notin Intent
  /\ NoWalk \notin Walk

Init ==
  /\ book = EmptyBook
  /\ now = 0
  /\ intents = [id \in Ids |-> NoIntent]
  /\ walk = NoWalk
  /\ status = [id \in Ids |-> "None"]
  /\ filled = [id \in Ids |-> 0]
  /\ arrivals = <<>>

\* Validation and the fill-or-kill peek either refuse the intent or start the walk.
Begin(id, terms) ==
  LET intent == WithId(id, terms)
      admitted == Admitted(book, intent, now)
  IN /\ walk = NoWalk
     /\ intents[id] = NoIntent
     /\ intents' = [intents EXCEPT ![id] = intent]
     /\ walk' = IF admitted
                THEN [id |-> id, remaining |-> intent.magnitude, fills |-> <<>>]
                ELSE NoWalk
     /\ status' = [status EXCEPT ![id] = IF admitted THEN "Running" ELSE "Rejected"]
     /\ UNCHANGED <<book, now, filled, arrivals>>

Iterate ==
  /\ walk # NoWalk
  /\ LET intent == intents[walk.id]
         slot == BestSlot(book, intent)
         maker == BestMaker(book, intent)
         size == FillSize(maker, walk.remaining)
     IN /\ CanFill(book, intent, walk.remaining)
        /\ book' = BookAfterFill(book, slot, maker, size)
        /\ walk' = [walk EXCEPT !.remaining = @ - size,
                                !.fills = Append(@, MakeFill(intent, maker, size))]
        /\ filled' = [filled EXCEPT ![maker.id] = @ + size, ![intent.id] = @ + size]
  /\ UNCHANGED <<now, intents, status, arrivals>>

Finish ==
  /\ walk # NoWalk
  /\ LET intent == intents[walk.id]
         any == walk.fills # <<>>
     IN /\ ~ CanFill(book, intent, walk.remaining)
        /\ book' = BookAfterResidual(book, intent, walk.remaining, any)
        /\ status' = [status EXCEPT ![intent.id] =
                        MatchStatus(intent, walk.remaining, any)]
        /\ arrivals' = IF Rests(intent, walk.remaining, any)
                       THEN Append(arrivals, intent.id) ELSE arrivals
  /\ walk' = NoWalk
  /\ UNCHANGED <<now, intents, filled>>

\* Cancelling an id that is not on the book (NotFound) is a stuttering step.
Cancel(id) ==
  /\ walk = NoWalk
  /\ Locate(book, id) # NoSlot
  /\ book' = CancelIntent(book, id)
  /\ status' = [status EXCEPT ![id] = "Canceled"]
  /\ UNCHANGED <<now, intents, walk, filled, arrivals>>

TimePasses ==
  /\ walk = NoWalk
  /\ now < MaxNow
  /\ now' = now + 1
  /\ UNCHANGED <<book, intents, walk, status, filled, arrivals>>

Next ==
  \/ \E id \in Ids, terms \in Terms : Begin(id, terms)
  \/ Iterate
  \/ Finish
  \/ \E id \in Ids : Cancel(id)
  \/ TimePasses

Spec == Init /\ [][Next]_vars

-----------------------------------------------------------------------------
TypeOK ==
  /\ book \in Book
  /\ now \in 0 .. MaxNow
  /\ intents \in [Ids -> Intent \cup {NoIntent}]
  /\ walk \in Walk \cup {NoWalk}
  /\ status \in [Ids -> Status]
  /\ filled \in [Ids -> Nat]
  /\ arrivals \in Seq(Ids)

(***************************************************************************)
(* invariants.rs, "best_bid < best_ask after every match": and during the  *)
(* match too, since the walk only removes makers.  A residual must not be  *)
(* inserted while a level it crosses is left.                              *)
(***************************************************************************)
Uncrossed == BookIsUncrossed(book)

(***************************************************************************)
(* The index answers cancel-by-id (book.rs).  It must name, for every id   *)
(* on the book, the one level that holds it, and hold no id that has left: *)
(* a stale entry turns a later cancel into a removal that never happens.   *)
(***************************************************************************)
IndexMatchesBook ==
  \A slot \in Slots :
    LET queue == book.queue[slot]
    IN /\ \A i, j \in DOMAIN queue : queue[i].id = queue[j].id => i = j
       /\ \A id \in Ids :
            Locate(book, id) = slot <=> \E i \in DOMAIN queue : queue[i].id = id

(***************************************************************************)
(* docs/matcher-architecture.md, invariants 1 and 4: what an intent has    *)
(* been filled, what rests of it and what the running match still holds    *)
(* never exceed its size, and add up to it until the engine lets go of it  *)
(* (an IOC residual, a market order, a cancel).                            *)
(***************************************************************************)
InFlight(id) == IF walk # NoWalk /\ walk.id = id THEN walk.remaining ELSE 0
Open(id) == RestingSize(book, id) + InFlight(id)

SizeConserved ==
  \A id \in Ids :
    intents[id] # NoIntent =>
      /\ filled[id] + Open(id) <= intents[id].magnitude
      /\ Open(id) > 0 => filled[id] + Open(id) = intents[id].magnitude

(***************************************************************************)
(* Invariant 2, price-time priority: whenever a fill is made, no other     *)
(* order on the maker's side is better priced, and none at the same price  *)
(* came to rest earlier.  A partially filled maker keeps its place.        *)
(***************************************************************************)
RestedBefore(a, b) ==
  \E i, j \in DOMAIN arrivals : i < j /\ arrivals[i] = a /\ arrivals[j] = b

Outranks(a, b) ==
  /\ intents[a].side = intents[b].side
  /\ \/ intents[a].side = "Long" /\ intents[a].price > intents[b].price
     \/ intents[a].side = "Short" /\ intents[a].price < intents[b].price
     \/ intents[a].price = intents[b].price /\ RestedBefore(a, b)

PriceTimePriority ==
  [][\A maker \in Ids :
       (filled'[maker] # filled[maker] /\ walk.id # maker) =>
         \A other \in Ids :
           Locate(book, other) # NoSlot => ~ Outranks(other, maker)]_vars

(***************************************************************************)
(* Fill-or-kill (peek, then execute): a killed intent traded nothing and   *)
(* one that was let through trades all of its size.  The peek and the walk *)
(* read the book with different loops, and must agree.                     *)
(***************************************************************************)
FillOrKill ==
  \A id \in Ids :
    (intents[id] # NoIntent /\ intents[id].tif = "FOK") =>
      /\ status[id] \in {"Filled", "Rejected", "Running"}
      /\ status[id] = "Filled" => filled[id] = intents[id].magnitude
      /\ status[id] = "Rejected" => filled[id] = 0

(***************************************************************************)
(* What the engine promises its callers, with the book forgotten: Exchange.*)
(***************************************************************************)
Promise == INSTANCE Exchange WITH
  terms <- intents,
  open <- [id \in Ids |-> Open(id)],
  traded <- filled,
  None <- NoIntent

ImplementsExchange == Promise!Spec
=============================================================================
