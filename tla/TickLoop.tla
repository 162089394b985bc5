------------------------------ MODULE TickLoop ------------------------------
(***************************************************************************)
(* The matcher's primary mode: the tick loop and the gRPC handlers         *)
(* submit_order and cancel_order over one SQLite table, one persistent     *)
(* book and one lock (services/matcher/crates/matcher-server/src/          *)
(* {tick,grpc,settlement}.rs, crates/perps-db/src/store.rs).               *)
(*                                                                         *)
(* One market; other markets share only the lock and the table.  No LP is  *)
(* configured, as in submit_order and in a deployment without an LP key.   *)
(* A pass is one step from the listing to the last match: whoever else     *)
(* reads what it changes waits for the lock, and a put that falls between  *)
(* could as well come after it.  (A put that resubmits an order while the  *)
(* pass rejects it would differ; the next pass rejects it again.)  Each    *)
(* on-chain call and each row update after the pass is a step of its own.  *)
(***************************************************************************)
EXTENDS MatchEngine, FiniteSets

CONSTANTS
  OrderOf,       \* the signed order of each id: the id is its digest
  NonceOf,       \* the trader and nonce of each id, unique in the table
  Translatable,  \* the ids whose rows the translator accepts
  NoRow,         \* an id without a row
  Free,          \* nobody holds the matching lock
  Loop,          \* the tick loop, as a holder of the lock
  MaxNow,        \* bound on the clock, in seconds
  MaxSubmits,    \* bound on the submissions
  MaxCrashes     \* bound on the crashes

ASSUME OrdersAreIntents ==
  /\ OrderOf \in [Ids -> Intent]
  /\ \A id \in Ids : OrderOf[id].id = id
  /\ \A id \in Ids : OrderOf[id].tif = "GTC" /\ OrderOf[id].magnitude > 0

ASSUME IdsAreFinite == IsFiniteSet(Ids)

ASSUME HoldersDiffer == Loop # Free /\ Loop \notin Ids /\ Free \notin Ids

ASSUME BoundsAreNat == MaxNow \in Nat \ {0} /\ MaxSubmits \in Nat /\ MaxCrashes \in Nat

VARIABLES
  now,           \* seconds since the epoch
  db,            \* perp_order_intents: the row of each id
  chain,         \* external: the size of each id that settleMatch has settled
  book,          \* GrpcState.books, for the one market
  lastSeen,      \* GrpcState.last_seen_created_at
  lock,          \* holder of GrpcState.matching_lock
  fills,         \* the paired fills the running pass has yet to settle
  stage,         \* what settle_one does next for the first of them
  calls,         \* submit_order of each id: where it is, and its created_at (1 if unset)
  orphans,       \* history: fills of the engine that no pass paired
  offers,        \* history: how often a row was offered since put or restart
  overtaken,     \* history: the ids put at a second that a pass had already seen
  submits,       \* submissions of each id, bounded
  crashes        \* crashes, bounded

memory == <<book, lastSeen, lock, fills, stage>>
history == <<orphans, offers, overtaken, submits, crashes>>
vars == <<now, db, chain, memory, calls, history>>

RowStatus == {"Pending", "PartiallyFilled", "Filled", "Canceled", "Rejected"}
Row == [status : RowStatus, created : Nat, filled : Nat]
ASSUME NoRowIsNoRow == NoRow \notin Row

NewRow(created) == [status |-> "Pending", created |-> created, filled |-> 0]
Places == {"Idle", "Received", "Stored", "Matching", "Matched"}

Init ==
  /\ now = 1
  /\ db = [id \in Ids |-> NoRow]
  /\ chain = [id \in Ids |-> 0]
  /\ book = EmptyBook
  /\ lastSeen = 0
  /\ lock = Free
  /\ fills = <<>>
  /\ stage = "Chain"
  /\ calls = [id \in Ids |-> [at |-> "Idle", created |-> 1]]
  /\ orphans = {}
  /\ offers = [id \in Ids |-> 0]
  /\ overtaken = {}
  /\ submits = [id \in Ids |-> 0]
  /\ crashes = 0

-----------------------------------------------------------------------------
(***************************************************************************)
(* One pass of `tick`.  It lists the pending rows that have not expired,   *)
(* keeps those created after the newest it has seen, and offers them to    *)
(* the book in order of creation; rows of one second come in any order.    *)
(* A fill is settled only if both of its intents are of this pass.         *)
(***************************************************************************)
\* Mutant of Fresh: the rows of the newest second are taken again.
FreshAgain ==
  {id \in Ids : /\ db[id] # NoRow
                /\ db[id].status = "Pending"
                /\ OrderOf[id].deadline > now
                /\ db[id].created >= lastSeen}

Fresh ==
  {id \in Ids : /\ db[id] # NoRow
                /\ db[id].status = "Pending"
                /\ OrderOf[id].deadline > now
                /\ db[id].created > lastSeen}

ByCreation(seq) ==
  \A i, j \in DOMAIN seq : i < j => db[seq[i]].created <= db[seq[j]].created

Offered(id) == [OrderOf[id] EXCEPT !.magnitude = @ - db[id].filled]

MatchAll(seq) ==
  LET Step(acc, id) ==
        LET m == MatchIntent(acc.book, Offered(id), now)
        IN [book |-> m.book, fills |-> acc.fills \o m.fills]
  IN FoldLeft(Step, [book |-> book, fills |-> <<>>], seq)

Paired(fill, seen) == fill.maker \in seen /\ fill.taker \in seen

PairedFills(matched, seen) ==
  LET Push(kept, fill) == IF Paired(fill, seen) THEN Append(kept, fill) ELSE kept
  IN FoldLeft(Push, <<>>, matched)

Newest == Max({db[id].created : id \in Fresh})

Tick(holder) ==
  LET seen == Fresh \cap Translatable
  IN /\ lock = Free
     /\ lock' = holder
     /\ \E seq \in SetToSeqs(seen) :
          LET m == MatchAll(seq)
          IN /\ ByCreation(seq)
             /\ book' = m.book
             /\ fills' = PairedFills(m.fills, seen)
             /\ orphans' = orphans \cup {f \in ToSet(m.fills) : ~ Paired(f, seen)}
     /\ db' = [id \in Ids |-> IF id \in Fresh \ Translatable
                              THEN [db[id] EXCEPT !.status = "Rejected"] ELSE db[id]]
     /\ lastSeen' = IF Fresh = {} THEN lastSeen ELSE Newest
     /\ offers' = [id \in Ids |-> IF id \in seen THEN offers[id] + 1 ELSE offers[id]]
     /\ UNCHANGED <<now, chain, stage, overtaken, submits, crashes>>

LoopTick == Tick(Loop) /\ UNCHANGED calls

-----------------------------------------------------------------------------
(***************************************************************************)
(* settle_one for the first fill: the OI gate and settleMatch, then        *)
(* record_fill for the maker, then for the taker.  Any failure drops the   *)
(* fill (settle_batch logs it), whatever had been done by then.            *)
(***************************************************************************)
DropFill ==
  /\ fills' = Tail(fills)
  /\ stage' = "Chain"

Settling == lock # Free /\ fills # <<>>

\* settleMatch moves both sides of the fill; an order may have met itself.
SettledWith(fill) ==
  [id \in Ids |-> chain[id] + (IF id = fill.maker THEN fill.size ELSE 0)
                            + (IF id = fill.taker THEN fill.size ELSE 0)]

\* Mutant of SettleMatch: a fill whose receipt was lost is tried again.
SettleMatchAgain ==
  /\ Settling /\ stage = "Chain"
  /\ chain' = SettledWith(Head(fills))
  /\ stage' \in {"Chain", "Maker"}
  /\ UNCHANGED <<now, db, book, lastSeen, lock, fills, calls, history>>

SettleMatch ==
  /\ Settling /\ stage = "Chain"
  /\ chain' = SettledWith(Head(fills))
  /\ \/ stage' = "Maker" /\ UNCHANGED fills
     \/ DropFill     \* settled, but the receipt was lost
  /\ UNCHANGED <<now, db, book, lastSeen, lock, calls, history>>

\* Mutant of SettleFails: the rows are updated although the chain refused.
SettleFailsOnward ==
  /\ Settling /\ stage = "Chain"
  /\ stage' = "Maker"
  /\ UNCHANGED <<now, db, chain, book, lastSeen, lock, fills, calls, history>>

\* Mutant of SettleFails: a refused fill is kept for another try in the pass.
SettleFailsRequeues ==
  /\ Settling /\ stage = "Chain"
  /\ fills' = Append(Tail(fills), Head(fills))
  /\ UNCHANGED <<now, db, chain, book, lastSeen, lock, stage, calls, history>>

SettleFails ==
  /\ Settling /\ stage = "Chain"
  /\ DropFill
  /\ UNCHANGED <<now, db, chain, book, lastSeen, lock, calls, history>>

CanRecord(id, size) ==
  /\ db[id] # NoRow
  /\ db[id].filled + size <= OrderOf[id].magnitude

RecordFill(id, size) ==
  LET next == db[id].filled + size
  IN db' = [db EXCEPT ![id].filled = next,
                      ![id].status = IF next = OrderOf[id].magnitude
                                     THEN "Filled" ELSE "PartiallyFilled"]

RecordMaker ==
  /\ Settling /\ stage = "Maker"
  /\ LET fill == Head(fills)
     IN \/ /\ CanRecord(fill.maker, fill.size)
           /\ RecordFill(fill.maker, fill.size)
           /\ stage' = "Taker"
           /\ UNCHANGED fills
        \/ /\ ~ CanRecord(fill.maker, fill.size)
           /\ DropFill
           /\ UNCHANGED db
  /\ UNCHANGED <<now, chain, book, lastSeen, lock, calls, history>>

RecordTaker ==
  /\ Settling /\ stage = "Taker"
  /\ LET fill == Head(fills)
     IN \/ CanRecord(fill.taker, fill.size) /\ RecordFill(fill.taker, fill.size)
        \/ ~ CanRecord(fill.taker, fill.size) /\ UNCHANGED db
  /\ DropFill
  /\ UNCHANGED <<now, chain, book, lastSeen, lock, calls, history>>

\* sqlx fails a row update: a permanent failure, the fill is dropped.
RecordError ==
  /\ Settling /\ stage \in {"Maker", "Taker"}
  /\ DropFill
  /\ UNCHANGED <<now, db, chain, book, lastSeen, lock, calls, history>>

LoopEnds ==
  /\ lock = Loop /\ fills = <<>>
  /\ lock' = Free
  /\ UNCHANGED <<now, db, chain, book, lastSeen, fills, stage, calls, history>>

-----------------------------------------------------------------------------
(***************************************************************************)
(* submit_order.  The clock is read on receipt; the row is put before the  *)
(* lock is taken, and replaces any row with the same id or the same trader *)
(* and nonce; the row is read back for the reply after the lock is free.   *)
(***************************************************************************)
Receive(id) ==
  /\ calls[id].at = "Idle"
  /\ MapThenSumSet(LAMBDA n : submits[n], Ids) < MaxSubmits
  /\ OrderOf[id].deadline > now
  /\ calls' = [calls EXCEPT ![id] = [at |-> "Received", created |-> now]]
  /\ submits' = [submits EXCEPT ![id] = @ + 1]
  /\ UNCHANGED <<now, db, chain, memory, orphans, offers, overtaken, crashes>>

Put(id) ==
  /\ calls[id].at = "Received"
  /\ db' = [n \in Ids |-> IF n = id THEN NewRow(calls[id].created)
                          ELSE IF NonceOf[n] = NonceOf[id] THEN NoRow ELSE db[n]]
  /\ calls' = [calls EXCEPT ![id] = [at |-> "Stored", created |-> 1]]
  /\ offers' = [offers EXCEPT ![id] = 0]
  /\ overtaken' = IF calls[id].created <= lastSeen
                  THEN overtaken \cup {id} ELSE overtaken \ {id}
  /\ UNCHANGED <<now, chain, memory, orphans, submits, crashes>>

SubmitTick(id) ==
  /\ calls[id].at = "Stored"
  /\ Tick(id)
  /\ calls' = [calls EXCEPT ![id].at = "Matching"]

SubmitEnds(id) ==
  /\ lock = id /\ fills = <<>>
  /\ lock' = Free
  /\ calls' = [calls EXCEPT ![id].at = "Matched"]
  /\ UNCHANGED <<now, db, chain, book, lastSeen, fills, stage, history>>

Reply(id) ==
  /\ calls[id].at = "Matched"
  /\ calls' = [calls EXCEPT ![id].at = "Idle"]
  /\ UNCHANGED <<now, db, chain, memory, history>>

(***************************************************************************)
(* The client of submit_order goes away: the server drops the handler at   *)
(* whatever await it is, and with it the lock and the unsettled fills.     *)
(***************************************************************************)
Abandon(id) ==
  /\ calls[id].at # "Idle"
  /\ calls' = [calls EXCEPT ![id] = [at |-> "Idle", created |-> 1]]
  /\ \/ lock = id /\ lock' = Free /\ fills' = <<>> /\ stage' = "Chain"
     \/ lock # id /\ UNCHANGED <<lock, fills, stage>>
  /\ UNCHANGED <<now, db, chain, book, lastSeen, history>>

(***************************************************************************)
(* cancel_order, under the lock: a row that is still open is marked; the   *)
(* book is left alone.  Every other row is left as it is.                  *)
(***************************************************************************)
\* Mutant of Cancelable: any row is canceled.
CancelableAlways(id) == db[id] # NoRow

Cancelable(id) == db[id] # NoRow /\ db[id].status \in {"Pending", "PartiallyFilled"}

CancelOrder(id) ==
  /\ lock = Free
  /\ Cancelable(id)
  /\ db' = [db EXCEPT ![id].status = "Canceled"]
  /\ UNCHANGED <<now, chain, memory, calls, history>>

-----------------------------------------------------------------------------
TimePasses ==
  /\ now < MaxNow
  /\ now' = now + 1
  /\ UNCHANGED <<db, chain, memory, calls, history>>

\* A crash and the restart after it: the table and the chain remain.
Crash ==
  /\ crashes < MaxCrashes
  /\ crashes' = crashes + 1
  /\ book' = EmptyBook
  /\ lastSeen' = 0
  /\ lock' = Free
  /\ fills' = <<>>
  /\ stage' = "Chain"
  /\ calls' = [id \in Ids |-> [at |-> "Idle", created |-> 1]]
  /\ offers' = [id \in Ids |-> 0]
  /\ overtaken' = {}
  /\ UNCHANGED <<now, db, chain, orphans, submits>>

Settlement == SettleMatch \/ SettleFails \/ RecordMaker \/ RecordTaker \/ RecordError

Submission(id) ==
  Receive(id) \/ Put(id) \/ SubmitTick(id) \/ SubmitEnds(id) \/ Reply(id) \/ Abandon(id)

Next ==
  \/ LoopTick \/ LoopEnds \/ Settlement
  \/ \E id \in Ids : Submission(id) \/ CancelOrder(id)
  \/ TimePasses \/ Crash

Spec == Init /\ [][Next]_vars

(***************************************************************************)
(* tokio polls the task that holds the lock whenever it can run, and SQLite *)
(* answers every row update.  That the chain answers is no property of the *)
(* code: get_receipt (perps-onchain/src/client.rs:374) waits without a     *)
(* limit.  PassEnds states it as a premise.                                *)
(***************************************************************************)
Fairness ==
  WF_vars(RecordMaker \/ RecordTaker \/ RecordError \/ LoopEnds
            \/ \E id \in Ids : SubmitEnds(id))

FairSpec == Spec /\ Fairness

-----------------------------------------------------------------------------
TypeOK ==
  /\ now \in 1 .. MaxNow
  /\ db \in [Ids -> Row \cup {NoRow}]
  /\ chain \in [Ids -> Nat]
  /\ book \in Book
  /\ lastSeen \in 0 .. MaxNow
  /\ lock \in Ids \cup {Loop, Free}
  /\ fills \in Seq(Fill)
  /\ stage \in {"Chain", "Maker", "Taker"}
  /\ calls \in [Ids -> [at : Places, created : 1 .. MaxNow]]
  /\ orphans \subseteq Fill
  /\ offers \in [Ids -> Nat]
  /\ overtaken \subseteq Ids
  /\ submits \in [Ids -> Nat] /\ crashes \in 0 .. MaxCrashes

(***************************************************************************)
(* A row never claims a fill that the chain has not settled, whatever is   *)
(* lost, resubmitted, canceled, abandoned or crashed: settle_one calls     *)
(* settleMatch before record_fill, and leaves at its first error.          *)
(***************************************************************************)
RowBehindChain ==
  \A id \in Ids : db[id] # NoRow => db[id].filled <= chain[id]

(***************************************************************************)
(* tick.rs:57-60, "only intents newer than last_seen": between two         *)
(* restarts a stored row is fed into the persistent book exactly once,     *)
(* whichever of the loop and the handlers runs the pass: never twice,      *)
(* which would double the order, and never left out once the cursor has    *)
(* reached its second, unless a pass had reached that second before the    *)
(* row was put.                                                            *)
(*                                                                         *)
(* It says two things that comments of the code deny.  An order whose fill *)
(* reverted is not offered again (settlement.rs:13 promises that "the next *)
(* tick retries"), and a row in overtaken never is, not even by the pass   *)
(* of its own submit_order (grpc.rs:302, "every pending intent ...,        *)
(* including ours").                                                       *)
(***************************************************************************)
Listed(id) ==
  db[id] # NoRow /\ db[id].status = "Pending" /\ OrderOf[id].deadline > now

OfferedOnce ==
  \A id \in Ids :
    /\ offers[id] <= 1
    /\ (Listed(id) /\ id \in Translatable \ overtaken /\ db[id].created <= lastSeen)
         => offers[id] = 1

(***************************************************************************)
(* docs/matcher-architecture.md, invariant 1, end to end: an order that    *)
(* was submitted once is never settled on chain beyond its size while the  *)
(* matcher stays up, lost receipts and failed row updates included.        *)
(***************************************************************************)
SettledWithinSize ==
  crashes = 0 =>
    \A id \in Ids : submits[id] = 1 => chain[id] <= OrderOf[id].magnitude

(***************************************************************************)
(* Invariant 7: nothing but a new submission of the order, or of one that  *)
(* replaces it, changes a filled row: neither a late cancel nor a late     *)
(* fill.                                                                   *)
(***************************************************************************)
FilledIsFinal ==
  [][\A id \in Ids :
       (db[id] # NoRow /\ db[id].status = "Filled" /\ db'[id] # db[id]) =>
         \E n \in Ids : NonceOf[n] = NonceOf[id] /\ calls[n].at = "Received"
                        /\ calls'[n].at = "Stored"]_vars

(***************************************************************************)
(* As long as the chain answers, no pass keeps the matching lock, and with *)
(* it every handler, for good, whatever the answers are: settle_batch      *)
(* gives each fill one try, whether or not it fails.                       *)
(***************************************************************************)
ChainAnswers == WF_vars(SettleMatch \/ SettleFails)

PassEnds == ChainAnswers => (lock # Free ~> lock = Free)

-----------------------------------------------------------------------------
(***************************************************************************)
(* tick.rs:20: "Pair every produced fill with the maker and taker          *)
(* TranslatedIntent, then settlement::settle_batch".                       *)
(***************************************************************************)
EveryFillPaired == orphans = {}
=============================================================================
