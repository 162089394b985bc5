---------------------------- MODULE PerpsIntents ----------------------------
(***************************************************************************)
(* The perps intent service of the HTTP API (packages/perps) over its      *)
(* SQLite store (packages/db), with the clients that post to it: a plain   *)
(* POST /perps/intents and the browser's residual-order agent (apps/web),  *)
(* one tab per client, several tabs per trader.                            *)
(*                                                                         *)
(* The API is one event loop.  A handler runs without interruption up to   *)
(* an await that leaves the process (a signature check, which for a        *)
(* contract wallet is an RPC, and the read of the nonce bitmap); reads and *)
(* writes of SQLite are synchronous.  Every action below is one such       *)
(* stretch, and whatever it read before the await may be stale after it.   *)
(*                                                                         *)
(* An intent's id is the EIP-712 digest of the order, so the id of an      *)
(* order is the order itself.  Chain and market are fixed: rows of         *)
(* different markets never meet.                                           *)
(***************************************************************************)
EXTENDS Integers, FiniteSets, Sequences

CONSTANTS
    Clients,        \* browser tabs and API clients: one request each at a time
    Traders,
    Owner,          \* the wallet a client is signed in with
    Nonces,
    Prices,         \* 0 is a market order
    Deadlines,
    Requests,       \* the orders that plain clients may sign and post
    Overrides,      \* the terms a replacement may ask for, in place of its original's
    IdRank,         \* the order of the digests, as strings
    EventLimit,     \* events.list limit the agent asks for (25 in the code)
    MaxTime,        \* bound on the clock
    NoIntent

\* A signed order; its size is in units of the smallest one used.
Orders == [trader : Traders, nonce : Nonces, size : Int \ {0}, price : Prices,
           post : BOOLEAN, deadline : Deadlines]

\* What a request to replace may change: the price, 0 at market, and post-only.
Terms == [price : Prices, post : BOOLEAN]

ASSUME ConstantsAssumption ==
    /\ Owner \in [Clients -> Traders]
    /\ Nonces \subseteq Nat
    /\ Prices \subseteq Nat
    /\ Deadlines \subseteq Nat
    /\ Requests \subseteq Orders
    /\ Overrides \subseteq Terms
    /\ NoIntent \notin Orders
    /\ EventLimit \in Nat \ {0}
    /\ MaxTime \in Nat

VARIABLES
    now,        \* seconds
    rows,       \* perp_order_intents, by id
    nonceUsed,  \* the on-chain nonce bitmap: the <<trader, nonce>> pairs spent
    settled,    \* fills of mined settlements
    unrecorded, \* those of them not yet written to the rows
    events,     \* the replacement_needed events in domain_events, oldest first
    handled,    \* localStorage of a trader's browser: events dealt with
    client      \* the state of each client's request

vars == <<now, rows, nonceUsed, settled, unrecorded, events, handled, client>>

Rows == [filled : Int, created : 0..MaxTime,
         status : {"pending", "partially_filled", "filled", "expired"},
         of : Orders \cup {NoIntent}]

Fills == [id : Orders, size : Int]

ClientStates ==
    [pc : {"idle", "verify", "chain", "fetched", "prepared", "replaceChain",
           "accepted", "rejected"},
     order : Orders \cup {NoIntent},     \* the order the server works on
     sig : Orders \cup {NoIntent},       \* the order the wallet signed
     of : Orders \cup {NoIntent},        \* replacementOf, if any
     event : Orders \cup {NoIntent}]     \* aggregateId of the event in hand

TypeOK ==
    /\ now \in 0..MaxTime
    /\ DOMAIN rows \subseteq Orders
    /\ \A id \in DOMAIN rows : rows[id] \in Rows
    /\ nonceUsed \subseteq Traders \X Nonces
    /\ settled \subseteq Fills
    /\ unrecorded \subseteq settled
    /\ events \in Seq(Orders)
    /\ handled \in [Traders -> SUBSET Orders]
    /\ client \in [Clients -> ClientStates]

Idle == [pc |-> "idle", order |-> NoIntent, sig |-> NoIntent,
         of |-> NoIntent, event |-> NoIntent]

Init ==
    /\ now = 0
    /\ rows = [id \in {} |-> NoIntent]
    /\ nonceUsed = {}
    /\ settled = {}
    /\ unrecorded = {}
    /\ events = <<>>
    /\ handled = [t \in Traders |-> {}]
    /\ client = [c \in Clients |-> Idle]

-----------------------------------------------------------------------------
(* The store.                                                              *)

Remaining(id) == id.size - rows[id].filled

\* getByTraderNonce: the rows under the key trader:nonce (a unique column).
ByTraderNonce(t, n) == {id \in DOMAIN rows : id.trader = t /\ id.nonce = n}

\* Mutant of NonceConflict: put trusts the check made before the await.
NonceTrusted(id) == FALSE

\* put refuses a second digest under a trader's nonce.
NonceConflict(id) == \E other \in ByTraderNonce(id.trader, id.nonce) : other # id

\* put: nothing when the id is there, else a new pending row.
PutRow(id, of) ==
    IF id \in DOMAIN rows THEN rows
    ELSE [x \in DOMAIN rows \cup {id} |->
             IF x = id THEN [filled |-> 0, created |-> now,
                             status |-> "pending", of |-> of]
             ELSE rows[x]]

SameSign(a, b) == (a > 0 /\ b > 0) \/ (a < 0 /\ b < 0)

Magnitude(x) == IF x < 0 THEN -x ELSE x

\* The guard of applyFillToIntent.
FillFits(id, fill) ==
    LET next == rows[id].filled + fill IN
    /\ SameSign(id.size, fill)
    /\ SameSign(id.size, next)
    /\ Magnitude(next) <= Magnitude(id.size)

\* Mutant of ApplyFill: whatever was filled, the order counts as done.
ApplyFillWhole(id, fill) ==
    [rows EXCEPT ![id].filled = id.size, ![id].status = "filled"]

ApplyFill(id, fill) ==
    LET next == rows[id].filled + fill IN
    [rows EXCEPT ![id].filled = next,
                 ![id].status = IF next = id.size THEN "filled"
                                ELSE "partially_filled"]

-----------------------------------------------------------------------------
(* Accepting a signed intent (acceptSignedIntent).                         *)

Reply(c, pc) == client' = [client EXCEPT ![c].pc = pc]

\* POST /perps/intents: the deadline is checked before the signature.
CreateIntent(c, o) ==
    /\ client[c].pc = "idle"
    /\ o.trader = Owner[c]
    /\ client' = [client EXCEPT ![c] =
                    [Idle EXCEPT !.pc = IF o.deadline <= now THEN "rejected"
                                        ELSE "verify",
                                 !.order = o, !.sig = o]]
    /\ UNCHANGED <<now, rows, nonceUsed, settled, unrecorded, events, handled>>

\* The signature check has answered; the store is asked for the nonce.  A
\* retry of what is stored is accepted again, without touching the store.
VerifySignature(c) ==
    LET o == client[c].order
        existing == ByTraderNonce(o.trader, o.nonce)
    IN
    /\ client[c].pc = "verify"
    /\ Reply(c, IF client[c].sig # o THEN "rejected"
                ELSE IF existing = {} THEN "chain"
                ELSE IF existing # {o} THEN "rejected"
                ELSE IF client[c].of # NoIntent /\ rows[o].of # client[c].of
                     THEN "rejected"
                ELSE "accepted")
    /\ UNCHANGED <<now, rows, nonceUsed, settled, unrecorded, events, handled>>

\* The bitmap read has answered; put is the last word on the nonce, because
\* another handler may have stored an intent since VerifySignature read it.
StoreIntent(c) ==
    LET o == client[c].order
        refused == <<o.trader, o.nonce>> \in nonceUsed \/ NonceConflict(o)
    IN
    /\ client[c].pc = "chain"
    /\ Reply(c, IF refused THEN "rejected" ELSE "accepted")
    /\ rows' = IF refused THEN rows ELSE PutRow(o, client[c].of)
    /\ UNCHANGED <<now, nonceUsed, settled, unrecorded, events, handled>>

-----------------------------------------------------------------------------
(* Replacing what a partial fill left (prepareReplacementOrder).           *)

\* Mutant of ReplacementOrder: the size is copied like everything else.
ReplacementOfAll(orig, nonce, deadline, terms) ==
    [orig EXCEPT !.nonce = nonce, !.deadline = deadline,
                 !.price = terms.price, !.post = terms.post]

\* The order that re-enters the residual of an intent, on the terms asked for.
ReplacementOrder(orig, nonce, deadline, terms) ==
    [orig EXCEPT !.nonce = nonce, !.deadline = deadline,
                 !.price = terms.price, !.post = terms.post,
                 !.size = Remaining(orig)]

\* What the request leaves open is the original's (the browser's agent leaves
\* all of it open).
OwnTerms(o) == [price |-> o.price, post |-> o.post]

Replaceable(orig) ==
    /\ orig \in DOMAIN rows
    /\ rows[orig].status = "partially_filled"
    /\ Remaining(orig) # 0

\* findBlockingReplacement
BlockingReplacements(orig) ==
    {id \in DOMAIN rows :
        /\ rows[id].of = orig
        /\ \/ rows[id].status \in {"filled", "partially_filled"}
           \/ rows[id].status = "pending" /\ id.deadline > now}

\* prepareReplacementOrder up to its read of the chain.
CanPrepare(orig, nonce, deadline, terms) ==
    /\ deadline > now
    /\ Replaceable(orig)
    /\ LET o == ReplacementOrder(orig, nonce, deadline, terms) IN
       /\ BlockingReplacements(orig) \subseteq {o}
       /\ \A id \in ByTraderNonce(orig.trader, nonce) :
             id = o /\ rows[id].of = orig

\* GET /perps/replacement-needed: the places of the trader's events, oldest
\* first, cut at the limit.
FetchedEvents(t) ==
    {k \in DOMAIN events :
        /\ events[k].trader = t
        /\ Cardinality({j \in 1..k : events[j].trader = t}) <= EventLimit}

Unhandled(t) == {k \in FetchedEvents(t) : events[k] \notin handled[t]}

\* The trader presses the agent's button: the first event not handled yet.
FetchEvents(c) ==
    /\ client[c].pc = "idle"
    /\ \E k \in Unhandled(Owner[c]) :
          /\ \A j \in Unhandled(Owner[c]) : k <= j
          /\ client' = [client EXCEPT ![c] =
                          [Idle EXCEPT !.pc = "fetched", !.event = events[k]]]
    /\ UNCHANGED <<now, rows, nonceUsed, settled, unrecorded, events, handled>>

\* POST .../replacement/prepare: the typed data that the wallet will sign.
Prepare(c, nonce, deadline) ==
    LET orig == client[c].event IN
    /\ client[c].pc = "fetched"
    /\ \E terms \in Overrides \cup {OwnTerms(orig)} :
          client' = [client EXCEPT ![c] =
            IF /\ CanPrepare(orig, nonce, deadline, terms)
               /\ \/ ByTraderNonce(orig.trader, nonce) # {}
                  \/ <<orig.trader, nonce>> \notin nonceUsed
            THEN [@ EXCEPT !.pc = "prepared",
                           !.sig = ReplacementOrder(orig, nonce, deadline, terms)]
            ELSE Idle]
    /\ UNCHANGED <<now, rows, nonceUsed, settled, unrecorded, events, handled>>

\* The trader closes the prompt, or rejects in the wallet.
Decline(c) ==
    /\ client[c].pc = "prepared"
    /\ client' = [client EXCEPT ![c] = Idle]
    /\ UNCHANGED <<now, rows, nonceUsed, settled, unrecorded, events, handled>>

\* POST .../replacement: the server prepares again, from the rows of now.
SubmitReplacement(c) ==
    LET orig == client[c].event
        signed == client[c].sig
        terms == OwnTerms(signed)
    IN
    /\ client[c].pc = "prepared"
    /\ client' = [client EXCEPT ![c] =
         IF CanPrepare(orig, signed.nonce, signed.deadline, terms)
         THEN [@ EXCEPT
                 !.pc = IF ByTraderNonce(orig.trader, signed.nonce) = {}
                        THEN "replaceChain" ELSE "verify",
                 !.order = ReplacementOrder(orig, signed.nonce, signed.deadline, terms),
                 !.of = orig]
         ELSE [@ EXCEPT !.pc = "rejected"]]
    /\ UNCHANGED <<now, rows, nonceUsed, settled, unrecorded, events, handled>>

\* The read of the nonce bitmap that ends prepareReplacementOrder has
\* answered, and acceptSignedIntent begins with its own deadline check.
ReplacementNonce(c) ==
    LET o == client[c].order IN
    /\ client[c].pc = "replaceChain"
    /\ Reply(c, IF <<o.trader, o.nonce>> \in nonceUsed \/ o.deadline <= now
                THEN "rejected" ELSE "verify")
    /\ UNCHANGED <<now, rows, nonceUsed, settled, unrecorded, events, handled>>

\* The client has its answer; an accepted replacement marks its event handled.
Answered(c) ==
    LET t == Owner[c] IN
    /\ client[c].pc \in {"accepted", "rejected"}
    /\ client' = [client EXCEPT ![c] = Idle]
    /\ handled' =
         IF client[c].pc = "accepted" /\ client[c].event # NoIntent
         THEN [handled EXCEPT ![t] = @ \cup {client[c].event}] ELSE handled
    /\ UNCHANGED <<now, rows, nonceUsed, settled, unrecorded, events>>

-----------------------------------------------------------------------------
(* Pairing pending intents (matchPriceTimePriority).                       *)

EarlierThan(a, b) ==
    \/ rows[a].created < rows[b].created
    \/ rows[a].created = rows[b].created /\ IdRank[a] < IdRank[b]

\* compareLongPriority and compareShortPriority: market orders first, then
\* the better price, then time.
Before(a, b) ==
    IF a.price = b.price THEN EarlierThan(a, b)
    ELSE \/ a.price = 0
         \/ b.price # 0 /\ (IF a.size > 0 THEN a.price > b.price
                            ELSE a.price < b.price)

Queue(side) ==
    {id \in DOMAIN rows :
        rows[id].status = "pending" /\ SameSign(Remaining(id), side)}

\* The place of an order in its sorted queue: how many are before it.
Place(id) == Cardinality({other \in Queue(Remaining(id)) : Before(other, id)})

PricesCross(long, short) ==
    long.price = 0 \/ short.price = 0 \/ long.price >= short.price

\* chooseMakerTaker finds a maker, and the maker or the taker has a price.
Executable(long, short) ==
    /\ ~(long.post /\ short.post)
    /\ long.price # 0 \/ short.price # 0

\* Mutant of Maker: the earlier order, post-only or not.
EarlierIsMaker(long, short) ==
    IF EarlierThan(long, short) THEN long ELSE short

Maker(long, short) ==
    IF long.post \/ (~short.post /\ EarlierThan(long, short)) THEN long
    ELSE short

\* Two indices walk the queues in step: the k-th long meets the k-th short.
Meetings ==
    {pair \in Queue(1) \X Queue(-1) : Place(pair[1]) = Place(pair[2])}

\* They walk until two orders that meet do not cross; a pair that cannot
\* execute is passed over, both of its orders with it.
MatchedPairs ==
    {pair \in Meetings :
        /\ Executable(pair[1], pair[2])
        /\ \A other \in Meetings :
              Place(other[1]) <= Place(pair[1]) => PricesCross(other[1], other[2])}

FillSize(long, short) ==
    IF Magnitude(Remaining(long)) < Magnitude(Remaining(short))
    THEN Magnitude(Remaining(long)) ELSE Magnitude(Remaining(short))

-----------------------------------------------------------------------------
(* The keeper and the settlement contract, as the service sees them.       *)

\* A settlement is mined: it spends both nonces, and the contract refuses an
\* order past its deadline or with a spent nonce.
SettleMatch(long, short) ==
    LET q == FillSize(long, short)
        fills == {[id |-> long, size |-> q], [id |-> short, size |-> -q]}
        nonces == {<<id.trader, id.nonce>> : id \in {long, short}}
    IN
    /\ \A id \in {long, short} : id.deadline > now
    /\ nonces \cap nonceUsed = {}
    /\ nonceUsed' = nonceUsed \cup nonces
    /\ settled' = settled \cup fills
    /\ unrecorded' = unrecorded \cup fills
    /\ UNCHANGED <<now, rows, events, handled, client>>

\* recordFill, and the replacement_needed event of a partial fill.
RecordFill(fill) ==
    /\ FillFits(fill.id, fill.size)
    /\ rows' = ApplyFill(fill.id, fill.size)
    /\ unrecorded' = unrecorded \ {fill}
    /\ events' = IF rows'[fill.id].status = "partially_filled"
                 THEN Append(events, fill.id) ELSE events
    /\ UNCHANGED <<now, nonceUsed, settled, handled, client>>

\* updateStatus: the sweeper expires what is past its deadline.
ExpireIntent(id) ==
    /\ rows[id].status = "pending"
    /\ id.deadline <= now
    /\ rows' = [rows EXCEPT ![id].status = "expired"]
    /\ UNCHANGED <<now, nonceUsed, settled, unrecorded, events, handled, client>>

Tick ==
    /\ now < MaxTime
    /\ now' = now + 1
    /\ UNCHANGED <<rows, nonceUsed, settled, unrecorded, events, handled, client>>

-----------------------------------------------------------------------------
ClientStep(c) ==
    \/ \E o \in Requests : CreateIntent(c, o)
    \/ VerifySignature(c)
    \/ StoreIntent(c)
    \/ FetchEvents(c)
    \/ \E n \in Nonces, d \in Deadlines : Prepare(c, n, d)
    \/ Decline(c)
    \/ SubmitReplacement(c)
    \/ ReplacementNonce(c)
    \/ Answered(c)

Next ==
    \/ \E c \in Clients : ClientStep(c)
    \/ \E pair \in MatchedPairs : SettleMatch(pair[1], pair[2])
    \/ \E fill \in unrecorded : RecordFill(fill)
    \/ \E id \in DOMAIN rows : ExpireIntent(id)
    \/ Tick

Spec == Init /\ [][Next]_vars

-----------------------------------------------------------------------------
(* Properties.                                                             *)

\* However requests interleave across their awaits, a trader's nonce names one
\* intent: what VerifySignature found free may be taken when the bitmap read
\* answers, and put has to notice (service.ts:139, db index.ts:183).
OneIntentPerNonce ==
    \A a, b \in DOMAIN rows : a.trader = b.trader /\ a.nonce = b.nonce => a = b

\* A replacement re-enters exactly what the settlement left of its original,
\* although the original's residual was read several awaits before the store.
ReplacementIsResidual ==
    \A id \in DOMAIN rows : rows[id].of # NoIntent =>
        /\ rows[id].of \in DOMAIN rows
        /\ id.size = Remaining(rows[id].of)
        /\ id.trader = rows[id].of.trader

\* What a row says is filled is what the chain settled for it, but for the
\* fills on their way, and a signed order is settled at most once.
FillsMatchChain ==
    \A id \in DOMAIN rows :
        LET mine == {f \in settled : f.id = id} IN
        /\ Cardinality(mine) <= 1
        /\ \A f \in mine :
              rows[id].filled = IF f \in unrecorded THEN 0 ELSE f.size
        /\ mine = {} => rows[id].filled = 0

\* A pair trades at a price both sides accept, and a post-only order is never
\* the taker.
PairsAreFair ==
    \A pair \in MatchedPairs :
        LET maker == Maker(pair[1], pair[2])
            taker == IF maker = pair[1] THEN pair[2] ELSE pair[1]
            price == IF maker.price # 0 THEN maker.price ELSE taker.price
        IN  /\ ~taker.post
            /\ price # 0
            /\ pair[1].price # 0 => price <= pair[1].price
            /\ pair[2].price # 0 => price >= pair[2].price

\* "replacement already exists": of all replacements of one residual at most
\* one is live or filled (service.ts:237, findBlockingReplacement).
OneLiveReplacement ==
    \A id \in DOMAIN rows : Cardinality(BlockingReplacements(id)) <= 1
=============================================================================
