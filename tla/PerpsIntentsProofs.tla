-------------------------- MODULE PerpsIntentsProofs --------------------------
(* Theorems about PerpsIntents, for any clients, traders and orders.        *)
EXTENDS PerpsIntents, FiniteSetTheorems, TLAPS

\* put's own look at the nonce is enough, whatever was true before the await.
LEMMA StoreStep ==
  ASSUME OneIntentPerNonce, NEW c \in Clients, StoreIntent(c)
  PROVE  OneIntentPerNonce'
<1> DEFINE o == client[c].order
<1>1. CASE UNCHANGED rows
  BY <1>1 DEF OneIntentPerNonce
<1>2. CASE ~NonceConflict(o) /\ rows' = PutRow(o, client[c].of)
  <2>1. DOMAIN rows' = DOMAIN rows \cup {o}
    BY <1>2 DEF PutRow
  <2>2. \A other \in DOMAIN rows : other.trader = o.trader /\ other.nonce = o.nonce => other = o
    BY <1>2 DEF NonceConflict, ByTraderNonce
  <2>3. QED
    BY <2>1, <2>2 DEF OneIntentPerNonce
<1>3. QED
  BY <1>1, <1>2 DEF StoreIntent

LEMMA NonceStep ==
  ASSUME OneIntentPerNonce, [Next]_vars
  PROVE  OneIntentPerNonce'
<1>1. ASSUME NEW c \in Clients, ClientStep(c) PROVE OneIntentPerNonce'
  <2>1. CASE StoreIntent(c)
    BY <2>1, StoreStep
  <2>2. CASE UNCHANGED rows
    BY <2>2 DEF OneIntentPerNonce
  <2>3. QED
    BY <1>1, <2>1, <2>2 DEF ClientStep, CreateIntent, VerifySignature, FetchEvents, Prepare,
      Decline, SubmitReplacement, ReplacementNonce, Answered
<1>2. ASSUME NEW long, NEW short, SettleMatch(long, short) PROVE OneIntentPerNonce'
  BY <1>2 DEF SettleMatch, OneIntentPerNonce
<1>3. ASSUME NEW fill, RecordFill(fill) PROVE OneIntentPerNonce'
  BY <1>3 DEF RecordFill, ApplyFill, OneIntentPerNonce
<1>4. ASSUME NEW id, ExpireIntent(id) PROVE OneIntentPerNonce'
  BY <1>4 DEF ExpireIntent, OneIntentPerNonce
<1>5. CASE Tick
  BY <1>5 DEF Tick, OneIntentPerNonce
<1>6. CASE UNCHANGED vars
  BY <1>6 DEF vars, OneIntentPerNonce
<1>7. QED
  BY <1>1, <1>2, <1>3, <1>4, <1>5, <1>6 DEF Next

\* service.ts, db put: however requests interleave across their awaits, a
\* trader's nonce names one intent.
THEOREM OneIntentPerTraderNonce == Spec => []OneIntentPerNonce
<1>1. Init => OneIntentPerNonce
  BY DEF Init, OneIntentPerNonce
<1>2. QED
  BY <1>1, NonceStep, PTL DEF Spec
-----------------------------------------------------------------------------
(* The rows against the chain.  A residual is what a mined and recorded     *)
(* settlement left, so it cannot change any more: that is why a replacement *)
(* prepared from rows read several awaits ago is still right when stored.   *)

Residual(order, of) ==
    /\ of \in DOMAIN rows
    /\ rows[of].status = "partially_filled"
    /\ order.size = Remaining(of)
    /\ order.trader = of.trader

Recorded(f) ==
    /\ f.id \in DOMAIN rows
    /\ <<f.id.trader, f.id.nonce>> \in nonceUsed
    /\ rows[f.id].filled = IF f \in unrecorded THEN 0 ELSE f.size

GoodFills ==
    /\ \A f \in settled : Recorded(f)
    /\ \A f, g \in settled : f.id = g.id => f = g
    /\ \A id \in DOMAIN rows : (\A f \in settled : f.id # id) => rows[id].filled = 0
    /\ \A id \in DOMAIN rows : rows[id].status \in {"partially_filled", "filled"} =>
          \E f \in settled \ unrecorded : f.id = id

GoodRows ==
    /\ IsFiniteSet(DOMAIN rows)
    /\ \A id \in DOMAIN rows : rows[id].of # NoIntent => Residual(id, rows[id].of)

GoodClient(w) ==
    /\ w.pc \in {"replaceChain", "verify", "chain"} =>
          w.order \in Orders /\ (w.of # NoIntent => Residual(w.order, w.of))
    /\ w.pc = "prepared" => w.sig \in Orders
    /\ w.pc \in {"fetched", "prepared"} => w.event \in Orders

GoodClients == \A c \in Clients : GoodClient(client[c])

IInv == TypeOK /\ GoodFills /\ GoodRows /\ GoodClients

\* A residual stays the residual while partially filled rows are kept.
LEMMA ResidualKept ==
  ASSUME \A id \in DOMAIN rows : rows[id].status = "partially_filled" =>
             id \in DOMAIN rows' /\ rows'[id] = rows[id],
         NEW order, NEW of, Residual(order, of)
  PROVE  Residual(order, of)'
BY DEF Residual, Remaining

LEMMA ClientsKept ==
  ASSUME GoodClients, UNCHANGED client,
         \A id \in DOMAIN rows : rows[id].status = "partially_filled" =>
             id \in DOMAIN rows' /\ rows'[id] = rows[id]
  PROVE  GoodClients'
<1>1. \A order, of : Residual(order, of) => Residual(order, of)'
  BY ResidualKept
<1>2. QED
  BY <1>1 DEF GoodClients, GoodClient

\* A step of one client that leaves the store alone.
LEMMA ClientMoves ==
  ASSUME IInv, NEW c \in Clients, NEW w \in ClientStates, GoodClient(w),
         client' = [client EXCEPT ![c] = w], handled' \in [Traders -> SUBSET Orders],
         UNCHANGED <<now, rows, nonceUsed, settled, unrecorded, events>>
  PROVE  IInv'
<1>1. TypeOK'
  BY DEF IInv, TypeOK, Fills, Rows
<1>2. GoodFills' /\ GoodRows'
  BY DEF IInv, GoodFills, Recorded, GoodRows, Residual, Remaining
<1>3. \A order, of : Residual(order, of) => Residual(order, of)'
  BY DEF Residual, Remaining
<1>4. ASSUME NEW d \in Clients PROVE GoodClient(client[d])'
  <2>1. client'[d] = IF d = c THEN w ELSE client[d]
    BY DEF IInv, TypeOK
  <2>2. GoodClient(client'[d])
    BY <2>1 DEF IInv, GoodClients
  <2>3. QED
    BY <2>2, <1>3 DEF GoodClient
<1>5. QED
  BY <1>1, <1>2, <1>4 DEF IInv, GoodClients

LEMMA IdleState == Idle \in ClientStates /\ GoodClient(Idle)
BY DEF Idle, ClientStates, GoodClient

LEMMA CreateStep ==
  ASSUME IInv, NEW c \in Clients, NEW o \in Requests, CreateIntent(c, o)
  PROVE  IInv'
<1> DEFINE w == [Idle EXCEPT !.pc = IF o.deadline <= now THEN "rejected" ELSE "verify",
                             !.order = o, !.sig = o]
<1>1. o \in Orders
  BY ConstantsAssumption
<1>2. w \in ClientStates /\ GoodClient(w)
  BY <1>1 DEF Idle, ClientStates, GoodClient
<1>3. client' = [client EXCEPT ![c] = w] /\ handled' \in [Traders -> SUBSET Orders]
  BY DEF CreateIntent, IInv, TypeOK
<1>4. UNCHANGED <<now, rows, nonceUsed, settled, unrecorded, events>>
  BY DEF CreateIntent
<1> HIDE DEF w
<1>5. QED
  BY <1>2, <1>3, <1>4, ClientMoves

\* An answer that leaves the request as it is.
LEMMA ReplyStep ==
  ASSUME IInv, NEW c \in Clients, NEW pc, Reply(c, pc),
         client[c].pc \in {"verify", "chain", "replaceChain"},
         pc \in {"verify", "chain", "accepted", "rejected"},
         UNCHANGED <<now, rows, nonceUsed, settled, unrecorded, events, handled>>
  PROVE  IInv'
<1>1. PICK u \in ClientStates : u = client[c]
  BY DEF IInv, TypeOK
<1> DEFINE w == [u EXCEPT !.pc = pc]
<1>2. w \in ClientStates /\ w.pc = pc /\ w.order = u.order /\ w.of = u.of
  BY DEF ClientStates
<1>3. GoodClient(u)
  BY <1>1 DEF IInv, GoodClients
<1> HIDE DEF w
<1>4. GoodClient(w)
  BY <1>1, <1>2, <1>3 DEF GoodClient
<1>5. client' = [client EXCEPT ![c] = w]
  BY <1>1 DEF Reply, w
<1>6. handled' \in [Traders -> SUBSET Orders]
  BY DEF IInv, TypeOK
<1>7. QED
  BY <1>2, <1>4, <1>5, <1>6, ClientMoves

LEMMA FetchStep ==
  ASSUME IInv, NEW c \in Clients, FetchEvents(c)
  PROVE  IInv'
<1>1. PICK k \in Unhandled(Owner[c]) :
        client' = [client EXCEPT ![c] = [Idle EXCEPT !.pc = "fetched", !.event = events[k]]]
  BY DEF FetchEvents
<1>2. events[k] \in Orders
  BY DEF Unhandled, FetchedEvents, IInv, TypeOK
<1> DEFINE w == [Idle EXCEPT !.pc = "fetched", !.event = events[k]]
<1>3. w \in ClientStates /\ GoodClient(w)
  BY <1>2 DEF Idle, ClientStates, GoodClient
<1>4. /\ handled' \in [Traders -> SUBSET Orders]
      /\ UNCHANGED <<now, rows, nonceUsed, settled, unrecorded, events>>
  BY DEF FetchEvents, IInv, TypeOK
<1> HIDE DEF w
<1>5. client' = [client EXCEPT ![c] = w]
  BY <1>1 DEF w
<1>6. QED
  BY <1>3, <1>4, <1>5, ClientMoves

\* What prepareReplacementOrder builds is an order for the residual.
LEMMA ReplacementFits ==
  ASSUME IInv, NEW orig, NEW n \in Nonces, NEW d \in Deadlines, NEW t \in Terms,
         CanPrepare(orig, n, d, t)
  PROVE  /\ ReplacementOrder(orig, n, d, t) \in Orders
         /\ Residual(ReplacementOrder(orig, n, d, t), orig)
<1>1. orig \in DOMAIN rows /\ rows[orig].status = "partially_filled" /\ Remaining(orig) # 0
  BY DEF CanPrepare, Replaceable
<1>2. orig \in Orders /\ Remaining(orig) \in Int
  BY <1>1 DEF IInv, TypeOK, Rows, Orders, Remaining
<1>3. PICK size \in Int \ {0} : size = Remaining(orig)
  BY <1>1, <1>2
<1> DEFINE o == [orig EXCEPT !.nonce = n, !.deadline = d,
                             !.price = t.price, !.post = t.post, !.size = size]
<1>4. o \in Orders /\ o.size = size /\ o.trader = orig.trader
  BY <1>2 DEF Orders, Terms
<1>5. ReplacementOrder(orig, n, d, t) = o
  BY <1>3 DEF ReplacementOrder
<1> HIDE DEF o
<1>6. QED
  BY <1>1, <1>3, <1>4, <1>5 DEF Residual

LEMMA PrepareStep ==
  ASSUME IInv, NEW c \in Clients, NEW n \in Nonces, NEW d \in Deadlines, Prepare(c, n, d)
  PROVE  IInv'
<1>1. PICK u \in ClientStates : u = client[c]
  BY DEF IInv, TypeOK
<1>2. u.pc = "fetched" /\ u.event \in Orders
  BY <1>1 DEF IInv, GoodClients, GoodClient, Prepare
<1>3. /\ handled' \in [Traders -> SUBSET Orders]
      /\ UNCHANGED <<now, rows, nonceUsed, settled, unrecorded, events>>
  BY DEF Prepare, IInv, TypeOK
<1>4. CASE client' = [client EXCEPT ![c] = Idle]
  BY <1>3, <1>4, IdleState, ClientMoves
<1>5. CASE client' # [client EXCEPT ![c] = Idle]
  <2>0. PICK t \in Overrides \cup {OwnTerms(u.event)} :
          /\ CanPrepare(u.event, n, d, t)
          /\ client' = [client EXCEPT ![c] =
               [@ EXCEPT !.pc = "prepared", !.sig = ReplacementOrder(u.event, n, d, t)]]
    BY <1>1, <1>5 DEF Prepare
  <2>1. PICK o : o = ReplacementOrder(u.event, n, d, t)
    OBVIOUS
  <2> DEFINE w == [u EXCEPT !.pc = "prepared", !.sig = o]
  <2>2. client' = [client EXCEPT ![c] = w]
    BY <1>1, <2>0, <2>1 DEF IInv, TypeOK
  <2>3. o \in Orders
    <3>1. t \in Terms
      BY <1>2, ConstantsAssumption DEF OwnTerms, Terms, Orders
    <3>2. QED
      BY <2>0, <2>1, <3>1, ReplacementFits
  <2>4. w \in ClientStates /\ w.pc = "prepared" /\ w.sig = o /\ w.event = u.event
    BY <2>3 DEF ClientStates
  <2> HIDE DEF w
  <2>5. GoodClient(w)
    BY <1>2, <2>3, <2>4 DEF GoodClient
  <2>6. QED
    BY <1>3, <2>2, <2>4, <2>5, ClientMoves
<1>6. QED
  BY <1>4, <1>5

LEMMA SubmitStep ==
  ASSUME IInv, NEW c \in Clients, SubmitReplacement(c)
  PROVE  IInv'
<1>1. PICK u \in ClientStates : u = client[c]
  BY DEF IInv, TypeOK
<1>2. u.pc = "prepared" /\ u.event \in Orders /\ u.sig \in Orders
  BY <1>1 DEF IInv, GoodClients, GoodClient, SubmitReplacement
<1>3. /\ handled' \in [Traders -> SUBSET Orders]
      /\ UNCHANGED <<now, rows, nonceUsed, settled, unrecorded, events>>
  BY DEF SubmitReplacement, IInv, TypeOK
<1>4. PICK n \in Nonces, d \in Deadlines : n = u.sig.nonce /\ d = u.sig.deadline
  BY <1>2 DEF Orders
<1>t. PICK t \in Terms : t = OwnTerms(u.sig)
  BY <1>2 DEF OwnTerms, Terms, Orders
<1>5. CASE ~CanPrepare(u.event, n, d, t)
  <2> DEFINE w == [u EXCEPT !.pc = "rejected"]
  <2>1. client' = [client EXCEPT ![c] = w]
    BY <1>1, <1>4, <1>t, <1>5 DEF SubmitReplacement
  <2>2. w \in ClientStates /\ w.pc = "rejected"
    BY DEF ClientStates
  <2> HIDE DEF w
  <2>3. GoodClient(w)
    BY <2>2 DEF GoodClient
  <2>4. QED
    BY <1>3, <2>1, <2>2, <2>3, ClientMoves
<1>6. CASE CanPrepare(u.event, n, d, t)
  <2>1. PICK o : o = ReplacementOrder(u.event, n, d, t)
    OBVIOUS
  <2>2. PICK pc \in {"replaceChain", "verify"} :
          pc = IF ByTraderNonce(u.event.trader, n) = {} THEN "replaceChain" ELSE "verify"
    OBVIOUS
  <2>3. o \in Orders /\ Residual(o, u.event)
    BY <1>6, <2>1, ReplacementFits
  <2> DEFINE w == [u EXCEPT !.pc = pc, !.order = o, !.of = u.event]
  <2>4. client' = [client EXCEPT ![c] = w]
    BY <1>1, <1>4, <1>t, <1>6, <2>1, <2>2 DEF SubmitReplacement
  <2>5. w \in ClientStates /\ w.pc = pc /\ w.order = o /\ w.of = u.event
    BY <1>2, <2>3 DEF ClientStates
  <2> HIDE DEF w
  <2>6. GoodClient(w)
    BY <2>2, <2>3, <2>5 DEF GoodClient
  <2>7. QED
    BY <1>3, <2>4, <2>5, <2>6, ClientMoves
<1>7. QED
  BY <1>5, <1>6

LEMMA AnsweredStep ==
  ASSUME IInv, NEW c \in Clients, Answered(c)
  PROVE  IInv'
<1>1. client[c].event \in Orders \cup {NoIntent}
  BY DEF IInv, TypeOK, ClientStates
<1>2. handled' \in [Traders -> SUBSET Orders]
  <2>1. handled \in [Traders -> SUBSET Orders] /\ Owner[c] \in Traders
    BY ConstantsAssumption DEF IInv, TypeOK
  <2>2. QED
    BY <1>1, <2>1 DEF Answered
<1>3. /\ client' = [client EXCEPT ![c] = Idle]
      /\ UNCHANGED <<now, rows, nonceUsed, settled, unrecorded, events>>
  BY DEF Answered
<1>4. QED
  BY <1>2, <1>3, IdleState, ClientMoves

LEMMA OtherSteps ==
  ASSUME IInv, NEW c \in Clients, VerifySignature(c) \/ ReplacementNonce(c) \/ Decline(c)
  PROVE  IInv'
<1>1. CASE VerifySignature(c)
  <2>1. PICK pc \in {"chain", "accepted", "rejected"} : Reply(c, pc)
    BY <1>1 DEF VerifySignature, Reply
  <2>2. QED
    BY <1>1, <2>1, ReplyStep DEF VerifySignature
<1>2. CASE ReplacementNonce(c)
  <2>1. PICK pc \in {"verify", "rejected"} : Reply(c, pc)
    BY <1>2 DEF ReplacementNonce, Reply
  <2>2. QED
    BY <1>2, <2>1, ReplyStep DEF ReplacementNonce
<1>3. CASE Decline(c)
  <2>1. /\ client' = [client EXCEPT ![c] = Idle]
        /\ UNCHANGED <<now, rows, nonceUsed, settled, unrecorded, events, handled>>
    BY <1>3 DEF Decline
  <2>2. handled' \in [Traders -> SUBSET Orders]
    BY <2>1 DEF IInv, TypeOK
  <2>3. QED
    BY <2>1, <2>2, IdleState, ClientMoves
<1>4. QED
  BY <1>1, <1>2, <1>3

\* A new row: no fill knows its id yet, and the rows there are stay.
LEMMA NewRowStep ==
  ASSUME IInv, NEW c \in Clients, client[c].pc = "chain", Reply(c, "accepted"),
         client[c].order \notin DOMAIN rows,
         rows' = PutRow(client[c].order, client[c].of),
         UNCHANGED <<now, nonceUsed, settled, unrecorded, events, handled>>
  PROVE  IInv'
<1>1. PICK u \in ClientStates : u = client[c]
  BY DEF IInv, TypeOK
<1> DEFINE o == u.order
           new == [filled |-> 0, created |-> now, status |-> "pending", of |-> u.of]
<1>2. o \in Orders /\ (u.of # NoIntent => Residual(o, u.of))
  BY <1>1 DEF IInv, GoodClients, GoodClient
<1>3. new \in Rows
  BY DEF Rows, ClientStates, IInv, TypeOK
<1>4. /\ DOMAIN rows' = DOMAIN rows \cup {o}
      /\ rows'[o] = new
      /\ \A id \in DOMAIN rows : id # o /\ rows'[id] = rows[id]
  BY <1>1 DEF PutRow
<1>5. /\ new.status = "pending" /\ new.filled = 0 /\ new.of = u.of
  OBVIOUS
<1> DEFINE w == [u EXCEPT !.pc = "accepted"]
<1>6. w \in ClientStates /\ w.pc = "accepted" /\ client' = [client EXCEPT ![c] = w]
  BY <1>1 DEF ClientStates, Reply
<1> HIDE DEF new, w, o
<1>7. TypeOK'
  BY <1>2, <1>3, <1>4, <1>6 DEF IInv, TypeOK
<1>8. GoodFills'
  <2>1. \A f \in settled : f.id # o
    BY <1>1, <1>4 DEF IInv, GoodFills, Recorded
  <2>2. ASSUME NEW f \in settled PROVE Recorded(f)'
    BY <2>1, <1>4 DEF IInv, GoodFills, Recorded
  <2>3. \A id \in DOMAIN rows' : (\A f \in settled : f.id # id) => rows'[id].filled = 0
    BY <1>4, <1>5 DEF IInv, GoodFills
  <2>4. \A id \in DOMAIN rows' : rows'[id].status \in {"partially_filled", "filled"} =>
          \E f \in settled \ unrecorded : f.id = id
    BY <1>4, <1>5 DEF IInv, GoodFills
  <2>5. QED
    BY <2>2, <2>3, <2>4 DEF IInv, GoodFills
<1>9. \A order, of : Residual(order, of) => Residual(order, of)'
  BY <1>4, ResidualKept
<1>10. GoodRows'
  <2>1. IsFiniteSet(DOMAIN rows')
    BY <1>4, FS_AddElement DEF IInv, GoodRows
  <2>2. \A id \in DOMAIN rows' : rows'[id].of # NoIntent => Residual(id, rows[id].of)' 
    BY <1>2, <1>4, <1>5, <1>9 DEF IInv, GoodRows, o
  <2>3. QED
    BY <2>1, <2>2 DEF GoodRows
<1>11. GoodClients'
  <2>1. ASSUME NEW d \in Clients PROVE GoodClient(client[d])'
    <3>1. client'[d] = IF d = c THEN w ELSE client[d]
      BY <1>6 DEF IInv, TypeOK
    <3>2. GoodClient(client[d])
      BY DEF IInv, GoodClients
    <3>3. QED
      BY <3>1, <3>2, <1>6, <1>9 DEF GoodClient
  <2>2. QED
    BY <2>1 DEF GoodClients
<1>12. QED
  BY <1>7, <1>8, <1>10, <1>11 DEF IInv

LEMMA StoreIntentStep ==
  ASSUME IInv, NEW c \in Clients, StoreIntent(c)
  PROVE  IInv'
<1>1. client[c].pc = "chain" /\ UNCHANGED <<now, nonceUsed, settled, unrecorded, events, handled>>
  BY DEF StoreIntent
<1>2. CASE UNCHANGED rows
  <2>1. PICK pc \in {"accepted", "rejected"} : Reply(c, pc)
    BY DEF StoreIntent, Reply
  <2>2. QED
    BY <1>1, <1>2, <2>1, ReplyStep
<1>3. CASE ~UNCHANGED rows
  <2>1. rows' = PutRow(client[c].order, client[c].of) /\ Reply(c, "accepted")
    BY <1>3 DEF StoreIntent
  <2>2. client[c].order \notin DOMAIN rows
    BY <1>3, <2>1 DEF PutRow
  <2>3. QED
    BY <1>1, <2>1, <2>2, NewRowStep
<1>4. QED
  BY <1>2, <1>3

\* The two orders of a pair are pending rows of opposite sides.
LEMMA PairedRows ==
  ASSUME IInv, NEW pair \in MatchedPairs
  PROVE  /\ pair[1] \in DOMAIN rows /\ pair[2] \in DOMAIN rows
         /\ pair[1] # pair[2]
         /\ rows[pair[1]].status = "pending" /\ rows[pair[2]].status = "pending"
<1>1. pair[1] \in Queue(1) /\ pair[2] \in Queue(-1)
  BY DEF MatchedPairs, Meetings
<1>2. Remaining(pair[1]) > 0 /\ Remaining(pair[2]) < 0
  BY <1>1 DEF Queue, SameSign
<1>3. Remaining(pair[1]) \in Int /\ Remaining(pair[2]) \in Int
  BY <1>1 DEF Queue, Remaining, IInv, TypeOK, Orders, Rows
<1>4. QED
  BY <1>1, <1>2, <1>3 DEF Queue

\* A settlement spends the nonces of both orders, so neither was settled before.
LEMMA SettleStep ==
  ASSUME IInv, NEW long \in DOMAIN rows, NEW short \in DOMAIN rows, long # short,
         SettleMatch(long, short)
  PROVE  IInv'
<1>1. PICK q \in Int : q = FillSize(long, short)
  BY DEF FillSize, Magnitude, Remaining, IInv, TypeOK, Orders, Rows
<1> DEFINE fills == {[id |-> long, size |-> q], [id |-> short, size |-> -q]}
           nonces == {<<id.trader, id.nonce>> : id \in {long, short}}
<1>2. /\ nonces \cap nonceUsed = {}
      /\ nonceUsed' = nonceUsed \cup nonces
      /\ settled' = settled \cup fills
      /\ unrecorded' = unrecorded \cup fills
      /\ UNCHANGED <<now, rows, events, handled, client>>
  BY <1>1 DEF SettleMatch
<1>3. long \in Orders /\ short \in Orders
  BY DEF IInv, TypeOK
<1>4. /\ fills \subseteq Fills /\ nonces \subseteq Traders \X Nonces
      /\ \A f \in fills : f.id \in {long, short} /\ <<f.id.trader, f.id.nonce>> \in nonces
      /\ \A f, g \in fills : f.id = g.id => f = g
  BY <1>3 DEF Fills, Orders
<1>5. \A f \in settled : f.id # long /\ f.id # short
  BY <1>2 DEF IInv, GoodFills, Recorded
<1> HIDE DEF fills, nonces
<1>6. TypeOK'
  BY <1>2, <1>4 DEF IInv, TypeOK
<1>7. GoodFills'
  <2>1. rows[long].filled = 0 /\ rows[short].filled = 0
    BY <1>5 DEF IInv, GoodFills
  <2>2. ASSUME NEW f \in settled' PROVE Recorded(f)'
    <3>1. CASE f \in fills
      BY <3>1, <1>2, <1>4, <2>1 DEF Recorded
    <3>2. CASE f \in settled
      <4>1. f \notin fills
        BY <3>2, <1>4, <1>5
      <4>2. QED
        BY <3>2, <4>1, <1>2 DEF IInv, GoodFills, Recorded
    <3>3. QED
      BY <3>1, <3>2, <1>2
  <2>3. \A f, g \in settled' : f.id = g.id => f = g
    BY <1>2, <1>4, <1>5 DEF IInv, GoodFills
  <2>4. \A id \in DOMAIN rows' : (\A f \in settled' : f.id # id) => rows'[id].filled = 0
    BY <1>2 DEF IInv, GoodFills
  <2>5. ASSUME NEW id \in DOMAIN rows, rows[id].status \in {"partially_filled", "filled"}
        PROVE  \E f \in settled' \ unrecorded' : f.id = id
    <3>1. PICK f \in settled \ unrecorded : f.id = id
      BY <2>5 DEF IInv, GoodFills
    <3>2. f \notin fills
      BY <3>1, <1>4, <1>5
    <3>3. QED
      BY <3>1, <3>2, <1>2
  <2>6. QED
    BY <2>2, <2>3, <2>4, <2>5, <1>2 DEF GoodFills
<1>8. GoodRows' /\ GoodClients'
  BY <1>2 DEF IInv, GoodRows, GoodClients, GoodClient, Residual, Remaining
<1>9. QED
  BY <1>6, <1>7, <1>8 DEF IInv

LEMMA RecordStep ==
  ASSUME IInv, NEW fill \in unrecorded, RecordFill(fill)
  PROVE  IInv'
<1>1. fill \in settled /\ fill \in Fills /\ fill.id \in DOMAIN rows /\ fill.id \in Orders
      /\ fill.size \in Int
  BY DEF IInv, TypeOK, GoodFills, Recorded, Fills
<1>2. PICK id \in DOMAIN rows : id = fill.id
  BY <1>1
<1>3. PICK row \in Rows : row = rows[id]
  BY DEF IInv, TypeOK
<1>4. row.filled = 0
  BY <1>1, <1>2, <1>3 DEF IInv, GoodFills, Recorded
<1>5. \A f \in settled : f.id = id => f = fill
  BY <1>1, <1>2 DEF IInv, GoodFills
<1>6. row.status \notin {"partially_filled", "filled"}
  BY <1>2, <1>3, <1>5 DEF IInv, GoodFills
<1>7. PICK status \in {"partially_filled", "filled"} :
        rows' = [rows EXCEPT ![id].filled = fill.size, ![id].status = status]
  <2>1. PICK status \in {"partially_filled", "filled"} :
          status = IF fill.size = id.size THEN "filled" ELSE "partially_filled"
    OBVIOUS
  <2>2. rows[id].filled + fill.size = fill.size
    BY <1>1, <1>3, <1>4
  <2>3. QED
    BY <1>2, <2>1, <2>2 DEF RecordFill, ApplyFill
<1> DEFINE new == [row EXCEPT !.filled = fill.size, !.status = status]
<1>8. new \in Rows /\ new.filled = fill.size /\ new.status = status /\ new.of = row.of
  BY <1>1 DEF Rows
<1>9. /\ DOMAIN rows' = DOMAIN rows
      /\ rows'[id] = new
      /\ \A other \in DOMAIN rows : other # id => rows'[other] = rows[other]
  BY <1>3, <1>7
<1>10. /\ unrecorded' = unrecorded \ {fill}
       /\ events' \in {events, Append(events, id)}
       /\ UNCHANGED <<now, nonceUsed, settled, handled, client>>
  BY <1>2 DEF RecordFill
<1> HIDE DEF new
<1>11. TypeOK'
  <2>1. events' \in Seq(Orders)
    BY <1>1, <1>2, <1>10 DEF IInv, TypeOK
  <2>2. \A x \in DOMAIN rows' : rows'[x] \in Rows
    BY <1>8, <1>9 DEF IInv, TypeOK
  <2>3. QED
    BY <2>1, <2>2, <1>9, <1>10 DEF IInv, TypeOK
<1>12. GoodFills'
  <2>1. ASSUME NEW f \in settled PROVE Recorded(f)'
    <3>1. CASE f = fill
      BY <3>1, <1>1, <1>2, <1>8, <1>9, <1>10 DEF IInv, GoodFills, Recorded
    <3>2. CASE f # fill
      <4>1. f.id # id /\ Recorded(f)
        BY <3>2, <1>5 DEF IInv, GoodFills
      <4>2. QED
        BY <3>2, <4>1, <1>9, <1>10 DEF Recorded
    <3>3. QED
      BY <3>1, <3>2
  <2>2. \A x \in DOMAIN rows' : (\A f \in settled' : f.id # x) => rows'[x].filled = 0
    BY <1>1, <1>2, <1>9, <1>10 DEF IInv, GoodFills
  <2>3. ASSUME NEW x \in DOMAIN rows', rows'[x].status \in {"partially_filled", "filled"}
        PROVE  \E f \in settled' \ unrecorded' : f.id = x
    <3>1. CASE x = id
      BY <3>1, <1>1, <1>2, <1>10
    <3>2. CASE x # id
      <4>1. PICK f \in settled \ unrecorded : f.id = x
        BY <2>3, <3>2, <1>9 DEF IInv, GoodFills
      <4>2. QED
        BY <4>1, <1>10
    <3>3. QED
      BY <3>1, <3>2
  <2>4. \A f, g \in settled' : f.id = g.id => f = g
    BY <1>10 DEF IInv, GoodFills
  <2>5. QED
    BY <2>1, <2>2, <2>3, <2>4, <1>10 DEF GoodFills
<1>13. \A x \in DOMAIN rows : rows[x].status = "partially_filled" =>
             x \in DOMAIN rows' /\ rows'[x] = rows[x]
  BY <1>3, <1>6, <1>9
<1>14. GoodRows'
  <2>1. \A order, of : Residual(order, of) => Residual(order, of)'
    BY <1>13, ResidualKept
  <2>2. \A x \in DOMAIN rows : rows'[x].of = rows[x].of
    BY <1>3, <1>8, <1>9
  <2>3. QED
    BY <2>1, <2>2, <1>9 DEF IInv, GoodRows
<1>15. GoodClients'
  BY <1>10, <1>13, ClientsKept DEF IInv
<1>16. QED
  BY <1>11, <1>12, <1>14, <1>15 DEF IInv

LEMMA ExpireStep ==
  ASSUME IInv, NEW id \in DOMAIN rows, ExpireIntent(id)
  PROVE  IInv'
<1>1. PICK row \in Rows : row = rows[id]
  BY DEF IInv, TypeOK
<1> DEFINE new == [row EXCEPT !.status = "expired"]
<1>2. new \in Rows /\ new.filled = row.filled /\ new.status = "expired" /\ new.of = row.of
  BY DEF Rows
<1>3. /\ DOMAIN rows' = DOMAIN rows
      /\ rows'[id] = new
      /\ \A other \in DOMAIN rows : other # id => rows'[other] = rows[other]
  BY <1>1 DEF ExpireIntent
<1>4. row.status = "pending" /\ UNCHANGED <<now, nonceUsed, settled, unrecorded, events, handled, client>>
  BY <1>1 DEF ExpireIntent
<1> HIDE DEF new
<1>5. TypeOK'
  BY <1>2, <1>3, <1>4 DEF IInv, TypeOK
<1>6. \A x \in DOMAIN rows : rows'[x].filled = rows[x].filled /\ rows'[x].of = rows[x].of
  BY <1>1, <1>2, <1>3
<1>7. \A x \in DOMAIN rows : x # id \/ rows'[x].status = "expired"
  BY <1>2, <1>3
<1>8. GoodFills'
  BY <1>3, <1>4, <1>6, <1>7 DEF IInv, GoodFills, Recorded
<1>9. \A x \in DOMAIN rows : rows[x].status = "partially_filled" =>
            x \in DOMAIN rows' /\ rows'[x] = rows[x]
  BY <1>1, <1>3, <1>4
<1>10. GoodRows'
  <2>1. \A order, of : Residual(order, of) => Residual(order, of)'
    BY <1>9, ResidualKept
  <2>2. QED
    BY <2>1, <1>3, <1>6 DEF IInv, GoodRows
<1>11. GoodClients'
  BY <1>4, <1>9, ClientsKept DEF IInv
<1>12. QED
  BY <1>5, <1>8, <1>10, <1>11 DEF IInv

LEMMA TickStep ==
  ASSUME IInv, Tick
  PROVE  IInv'
<1>1. UNCHANGED <<rows, nonceUsed, settled, unrecorded, events, handled, client>>
  BY DEF Tick
<1>2. TypeOK'
  BY ConstantsAssumption DEF IInv, TypeOK, Tick, Rows
<1>3. QED
  BY <1>1, <1>2 DEF IInv, GoodFills, Recorded, GoodRows, GoodClients, GoodClient, Residual,
    Remaining

LEMMA StoreInit == Init => IInv
<1> SUFFICES ASSUME Init PROVE IInv
  OBVIOUS
<1>1. TypeOK
  BY IdleState, ConstantsAssumption DEF Init, TypeOK
<1>2. GoodFills /\ GoodRows
  BY FS_EmptySet DEF Init, GoodFills, GoodRows
<1>3. GoodClients
  BY IdleState DEF Init, GoodClients
<1>4. QED
  BY <1>1, <1>2, <1>3 DEF IInv

LEMMA StoreNext ==
  ASSUME IInv, [Next]_vars
  PROVE  IInv'
<1>1. ASSUME NEW c \in Clients, ClientStep(c) PROVE IInv'
  <2>1. CASE \E o \in Requests : CreateIntent(c, o)
    BY <2>1, CreateStep
  <2>2. CASE StoreIntent(c)
    BY <2>2, StoreIntentStep
  <2>3. CASE FetchEvents(c)
    BY <2>3, FetchStep
  <2>4. CASE \E n \in Nonces, d \in Deadlines : Prepare(c, n, d)
    BY <2>4, PrepareStep
  <2>5. CASE SubmitReplacement(c)
    BY <2>5, SubmitStep
  <2>6. CASE Answered(c)
    BY <2>6, AnsweredStep
  <2>7. CASE VerifySignature(c) \/ ReplacementNonce(c) \/ Decline(c)
    BY <2>7, OtherSteps
  <2>8. QED
    BY <1>1, <2>1, <2>2, <2>3, <2>4, <2>5, <2>6, <2>7 DEF ClientStep
<1>2. ASSUME NEW pair \in MatchedPairs, SettleMatch(pair[1], pair[2]) PROVE IInv'
  BY <1>2, PairedRows, SettleStep
<1>3. CASE \E fill \in unrecorded : RecordFill(fill)
  BY <1>3, RecordStep
<1>4. CASE \E id \in DOMAIN rows : ExpireIntent(id)
  BY <1>4, ExpireStep
<1>5. CASE Tick
  BY <1>5, TickStep
<1>6. CASE UNCHANGED vars
  <2>1. UNCHANGED <<now, rows, nonceUsed, settled, unrecorded, events, handled, client>>
    BY <1>6 DEF vars
  <2>2. TypeOK'
    BY <2>1 DEF IInv, TypeOK, Rows, Fills
  <2>3. QED
    BY <2>1, <2>2 DEF IInv, GoodFills, Recorded, GoodRows, GoodClients, GoodClient, Residual,
      Remaining
<1>7. QED
  BY <1>1, <1>2, <1>3, <1>4, <1>5, <1>6 DEF Next

\* The invariant of the store, its clients and the chain.
THEOREM PerpsIInv == Spec => []IInv
BY StoreInit, StoreNext, PTL DEF Spec

\* Every variable of the store and its clients keeps its type: a replacement
\* never has size zero.
THEOREM PerpsTypes == Spec => []TypeOK
<1>1. IInv => TypeOK
  BY DEF IInv
<1>2. QED
  BY <1>1, PerpsIInv, PTL

\* service.ts prepareReplacementOrder, createReplacementIntent: a replacement
\* that is stored has exactly the size that its original's settlement left.
THEOREM PerpsReplacementIsResidual == Spec => []ReplacementIsResidual
<1>1. IInv => ReplacementIsResidual
  BY DEF IInv, GoodRows, Residual, ReplacementIsResidual
<1>2. QED
  BY <1>1, PerpsIInv, PTL

\* db recordFill: a stored order is settled at most once, and its row says
\* nothing until that settlement is recorded and its size from then on.
THEOREM PerpsFillsMatchChain == Spec => []FillsMatchChain
<1>1. ASSUME IInv PROVE FillsMatchChain
  <2> SUFFICES ASSUME NEW id \in DOMAIN rows
               PROVE  LET mine == {f \in settled : f.id = id} IN
                      /\ Cardinality(mine) <= 1
                      /\ \A f \in mine :
                            rows[id].filled = IF f \in unrecorded THEN 0 ELSE f.size
                      /\ mine = {} => rows[id].filled = 0
    BY DEF FillsMatchChain
  <2> DEFINE mine == {f \in settled : f.id = id}
  <2>1. \A f \in mine : rows[id].filled = IF f \in unrecorded THEN 0 ELSE f.size
    BY <1>1 DEF IInv, GoodFills, Recorded
  <2>2. mine = {} => rows[id].filled = 0
    BY <1>1 DEF IInv, GoodFills
  <2>3. Cardinality(mine) <= 1
    <3>1. CASE mine = {}
      BY <3>1, FS_EmptySet
    <3>2. CASE mine # {}
      <4>1. PICK f \in mine : mine = {f}
        BY <3>2, <1>1 DEF IInv, GoodFills
      <4>2. Cardinality(mine) = 1
        BY <4>1, FS_Singleton
      <4>3. QED
        BY <4>2
    <3>3. QED
      BY <3>1, <3>2
  <2>4. QED
    BY <2>1, <2>2, <2>3
<1>2. QED
  BY <1>1, PerpsIInv, PTL

\* orderbook.ts matchPriceTimePriority: whatever is in the book, a pair trades
\* at a price that both orders accept, and no post-only order takes.
THEOREM PerpsPairsAreFair == Spec => []PairsAreFair
<1>1. ASSUME IInv PROVE PairsAreFair
  <2> SUFFICES ASSUME NEW pair \in MatchedPairs
               PROVE  LET maker == Maker(pair[1], pair[2])
                          taker == IF maker = pair[1] THEN pair[2] ELSE pair[1]
                          price == IF maker.price # 0 THEN maker.price ELSE taker.price
                      IN  /\ ~taker.post
                          /\ price # 0
                          /\ pair[1].price # 0 => price <= pair[1].price
                          /\ pair[2].price # 0 => price >= pair[2].price
    BY DEF PairsAreFair
  <2>1. PICK long, short : long = pair[1] /\ short = pair[2]
    OBVIOUS
  <2>2. long \in Orders /\ short \in Orders /\ long # short
    BY <1>1, <2>1, PairedRows DEF IInv, TypeOK
  <2>3. /\ long.price \in Nat /\ short.price \in Nat
        /\ long.post \in BOOLEAN /\ short.post \in BOOLEAN
    BY <2>2, ConstantsAssumption DEF Orders
  <2>4. pair \in Meetings /\ Place(pair[1]) <= Place(pair[1]) => PricesCross(long, short)
    BY <2>1 DEF MatchedPairs
  <2>5. pair \in Meetings /\ Executable(long, short)
    BY <2>1 DEF MatchedPairs
  <2>6. Place(pair[1]) <= Place(pair[1])
    <3> DEFINE ahead == {other \in Queue(Remaining(pair[1])) : Before(other, pair[1])}
    <3>1. IsFiniteSet(DOMAIN rows) /\ ahead \subseteq DOMAIN rows
      BY <1>1 DEF IInv, GoodRows, Queue
    <3>2. Cardinality(ahead) \in Nat
      BY <3>1, FS_Subset, FS_CardinalityType
    <3>3. QED
      BY <3>2 DEF Place
  <2>7. long.price = 0 \/ short.price = 0 \/ long.price >= short.price
    BY <2>4, <2>5, <2>6 DEF PricesCross
  <2>8. ~(long.post /\ short.post) /\ (long.price # 0 \/ short.price # 0)
    BY <2>5 DEF Executable
  <2>9. \/ Maker(long, short) = long /\ ~short.post
        \/ Maker(long, short) = short /\ ~long.post
    BY <2>3, <2>8 DEF Maker
  <2>10. QED
    BY <2>1, <2>2, <2>3, <2>7, <2>8, <2>9
<1>2. QED
  BY <1>1, PerpsIInv, PTL
=============================================================================
