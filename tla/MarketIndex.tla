---------------------------- MODULE MarketIndex ----------------------------
(***************************************************************************)
(* The trading, lending and fee tables of the indexer (handlers/perps.ts,  *)
(* spot.ts, lending.ts, turboFeeVault.ts, snapshot.ts) for one market and  *)
(* one trader: a row per event, the trader's position, and a daily         *)
(* snapshot per market that every handler adds to.  The vault's own events *)
(* go to the snapshot of the market "turbo-vault".                         *)
(***************************************************************************)
EXTENDS EventLog, Integers

CONSTANTS
    Amounts,    \* positive amounts an event may carry
    MaxEvents   \* bound on the events of a behaviour

ASSUME MarketAssumption == Amounts \subseteq Nat \ {0} /\ MaxEvents \in Nat

VARIABLES
    clearing,   \* the clearinghouse's position of the trader
    position,   \* PerpsPosition
    eventRows,  \* PerpTrade, PositionChange, LendingEvent, SpotSwap, ...
    snapshot    \* DailyMarketSnapshot, by market and day

marketVars == <<clearing, position, eventRows, snapshot>>

Markets == {"market", "turbo-vault"}

EmptySnapshot ==
    [perpVolume |-> 0, perpFees |-> 0, perpTradeCount |-> 0, spotVolume |-> 0,
     spotTradeCount |-> 0, totalSupply |-> 0, totalBorrow |-> 0,
     supplyEvents |-> 0, borrowEvents |-> 0, turboLpShare |-> 0,
     annualized |-> 0, lpDepositEvents |-> 0, lpWithdrawEvents |-> 0,
     yieldClaimed |-> 0, insurancePayouts |-> 0, lastFundingRate |-> 0]

TradeKinds == {"MatchSettled", "SpotFxExecuted", "Supply", "Withdraw", "Borrow",
               "Repay", "FeeDeposited", "FundingPoked", "InsurancePayout"}

VaultKinds == {"Deposited", "Withdrawn", "YieldClaimed"}

PositionKinds == {"PositionIncreased", "PositionDecreased"}

PositionEvent == [kind : PositionKinds, amount : Nat, size : Int, price : Nat, margin : Nat]

MarketEvent == [kind : TradeKinds \cup VaultKinds, amount : Nat] \cup PositionEvent

EventRow == [kind : TradeKinds \cup VaultKinds \cup PositionKinds, day : 0..Days,
             amount : Nat]

DailySnapshot ==
    [perpVolume : Nat, perpFees : Nat, perpTradeCount : Nat, spotVolume : Nat,
     spotTradeCount : Nat, totalSupply : Nat, totalBorrow : Nat,
     supplyEvents : Nat, borrowEvents : Nat, turboLpShare : Nat,
     annualized : Nat, lpDepositEvents : Nat, lpWithdrawEvents : Nat,
     yieldClaimed : Nat, insurancePayouts : Nat, lastFundingRate : Nat]

MarketTypeOK ==
    /\ clearing \in [size : Int, margin : Nat, entry : Nat]
    /\ position \in [size : Int, margin : Nat, entry : Nat, open : BOOLEAN] \cup {NoRow}
    /\ eventRows \in Seq(EventRow)
    /\ DOMAIN snapshot \subseteq Markets \X (0..Days)
    /\ snapshot \in [DOMAIN snapshot -> DailySnapshot]

MarketInit ==
    /\ clearing = [size |-> 0, margin |-> 0, entry |-> 0]
    /\ position = NoRow
    /\ eventRows = <<>>
    /\ snapshot = [s \in {} |-> EmptySnapshot]

-----------------------------------------------------------------------------
(* The contracts.                                                          *)

EventsLeft == Len(log) + Len(eventRows) < MaxEvents

Trade(kind, amount) ==
    /\ EventsLeft
    /\ Emit(<<[kind |-> kind, amount |-> amount]>>)
    /\ UNCHANGED marketVars

\* A long of the trader grows: the entry price is its average, the margin the
\* sum of what the fills reserved.
IncreasePosition(amount, price) ==
    LET grown == [size |-> clearing.size + amount,
                  margin |-> clearing.margin + amount,
                  entry |-> (clearing.size * clearing.entry + amount * price)
                            \div (clearing.size + amount)]
    IN
    /\ EventsLeft
    /\ clearing' = grown
    /\ Emit(<<[kind |-> "PositionIncreased", amount |-> amount, size |-> grown.size,
               price |-> grown.entry, margin |-> grown.margin]>>)
    /\ UNCHANGED <<position, eventRows, snapshot>>

\* It shrinks, at a price of its own, and margin is released in proportion;
\* what is left keeps its entry price.
DecreasePosition(amount, price) ==
    LET released == (clearing.margin * amount) \div clearing.size IN
    /\ EventsLeft
    /\ amount <= clearing.size
    /\ clearing' = [clearing EXCEPT !.size = @ - amount, !.margin = @ - released]
    /\ Emit(<<[kind |-> "PositionDecreased", amount |-> amount,
               size |-> clearing.size - amount, price |-> price,
               margin |-> released]>>)
    /\ UNCHANGED <<position, eventRows, snapshot>>

NewDay ==
    /\ today < Days
    /\ today' = today + 1
    /\ UNCHANGED <<log, product, marketVars>>

-----------------------------------------------------------------------------
(* The handlers.                                                           *)

\* Every event has a row of its own: its id is chain, transaction and index.
AddRow ==
    eventRows' = Append(eventRows, [kind |-> This.kind, day |-> ThisDay,
                                    amount |-> This.amount])

\* Mutant of GetOrCreate: every event starts the day anew.
AlwaysCreate(s) == EmptySnapshot

\* getOrCreateDailyMarketSnapshot
GetOrCreate(s) == IF s \in DOMAIN snapshot THEN snapshot[s] ELSE EmptySnapshot

PutSnapshot(s, row) ==
    snapshot' = [x \in DOMAIN snapshot \cup {s} |-> IF x = s THEN row ELSE snapshot[x]]

SubtractFloorZero(current, delta) == IF delta >= current THEN 0 ELSE current - delta

\* The day's fee inflow of the liquidity providers, a year of it, per deposit.
AnnualizedFee(snap, lpShare) ==
    IF snap.totalSupply > 0
    THEN ((snap.turboLpShare + lpShare) * 365) \div snap.totalSupply ELSE 0

\* What each handler does to the market's snapshot of the event's day.
Added(snap, kind, a) ==
    CASE kind = "MatchSettled" ->
           [snap EXCEPT !.perpVolume = @ + a, !.perpTradeCount = @ + 1]
      [] kind = "PositionIncreased" -> [snap EXCEPT !.perpFees = @ + a]
      [] kind = "SpotFxExecuted" ->
           [snap EXCEPT !.spotVolume = @ + a, !.spotTradeCount = @ + 1]
      [] kind = "Supply" ->
           [snap EXCEPT !.totalSupply = @ + a, !.supplyEvents = @ + 1]
      [] kind = "Withdraw" ->
           [snap EXCEPT !.totalSupply = SubtractFloorZero(@, a), !.supplyEvents = @ + 1]
      [] kind = "Borrow" ->
           [snap EXCEPT !.totalBorrow = @ + a, !.borrowEvents = @ + 1]
      [] kind = "Repay" ->
           [snap EXCEPT !.totalBorrow = SubtractFloorZero(@, a), !.borrowEvents = @ + 1]
      [] kind = "FeeDeposited" ->
           [snap EXCEPT !.turboLpShare = @ + a, !.annualized = AnnualizedFee(snap, a)]
      [] kind = "FundingPoked" -> [snap EXCEPT !.lastFundingRate = a]
      [] kind = "InsurancePayout" -> [snap EXCEPT !.insurancePayouts = @ + a]
      [] kind = "Deposited" -> [snap EXCEPT !.lpDepositEvents = @ + 1]
      [] kind = "Withdrawn" -> [snap EXCEPT !.lpWithdrawEvents = @ + 1]
      [] kind = "YieldClaimed" -> [snap EXCEPT !.yieldClaimed = @ + a]

AddToSnapshot(market) ==
    LET s == <<market, ThisDay>> IN
    PutSnapshot(s, Added(GetOrCreate(s), This.kind, This.amount))

\* The handlers of events that write their row and add to a snapshot.
OnTrade(kind) ==
    /\ Handling(kind) /\ Handled
    /\ AddRow
    /\ AddToSnapshot("market")
    /\ UNCHANGED <<clearing, position>>

OnVault(kind) ==
    /\ Handling(kind) /\ Handled
    /\ AddRow
    /\ AddToSnapshot("turbo-vault")
    /\ UNCHANGED <<clearing, position>>

\* Mutant of UpsertPosition: the change is stored as the size.
UpsertChange(e) ==
    position' = [size |-> e.amount, margin |-> e.margin, entry |-> e.price,
                 open |-> e.amount # 0]

\* upsertPosition: the row is written anew from the event.
UpsertPosition(e) ==
    position' = [size |-> e.size, margin |-> e.margin, entry |-> e.price,
                 open |-> e.size # 0]

OnPositionIncreased ==
    /\ Handling("PositionIncreased") /\ Handled
    /\ AddRow
    /\ UpsertPosition(This)
    /\ AddToSnapshot("market")
    /\ UNCHANGED clearing

OnPositionDecreased ==
    /\ Handling("PositionDecreased") /\ Handled
    /\ AddRow
    /\ UpsertPosition(This)
    /\ UNCHANGED <<clearing, snapshot>>

MarketNext ==
    /\ product = "market"
    /\ \/ \E kind \in TradeKinds \cup VaultKinds, a \in Amounts : Trade(kind, a)
       \/ \E a, price \in Amounts :
            IncreasePosition(a, price) \/ DecreasePosition(a, price)
       \/ NewDay
       \/ \E kind \in TradeKinds : OnTrade(kind)
       \/ \E kind \in VaultKinds : OnVault(kind)
       \/ OnPositionIncreased
       \/ OnPositionDecreased

-----------------------------------------------------------------------------
(* Properties.                                                             *)

\* The rows of one kind and day: how many they are, and what they add up to.
Tally(rows, kind, day) ==
    LET upTo[n \in 0..Len(rows)] ==
          IF n = 0 THEN [count |-> 0, sum |-> 0]
          ELSE IF rows[n].kind = kind /\ rows[n].day = day
               THEN [count |-> upTo[n - 1].count + 1,
                     sum |-> upTo[n - 1].sum + rows[n].amount]
          ELSE upTo[n - 1]
    IN upTo[Len(rows)]

SumOf(kind, day) == Tally(eventRows, kind, day).sum

CountOf(kind, day) == Tally(eventRows, kind, day).count

\* A day's snapshot adds up to the event rows of that day: thirteen handlers
\* read and rewrite the same row, each a few of its columns, and an event that
\* is handled after midnight still counts for the day of its block.
SnapshotsAddUp ==
    \A day \in 0..Days :
        LET snap == GetOrCreate(<<"market", day>>)
            vault == GetOrCreate(<<"turbo-vault", day>>)
        IN
        /\ snap.perpVolume = SumOf("MatchSettled", day)
        /\ snap.perpTradeCount = CountOf("MatchSettled", day)
        /\ snap.perpFees = SumOf("PositionIncreased", day)
        /\ snap.spotVolume = SumOf("SpotFxExecuted", day)
        /\ snap.supplyEvents = CountOf("Supply", day) + CountOf("Withdraw", day)
        /\ snap.borrowEvents = CountOf("Borrow", day) + CountOf("Repay", day)
        /\ snap.totalBorrow + SumOf("Repay", day) >= SumOf("Borrow", day)
        /\ snap.totalSupply <= SumOf("Supply", day)
        /\ snap.turboLpShare = SumOf("FeeDeposited", day)
        /\ snap.insurancePayouts = SumOf("InsurancePayout", day)
        /\ vault.yieldClaimed = SumOf("YieldClaimed", day)
        /\ vault.lpDepositEvents = CountOf("Deposited", day)
=============================================================================
