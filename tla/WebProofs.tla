------------------------------ MODULE WebProofs ------------------------------
(***************************************************************************)
(* Proofs about the trading page and its server side, for every number of  *)
(* prices, outages, components, markets, orders and faults.                *)
(***************************************************************************)
EXTENDS Web, SequenceTheorems, TLAPS

-----------------------------------------------------------------------------
(* The price feed of a connection.                                         *)

LEMMA FeedStep ==
  ASSUME ClosedIsQuiet, [FeedNext]_feedVars
  PROVE  ClosedIsQuiet'
<1>1. CASE FeedNext
  <2>1. CASE Publish
    BY <2>1 DEF Publish, pyth, ClosedIsQuiet
  <2>2. ASSUME NEW e \in {"stream", "latest"}, Outage(e) PROVE ClosedIsQuiet'
    BY <2>2 DEF Outage, pyth, ClosedIsQuiet
  <2>3. CASE Opened \/ OpenFails \/ Dropped \/ Reconnect
    BY <2>3 DEF Opened, OpenFails, Dropped, Reconnect, world, ReportError, ClosedIsQuiet
  <2>4. CASE StreamTick \/ MockTick
    BY <2>4 DEF StreamTick, MockTick, world, pyth, ClosedIsQuiet
  <2>5. CASE Poll
    BY <2>5 DEF Poll, world, ClosedIsQuiet
  <2>6. ASSUME NEW p \in Prices, PollEnds(p) PROVE ClosedIsQuiet'
    BY <2>6 DEF PollEnds, world, ReportError, ClosedIsQuiet
  <2>7. CASE Close
    BY <2>7 DEF Close, ClosedIsQuiet
  <2>8. QED
    BY <1>1, <2>1, <2>2, <2>3, <2>4, <2>5, <2>6, <2>7 DEF FeedNext
<1>2. CASE UNCHANGED feedVars
  BY <1>2 DEF feedVars, ClosedIsQuiet
<1>3. QED
  BY <1>1, <1>2

\* pyth-stream.ts, stopped: nothing that is under way when the page's socket
\* closes starts a timer or a stream of it again.
THEOREM FeedClosedIsQuiet == FairSpec => []ClosedIsQuiet
<1>1. Init => ClosedIsQuiet
  BY DEF Init, FeedInit, ClosedIsQuiet
<1>2. ClosedIsQuiet /\ [Next]_vars => ClosedIsQuiet'
  <2>1. [Next]_vars => [FeedNext]_feedVars
    BY DEF Next, vars
  <2>2. QED
    BY <2>1, FeedStep
<1>3. QED
  BY <1>1, <1>2, PTL DEF FairSpec

-----------------------------------------------------------------------------
(* The live price of a page.                                               *)

PageInv == PageTypeOK /\ LiveMeansConnected

\* A component that moves or goes takes no stream from another one.
LEMMA StreamsAreKept ==
  ASSUME PageInv, NEW h \in Hooks, NEW m \in Markets \cup {Off}
  PROVE  /\ LinksAfter(h, m) \in [Markets -> {"none", "connecting", "open", "waiting"}]
         /\ \A g \in Hooks \ {h} : status[g] = "live" =>
              market[g] # Off /\ LinksAfter(h, m)[market[g]] = "open"
BY DEF PageInv, PageTypeOK, LiveMeansConnected, LinksAfter, Listeners

LEMMA PageStep ==
  ASSUME PageInv, [PageNext]_pageVars
  PROVE  PageInv'
<1> USE LiveMarketAssumption DEF PageInv
<1>1. ASSUME NEW h \in Hooks, NEW m \in Markets \cup {Off}, Switch(h, m)
      PROVE  PageInv'
  <2>1. PageTypeOK'
    BY <1>1, StreamsAreKept DEF Switch, PageTypeOK
  <2>2. LiveMeansConnected'
    BY <1>1, StreamsAreKept DEF Switch, PageTypeOK, LiveMeansConnected
  <2>3. QED
    BY <2>1, <2>2
<1>2. ASSUME NEW h \in Hooks, Unmount(h) PROVE PageInv'
  <2>1. PageTypeOK'
    BY <1>2, StreamsAreKept DEF Unmount, PageTypeOK
  <2>2. LiveMeansConnected'
    BY <1>2, StreamsAreKept DEF Unmount, PageTypeOK, LiveMeansConnected
  <2>3. QED
    BY <2>1, <2>2
<1>3. ASSUME NEW h \in Hooks, Ages(h) \/ StaleCheck(h) PROVE PageInv'
  BY <1>3 DEF Ages, StaleCheck, PageTypeOK, LiveMeansConnected
<1>4. ASSUME NEW m \in Markets, SocketOpens(m) \/ SocketCloses(m) PROVE PageInv'
  <2>1. PageTypeOK'
    BY <1>4 DEF SocketOpens, SocketCloses, Shows, PageTypeOK
  <2>2. LiveMeansConnected'
    BY <1>4 DEF SocketOpens, SocketCloses, Shows, Listeners, PageTypeOK, LiveMeansConnected
  <2>3. QED
    BY <2>1, <2>2
<1>5. ASSUME NEW m \in Markets, SocketRetries(m) PROVE PageInv'
  BY <1>5 DEF SocketRetries, PageTypeOK, LiveMeansConnected
<1>6. ASSUME NEW m \in Markets, Ticks(m) PROVE PageInv'
  <2>1. PageTypeOK'
    BY <1>6 DEF Ticks, Shows, PageTypeOK
  <2>2. LiveMeansConnected'
    BY <1>6 DEF Ticks, Shows, Listeners, PageTypeOK, LiveMeansConnected
  <2>3. QED
    BY <2>1, <2>2
<1>7. CASE Flip
  <2>1. flips' \in 0..MaxFlips
    BY <1>7 DEF Flip, PageTypeOK
  <2>2. {up', ticking'} \subseteq BOOLEAN
    BY <1>7, Zenon DEF Flip, PageTypeOK
  <2>3. UNCHANGED <<market, status, age, link>>
    BY <1>7 DEF Flip
  <2>4. QED
    BY <2>1, <2>2, <2>3 DEF PageTypeOK, LiveMeansConnected
<1>8. CASE UNCHANGED pageVars
  BY <1>8 DEF pageVars, PageTypeOK, LiveMeansConnected
<1>9. QED
  BY <1>1, <1>2, <1>3, <1>4, <1>5, <1>6, <1>7, <1>8 DEF PageNext

LEMMA PageInvariant == FairSpec => []PageInv
<1>1. Init => PageInv
  BY LiveMarketAssumption DEF Init, PageInit, PageInv, PageTypeOK, LiveMeansConnected
<1>2. PageInv /\ [Next]_vars => PageInv'
  <2>1. [Next]_vars => [PageNext]_pageVars
    BY DEF Next, vars
  <2>2. QED
    BY <2>1, PageStep
<1>3. QED
  BY <1>1, <1>2, PTL DEF FairSpec

\* use-live-market.ts, sharedStreams: whichever components come and go on a
\* stream, none of them shows a live price without an open socket behind it.
THEOREM PageLiveMeansConnected == FairSpec => []LiveMeansConnected
BY PageInvariant, PTL DEF PageInv

-----------------------------------------------------------------------------
(* An order and its status.                                                *)

\* What is being placed is an order, what has been answered is stored, and
\* only an order that was reported is followed.
StoredOK ==
    /\ step # "ready" => order \in Orders
    /\ step = "answered" => row[order] # "none"
    /\ \A o \in reported : row[o] # "none"

FollowedOK ==
    /\ watched # 0 => watched \in reported
    /\ watched = 0 => server = "off" /\ ~pollTimer

TicketInv == TicketTypeOK /\ StoredOK /\ FollowedOK /\ ShownIsFollowed

LEMMA StoredStatus ==
  ASSUME TicketInv, watched # 0
  PROVE  watched \in Orders /\ row[watched] \in Statuses
BY DEF TicketInv, TicketTypeOK, StoredOK, FollowedOK

LEMMA Bounds == MaxOrders \in Nat /\ MaxFaults \in Nat /\ Attempts \in Nat \ {0} /\ MaxEvents \in Nat \ {0}
BY OrderTicketAssumption

\* The steps that leave row, watched and what is shown alone.
LEMMA SocketStep ==
  ASSUME TicketInv,
         \/ SequencerOpens \/ SequencerCloses \/ SequencerRetries
         \/ \E o \in Orders : GatewayAnswers(o)
  PROVE  TicketInv'
<1>1. /\ conn' \in {"connecting", "open", "waiting"} /\ acks' = acks
      /\ wire' \subseteq wire /\ faults' \in 0..MaxFaults /\ mode' = mode
      /\ UNCHANGED <<placeVars, rowVars, watchVars>>
  BY Bounds DEF TicketInv, TicketTypeOK, SequencerOpens, SequencerCloses, SequencerRetries,
     GatewayAnswers, Fault
<1>2. QED
  BY <1>1 DEF TicketInv, TicketTypeOK, StoredOK, FollowedOK, ShownIsFollowed,
     placeVars, rowVars, watchVars

LEMMA PlacingStep ==
  ASSUME TicketInv,
         \/ Begin \/ Sign \/ Refuse \/ AckTimeout \/ OpenSession \/ ApiRefuses \/ PostFails
  PROVE  TicketInv'
<1> USE Bounds DEF Orders
<1>1. /\ order' \in 0..MaxOrders /\ attempt' \in 0..Attempts - 1
      /\ step' \in {"ready", "signing", "awaiting", "session", "posting"}
      /\ step' # "ready" => order' \in Orders
      /\ faults' \in 0..MaxFaults
  BY DEF TicketInv, TicketTypeOK, StoredOK, Begin, Sign, Refuse, AckTimeout, OpenSession,
     ApiRefuses, PostFails, Fault, socketVars
<1>2. acks' \subseteq Orders /\ wire' \subseteq Orders /\ conn' = conn
  BY DEF TicketInv, TicketTypeOK, StoredOK, Begin, Sign, Refuse, AckTimeout, OpenSession,
     ApiRefuses, PostFails, socketVars
<1>3. mode' = mode /\ reported' = reported /\ UNCHANGED <<rowVars, watchVars>>
  BY DEF Begin, Sign, Refuse, AckTimeout, OpenSession, ApiRefuses, PostFails
<1>4. QED
  BY <1>1, <1>2, <1>3 DEF TicketInv, TicketTypeOK, StoredOK, FollowedOK, ShownIsFollowed,
     rowVars, watchVars

LEMMA AcceptStep ==
  ASSUME TicketInv, ApiAccepts
  PROVE  TicketInv'
<1>1. row' \in [Orders -> Statuses \cup {"none"}] /\ row'[order] # "none"
      /\ \A o \in Orders : row[o] # "none" => row'[o] # "none"
  BY DEF TicketInv, TicketTypeOK, StoredOK, ApiAccepts, Statuses
<1>2. QED
  BY <1>1 DEF TicketInv, TicketTypeOK, StoredOK, FollowedOK, ShownIsFollowed, ApiAccepts,
     socketVars, watchVars

\* Watch, of an order that was reported or of none.
LEMMA WatchOK ==
  ASSUME NEW o \in reported' \cup {0}, Watch(o), reported' \subseteq Orders
  PROVE  /\ watched' \in 0..MaxOrders /\ shown' = Nothing
         /\ pollTimer' = FALSE /\ terminal' = FALSE
         /\ server' \in {"off", "connecting"} /\ events' = <<>> /\ answers' = answers
         /\ FollowedOK'
<1>1. /\ shown' = Nothing /\ pollTimer' = FALSE /\ terminal' = FALSE
      /\ server' \in {"off", "connecting"} /\ events' = <<>> /\ answers' = answers
      /\ watched' = o /\ (o = 0 => server' = "off")
  BY DEF Watch
<1>2. watched' \in 0..MaxOrders
  BY <1>1, Bounds DEF Orders
<1>3. FollowedOK'
  BY <1>1 DEF FollowedOK
<1>4. QED
  BY <1>1, <1>2, <1>3

LEMMA PlacedStep ==
  ASSUME TicketInv, Placed \/ ClearWatch
  PROVE  TicketInv'
<1>1. /\ reported' \subseteq Orders /\ step' \in {step, "ready"}
      /\ \A o \in reported' : row'[o] # "none"
      /\ \E o \in reported' \cup {0} : Watch(o)
      /\ UNCHANGED <<mode, order, attempt, faults>> /\ UNCHANGED <<socketVars, rowVars>>
  BY DEF TicketInv, TicketTypeOK, StoredOK, Placed, ClearWatch, rowVars, placeVars
<1>2. PICK o \in reported' \cup {0} : Watch(o)
  BY <1>1
<1>3. TicketTypeOK'
  <2>1. /\ watched' \in 0..MaxOrders /\ shown' = Nothing
        /\ pollTimer' = FALSE /\ terminal' = FALSE
        /\ server' \in {"off", "connecting"} /\ events' = <<>> /\ answers' = answers
    BY <1>1, <1>2, WatchOK
  <2>2. events' \in Seq(Statuses \cup {"timeout"}) /\ Len(events') <= MaxEvents
    BY <2>1, Bounds
  <2>3. {pollTimer', terminal'} \subseteq BOOLEAN
    BY <2>1, Zenon
  <2>4. QED
    BY <1>1, <2>1, <2>2, <2>3 DEF TicketInv, TicketTypeOK, socketVars, rowVars
<1>4. StoredOK'
  BY <1>1 DEF TicketInv, StoredOK, rowVars
<1>5. QED
  BY <1>2, <1>1, <1>3, <1>4, WatchOK DEF TicketInv, ShownIsFollowed

LEMMA MatcherStep ==
  ASSUME TicketInv, NEW o \in Orders, Offer(o) \/ RowAdvances(o)
  PROVE  TicketInv'
<1>1. /\ row' \in [Orders -> Statuses \cup {"none"}]
      /\ \A p \in Orders : row[p] # "none" => row'[p] # "none"
  BY DEF TicketInv, TicketTypeOK, Offer, RowAdvances, Advances, Statuses
<1>2. offered' \subseteq Orders
      /\ UNCHANGED <<mode, faults>> /\ UNCHANGED <<socketVars, placeVars, watchVars>>
  BY DEF TicketInv, TicketTypeOK, Offer, RowAdvances
<1>3. QED
  BY <1>1, <1>2 DEF TicketInv, TicketTypeOK, StoredOK, FollowedOK, ShownIsFollowed,
     socketVars, placeVars, watchVars

\* What a step of the hook and of the stream's handler may change.
WatchTypes ==
    /\ server \in Statuses \cup {"off", "connecting", "ended"}
    /\ events \in Seq(Statuses \cup {"timeout"}) /\ Len(events) <= MaxEvents
    /\ answers \subseteq Snapshots /\ shown \in Snapshots \cup {Nothing}
    /\ {pollTimer, terminal} \subseteq BOOLEAN
    /\ watched = 0 => server = "off" /\ ~pollTimer
    /\ shown # Nothing => shown.order = watched

LEMMA WatchTypesHold ==
  ASSUME TicketInv
  PROVE  WatchTypes
BY DEF TicketInv, TicketTypeOK, FollowedOK, ShownIsFollowed, WatchTypes

LEMMA WatchTypesSuffice ==
  ASSUME TicketInv, WatchTypes', faults' \in 0..MaxFaults, UNCHANGED <<mode, watched>>,
         UNCHANGED <<socketVars, placeVars, rowVars>>
  PROVE  TicketInv'
BY DEF TicketInv, TicketTypeOK, FollowedOK, StoredOK, ShownIsFollowed, WatchTypes,
   socketVars, placeVars, rowVars

LEMMA AppendEvent ==
  ASSUME TicketInv, NEW e \in Statuses \cup {"timeout"}, Len(events) < MaxEvents,
         events' = Append(events, e)
  PROVE  events' \in Seq(Statuses \cup {"timeout"}) /\ Len(events') <= MaxEvents
BY Bounds DEF TicketInv, TicketTypeOK

LEMMA StreamStep ==
  ASSUME TicketInv, StreamOpens \/ StreamPolls \/ StreamTimesOut
  PROVE  TicketInv'
<1>1. /\ server \in Statuses \cup {"connecting"}
      /\ UNCHANGED <<mode, watched, pollTimer, answers, shown, terminal, faults>>
      /\ UNCHANGED <<socketVars, placeVars, rowVars>>
  BY DEF StreamOpens, StreamPolls, StreamTimesOut
<1>2. watched # 0 /\ row[watched] \in Statuses
  BY <1>1, StoredStatus DEF TicketInv, FollowedOK, Statuses
<1>3. PICK e \in Statuses \cup {"timeout"} :
        Len(events) < MaxEvents /\ events' = Append(events, e)
  BY <1>2 DEF StreamOpens, StreamPolls, StreamTimesOut, Writes
<1>4. server' \in Statuses \cup {"ended"}
  BY <1>2 DEF StreamOpens, StreamPolls, StreamTimesOut, Writes
<1>5. WatchTypes'
  BY <1>1, <1>2, <1>3, <1>4, AppendEvent, WatchTypesHold DEF WatchTypes
<1>6. QED
  BY <1>1, <1>5, WatchTypesSuffice DEF TicketInv, TicketTypeOK

\* A snapshot of the order that is followed is applied.
LEMMA ApplyOK ==
  ASSUME TicketInv, NEW p \in Snapshots, p.order = watched, Apply(p),
         UNCHANGED <<mode, watched>>, UNCHANGED <<socketVars, placeVars, rowVars>>,
         p.status \notin Terminal => /\ server' \in {server}
                                     /\ events' = events \/ (events # <<>> /\ events' = Tail(events)),
         answers' \subseteq answers, UNCHANGED faults
  PROVE  TicketInv'
<1>1. shown' \in Snapshots /\ shown'.order = watched
  BY DEF Apply
<1>2. {pollTimer', terminal'} \subseteq BOOLEAN
  BY Zenon DEF Apply, TicketInv, TicketTypeOK
<1>3. server' \in {server, "off"} /\ (watched = 0 => ~pollTimer')
  BY DEF Apply, TicketInv, FollowedOK
<1>4. events' \in Seq(Statuses \cup {"timeout"}) /\ Len(events') <= MaxEvents
  <2>1. events \in Seq(Statuses \cup {"timeout"}) /\ Len(events) <= MaxEvents
    BY DEF TicketInv, TicketTypeOK
  <2>2. CASE events' = <<>>
    BY <2>2, Bounds
  <2>3. CASE events' = events
    BY <2>1, <2>3
  <2>4. CASE events # <<>> /\ events' = Tail(events)
    BY <2>1, <2>4, Bounds
  <2>5. QED
    BY <2>2, <2>3, <2>4 DEF Apply
<1>5. WatchTypes'
  BY <1>1, <1>2, <1>3, <1>4, WatchTypesHold DEF WatchTypes
<1>6. QED
  BY <1>5, WatchTypesSuffice DEF TicketInv, TicketTypeOK

LEMMA DeliverStep ==
  ASSUME TicketInv, Deliver
  PROVE  TicketInv'
<1>1. /\ server # "off" /\ events # <<>> /\ watched # 0 /\ watched \in Orders
      /\ UNCHANGED <<mode, watched, answers, faults>>
      /\ UNCHANGED <<socketVars, placeVars, rowVars>>
  BY StoredStatus DEF Deliver, TicketInv, FollowedOK
<1>2. Head(events) \in Statuses \cup {"timeout"}
  BY <1>1 DEF TicketInv, TicketTypeOK
<1>3. CASE Head(events) = "timeout"
  <2>1. server' = "connecting" /\ events' = <<>> /\ UNCHANGED <<pollTimer, shown, terminal>>
    BY <1>3 DEF Deliver
  <2>2. events' \in Seq(Statuses \cup {"timeout"}) /\ Len(events') <= MaxEvents
    BY <2>1, Bounds
  <2>3. WatchTypes'
    BY <1>1, <2>1, <2>2, WatchTypesHold DEF WatchTypes
  <2>4. QED
    BY <1>1, <2>3, WatchTypesSuffice DEF TicketInv, TicketTypeOK
<1>4. CASE Head(events) # "timeout"
  <2> DEFINE p == [order |-> watched, status |-> Head(events)]
  <2>1. p \in Snapshots
    BY <1>1, <1>2, <1>4 DEF Snapshots
  <2>2. Apply(p) /\ (p.status \notin Terminal => events' = Tail(events) /\ UNCHANGED server)
    BY <1>4 DEF Deliver
  <2>3. QED
    BY <1>1, <2>1, <2>2, ApplyOK
<1>5. QED
  BY <1>3, <1>4

LEMMA BreakStep ==
  ASSUME TicketInv, StreamBreaks \/ PollStatus
  PROVE  TicketInv'
<1>1. /\ watched # 0 /\ Ask /\ server' \in {server, "off"}
      /\ faults' \in 0..MaxFaults
      /\ UNCHANGED <<mode, watched, shown, terminal>>
      /\ UNCHANGED <<socketVars, placeVars, rowVars>>
  BY Bounds DEF StreamBreaks, PollStatus, TicketInv, TicketTypeOK, FollowedOK, Fault
<1>2. answers' \subseteq Snapshots
  BY <1>1, StoredStatus DEF Ask, TicketInv, TicketTypeOK, Snapshots
<1>3. {pollTimer', terminal'} \subseteq BOOLEAN
  BY <1>1, Zenon DEF StreamBreaks, PollStatus, TicketInv, TicketTypeOK
<1>4. events' \in Seq(Statuses \cup {"timeout"}) /\ Len(events') <= MaxEvents
  <2>1. events' = <<>> \/ events' = events
    BY DEF StreamBreaks, PollStatus
  <2>2. events \in Seq(Statuses \cup {"timeout"}) /\ Len(events) <= MaxEvents
    BY DEF TicketInv, TicketTypeOK
  <2>3. CASE events' = <<>>
    BY <2>3, Bounds
  <2>4. QED
    BY <2>1, <2>2, <2>3
<1>5. WatchTypes'
  BY <1>1, <1>2, <1>3, <1>4, WatchTypesHold DEF WatchTypes
<1>6. QED
  BY <1>1, <1>5, WatchTypesSuffice

LEMMA AnswerStep ==
  ASSUME TicketInv, NEW p \in Snapshots, PollAnswers(p) \/ PollFails(p)
  PROVE  TicketInv'
<1>1. CASE PollAnswers(p) /\ p.order = watched
  BY <1>1, ApplyOK DEF PollAnswers
<1>2. CASE PollFails(p) \/ (PollAnswers(p) /\ p.order # watched)
  <2>1. /\ answers' \subseteq answers /\ faults' \in 0..MaxFaults
        /\ UNCHANGED <<mode, watched, server, events, pollTimer, shown, terminal>>
        /\ UNCHANGED <<socketVars, placeVars, rowVars>>
    BY <1>2, Bounds DEF PollFails, PollAnswers, Fault, TicketInv, TicketTypeOK
  <2>2. WatchTypes'
    BY <2>1, WatchTypesHold DEF WatchTypes
  <2>3. QED
    BY <2>1, <2>2, WatchTypesSuffice
<1>3. QED
  BY <1>1, <1>2

LEMMA TicketStep ==
  ASSUME TicketInv, [TicketNext]_ticketVars
  PROVE  TicketInv'
<1>1. CASE PlaceNext
  BY <1>1, SocketStep, PlacingStep, AcceptStep, PlacedStep DEF PlaceNext
<1>2. CASE WatchNext
  BY <1>2, StreamStep, DeliverStep, BreakStep, AnswerStep, PlacedStep DEF WatchNext
<1>3. CASE \E o \in Orders : Offer(o) \/ RowAdvances(o)
  BY <1>3, MatcherStep
<1>4. CASE UNCHANGED ticketVars
  BY <1>4 DEF ticketVars, socketVars, placeVars, rowVars, watchVars, TicketInv, TicketTypeOK,
     StoredOK, FollowedOK, ShownIsFollowed
<1>5. QED
  BY <1>1, <1>2, <1>3, <1>4 DEF TicketNext

LEMMA TicketInvariant == FairSpec => []TicketInv
<1>1. Init => TicketInv
  <2> SUFFICES ASSUME Init PROVE TicketInv
    OBVIOUS
  <2>1. events \in Seq(Statuses \cup {"timeout"}) /\ Len(events) <= MaxEvents
    BY Bounds DEF Init, TicketInit
  <2>2. {pollTimer, terminal} \subseteq BOOLEAN
    BY Zenon DEF Init, TicketInit
  <2>3. QED
    BY <2>1, <2>2, Bounds DEF Init, TicketInit, TicketInv, TicketTypeOK, StoredOK, FollowedOK,
       ShownIsFollowed
<1>2. TicketInv /\ [Next]_vars => TicketInv'
  <2>1. [Next]_vars => [TicketNext]_ticketVars
    BY DEF Next, vars
  <2>2. QED
    BY <2>1, TicketStep
<1>3. QED
  BY <1>1, <1>2, PTL DEF FairSpec

\* hooks.ts, usePlaceOrder: an order is reported as submitted only if it has a
\* row, however its placements and requests were lost and repeated.
THEOREM TicketPlacedIsStored == FairSpec => []PlacedIsStored
<1>1. TicketInv => PlacedIsStored
  BY DEF TicketInv, StoredOK, PlacedIsStored
<1>2. QED
  BY <1>1, TicketInvariant, PTL

\* hooks.ts, the cancelled flag: the panel shows no status of another order
\* than the one it follows.
THEOREM TicketShownIsFollowed == FairSpec => []ShownIsFollowed
<1>1. TicketInv => ShownIsFollowed
  BY DEF TicketInv
<1>2. QED
  BY <1>1, TicketInvariant, PTL

-----------------------------------------------------------------------------
(* The types.                                                              *)

\* The switches of the feed, and the rest of it.
Switches == {feed, polling, mock} \subseteq BOOLEAN

FeedPrices ==
    /\ price \in Prices /\ real \in Prices /\ polls \subseteq Prices
    /\ outages \in 0..MaxOutages /\ hermes \subseteq {"stream", "latest"}
    /\ sent \in {"nothing", "price", "mock"}
    /\ socket \in {"open", "closed"}
    /\ sse \in {"none", "connecting", "open", "waiting"}

LEMMA SwitchStep ==
  ASSUME Switches, [FeedNext]_feedVars
  PROVE  Switches'
<1>1. feed' = feed
  BY DEF FeedNext, feedVars, Publish, Outage, Opened, OpenFails, StreamTick, Dropped, Reconnect,
     Poll, PollEnds, MockTick, Close, pyth, world
<1>2. polling' = polling \/ polling' = TRUE \/ polling' = FALSE
  BY DEF FeedNext, feedVars, Publish, Outage, Opened, OpenFails, StreamTick, Dropped, Reconnect,
     Poll, PollEnds, MockTick, Close, pyth, world
<1>3. mock' = mock \/ mock' = TRUE \/ mock' = FALSE
  BY DEF FeedNext, feedVars, Publish, Outage, Opened, OpenFails, StreamTick, Dropped, Reconnect,
     Poll, PollEnds, MockTick, Close, ReportError, pyth, world
<1>4. QED
  BY <1>1, <1>2, <1>3, Zenon DEF Switches

LEMMA PriceStep ==
  ASSUME FeedPrices, [FeedNext]_feedVars
  PROVE  FeedPrices'
<1> USE ServerFeedAssumption DEF FeedPrices, Prices
<1>1. CASE Publish
  BY <1>1 DEF Publish, pyth
<1>2. ASSUME NEW e \in {"stream", "latest"}, Outage(e) PROVE FeedPrices'
  BY <1>2 DEF Outage, pyth
<1>3. CASE Opened \/ OpenFails \/ Dropped \/ Reconnect \/ Close
  BY <1>3 DEF Opened, OpenFails, Dropped, Reconnect, Close, world
<1>4. CASE StreamTick \/ MockTick
  BY <1>4 DEF StreamTick, MockTick, Emit, pyth, world
<1>5. CASE Poll
  BY <1>5 DEF Poll, world
<1>6. ASSUME NEW p \in Prices, PollEnds(p) PROVE FeedPrices'
  BY <1>6 DEF PollEnds, Emit, world
<1>7. CASE UNCHANGED feedVars
  BY <1>7 DEF feedVars
<1>8. QED
  BY <1>1, <1>2, <1>3, <1>4, <1>5, <1>6, <1>7 DEF FeedNext

\* The variables of the feed, of the page and of the ticket keep their types.
THEOREM WebTypes == FairSpec => []TypeOK
<1>1. Init => Switches
  BY Zenon DEF Init, FeedInit, Switches
<1>2. Init => FeedPrices
  BY ServerFeedAssumption DEF Init, FeedInit, FeedPrices, Prices
<1>3. [Next]_vars => [FeedNext]_feedVars
  BY DEF Next, vars
<1>4. FairSpec => []Switches
  BY <1>1, <1>3, SwitchStep, PTL DEF FairSpec
<1>5. FairSpec => []FeedPrices
  BY <1>2, <1>3, PriceStep, PTL DEF FairSpec
<1>6. Switches /\ FeedPrices => FeedTypeOK
  BY DEF Switches, FeedPrices, FeedTypeOK
<1>7. PageInv /\ TicketInv /\ FeedTypeOK => TypeOK
  BY DEF PageInv, TicketInv, TypeOK
<1>8. QED
  BY <1>4, <1>5, <1>6, <1>7, PageInvariant, TicketInvariant, PTL
=============================================================================
