------------------------------ MODULE ServerFeed ------------------------------
(***************************************************************************)
(* The price feed of one live-market connection: the socket handlers of    *)
(* apps/api ws.ts over streamPythPrice of packages/market-data, which      *)
(* reads Hermes' event stream and polls its latest price while the stream  *)
(* cannot be opened.  A price is the number of its publication.  Candles   *)
(* and the mock order book are left out; a payload that does not parse is  *)
(* not modelled.                                                           *)
(***************************************************************************)
EXTENDS Naturals

CONSTANTS
    LastPrice,    \* bound: Hermes publishes prices 1..LastPrice
    MaxOutages    \* bound on the changes of what Hermes answers

ASSUME ServerFeedAssumption == LastPrice \in Nat /\ MaxOutages \in Nat

VARIABLES
    feed,       \* pythFeedId: the market has a feed of Hermes
    price,      \* the price Hermes has published last
    hermes,     \* the endpoints that answer: a subset of {"stream", "latest"}
    outages,
    socket,     \* the page's connection: "open" or "closed"
    sse,        \* connectSse: "connecting", "open", "waiting"; "none"
    polling,    \* pollTimer is set
    polls,      \* requests under way: the price published when each was sent
    mock,       \* tickTimer is set
    real,       \* the last price of Hermes sent to the page
    sent        \* what the last tick carried: "nothing", "price" or "mock"

feedVars == <<feed, price, hermes, outages, socket, sse, polling, polls, mock, real, sent>>

pyth == <<sse, polling, polls>>
world == <<feed, price, hermes, outages>>

Prices == 0..LastPrice

FeedTypeOK ==
    /\ price \in Prices /\ real \in Prices
    /\ hermes \subseteq {"stream", "latest"} /\ outages \in 0..MaxOutages
    /\ socket \in {"open", "closed"}
    /\ sse \in {"none", "connecting", "open", "waiting"}
    /\ polls \subseteq Prices
    /\ {feed, polling, mock} \subseteq BOOLEAN
    /\ sent \in {"nothing", "price", "mock"}

\* The socket has opened: a market with a feed subscribes to it, another one
\* gets the mock ticks.
FeedInit ==
    /\ price = 0 /\ real = 0 /\ sent = "nothing"
    /\ hermes = {"stream", "latest"} /\ outages = 0
    /\ feed \in BOOLEAN
    /\ socket = "open" /\ sse = (IF feed THEN "connecting" ELSE "none")
    /\ mock = ~feed
    /\ polling = FALSE /\ polls = {}

-----------------------------------------------------------------------------
\* Hermes.
Publish ==
    /\ price < LastPrice /\ price' = price + 1
    /\ UNCHANGED <<feed, hermes, outages, socket, mock, real, sent>> /\ UNCHANGED pyth

Outage(e) ==
    /\ outages < MaxOutages /\ outages' = outages + 1
    /\ hermes' = IF e \in hermes THEN hermes \ {e} ELSE hermes \cup {e}
    /\ UNCHANGED <<feed, price, socket, mock, real, sent>> /\ UNCHANGED pyth

-----------------------------------------------------------------------------
\* onPrice, and reportError with the handler of ws.ts: any error of the feed
\* starts the mock ticks, and nothing stops them before the close.
Emit(p) == real' = p /\ sent' = "price"

ReportError == mock' = TRUE

Opened ==
    /\ sse = "connecting" /\ "stream" \in hermes
    /\ sse' = "open" /\ polling' = FALSE
    /\ UNCHANGED <<polls, socket, mock, real, sent>> /\ UNCHANGED world

\* startPollingFallback asks at once.
OpenFails ==
    /\ sse = "connecting" /\ "stream" \notin hermes
    /\ ReportError
    /\ sse' = "waiting" /\ polling' = TRUE
    /\ polls' = IF polling THEN polls ELSE polls \cup {price}
    /\ UNCHANGED <<socket, real, sent>> /\ UNCHANGED world

StreamTick ==
    /\ sse = "open" /\ "stream" \in hermes
    /\ Emit(price)
    /\ UNCHANGED <<socket, mock>> /\ UNCHANGED pyth /\ UNCHANGED world

\* Mutant of Dropped: only a failed attempt schedules the next one.
DroppedForGood ==
    /\ sse = "open" /\ "stream" \notin hermes
    /\ ReportError \/ UNCHANGED mock
    /\ sse' = "none"
    /\ UNCHANGED <<polling, polls, socket, real, sent>> /\ UNCHANGED world

\* The stream ends without an error, or with one; it had been open, so that
\* polling is not started.
Dropped ==
    /\ sse = "open" /\ "stream" \notin hermes
    /\ ReportError \/ UNCHANGED mock
    /\ sse' = "waiting"
    /\ UNCHANGED <<polling, polls, socket, real, sent>> /\ UNCHANGED world

\* The timer of scheduleReconnect: its delay grows from 1 s to 30 s.
Reconnect ==
    /\ sse = "waiting" /\ sse' = "connecting"
    /\ UNCHANGED <<polling, polls, socket, mock, real, sent>> /\ UNCHANGED world

Poll ==
    /\ polling /\ polls' = polls \cup {price}
    /\ UNCHANGED <<sse, polling, socket, mock, real, sent>> /\ UNCHANGED world

\* Mutant of PollEnds: reportError does not look at stopped.
PollEndsUnchecked(p) ==
    /\ p \in polls /\ polls' = polls \ {p}
    /\ IF "latest" \in hermes
       THEN /\ UNCHANGED mock
            /\ IF socket = "closed" THEN UNCHANGED <<real, sent>> ELSE \E q \in p..price : Emit(q)
       ELSE UNCHANGED <<real, sent>> /\ ReportError
    /\ UNCHANGED <<sse, polling, socket>> /\ UNCHANGED world

\* A poll is not cancelled when polling stops or the socket closes; emitTick
\* and reportError look at stopped.
PollEnds(p) ==
    /\ p \in polls /\ polls' = polls \ {p}
    /\ IF "latest" \in hermes
       THEN /\ UNCHANGED mock
            /\ IF socket = "closed" THEN UNCHANGED <<real, sent>> ELSE \E q \in p..price : Emit(q)
       ELSE /\ UNCHANGED <<real, sent>>
            /\ IF socket = "closed" THEN UNCHANGED mock ELSE ReportError
    /\ UNCHANGED <<sse, polling, socket>> /\ UNCHANGED world

MockTick ==
    /\ mock /\ sent' = "mock"
    /\ UNCHANGED <<socket, mock, real>> /\ UNCHANGED pyth /\ UNCHANGED world

\* The handler of close clears its timers and unsubscribes, which aborts the
\* request or the body of connectSse and clears the timers of the client.
Close ==
    /\ socket = "open" /\ socket' = "closed"
    /\ mock' = FALSE /\ sse' = "none" /\ polling' = FALSE
    /\ UNCHANGED <<polls, real, sent>> /\ UNCHANGED world

FeedNext ==
    \/ Publish \/ \E e \in {"stream", "latest"} : Outage(e)
    \/ Opened \/ OpenFails \/ StreamTick \/ Dropped \/ Reconnect
    \/ Poll \/ \E p \in Prices : PollEnds(p)
    \/ MockTick \/ Close

\* Timers fire, and a request or a stream that is there goes on or ends.
FeedFairness ==
    /\ WF_feedVars(Opened \/ OpenFails) /\ WF_feedVars(Dropped) /\ WF_feedVars(Reconnect)
    /\ WF_feedVars(StreamTick) /\ WF_feedVars(Poll)
    /\ \A p \in Prices : WF_feedVars(PollEnds(p))

-----------------------------------------------------------------------------
\* Once the page's socket is closed, no timer of it is set, no stream is read
\* and, whatever answers late, none of them is started again (ws.ts close and
\* the stopped flag of pyth-stream.ts).
ClosedIsQuiet ==
    socket = "closed" => ~mock /\ ~polling /\ sse = "none"

\* If Hermes' stream or its latest price comes to answer for good, the page is
\* sent Hermes' last price again and again and no older one of Hermes' any
\* more: the fallback and the reconnections leave no gap.  It is not all the
\* page is sent: after one error of the feed the mock ticks, which routes/ws.ts
\* 16-18 keeps for markets without a feed, go out between these prices until
\* the socket closes (startMockTicks is never undone).  And Hermes' last price
\* is one that no other follows: while prices change, the late answer to a poll
\* may follow that of a later one.
PricesArrive ==
    feed /\ <>[](socket = "open" /\ hermes # {}) =>
        /\ <>[](real = price)
        /\ []<>(sent = "price" /\ real = price)
=============================================================================
