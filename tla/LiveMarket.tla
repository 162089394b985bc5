------------------------------ MODULE LiveMarket ------------------------------
(***************************************************************************)
(* The live price of the trading page: the hook useLiveMarket, the streams *)
(* the hooks of a page share, and the reconnecting socket client of        *)
(* packages/market-data.  The handlers of a socket whose stream has been   *)
(* given up reach no listener, so that it is forgotten at once.  A browser *)
(* fires a socket's error and its close together, so that the status       *)
(* "error" is overwritten before it is seen.                               *)
(***************************************************************************)
EXTENDS Naturals

CONSTANTS
    Hooks,       \* the components of the page that use the hook
    Markets,
    Off,         \* the market of a hook that is unmounted or disabled
    MaxFlips     \* bound on the changes of the server

ASSUME LiveMarketAssumption == Off \notin Markets /\ MaxFlips \in Nat

VARIABLES
    market,      \* the market each hook listens to
    status,      \* the status it shows
    age,         \* the tick it remembers: "none", "fresh" or "old" (5 s)
    link,        \* the shared stream of each market, by its socket's state
    up,          \* the server takes connections and keeps them
    ticking,     \* and sends ticks
    flips

pageVars == <<market, status, age, link, up, ticking, flips>>

PageTypeOK ==
    /\ market \in [Hooks -> Markets \cup {Off}]
    /\ status \in [Hooks -> {"connecting", "live", "stale"}]
    /\ age \in [Hooks -> {"none", "fresh", "old"}]
    /\ link \in [Markets -> {"none", "connecting", "open", "waiting"}]
    /\ {up, ticking} \subseteq BOOLEAN /\ flips \in 0..MaxFlips

PageInit ==
    /\ market = [h \in Hooks |-> Off]
    /\ status = [h \in Hooks |-> "connecting"]
    /\ age = [h \in Hooks |-> "none"]
    /\ link = [m \in Markets |-> "none"]
    /\ up = TRUE /\ ticking = TRUE /\ flips = 0

Listeners(m) == {h \in Hooks : market[h] = m}

\* Mutant of LinksAfter: the listener that opened the stream takes it along.
LinksTakenAlong(h, m) ==
    [n \in Markets |->
        IF n = m THEN IF link[n] = "none" THEN "connecting" ELSE link[n]
        ELSE IF h \in Listeners(n) THEN "none"
        ELSE link[n]]

\* The cleanup of an effect, and the next effect: the last listener gives the
\* stream up, the first one connects.
LinksAfter(h, m) ==
    [n \in Markets |->
        IF n = m THEN IF link[n] = "none" THEN "connecting" ELSE link[n]
        ELSE IF Listeners(n) = {h} THEN "none"
        ELSE link[n]]

-----------------------------------------------------------------------------
\* The effect runs again for another market, or is disabled.
Switch(h, m) ==
    /\ market[h] # m
    /\ market' = [market EXCEPT ![h] = m]
    /\ link' = LinksAfter(h, m)
    /\ status' = [status EXCEPT ![h] = "connecting"]
    /\ UNCHANGED <<age, up, ticking, flips>>

\* The component goes away: a later one starts with fresh state.
Unmount(h) ==
    /\ market[h] # Off
    /\ market' = [market EXCEPT ![h] = Off]
    /\ link' = LinksAfter(h, Off)
    /\ status' = [status EXCEPT ![h] = "connecting"]
    /\ age' = [age EXCEPT ![h] = "none"]
    /\ UNCHANGED <<up, ticking, flips>>

\* A transition of a socket shows on every listener of its stream.
Shows(m, s) ==
    status' = [h \in Hooks |-> IF h \in Listeners(m) THEN s ELSE status[h]]

SocketOpens(m) ==
    /\ link[m] = "connecting" /\ up
    /\ link' = [link EXCEPT ![m] = "open"]
    /\ Shows(m, "connecting")
    /\ UNCHANGED <<market, age, up, ticking, flips>>

\* An attempt that fails, or an open socket that breaks: onerror, onclose.
SocketCloses(m) ==
    /\ link[m] \in {"connecting", "open"} /\ ~up
    /\ link' = [link EXCEPT ![m] = "waiting"]
    /\ Shows(m, "connecting")
    /\ UNCHANGED <<market, age, up, ticking, flips>>

SocketRetries(m) ==
    /\ link[m] = "waiting"
    /\ link' = [link EXCEPT ![m] = "connecting"]
    /\ UNCHANGED <<market, status, age, up, ticking, flips>>

Ticks(m) ==
    /\ link[m] = "open" /\ up /\ ticking
    /\ Shows(m, "live")
    /\ age' = [h \in Hooks |-> IF h \in Listeners(m) THEN "fresh" ELSE age[h]]
    /\ UNCHANGED <<market, link, up, ticking, flips>>

\* staleAfterMs pass.
Ages(h) ==
    /\ age[h] = "fresh" /\ age' = [age EXCEPT ![h] = "old"]
    /\ UNCHANGED <<market, status, link, up, ticking, flips>>

\* Mutant of StaleCheck: it is the socket that is looked at.
StaleCheckOfSocket(h) ==
    /\ market[h] # Off /\ age[h] = "old" /\ status[h] = "live"
    /\ link[market[h]] # "open"
    /\ status' = [status EXCEPT ![h] = "stale"]
    /\ UNCHANGED <<market, age, link, up, ticking, flips>>

\* staleTimer: only a status of "live" goes stale.
StaleCheck(h) ==
    /\ market[h] # Off /\ age[h] = "old" /\ status[h] = "live"
    /\ status' = [status EXCEPT ![h] = "stale"]
    /\ UNCHANGED <<market, age, link, up, ticking, flips>>

\* The server goes or comes back; it keeps its sockets but stops ticking.
Flip ==
    /\ flips < MaxFlips /\ flips' = flips + 1
    /\ \/ up' = ~up /\ UNCHANGED ticking
       \/ ticking' = ~ticking /\ UNCHANGED up
    /\ UNCHANGED <<market, status, age, link>>

PageNext ==
    \/ \E h \in Hooks : \/ \E m \in Markets \cup {Off} : Switch(h, m)
                        \/ Unmount(h) \/ Ages(h) \/ StaleCheck(h)
    \/ \E m \in Markets : SocketOpens(m) \/ SocketCloses(m) \/ SocketRetries(m) \/ Ticks(m)
    \/ Flip

\* Sockets answer, and timers and the clock go on.
PageFairness ==
    /\ \A m \in Markets : /\ WF_pageVars(SocketOpens(m) \/ SocketCloses(m))
                          /\ WF_pageVars(SocketRetries(m)) /\ WF_pageVars(Ticks(m))
    /\ \A h \in Hooks : WF_pageVars(Ages(h)) /\ WF_pageVars(StaleCheck(h))

-----------------------------------------------------------------------------
\* A component that shows a live price listens to a stream whose socket is
\* open, whichever components have come and gone on that stream
\* (use-live-market.ts sharedStreams and the status machine of its header).
LiveMeansConnected ==
    \A h \in Hooks : status[h] = "live" => market[h] # Off /\ link[market[h]] = "open"

\* A price is not shown as live for ever once the ticks have stopped, even if
\* the socket stays open (use-live-market.ts:8-9 and its stale watcher).
StaleIsNoticed ==
    <>[]~ticking => <>[](\A h \in Hooks : status[h] # "live")
=============================================================================
