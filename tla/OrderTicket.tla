------------------------------ MODULE OrderTicket ------------------------------
(***************************************************************************)
(* An order from the order panel of the trading page to its last status:   *)
(* usePlaceOrder with the sequencer socket it tries first and the REST     *)
(* route it falls back to, the row the API stores, the matcher that may    *)
(* take the row up, and useIntentStatusStream with the event stream of     *)
(* apps/api and the polling it drops to.  The panel places one order after *)
(* the other, each under a fresh nonce.                                    *)
(*                                                                         *)
(* The gateway names an order "ws-<nonce>", which the intent translator    *)
(* does not take for an id: every placement is answered by a rejection     *)
(* that names no intent, and the client, which looks its callbacks up by   *)
(* the intent of the answer, drops it.                                     *)
(***************************************************************************)
EXTENDS Naturals, Sequences, FiniteSets

CONSTANTS
    MaxOrders,    \* bound on the orders of the panel
    Attempts,     \* 3: attempts of resilientFetch
    MaxPolls,     \* bound on the polls under way together
    MaxEvents,    \* bound on the events under way
    MaxFaults     \* bound on lost requests and broken streams

ASSUME OrderTicketAssumption ==
    /\ {MaxOrders, MaxPolls, MaxFaults} \subseteq Nat
    /\ {Attempts, MaxEvents} \subseteq Nat \ {0}

VARIABLES
    mode,        \* MATCHER_WS_BIND: "ws" if it is set, else "tick"
    conn,        \* SequencerWsClient: "connecting", "open" or "waiting"
    acks,        \* pendingAcks: the orders with a callback
    wire,        \* placements at the gateway
    order,       \* the orders begun; the last one is placed now
    step,        \* and how far it has come
    attempt,     \* attempts of its POST that have failed
    row,         \* perp_order_intents: the status of each order, or "none"
    offered,     \* orders a book of the matcher has been given
    reported,    \* orders the panel has reported as submitted
    watched,     \* lastIntentId: the order whose status is followed, or 0
    server,      \* the handler of its stream: the status it wrote last, ...
    events,      \* what it has written and the page has not seen
    pollTimer,     \* pollTimer is set
    answers,       \* answers to status requests, on their way
    shown,       \* the intent the hook returns
    terminal,    \* terminalRef
    faults

socketVars == <<conn, acks, wire>>
placeVars == <<order, step, attempt, reported>>
rowVars == <<row, offered>>
watchVars == <<watched, server, events, pollTimer, answers, shown, terminal>>
ticketVars == <<mode, socketVars, placeVars, rowVars, watchVars, faults>>

Orders == 1..MaxOrders

Statuses == {"pending", "partially_filled", "filled", "rejected", "expired"}

\* TERMINAL_INTENT_STATUSES, and isTerminalStatus of the API.
Terminal == {"filled", "rejected", "expired"}

Snapshots == [order : Orders, status : Statuses]

Nothing == [order |-> 0]

TicketTypeOK ==
    /\ mode \in {"ws", "tick"}
    /\ conn \in {"connecting", "open", "waiting"}
    /\ acks \subseteq Orders /\ wire \subseteq Orders
    /\ order \in 0..MaxOrders /\ attempt \in 0..Attempts - 1
    /\ step \in {"ready", "signing", "awaiting", "session", "posting", "answered"}
    /\ row \in [Orders -> Statuses \cup {"none"}]
    /\ offered \subseteq Orders /\ reported \subseteq Orders
    /\ watched \in 0..MaxOrders
    /\ server \in Statuses \cup {"off", "connecting", "ended"}
    /\ events \in Seq(Statuses \cup {"timeout"}) /\ Len(events) <= MaxEvents
    /\ answers \subseteq Snapshots /\ shown \in Snapshots \cup {Nothing}
    /\ {pollTimer, terminal} \subseteq BOOLEAN /\ faults \in 0..MaxFaults

TicketInit ==
    /\ mode \in {"ws", "tick"}
    /\ conn = "connecting" /\ acks = {} /\ wire = {}
    /\ order = 0 /\ step = "ready" /\ attempt = 0 /\ reported = {}
    /\ row = [o \in Orders |-> "none"] /\ offered = {}
    /\ watched = 0 /\ server = "off" /\ events = <<>>
    /\ pollTimer = FALSE /\ answers = {} /\ shown = Nothing /\ terminal = FALSE
    /\ faults = 0

Fault == faults < MaxFaults /\ faults' = faults + 1

-----------------------------------------------------------------------------
\* The sequencer client.  Without MATCHER_WS_BIND nothing listens.
SequencerOpens ==
    /\ conn = "connecting"
    /\ conn' = IF mode = "ws" THEN "open" ELSE "waiting"
    /\ UNCHANGED <<mode, acks, wire, faults>>
    /\ UNCHANGED <<placeVars, rowVars, watchVars>>

\* onclose; the callbacks stay, and what was sent may be lost.
SequencerCloses ==
    /\ conn = "open" /\ Fault
    /\ conn' = "waiting" /\ wire' = {}
    /\ UNCHANGED <<mode, acks>> /\ UNCHANGED <<placeVars, rowVars, watchVars>>

SequencerRetries ==
    /\ conn = "waiting" /\ conn' = "connecting"
    /\ UNCHANGED <<mode, acks, wire, faults>>
    /\ UNCHANGED <<placeVars, rowVars, watchVars>>

\* handle_place answers, and onmessage finds no callback.
GatewayAnswers(o) ==
    /\ o \in wire /\ wire' = wire \ {o}
    /\ UNCHANGED <<mode, conn, acks, faults>>
    /\ UNCHANGED <<placeVars, rowVars, watchVars>>

-----------------------------------------------------------------------------
\* submit of the panel, which is disabled while an order is being placed.
Begin ==
    /\ step = "ready" /\ order < MaxOrders
    /\ order' = order + 1 /\ step' = "signing" /\ attempt' = 0
    /\ UNCHANGED <<mode, reported, faults>>
    /\ UNCHANGED <<socketVars, rowVars, watchVars>>

\* The wallet has switched its chain and signed: the sequencer comes first.
Sign ==
    /\ step = "signing"
    /\ IF conn = "open"
       THEN step' = "awaiting" /\ acks' = acks \cup {order} /\ wire' = wire \cup {order}
       ELSE step' = "session" /\ UNCHANGED <<acks, wire>>
    /\ UNCHANGED <<mode, conn, order, attempt, reported, faults>>
    /\ UNCHANGED <<rowVars, watchVars>>

\* The user refuses the chain, the order or the session.
Refuse ==
    /\ step \in {"signing", "session"} /\ step' = "ready"
    /\ UNCHANGED <<mode, order, attempt, reported, faults>>
    /\ UNCHANGED <<socketVars, rowVars, watchVars>>

\* Mutant of AckTimeout: the panel is optimistic.
AckTimeoutPlaces ==
    /\ step = "awaiting" /\ step' = "ready"
    /\ acks' = acks \ {order} /\ reported' = reported \cup {order}
    /\ UNCHANGED <<mode, conn, wire, order, attempt, faults>>
    /\ UNCHANGED <<rowVars, watchVars>>

\* 5 s without an answer: the error is caught, and REST is next.
AckTimeout ==
    /\ step = "awaiting" /\ step' = "session"
    /\ acks' = acks \ {order}
    /\ UNCHANGED <<mode, conn, wire, order, attempt, reported, faults>>
    /\ UNCHANGED <<rowVars, watchVars>>

\* The cached session, or one that is signed now.
OpenSession ==
    /\ step = "session" /\ step' = "posting"
    /\ UNCHANGED <<mode, order, attempt, reported, faults>>
    /\ UNCHANGED <<socketVars, rowVars, watchVars>>

\* POST /perps/intents; a repeated request finds its own row.
ApiAccepts ==
    /\ step = "posting" /\ step' = "answered"
    /\ row' = [row EXCEPT ![order] = IF @ = "none" THEN "pending" ELSE @]
    /\ UNCHANGED <<mode, order, attempt, reported, offered, faults>>
    /\ UNCHANGED <<socketVars, watchVars>>

\* A 4xx, for the session, the market, the deadline, the signature or the
\* nonce, is not tried again: submitPerpsIntent throws, also when an earlier
\* attempt whose answer was lost has stored the row.
ApiRefuses ==
    /\ step = "posting" /\ step' = "ready"
    /\ UNCHANGED <<mode, order, attempt, reported, faults>>
    /\ UNCHANGED <<socketVars, rowVars, watchVars>>

\* The request or its answer is lost: resilientFetch tries again, or throws.
PostFails ==
    /\ step \in {"posting", "answered"} /\ Fault
    /\ IF attempt + 1 < Attempts
       THEN step' = "posting" /\ attempt' = attempt + 1
       ELSE step' = "ready" /\ UNCHANGED attempt
    /\ UNCHANGED <<mode, order, reported>>
    /\ UNCHANGED <<socketVars, rowVars, watchVars>>

\* The effect of useIntentStatusStream starts for order o, after the cleanup
\* of the last one.  A poll of another order is a cancelled one.
Watch(o) ==
    /\ watched' = o /\ shown' = Nothing /\ terminal' = FALSE
    /\ server' = (IF o = 0 THEN "off" ELSE "connecting") /\ events' = <<>>
    /\ pollTimer' = FALSE
    /\ UNCHANGED answers

\* The panel reports the order and follows it.
Placed ==
    /\ step = "answered" /\ step' = "ready"
    /\ reported' = reported \cup {order}
    /\ Watch(order)
    /\ UNCHANGED <<mode, order, attempt, faults>>
    /\ UNCHANGED <<socketVars, rowVars>>

-----------------------------------------------------------------------------
\* The matcher.  With the gateway its tick loop is not started, and nothing
\* else reads rows into a book; the sweeper asks for rows that are not yet
\* expired and finds none to expire.
Offer(o) ==
    /\ mode = "tick" /\ row[o] = "pending" /\ o \notin offered
    /\ offered' = offered \cup {o}
    /\ UNCHANGED <<mode, row, faults>>
    /\ UNCHANGED <<socketVars, placeVars, watchVars>>

\* What the tick loop and the API's fills make of a row.
Advances(s) ==
    CASE s = "pending" -> {"partially_filled", "filled", "rejected", "expired"}
      [] s = "partially_filled" -> {"filled"}
      [] OTHER -> {}

RowAdvances(o) ==
    /\ o \in offered
    /\ \E s \in Advances(row[o]) : row' = [row EXCEPT ![o] = s]
    /\ UNCHANGED <<mode, offered, faults>>
    /\ UNCHANGED <<socketVars, placeVars, watchVars>>

-----------------------------------------------------------------------------
\* The handler of GET /perps/intents/:id/stream: a snapshot, then what changed.
Writes(s) ==
    /\ Len(events) < MaxEvents /\ events' = Append(events, s)
    /\ server' = IF s \in Terminal THEN "ended" ELSE s

StreamOpens ==
    /\ server = "connecting" /\ Writes(row[watched])
    /\ UNCHANGED <<mode, watched, pollTimer, answers, shown, terminal, faults>>
    /\ UNCHANGED <<socketVars, placeVars, rowVars>>

StreamPolls ==
    /\ server \in Statuses /\ row[watched] # server /\ Writes(row[watched])
    /\ UNCHANGED <<mode, watched, pollTimer, answers, shown, terminal, faults>>
    /\ UNCHANGED <<socketVars, placeVars, rowVars>>

\* MAX_STREAM_SECS have passed.
StreamTimesOut ==
    /\ server \in Statuses /\ Len(events) < MaxEvents
    /\ server' = "ended" /\ events' = Append(events, "timeout")
    /\ UNCHANGED <<mode, watched, pollTimer, answers, shown, terminal, faults>>
    /\ UNCHANGED <<socketVars, placeVars, rowVars>>

\* apply and cleanup of the hook.
Apply(p) ==
    /\ shown' = p
    /\ IF p.status \in Terminal
       THEN terminal' = TRUE /\ server' = "off" /\ events' = <<>> /\ pollTimer' = FALSE
       ELSE UNCHANGED <<terminal, pollTimer>>

\* Mutant of Deliver: a timeout closes the stream like a terminal status.
DeliverLastWindow ==
    /\ server # "off" /\ events # <<>>
    /\ IF Head(events) = "timeout"
       THEN server' = "off" /\ events' = <<>> /\ UNCHANGED <<pollTimer, shown, terminal>>
       ELSE /\ Apply([order |-> watched, status |-> Head(events)])
            /\ Head(events) \notin Terminal => events' = Tail(events) /\ UNCHANGED server
    /\ UNCHANGED <<mode, watched, answers, faults>>
    /\ UNCHANGED <<socketVars, placeVars, rowVars>>

\* A snapshot is applied; a timeout opens a new stream.
Deliver ==
    /\ server # "off" /\ events # <<>>
    /\ IF Head(events) = "timeout"
       THEN server' = "connecting" /\ events' = <<>> /\ UNCHANGED <<pollTimer, shown, terminal>>
       ELSE /\ Apply([order |-> watched, status |-> Head(events)])
            /\ Head(events) \notin Terminal => events' = Tail(events) /\ UNCHANGED server
    /\ UNCHANGED <<mode, watched, answers, faults>>
    /\ UNCHANGED <<socketVars, placeVars, rowVars>>

\* GET /perps/intents/:id, read when it is asked for.
Ask == answers' = answers \cup {[order |-> watched, status |-> row[watched]]}

\* The error event: no stream any more, and pollTimer from now on.
StreamBreaks ==
    /\ server # "off" /\ Fault
    /\ server' = "off" /\ events' = <<>> /\ pollTimer' = TRUE /\ Ask
    /\ UNCHANGED <<mode, watched, shown, terminal>>
    /\ UNCHANGED <<socketVars, placeVars, rowVars>>

\* The interval does not wait for the last answer.
PollStatus ==
    /\ pollTimer /\ Ask /\ Cardinality(answers') <= MaxPolls
    /\ UNCHANGED <<mode, watched, server, events, pollTimer, shown, terminal, faults>>
    /\ UNCHANGED <<socketVars, placeVars, rowVars>>

\* Mutant of PollAnswers: apply does not look at cancelled.
PollAnswersAlways(p) ==
    /\ p \in answers /\ answers' = answers \ {p}
    /\ Apply(p) /\ (p.status \notin Terminal => UNCHANGED <<server, events>>)
    /\ UNCHANGED <<mode, watched, faults>>
    /\ UNCHANGED <<socketVars, placeVars, rowVars>>

\* An answer is applied unless its effect has been cancelled, and also when a
\* later one has already been.
PollAnswers(p) ==
    /\ p \in answers /\ answers' = answers \ {p}
    /\ IF p.order = watched
       THEN Apply(p) /\ (p.status \notin Terminal => UNCHANGED <<server, events>>)
       ELSE UNCHANGED <<server, events, pollTimer, shown, terminal>>
    /\ UNCHANGED <<mode, watched, faults>>
    /\ UNCHANGED <<socketVars, placeVars, rowVars>>

PollFails(p) ==
    /\ p \in answers /\ answers' = answers \ {p} /\ Fault
    /\ UNCHANGED <<mode, watched, server, events, pollTimer, shown, terminal>>
    /\ UNCHANGED <<socketVars, placeVars, rowVars>>

\* 5 s after a terminal status the panel follows nothing.
ClearWatch ==
    /\ watched # 0 /\ terminal
    /\ Watch(0)
    /\ UNCHANGED <<mode, faults>> /\ UNCHANGED <<socketVars, placeVars, rowVars>>

PlaceNext ==
    \/ SequencerOpens \/ SequencerCloses \/ SequencerRetries
    \/ \E o \in Orders : GatewayAnswers(o)
    \/ Begin \/ Sign \/ Refuse \/ AckTimeout \/ OpenSession
    \/ ApiAccepts \/ ApiRefuses \/ PostFails \/ Placed

WatchNext ==
    \/ StreamOpens \/ StreamPolls \/ StreamTimesOut \/ Deliver \/ StreamBreaks
    \/ PollStatus \/ \E p \in Snapshots : PollAnswers(p) \/ PollFails(p)
    \/ ClearWatch

TicketNext ==
    \/ PlaceNext \/ WatchNext
    \/ \E o \in Orders : Offer(o) \/ RowAdvances(o)

\* Timers fire, the API and the network answer what is not lost, and the tick
\* loop, where it runs, takes the rows up.  Users need not act.
TicketFairness ==
    /\ WF_ticketVars(AckTimeout) /\ WF_ticketVars(ApiAccepts \/ ApiRefuses)
    /\ WF_ticketVars(Placed)
    /\ \A o \in Orders : WF_ticketVars(Offer(o))
    /\ WF_ticketVars(StreamOpens) /\ WF_ticketVars(StreamPolls) /\ WF_ticketVars(Deliver)
    /\ WF_ticketVars(PollStatus)
    /\ \A p \in Snapshots : WF_ticketVars(PollAnswers(p))

-----------------------------------------------------------------------------
\* What the panel reports as submitted is a row of the API, whichever of its
\* two ways the order went and whatever was lost on them (hooks.ts:613-675).
PlacedIsStored ==
    \A o \in reported : row[o] # "none"

\* The status the panel shows is one of the order it follows, however late the
\* answers for an earlier order come (the cancelled flag, hooks.ts:867-876).
ShownIsFollowed ==
    shown # Nothing => shown.order = watched

\* A terminal status reaches the panel through windows of the stream, its
\* failure and lost answers to polls (hooks.ts:838-841).
TerminalReached ==
    \A o \in Orders :
        (watched = o /\ row[o] \in Terminal) ~> (terminal \/ watched # o)
=============================================================================
