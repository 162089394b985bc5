------------------------------ MODULE EventLog ------------------------------
(***************************************************************************)
(* What the event handlers of services/envio-yield see of one chain: the   *)
(* contracts' events, in the order of the chain, each handed to its        *)
(* handler exactly once (the indexer framework writes tables and cursor    *)
(* together).  The indexer runs behind the chain, by up to Lag events.     *)
(***************************************************************************)
EXTENDS Naturals, Sequences

CONSTANTS
    Lag,        \* bound on the events not yet handled
    Days,       \* bound on the days that pass
    NoRow

ASSUME EventLogAssumption == Lag \in Nat \ {0} /\ Days \in Nat \ {0}

VARIABLES
    log,        \* events emitted and not yet handled, with their block's day
    today,      \* the UTC day of the next block
    product     \* the contracts under study: tables of products never meet

logVars == <<log, today, product>>

\* A transaction emits its events together, stamped with the block's day.
Emit(events) ==
    /\ Len(log) + Len(events) <= Lag
    /\ log' = log \o [k \in 1..Len(events) |-> [day |-> today, event |-> events[k]]]
    /\ UNCHANGED <<today, product>>

\* The event whose handler runs next, and the day of its block.
This == Head(log).event

ThisDay == Head(log).day

Handling(kind) == log # <<>> /\ This.kind = kind

Handled == log' = Tail(log) /\ UNCHANGED <<today, product>>

CaughtUp == log = <<>>
=============================================================================
