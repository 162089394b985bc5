---------------------------- MODULE BatchFlusher ----------------------------
(***************************************************************************)
(* The batch flusher of the sequencer mode                                 *)
(* (services/matcher/crates/matcher-server/src/batch_flusher.rs, with the  *)
(* outcomes of settle_batch_with_results in settlement.rs).                *)
(*                                                                         *)
(* A fill is named by its place in the order in which the sequencer, which *)
(* is the environment here, sends them.  Time is abstract: a pending fill  *)
(* becomes ready when its backoff has elapsed, and the timer may fire      *)
(* whenever the task waits.                                                *)
(***************************************************************************)
EXTENDS Naturals, Sequences, SequencesExt

CONSTANTS
  NumFills,      \* bound: the sequencer sends so many fills
  MaxFills,      \* BatchFlusherConfig.max_fills
  MaxTries       \* MAX_ATTEMPTS

ASSUME BoundsArePositive ==
  NumFills \in Nat /\ MaxFills \in Nat \ {0} /\ MaxTries \in Nat \ {0}

Fills == 1 .. NumFills

VARIABLES
  channel,   \* the unbounded fill channel
  sent,      \* how many fills were sent
  open,      \* whether the sender is still there
  active,    \* fills that arrived since the last flush
  pending,   \* fills to retry: attempts so far, and whether the backoff is over
  batch,     \* the batch being settled, with the attempts before it
  results,   \* the outcomes of the batch so far
  task,      \* "Waiting" in select!, "Settling" a batch, "Stopped"
  final,     \* whether the running flush is the one after the channel closed
  tries,     \* history: calls of settle_one for a fill
  fate       \* history: how a fill was let go of

queues == <<active, pending, batch, results, task, final>>
flusherVars == <<channel, sent, open, queues, tries, fate>>

Outcomes == {"Settled", "OiBlocked", "Transient", "Permanent"}
PendingFill == [fill : Fills, attempts : 1 .. MaxTries - 1, ready : BOOLEAN]
Origin == [fill : Fills, attempts : 0 .. MaxTries - 1]

FlusherInit ==
  /\ channel = <<>> /\ sent = 0 /\ open = TRUE
  /\ active = <<>> /\ pending = <<>> /\ batch = <<>> /\ results = <<>>
  /\ task = "Waiting" /\ final = FALSE
  /\ tries = [f \in Fills |-> 0]
  /\ fate = [f \in Fills |-> "None"]

-----------------------------------------------------------------------------
\* The sequencer sends a fill; it drops its sender when it stops.
SendFill ==
  /\ open
  /\ sent < NumFills
  /\ sent' = sent + 1
  /\ channel' = Append(channel, sent')
  /\ UNCHANGED <<open, queues, tries, fate>>

Close ==
  /\ open
  /\ open' = FALSE
  /\ UNCHANGED <<channel, sent, queues, tries, fate>>

BackoffElapses ==
  /\ \E i \in DOMAIN pending :
       /\ ~ pending[i].ready
       /\ pending' = [pending EXCEPT ![i].ready = TRUE]
  /\ UNCHANGED <<channel, sent, open, active, batch, results, task, final,
                 tries, fate>>

-----------------------------------------------------------------------------
(***************************************************************************)
(* flush: the ready retries, then the fills that arrived.  The fills whose *)
(* backoff runs stay pending.  Without a batch, the flush is over at once. *)
(***************************************************************************)
\* The elements at the chosen places, in their order: a loop that drains its
\* queue and pushes.
Picked(seq, chosen) ==
  LET Push(kept, i) == IF i \in chosen THEN Append(kept, seq[i]) ELSE kept
  IN FoldLeft(Push, <<>>, [i \in DOMAIN seq |-> i])

Ready == {i \in DOMAIN pending : pending[i].ready}
BackingOff == Picked(pending, DOMAIN pending \ Ready)

Retries ==
  LET ready == Picked(pending, Ready)
  IN [i \in DOMAIN ready |-> [fill |-> ready[i].fill, attempts |-> ready[i].attempts]]
FreshFills(arrived) == [i \in DOMAIN arrived |-> [fill |-> arrived[i], attempts |-> 0]]

Batched(entries, last) ==
  IF entries # <<>> THEN "Settling" ELSE IF last THEN "Stopped" ELSE "Waiting"

\* Mutant of Flush: the fills whose backoff runs are drained with the rest.
FlushDrains(arrived, last) ==
  /\ batch' = Retries \o FreshFills(arrived)
  /\ pending' = <<>> /\ active' = <<>> /\ results' = <<>> /\ final' = last
  /\ task' = Batched(batch', last)

\* Mutant of Flush: the arrivals are put ahead of the retries.
FlushFreshFirst(arrived, last) ==
  /\ batch' = FreshFills(arrived) \o Retries
  /\ pending' = BackingOff
  /\ active' = <<>> /\ results' = <<>> /\ final' = last
  /\ task' = Batched(batch', last)


Flush(arrived, last) ==
  /\ batch' = Retries \o FreshFills(arrived)
  /\ pending' = BackingOff
  /\ active' = <<>> /\ results' = <<>> /\ final' = last
  /\ task' = Batched(batch', last)

TimerFires ==
  /\ task = "Waiting"
  /\ Flush(active, FALSE)
  /\ UNCHANGED <<channel, sent, open, tries, fate>>

Recv ==
  /\ task = "Waiting"
  /\ channel # <<>>
  /\ LET arrived == Append(active, Head(channel))
     IN IF Len(arrived) >= MaxFills
        THEN Flush(arrived, FALSE)
        ELSE active' = arrived /\ UNCHANGED <<pending, batch, results, task, final>>
  /\ channel' = Tail(channel)
  /\ UNCHANGED <<sent, open, tries, fate>>

RecvClosed ==
  /\ task = "Waiting"
  /\ channel = <<>> /\ ~ open
  /\ Flush(active, TRUE)
  /\ UNCHANGED <<channel, sent, open, tries, fate>>

(***************************************************************************)
(* settle_one for the next fill of the batch, with any outcome.            *)
(***************************************************************************)
SettleOne(outcome) ==
  /\ task = "Settling"
  /\ Len(results) < Len(batch)
  /\ tries' = [tries EXCEPT ![batch[Len(results) + 1].fill] = @ + 1]
  /\ results' = Append(results, outcome)
  /\ UNCHANGED <<channel, sent, open, active, pending, batch, task, final, fate>>

-----------------------------------------------------------------------------
(***************************************************************************)
(* The results are zipped with the batch: a transient failure is retried   *)
(* with one attempt more, unless that was its last; the rest is dropped.   *)
(***************************************************************************)

\* Mutant of IsLast: one attempt too few.
IsLastEarly(attempts) == attempts + 2 >= MaxTries

IsLast(attempts) == attempts + 1 >= MaxTries

Retried(i) == results[i] = "Transient" /\ ~ IsLast(batch[i].attempts)

Rescheduled ==
  LET again == Picked(batch, {i \in DOMAIN batch : Retried(i)})
  IN [i \in DOMAIN again |-> [fill |-> again[i].fill,
                              attempts |-> again[i].attempts + 1, ready |-> FALSE]]

FateOf(i) == IF results[i] = "Transient" THEN "GaveUp" ELSE results[i]

EndFlush ==
  /\ task = "Settling"
  /\ Len(results) = Len(batch)
  /\ pending' = pending \o Rescheduled
  /\ fate' = [f \in Fills |->
                IF \E i \in DOMAIN batch : batch[i].fill = f /\ ~ Retried(i)
                THEN FateOf(CHOOSE i \in DOMAIN batch : batch[i].fill = f)
                ELSE fate[f]]
  /\ batch' = <<>> /\ results' = <<>>
  /\ task' = IF final THEN "Stopped" ELSE "Waiting"
  /\ UNCHANGED <<channel, sent, open, active, final, tries>>

FlusherNext ==
  \/ SendFill
  \/ Close
  \/ BackoffElapses
  \/ TimerFires \/ Recv \/ RecvClosed
  \/ \E outcome \in Outcomes : SettleOne(outcome)
  \/ EndFlush

FlusherSpec == FlusherInit /\ [][FlusherNext]_flusherVars

(***************************************************************************)
(* select! polls its branches in a random order, so neither the timer nor  *)
(* the channel starves; a backoff is a bounded time; settle_one returns.   *)
(* Nothing forces the sequencer to send or to stop.                        *)
(***************************************************************************)
FlusherFairness ==
  /\ SF_flusherVars(TimerFires) /\ SF_flusherVars(Recv) /\ SF_flusherVars(RecvClosed)
  /\ WF_flusherVars(BackoffElapses)
  /\ WF_flusherVars(\E outcome \in Outcomes : SettleOne(outcome)) /\ WF_flusherVars(EndFlush)

FlusherFairSpec == FlusherSpec /\ FlusherFairness

-----------------------------------------------------------------------------
FlusherTypeOK ==
  /\ channel \in Seq(Fills) /\ sent \in 0 .. NumFills /\ open \in BOOLEAN
  /\ active \in Seq(Fills) /\ pending \in Seq(PendingFill)
  /\ batch \in Seq(Origin) /\ results \in Seq(Outcomes)
  /\ task \in {"Waiting", "Settling", "Stopped"} /\ final \in BOOLEAN
  /\ tries \in [Fills -> Nat]
  /\ fate \in [Fills -> {"None", "Settled", "OiBlocked", "Permanent", "GaveUp"}]

(***************************************************************************)
(* batch_flusher.rs:8, "fills are NEVER moved into a black-hole drain":    *)
(* a fill that was sent is in exactly one queue until it is let go of, and *)
(* in none after, whatever the interleaving of arrivals, flushes, retries. *)
(***************************************************************************)
FillsOf(seq) == [i \in DOMAIN seq |-> seq[i].fill]
HeldFills == channel \o active \o FillsOf(pending) \o FillsOf(batch)

NothingLost ==
  /\ IsInjective(HeldFills)
  /\ ToSet(HeldFills) = {f \in 1 .. sent : fate[f] = "None"}

(***************************************************************************)
(* batch_flusher.rs:180-182, "retries get priority because their position  *)
(* in the matching sequence is older": in a batch, each retry was sent     *)
(* before each fill that is tried for the first time, and those come in    *)
(* the order they were sent.                                               *)
(***************************************************************************)
RetriesAreOlder ==
  \A i, j \in DOMAIN batch :
    (i < j /\ (batch[i].attempts = 0 \/ batch[j].attempts = 0)) =>
      batch[i].fill < batch[j].fill

\* The flusher keeps the promise of FillDelivery: MAX_ATTEMPTS, and one fate.
Delivery == INSTANCE FillDelivery

DeliversFills == Delivery!Spec

=============================================================================
