---------------------------- MODULE FillDelivery ----------------------------
(***************************************************************************)
(* What the batch flusher promises of the fills it is handed, with its     *)
(* queues forgotten: each is tried a bounded number of times and is then   *)
(* let go of for one reason, once; it is given up only when every try was  *)
(* used.                                                                   *)
(***************************************************************************)
EXTENDS Naturals

CONSTANTS Fills, MaxTries

VARIABLES
  tries,    \* how often settlement was tried
  fate      \* how the fill was let go of: "None" while it is still owed

vars == <<tries, fate>>

Fates == {"Settled", "OiBlocked", "Permanent", "GaveUp"}

Init ==
  /\ tries = [f \in Fills |-> 0]
  /\ fate = [f \in Fills |-> "None"]

Try(f) ==
  /\ fate[f] = "None" /\ tries[f] < MaxTries
  /\ tries' = [tries EXCEPT ![f] = @ + 1]
  /\ UNCHANGED fate

\* A whole batch is let go of at once.
Release(batch) ==
  /\ \A f \in batch : fate[f] = "None" /\ tries[f] > 0
  /\ fate' \in [Fills -> Fates \cup {"None"}]
  /\ \A f \in Fills \ batch : fate'[f] = fate[f]
  /\ \A f \in batch : fate'[f] \in Fates
                      /\ (fate'[f] = "GaveUp" => tries[f] = MaxTries)
  /\ UNCHANGED tries

Next ==
  \/ \E f \in Fills : Try(f)
  \/ \E batch \in SUBSET Fills : Release(batch)

Spec == Init /\ [][Next]_vars
=============================================================================
