---------------------------- MODULE TxSubmitter ----------------------------
(***************************************************************************)
(* The shared nonce manager of one signer on one chain                     *)
(* (services/matcher/crates/matcher-server/src/tx_submitter.rs).           *)
(*                                                                         *)
(* A caller is one call of submit_tx; its transaction is named after it.   *)
(* The node is external: it refuses a nonce that is used, refuses or       *)
(* replaces one that it holds, and mines in nonce order if it mines.  It   *)
(* evicts nothing: no pending nonce is ever taken back.                    *)
(*                                                                         *)
(* The signer has other clients.  main.rs gives its key to TxSubmitter     *)
(* (line 699) and to PerpsOnchain (line 118), each of whose calls builds a *)
(* provider that asks the node for the nonce; they are the caller Other.   *)
(* A sleep is a delay, which any step may have.                            *)
(***************************************************************************)
EXTENDS Naturals, Sequences, FiniteSets, FiniteSetsExt

CONSTANTS
  Callers,       \* concurrent calls of submit_tx
  MaxAttempts,   \* MAX_ATTEMPTS
  MaxFaults,     \* bound on the RPC calls that fail
  Other,         \* the signer's clients that do not use the submitter
  MaxOthers,     \* bound on their transactions
  NoNonce,       \* the cached nonce before it is primed
  Nobody         \* no caller holds the mutex over an RPC call

ASSUME BoundsOfSubmitter ==
  MaxAttempts \in Nat \ {0} /\ MaxFaults \in Nat /\ MaxOthers \in Nat

ASSUME OtherIsOther == Other \notin Callers

VARIABLES
  cache,     \* TxSubmitter.nonce
  mutex,     \* who holds it while the nonce is primed
  pc,        \* where each caller is in submit_tx
  nonce,     \* send_nonce, or the pending count a caller has just read
  attempt,   \* the attempt each caller is at
  result,    \* what submit_tx returned
  mempool,   \* external: transactions that were accepted and are not mined
  mined,     \* external: the mined transactions in nonce order
  others,    \* transactions of Other, bounded
  faults,    \* RPC calls that failed, bounded
  unknown    \* history: callers that got no answer about a transaction

calls == <<pc, nonce, attempt, result>>
node == <<mempool, mined, others>>
vars == <<cache, mutex, calls, node, faults, unknown>>

Results == {"None", "Ok", "Reverted", "Rpc", "MaxAttemptsExceeded"}
Places == {"Start", "Priming", "Primed", "Sending", "Receipt", "Resync", "Resynced", "Done"}

Init ==
  /\ cache = NoNonce /\ mutex = Nobody
  /\ pc = [c \in Callers |-> "Start"]
  /\ nonce = [c \in Callers |-> 0]
  /\ attempt = [c \in Callers |-> 0]
  /\ result = [c \in Callers |-> "None"]
  /\ mempool = {} /\ mined = <<>> /\ others = 0
  /\ faults = 0 /\ unknown = {}

-----------------------------------------------------------------------------
\* The node: eth_getTransactionCount(pending), and the nonces it refuses.
Waiting == {tx.nonce : tx \in mempool}

PendingCount ==
  Min({n \in Len(mined) .. Len(mined) + Cardinality(mempool) : n \notin Waiting})

Collides(n) == n < Len(mined) \/ n \in Waiting

\* A nonce that is not mined is taken, in place of what waits under it if need be.
Accept(n, by) ==
  /\ n >= Len(mined)
  /\ mempool' = {tx \in mempool : tx.nonce # n} \cup {[nonce |-> n, caller |-> by]}

Mine ==
  /\ \E tx \in mempool, ok \in BOOLEAN :
       /\ tx.nonce = Len(mined)
       /\ mempool' = mempool \ {tx}
       /\ mined' = Append(mined, [caller |-> tx.caller, ok |-> ok])
  /\ UNCHANGED <<cache, mutex, calls, others, faults, unknown>>

\* A call of PerpsOnchain sends under a pending count that it read, now or before.
OtherSends ==
  /\ others < MaxOthers
  /\ others' = others + 1
  /\ \E n \in Len(mined) .. PendingCount : Accept(n, Other)
  /\ UNCHANGED <<cache, mutex, calls, mined, faults, unknown>>

Fault ==
  /\ faults < MaxFaults
  /\ faults' = faults + 1

-----------------------------------------------------------------------------
\* submit_tx returns, or goes on to its next attempt.
Return(c, r) ==
  /\ result' = [result EXCEPT ![c] = r]
  /\ pc' = [pc EXCEPT ![c] = "Done"]
  /\ UNCHANGED <<nonce, attempt>>

NextAttempt(c) ==
  \/ /\ attempt[c] + 1 < MaxAttempts
     /\ attempt' = [attempt EXCEPT ![c] = @ + 1]
     /\ pc' = [pc EXCEPT ![c] = "Start"]
     /\ UNCHANGED <<nonce, result>>
  \/ /\ attempt[c] + 1 >= MaxAttempts
     /\ Return(c, "MaxAttemptsExceeded")

GoTo(c, place) ==
  /\ pc' = [pc EXCEPT ![c] = place]
  /\ UNCHANGED <<nonce, attempt, result>>

Read(c, place) ==
  /\ pc' = [pc EXCEPT ![c] = place]
  /\ nonce' = [nonce EXCEPT ![c] = PendingCount]
  /\ UNCHANGED <<attempt, result>>

(***************************************************************************)
(* (1) The nonce is assigned under the mutex, which a caller that finds    *)
(* the cache empty keeps while it asks the node.                           *)
(***************************************************************************)
\* Mutant of Assign: the guard of the lock lives on after its block.
AssignKeepsGuard(c) ==
  /\ pc[c] = "Start" /\ mutex = Nobody
  /\ mutex' = c
  /\ \/ /\ cache # NoNonce
        /\ nonce' = [nonce EXCEPT ![c] = cache]
        /\ pc' = [pc EXCEPT ![c] = "Sending"]
        /\ UNCHANGED <<attempt, result>>
     \/ cache = NoNonce /\ GoTo(c, "Priming")
  /\ UNCHANGED <<cache, node, faults, unknown>>

Assign(c) ==
  /\ pc[c] = "Start" /\ mutex = Nobody
  /\ \/ /\ cache # NoNonce
        /\ nonce' = [nonce EXCEPT ![c] = cache]
        /\ pc' = [pc EXCEPT ![c] = "Sending"]
        /\ UNCHANGED <<mutex, attempt, result>>
     \/ /\ cache = NoNonce
        /\ mutex' = c
        /\ GoTo(c, "Priming")
  /\ UNCHANGED <<cache, node, faults, unknown>>

PrimeRead(c) ==
  /\ pc[c] = "Priming"
  /\ \/ Read(c, "Primed") /\ UNCHANGED <<mutex, faults>>
     \/ Fault /\ mutex' = Nobody /\ Return(c, "Rpc")
  /\ UNCHANGED <<cache, node, unknown>>

PrimeSet(c) ==
  /\ pc[c] = "Primed"
  /\ cache' = nonce[c]
  /\ mutex' = Nobody
  /\ GoTo(c, "Sending")
  /\ UNCHANGED <<node, faults, unknown>>

(***************************************************************************)
(* (2) Without the mutex: send.  The node refuses a nonce that collides,   *)
(* unless it lets a better paid transaction replace the one it holds.  An  *)
(* error may hide that the node took the transaction; one that is not      *)
(* known to be transient ends the call.                                    *)
(***************************************************************************)
Send(c) ==
  /\ pc[c] = "Sending"
  /\ \/ /\ Accept(nonce[c], c)
        /\ GoTo(c, "Receipt")
        /\ UNCHANGED <<faults, unknown>>
     \/ /\ Collides(nonce[c])
        /\ GoTo(c, "Resync")
        /\ UNCHANGED <<mempool, faults, unknown>>
     \/ /\ Fault
        /\ NextAttempt(c)
        /\ Accept(nonce[c], c) \/ UNCHANGED mempool
        /\ unknown' = unknown \cup {c}
     \/ /\ Fault
        /\ Return(c, "Rpc")
        /\ \/ Accept(nonce[c], c) /\ unknown' = unknown \cup {c}
           \/ UNCHANGED <<mempool, unknown>>
  /\ UNCHANGED <<cache, mutex, mined, others>>

\* Mutant of CommitNonce: the cache is incremented, whoever has moved it.
CommitIncrement(sent) == cache' = IF cache # NoNonce THEN cache + 1 ELSE sent + 1

\* commit_nonce: bump the cache unless another caller has moved it past us.
CommitNonce(sent) ==
  cache' = IF cache # NoNonce /\ cache > sent THEN cache ELSE sent + 1

\* The transaction the caller waits for is mined: it was not replaced.
HasReceipt(c) == nonce[c] < Len(mined) /\ mined[nonce[c] + 1].caller = c

\* Mutant of Confirm: a transaction that reverted is sent again.
ConfirmOrRetry(c) ==
  /\ pc[c] = "Receipt" /\ mutex = Nobody
  /\ HasReceipt(c)
  /\ CommitNonce(nonce[c])
  /\ IF mined[nonce[c] + 1].ok THEN Return(c, "Ok") ELSE NextAttempt(c)
  /\ UNCHANGED <<mutex, node, faults, unknown>>

Confirm(c) ==
  /\ pc[c] = "Receipt" /\ mutex = Nobody
  /\ HasReceipt(c)
  /\ CommitNonce(nonce[c])
  /\ Return(c, IF mined[nonce[c] + 1].ok THEN "Ok" ELSE "Reverted")
  /\ UNCHANGED <<mutex, node, faults, unknown>>

ReceiptFails(c) ==
  /\ pc[c] = "Receipt"
  /\ Fault
  /\ GoTo(c, "Resync")
  /\ unknown' = unknown \cup {c}
  /\ UNCHANGED <<cache, mutex, node>>

(***************************************************************************)
(* resync_nonce: the node is asked before the mutex is taken, so that the  *)
(* count may be old when it is stored.                                     *)
(***************************************************************************)
ResyncRead(c) ==
  /\ pc[c] = "Resync"
  /\ \/ Read(c, "Resynced") /\ UNCHANGED faults
     \/ Fault /\ Return(c, "Rpc")
  /\ UNCHANGED <<cache, mutex, node, unknown>>

ResyncSet(c) ==
  /\ pc[c] = "Resynced" /\ mutex = Nobody
  /\ cache' = nonce[c]
  /\ NextAttempt(c)
  /\ UNCHANGED <<mutex, node, faults, unknown>>

Submit(c) ==
  \/ Assign(c) \/ PrimeRead(c) \/ PrimeSet(c)
  \/ Send(c) \/ Confirm(c) \/ ReceiptFails(c)
  \/ ResyncRead(c) \/ ResyncSet(c)

Next == Mine \/ OtherSends \/ \E c \in Callers : Submit(c)

Spec == Init /\ [][Next]_vars

(***************************************************************************)
(* Each call is a task of its own, and the mutex of tokio is fair.  That   *)
(* a request to the node is answered or breaks off is the premise of       *)
(* SubmitReturns; that a transaction is ever mined is assumed nowhere.     *)
(***************************************************************************)
Fairness ==
  \A c \in Callers : WF_vars(Assign(c) \/ PrimeSet(c) \/ Confirm(c) \/ ResyncSet(c))

FairSpec == Spec /\ Fairness

-----------------------------------------------------------------------------
TypeOK ==
  /\ cache \in Nat \cup {NoNonce} /\ mutex \in Callers \cup {Nobody}
  /\ pc \in [Callers -> Places] /\ nonce \in [Callers -> Nat]
  /\ attempt \in [Callers -> 0 .. MaxAttempts - 1]
  /\ result \in [Callers -> Results]
  /\ mempool \subseteq [nonce : Nat, caller : Callers \cup {Other}]
  /\ mined \in Seq([caller : Callers \cup {Other}, ok : BOOLEAN])
  /\ others \in 0 .. MaxOthers
  /\ faults \in 0 .. MaxFaults /\ unknown \subseteq Callers

(***************************************************************************)
(* No caller is ever given a nonce that the node is not ready to execute,  *)
(* stale reads and racing commits included: a transaction beyond a gap     *)
(* would wait for ever, and every later one behind it.                     *)
(***************************************************************************)
NoGap ==
  /\ cache # NoNonce => cache <= PendingCount
  /\ \A c \in Callers : nonce[c] <= PendingCount

(***************************************************************************)
(* submit_tx executes a transaction at most once, not at all when it       *)
(* reports an RPC failure, and with success when it reports success, as    *)
(* long as no answer about it was lost.                                    *)
(***************************************************************************)
Taken(c) ==
  Cardinality({n \in DOMAIN mined : mined[n].caller = c})
    + Cardinality({tx \in mempool : tx.caller = c})

AtMostOnceIfAnswered ==
  \A c \in Callers \ unknown :
    /\ Taken(c) <= 1
    /\ result[c] \in {"Rpc", "MaxAttemptsExceeded"} => Taken(c) = 0
    /\ result[c] = "Ok" =>
         \E n \in DOMAIN mined : mined[n] = [caller |-> c, ok |-> TRUE]

(***************************************************************************)
(* As long as the node answers requests, a call of submit_tx returns, or   *)
(* waits for the receipt of a transaction that is not mined, to which      *)
(* get_receipt (tx_submitter.rs:227) sets no limit: a call is never stuck  *)
(* on the mutex, nor behind a call that is stuck.                          *)
(***************************************************************************)
NodeAnswers ==
  \A c \in Callers : WF_vars(PrimeRead(c) \/ Send(c) \/ ResyncRead(c))

AwaitsBlock(c) == pc[c] = "Receipt" /\ ~ HasReceipt(c)

SubmitReturns ==
  NodeAnswers => \A c \in Callers : <>(pc[c] = "Done") \/ <>[]AwaitsBlock(c)
=============================================================================
