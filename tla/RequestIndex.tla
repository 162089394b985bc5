---------------------------- MODULE RequestIndex ----------------------------
(***************************************************************************)
(* The request tables of the indexer: the routers' requests (handlers/     *)
(* bufx.ts), and the loans and deposits of the gateway hub (telarana.ts),  *)
(* for one request, one loan and one message.  Routes, oracle settings and *)
(* the hedge hook's rows are copied from their event and never read again. *)
(***************************************************************************)
EXTENDS EventLog, FiniteSetsExt

VARIABLES
    history,    \* the contracts' events about the request, loan and message
    request,    \* BufxRequest
    context,    \* TelaranaGatewayContext: is there a row
    loan,       \* TelaranaLoan
    deposit     \* TelaranaDeposit

requestVars == <<history, request, context, loan, deposit>>

StatusRank == [submitted |-> 1, fee_quoted |-> 2, accepted |-> 3, rfq_accepted |-> 3,
               perp_accepted |-> 3, gateway_prepared |-> 4, cancelled |-> 5]

\* The events that go through upsertRequest, by the status they carry.
Upserting == DOMAIN StatusRank \ {"cancelled"}

LoanOpening == {"GatewayHubTransferRequested", "GatewayAtomicFxSwapRequested"}

LoanClosing == {"GatewayHubLiquidityReceived", "GatewayAtomicFxSwapSettled"}

DepositStatus == {"executed", "stranded", "swept"}

RequestEvents == DOMAIN StatusRank \cup LoanOpening \cup LoanClosing \cup DepositStatus

RequestEvent == [kind : RequestEvents]

RequestRow == [status : DOMAIN StatusRank, acceptedAt : 0..Days, cancelled : BOOLEAN]

LoanRow == [status : {"open", "repaid"}, openedAt : 0..Days, known : BOOLEAN]

DepositRow == [status : DepositStatus, executed : BOOLEAN, stranded : BOOLEAN,
               swept : BOOLEAN]

ASSUME RequestAssumption == NoRow \notin RequestRow \cup LoanRow \cup DepositRow

RequestTypeOK ==
    /\ history \in Seq([kind : RequestEvents, day : 0..Days])
    /\ request \in RequestRow \cup {NoRow}
    /\ context \in BOOLEAN
    /\ loan \in LoanRow \cup {NoRow}
    /\ deposit \in DepositRow \cup {NoRow}

RequestInit ==
    /\ history = <<>>
    /\ request = NoRow
    /\ context = FALSE
    /\ loan = NoRow
    /\ deposit = NoRow

-----------------------------------------------------------------------------
(* The contracts.                                                          *)

Happened(kind) == \E k \in DOMAIN history : history[k].kind = kind

SomeHappened(kinds) == \E kind \in kinds : Happened(kind)

\* A venue request is accepted in one of three ways and may be quoted before
\* or after; a telarana request is submitted, may be prepared for the gateway
\* and may be cancelled.  A loan is settled the way it was asked for, a
\* deposit is executed, or stranded and later swept.
May(kind) ==
    /\ ~Happened(kind)
    /\ CASE kind \in {"accepted", "rfq_accepted", "perp_accepted"} ->
              ~SomeHappened({"accepted", "rfq_accepted", "perp_accepted", "submitted"})
         [] kind = "fee_quoted" -> ~Happened("submitted")
         [] kind = "submitted" ->
              ~SomeHappened({"accepted", "rfq_accepted", "perp_accepted", "fee_quoted"})
         [] kind \in {"gateway_prepared", "cancelled"} -> Happened("submitted")
         [] kind \in LoanOpening -> ~SomeHappened(LoanOpening)
         [] kind = "GatewayHubLiquidityReceived" -> Happened("GatewayHubTransferRequested")
         [] kind = "GatewayAtomicFxSwapSettled" -> Happened("GatewayAtomicFxSwapRequested")
         [] kind \in {"executed", "stranded"} -> ~SomeHappened(DepositStatus)
         [] kind = "swept" -> Happened("stranded")

Occur(kind) ==
    /\ May(kind)
    /\ history' = Append(history, [kind |-> kind, day |-> today])
    /\ Emit(<<[kind |-> kind]>>)
    /\ UNCHANGED <<request, context, loan, deposit>>

RequestDay ==
    /\ today < Days
    /\ today' = today + 1
    /\ UNCHANGED <<log, product, requestVars>>

-----------------------------------------------------------------------------
(* The handlers.                                                           *)

\* Mutant of UpsertRequest: the event's status replaces the row's.
ReplaceRequest(status, day) ==
    IF request = NoRow
    THEN [status |-> status, acceptedAt |-> day, cancelled |-> FALSE]
    ELSE [request EXCEPT !.status = status]

\* upsertRequest: the status goes up in rank only, a rank that is reached
\* keeps its first status, and the time is the first event's.
UpsertRequest(status, day) ==
    IF request = NoRow
    THEN [status |-> status, acceptedAt |-> day, cancelled |-> FALSE]
    ELSE IF StatusRank[request.status] >= StatusRank[status] THEN request
    ELSE [request EXCEPT !.status = status]

OnRequest(kind) ==
    /\ kind \in Upserting
    /\ Handling(kind) /\ Handled
    /\ request' = UpsertRequest(kind, ThisDay)
    /\ context' = (context \/ kind = "gateway_prepared")
    /\ UNCHANGED <<history, loan, deposit>>

OnTelaranaRequestCancelled ==
    /\ Handling("cancelled") /\ Handled
    /\ request' = IF request = NoRow
                  THEN [status |-> "cancelled", acceptedAt |-> ThisDay,
                        cancelled |-> TRUE]
                  ELSE [request EXCEPT !.status = "cancelled", !.cancelled = TRUE]
    /\ UNCHANGED <<history, context, loan, deposit>>

\* openLoan writes the whole row.
OpenLoan(kind) ==
    /\ kind \in LoanOpening
    /\ Handling(kind) /\ Handled
    /\ loan' = [status |-> "open", openedAt |-> ThisDay, known |-> TRUE]
    /\ UNCHANGED <<history, request, context, deposit>>

\* closeLoan: a loan that was never seen gets a row without amounts.
CloseLoan(kind) ==
    /\ kind \in LoanClosing
    /\ Handling(kind) /\ Handled
    /\ loan' = IF loan = NoRow
               THEN [status |-> "repaid", openedAt |-> ThisDay, known |-> FALSE]
               ELSE [loan EXCEPT !.status = "repaid"]
    /\ UNCHANGED <<history, request, context, deposit>>

\* upsertDeposit writes the whole row: only the last status keeps its time.
UpsertDeposit(status) ==
    /\ status \in DepositStatus
    /\ Handling(status) /\ Handled
    /\ deposit' = [status |-> status, executed |-> status = "executed",
                   stranded |-> status = "stranded", swept |-> status = "swept"]
    /\ UNCHANGED <<history, request, context, loan>>

RequestNext ==
    /\ product = "request"
    /\ \/ \E kind \in RequestEvents :
            \/ Occur(kind) \/ OnRequest(kind) \/ OpenLoan(kind)
            \/ CloseLoan(kind) \/ UpsertDeposit(kind)
       \/ RequestDay
       \/ OnTelaranaRequestCancelled

-----------------------------------------------------------------------------
(* Properties.                                                             *)

Times(kinds) == {k \in DOMAIN history : history[k].kind \in kinds}

FirstOf(kinds) == history[Min(Times(kinds))]

LastOf(kinds) == history[Max(Times(kinds))]

\* Once the indexer has caught up, each row shows the furthest state its
\* contract reached and the day it began: a quote that comes after the
\* acceptance does not take it back, nothing revives a cancelled request, and
\* a loan whose row was opened by a request keeps it when it is repaid.
RequestsFollowRouter ==
    CaughtUp =>
        /\ LET kinds == DOMAIN StatusRank IN
           /\ SomeHappened(kinds) <=> request # NoRow
           /\ SomeHappened(kinds) =>
                /\ \A k \in Times(kinds) :
                     StatusRank[history[k].kind] <= StatusRank[request.status]
                /\ Happened(request.status)
                /\ request.acceptedAt = FirstOf(kinds).day
                /\ request.cancelled <=> Happened("cancelled")
                /\ context <=> Happened("gateway_prepared")
        /\ LET kinds == LoanOpening \cup LoanClosing IN
           /\ SomeHappened(kinds) <=> loan # NoRow
           /\ SomeHappened(kinds) =>
                /\ loan.known /\ loan.openedAt = FirstOf(kinds).day
                /\ loan.status = "repaid" <=> SomeHappened(LoanClosing)
        /\ SomeHappened(DepositStatus) <=> deposit # NoRow
        /\ SomeHappened(DepositStatus) => deposit.status = LastOf(DepositStatus).kind
=============================================================================
