----------------------------- MODULE McpWorkflow -----------------------------
(***************************************************************************)
(* Workflows of the API's tools: packages/mcp runner.ts and state.ts over  *)
(* the workflow and receipt tables of packages/db, behind the routes of    *)
(* apps/api routes/mcp.ts and the payment gate of packages/x402.  A call   *)
(* holds, across its awaits, the copy of the workflow it has read, and     *)
(* writes it back whole.  What a tool computes is left out.                *)
(***************************************************************************)
EXTENDS Naturals, FiniteSets

CONSTANTS
    Workflows,    \* ids
    Tools,        \* names
    Signed,       \* tools that require a wallet signature
    Paid,         \* tools that require a payment
    Price,        \* [Paid -> Nat]: requiresPaymentUsdc
    Wallets,      \* the sessions' addresses
    Receipts,     \* [tool, payer, amount]: what the paid routes may issue
    Calls,        \* HTTP requests that may be under way together
    NoWallet, NoWorkflow, Idle

ASSUME McpWorkflowAssumption ==
    /\ Signed \subseteq Tools /\ Paid \subseteq Tools
    /\ Price \in [Paid -> Nat]
    /\ \A r \in Receipts : r.payer \in Wallets /\ r.amount \in Nat

VARIABLES
    workflow,     \* the workflow table
    receipts,     \* the receipt table
    call,         \* what each request is doing
    cut,          \* workflows whose execution a restart has cut off
    finished      \* workflows stored as completed or failed at some time

mcpVars == <<workflow, receipts, call, cut, finished>>

Statuses == {"draft", "pending_signature", "pending_payment", "running",
             "completed", "failed", "cancelled"}

Final == {"completed", "failed", "cancelled"}

\* Audit events that tell the gates apart.
Events == {"signature.accepted", "payment.accepted"}

Workflow == [tool : Tools, actor : Wallets \cup {NoWallet}, status : Statuses,
             required : Nat, audit : SUBSET Events]

\* A request under way, with its copy of the workflow.
Request == [step : {"verifying", "resuming", "executing"}, id : Workflows,
            copy : Workflow, signs : BOOLEAN]

ASSUME NothingAssumption ==
    NoWallet \notin Wallets /\ NoWorkflow \notin Workflow /\ Idle \notin Request

McpTypeOK ==
    /\ workflow \in [Workflows -> Workflow \cup {NoWorkflow}]
    /\ receipts \subseteq Receipts
    /\ call \in [Calls -> Request \cup {Idle}]
    /\ cut \subseteq Workflows /\ finished \subseteq Workflows

McpInit ==
    /\ workflow = [w \in Workflows |-> NoWorkflow]
    /\ receipts = {} /\ cut = {} /\ finished = {}
    /\ call = [c \in Calls |-> Idle]

-----------------------------------------------------------------------------
(* state.ts.                                                               *)

\* The table of transitions.
Allowed(from) ==
    CASE from = "draft" -> {"pending_signature", "pending_payment", "running", "cancelled"}
      [] from = "pending_signature" -> {"pending_payment", "running", "failed", "cancelled"}
      [] from = "pending_payment" -> {"running", "failed", "cancelled"}
      [] from = "running" -> {"completed", "failed", "cancelled"}
      [] OTHER -> {}

\* transition: asked of the copy at hand, not of the table.
Transition(s, to, events) == [s EXCEPT !.status = to, !.audit = @ \cup events]

CanTransition(s, to) == to \in Allowed(s.status)

-----------------------------------------------------------------------------
(* runner.ts.                                                              *)

Put(w, s) ==
    /\ workflow' = [workflow EXCEPT ![w] = s]
    /\ finished' = IF s.status \in Final THEN finished \cup {w} ELSE finished

\* What a call goes on with: nothing, or the tool of a running workflow.
Goes(c, w, s) ==
    call' = [call EXCEPT ![c] =
        IF s.status = "running"
        THEN [step |-> "executing", id |-> w, copy |-> s, signs |-> FALSE]
        ELSE Idle]

\* start, without a session where the tool wants no signature: nobody knows the
\* id before the call is answered or executes.
Start(c, w, tool, actor) ==
    LET draft == [tool |-> tool, actor |-> actor, status |-> "draft",
                  required |-> 0, audit |-> {}]
        next == IF tool \in Signed THEN Transition(draft, "pending_signature", {})
                ELSE IF tool \in Paid
                THEN [Transition(draft, "pending_payment", {}) EXCEPT !.required = Price[tool]]
                ELSE Transition(draft, "running", {})
    IN  /\ call[c] = Idle /\ workflow[w] = NoWorkflow
        /\ tool \in Signed => actor # NoWallet
        /\ Put(w, next)
        /\ Goes(c, w, next)
        /\ UNCHANGED <<receipts, cut>>

Resumable(w, status) == workflow[w] # NoWorkflow /\ workflow[w].status = status

\* resume with a signature: the copy is read, and verification awaited.
ResumeSigned(c, w) ==
    /\ call[c] = Idle /\ Resumable(w, "pending_signature")
    /\ call' = [call EXCEPT ![c] =
         [step |-> "verifying", id |-> w, copy |-> workflow[w], signs |-> TRUE]]
    /\ UNCHANGED <<workflow, receipts, cut, finished>>

\* Mutant of AfterSignature: the payment gate is forgotten.
RunAfterSignature(s) == Transition(s, "running", {"signature.accepted"})

\* A signed workflow's next gate.
AfterSignature(s) ==
    IF s.tool \in Paid
    THEN [Transition(s, "pending_payment", {"signature.accepted"})
            EXCEPT !.required = Price[s.tool]]
    ELSE Transition(s, "running", {"signature.accepted"})

SignatureAccepted(c) ==
    LET next == AfterSignature(call[c].copy) IN
    /\ call[c] # Idle /\ call[c].step = "verifying"
    /\ CanTransition(call[c].copy, next.status)
    /\ Put(call[c].id, next)
    /\ Goes(c, call[c].id, next)
    /\ UNCHANGED <<receipts, cut>>

\* Another wallet's signature, or none of this workflow.
SignatureRejected(c) ==
    /\ call[c] # Idle /\ call[c].step = "verifying"
    /\ call' = [call EXCEPT ![c] = Idle]
    /\ UNCHANGED <<workflow, receipts, cut, finished>>

\* POST /workflows/:id/run with a receipt, as the route checks it: without an
\* actor anybody's.
ReceiptFits(s, r) ==
    /\ r \in receipts
    /\ r.tool = s.tool /\ s.actor \in {NoWallet, r.payer}
    /\ r.amount >= s.required

\* The route awaits the receipt before it calls resume, which reads again.  The
\* body may hold a signature as well.
PresentReceipt(c, w, signs) ==
    /\ call[c] = Idle /\ workflow[w] # NoWorkflow
    /\ \E r \in Receipts : ReceiptFits(workflow[w], r)
    /\ call' = [call EXCEPT ![c] =
         [step |-> "resuming", id |-> w, copy |-> workflow[w], signs |-> signs]]
    /\ UNCHANGED <<workflow, receipts, cut, finished>>

\* resume, of a request with a receipt.
ResumePaid(c) ==
    /\ call[c] # Idle /\ call[c].step = "resuming"
    /\ LET w == call[c].id
           s == workflow[w]
           next == Transition(s, "running", {"payment.accepted"})
       IN  CASE s.status = "pending_signature" /\ call[c].signs ->
                  /\ call' = [call EXCEPT ![c].step = "verifying", ![c].copy = s]
                  /\ UNCHANGED <<workflow, finished>>
             [] s.status = "pending_payment" -> Put(w, next) /\ Goes(c, w, next)
             [] OTHER -> call' = [call EXCEPT ![c] = Idle] /\ UNCHANGED <<workflow, finished>>
    /\ UNCHANGED <<receipts, cut>>

\* Mutant of ExecutionEnds: a tool's exception is passed on and not stored.
ExecutionUnstored(c, status) ==
    /\ call[c] # Idle /\ call[c].step = "executing"
    /\ IF status = "completed"
       THEN Put(call[c].id, Transition(call[c].copy, status, {}))
       ELSE UNCHANGED <<workflow, finished>>
    /\ call' = [call EXCEPT ![c] = Idle]
    /\ UNCHANGED <<receipts, cut>>

\* runExecution, once the tool has returned or thrown: the copy the call began
\* with is written back.
ExecutionEnds(c, status) ==
    /\ call[c] # Idle /\ call[c].step = "executing"
    /\ CanTransition(call[c].copy, status)
    /\ Put(call[c].id, Transition(call[c].copy, status, {}))
    /\ call' = [call EXCEPT ![c] = Idle]
    /\ UNCHANGED <<receipts, cut>>

\* paymentRequired: a payment that settles leaves a receipt.
Pay(r) ==
    /\ receipts' = receipts \cup {r}
    /\ UNCHANGED <<workflow, call, cut, finished>>

\* The API restarts: its tables stay, its calls do not, and nothing takes up a
\* workflow that was running.
Restart ==
    /\ \E c \in Calls : call[c] # Idle
    /\ cut' = cut \cup {call[c].id : c \in {d \in Calls : call[d] # Idle}}
    /\ call' = [c \in Calls |-> Idle]
    /\ UNCHANGED <<workflow, receipts, finished>>

McpNext ==
    \/ Restart
    \/ \E r \in Receipts : Pay(r)
    \/ \E c \in Calls :
         \/ SignatureAccepted(c) \/ SignatureRejected(c) \/ ResumePaid(c)
         \/ \E status \in {"completed", "failed"} : ExecutionEnds(c, status)
         \/ \E w \in Workflows :
              \/ ResumeSigned(c, w)
              \/ \E signs \in BOOLEAN : PresentReceipt(c, w, signs)
              \/ \E tool \in Tools, actor \in Wallets \cup {NoWallet} : Start(c, w, tool, actor)

-----------------------------------------------------------------------------
(* Properties.                                                             *)

Gates(tool) ==
    (IF tool \in Signed THEN {"signature.accepted"} ELSE {}) \cup
    (IF tool \in Paid THEN {"payment.accepted"} ELSE {})

\* "AI tools never bypass the gates": a workflow that runs or has run shows, in
\* the audit stored with it, every gate its tool has, although calls that race
\* overwrite each other's copies.
GatesAreAudited ==
    \A w \in Workflows :
        workflow[w] # NoWorkflow /\ workflow[w].status \in {"running", "completed", "failed"}
            => Gates(workflow[w].tool) \subseteq workflow[w].audit

\* A workflow stored as running is being executed by a call, unless a restart
\* has cut one off: no race, failure or late write strands it.
RunningIsExecuted ==
    \A w \in Workflows \ cut :
        Resumable(w, "running") =>
            \E c \in Calls : call[c] # Idle /\ call[c].step = "executing" /\ call[c].id = w

\* "disallows completed -> anything" (state.test.ts, of the table of
\* transitions): a workflow once stored as completed or failed stays so.
FinishedStaysFinished ==
    \A w \in finished : workflow[w].status \in Final
=============================================================================
