----------------------------- MODULE AgentsProofs -----------------------------
(***************************************************************************)
(* Proofs about the workflows of the API's tools and about the gateway,    *)
(* for every set of tools, wallets, receipts, agents and requests.         *)
(***************************************************************************)
EXTENDS Agents, TLAPS

-----------------------------------------------------------------------------
(* Workflows.                                                              *)

\* What a state of a workflow, in the table or in the copy of a call, shows in
\* its audit of the gates it has passed.
Audited(s) ==
    /\ s.status \in {"running", "completed", "failed"} => Gates(s.tool) \subseteq s.audit
    /\ s.status = "pending_payment" /\ s.tool \in Signed => "signature.accepted" \in s.audit

\* The copies a call works on were read or written in the status it needs.
CopyOK(r) ==
    /\ r.step = "verifying" => r.copy.status = "pending_signature"
    /\ r.step = "executing" => r.copy.status = "running"
    /\ Audited(r.copy)

Executing(w) ==
    \E c \in Calls : call[c] # Idle /\ call[c].step = "executing" /\ call[c].id = w

WorkflowInv ==
    /\ McpTypeOK
    /\ \A w \in Workflows : workflow[w] # NoWorkflow => Audited(workflow[w])
    /\ \A c \in Calls : call[c] # Idle => CopyOK(call[c]) /\ workflow[call[c].id] # NoWorkflow
    /\ \A w \in Workflows \ cut : Resumable(w, "running") => Executing(w)

LEMMA TransitionOK ==
  ASSUME NEW s \in Workflow, NEW to \in Statuses, NEW events \in SUBSET Events
  PROVE  /\ Transition(s, to, events) \in Workflow
         /\ Transition(s, to, events).status = to
         /\ Transition(s, to, events).tool = s.tool
         /\ Transition(s, to, events).audit = s.audit \cup events
BY DEF Transition, Workflow

LEMMA PaymentType ==
  ASSUME NEW s \in Workflow, s.tool \in Paid
  PROVE  /\ [s EXCEPT !.required = Price[s.tool]] \in Workflow
         /\ [s EXCEPT !.required = Price[s.tool]].status = s.status
         /\ [s EXCEPT !.required = Price[s.tool]].tool = s.tool
         /\ [s EXCEPT !.required = Price[s.tool]].audit = s.audit
BY McpWorkflowAssumption DEF Workflow

\* A call writes a state and goes on with it: with the tool, if it runs.
LEMMA PutAndGo ==
  ASSUME WorkflowInv, NEW c \in Calls, NEW w \in Workflows, NEW s \in Workflow, Audited(s),
         call[c] # Idle => call[c].step # "executing" \/ call[c].id = w,
         Put(w, s), Goes(c, w, s), UNCHANGED <<receipts, cut>>
  PROVE  WorkflowInv'
<1>1. workflow' = [workflow EXCEPT ![w] = s] /\ finished' \subseteq Workflows
  BY DEF Put, WorkflowInv, McpTypeOK
<1> DEFINE r == [step |-> "executing", id |-> w, copy |-> s, signs |-> FALSE]
<1>2. r \in Request
  BY DEF Request
<1>3. call' = [call EXCEPT ![c] = IF s.status = "running" THEN r ELSE Idle]
  BY DEF Goes
<1>4. McpTypeOK'
  BY <1>1, <1>2, <1>3 DEF WorkflowInv, McpTypeOK
<1>5. \A v \in Workflows : workflow'[v] # NoWorkflow => Audited(workflow'[v])
  BY <1>1 DEF WorkflowInv, McpTypeOK
<1>6. ASSUME NEW d \in Calls, call'[d] # Idle
      PROVE  CopyOK(call'[d]) /\ workflow'[call'[d].id] # NoWorkflow
  <2>1. CASE d = c
    BY <1>1, <1>3, <1>6, <2>1, NothingAssumption DEF WorkflowInv, McpTypeOK, CopyOK
  <2>2. CASE d # c
    BY <1>1, <1>3, <1>6, <2>2, NothingAssumption DEF WorkflowInv, McpTypeOK, Request
  <2>3. QED
    BY <2>1, <2>2
<1>7. ASSUME NEW v \in Workflows \ cut, Resumable(v, "running")' PROVE Executing(v)'
  <2>1. CASE v = w
    <3>1. call'[c] = r
      BY <1>1, <1>3, <1>7, <2>1 DEF Resumable, WorkflowInv, McpTypeOK
    <3>2. QED
      BY <1>2, <2>1, <3>1, NothingAssumption DEF Executing
  <2>2. CASE v # w
    <3>1. Resumable(v, "running")
      BY <1>1, <1>7, <2>2 DEF Resumable, WorkflowInv, McpTypeOK
    <3>2. PICK d \in Calls : call[d] # Idle /\ call[d].step = "executing" /\ call[d].id = v
      BY <3>1, <1>7 DEF WorkflowInv, Executing
    <3>3. d # c
      BY <2>2, <3>2
    <3>4. QED
      BY <1>3, <3>2, <3>3 DEF Executing, WorkflowInv, McpTypeOK
  <2>3. QED
    BY <2>1, <2>2
<1>8. QED
  BY <1>4, <1>5, <1>6, <1>7 DEF WorkflowInv

\* A call that executes nothing reads, or gives up.
LEMMA OnlyTheCall ==
  ASSUME WorkflowInv, NEW c \in Calls, NEW r \in Request \cup {Idle},
         call[c] # Idle => call[c].step # "executing",
         r # Idle => CopyOK(r) /\ workflow[r.id] # NoWorkflow,
         call' = [call EXCEPT ![c] = r],
         UNCHANGED <<workflow, receipts, cut, finished>>
  PROVE  WorkflowInv'
<1>1. McpTypeOK'
  BY DEF WorkflowInv, McpTypeOK
<1>2. \A v \in Workflows : workflow'[v] # NoWorkflow => Audited(workflow'[v])
  BY DEF WorkflowInv
<1>3. \A d \in Calls : call'[d] # Idle => CopyOK(call'[d]) /\ workflow'[call'[d].id] # NoWorkflow
  BY DEF WorkflowInv, McpTypeOK
<1>4. ASSUME NEW v \in Workflows \ cut, Resumable(v, "running") PROVE Executing(v)'
  <2>1. PICK d \in Calls : call[d] # Idle /\ call[d].step = "executing" /\ call[d].id = v
    BY <1>4 DEF WorkflowInv, Executing
  <2>2. QED
    BY <2>1 DEF Executing, WorkflowInv, McpTypeOK
<1>5. QED
  BY <1>1, <1>2, <1>3, <1>4 DEF WorkflowInv, Resumable

LEMMA StartStep ==
  ASSUME WorkflowInv, NEW c \in Calls, NEW w \in Workflows, NEW tool \in Tools,
         NEW actor \in Wallets \cup {NoWallet}, Start(c, w, tool, actor)
  PROVE  WorkflowInv'
<1> DEFINE draft == [tool |-> tool, actor |-> actor, status |-> "draft",
                     required |-> 0, audit |-> {}]
           next == IF tool \in Signed THEN Transition(draft, "pending_signature", {})
                   ELSE IF tool \in Paid
                   THEN [Transition(draft, "pending_payment", {}) EXCEPT !.required = Price[tool]]
                   ELSE Transition(draft, "running", {})
<1>1. draft \in Workflow
  BY DEF Workflow, Statuses
<1>2. next \in Workflow /\ Audited(next)
  <2>1. CASE tool \in Signed
    BY <1>1, <2>1, TransitionOK DEF Statuses, Audited
  <2>2. CASE tool \notin Signed /\ tool \in Paid
    <3> DEFINE t == Transition(draft, "pending_payment", {})
    <3>1. t \in Workflow /\ t.tool = tool /\ t.status = "pending_payment"
      BY <1>1, TransitionOK DEF Statuses
    <3>2. next = [t EXCEPT !.required = Price[t.tool]]
      BY <2>2, <3>1
    <3>3. QED
      BY <2>2, <3>1, <3>2, PaymentType DEF Audited
  <2>3. CASE tool \notin Signed /\ tool \notin Paid
    <3> DEFINE t == Transition(draft, "running", {})
    <3>1. t \in Workflow /\ t.tool = tool /\ t.status = "running"
      BY <1>1, TransitionOK DEF Statuses
    <3>2. Gates(t.tool) = {}
      BY <2>3, <3>1 DEF Gates
    <3>3. next = t
      BY <2>3
    <3>4. QED
      BY <3>1, <3>2, <3>3 DEF Audited
  <2>4. QED
    BY <2>1, <2>2, <2>3
<1>3. Put(w, next) /\ Goes(c, w, next) /\ call[c] = Idle /\ UNCHANGED <<receipts, cut>>
  BY DEF Start
<1>4. QED
  BY <1>2, <1>3, PutAndGo

LEMMA AcceptedStep ==
  ASSUME WorkflowInv, NEW c \in Calls, SignatureAccepted(c)
  PROVE  WorkflowInv'
<1> DEFINE s == call[c].copy
           t == Transition(s, "pending_payment", {"signature.accepted"})
<1>1. call[c] \in Request /\ call[c].step = "verifying" /\ s \in Workflow
      /\ s.status = "pending_signature" /\ call[c].id \in Workflows
  BY DEF SignatureAccepted, WorkflowInv, McpTypeOK, CopyOK, Request
<1>2. AfterSignature(s) \in Workflow /\ Audited(AfterSignature(s))
  <2>1. CASE s.tool \in Paid
    <3>1. t \in Workflow /\ t.tool = s.tool /\ t.status = "pending_payment"
          /\ "signature.accepted" \in t.audit
      BY <1>1, TransitionOK DEF Statuses, Events
    <3>2. AfterSignature(s) = [t EXCEPT !.required = Price[t.tool]]
      BY <2>1, <3>1 DEF AfterSignature
    <3>3. QED
      BY <2>1, <3>1, <3>2, PaymentType DEF Audited
  <2>2. CASE s.tool \notin Paid
    <3>1. AfterSignature(s) = Transition(s, "running", {"signature.accepted"})
      BY <2>2 DEF AfterSignature
    <3>2. QED
      BY <1>1, <2>2, <3>1, TransitionOK DEF Statuses, Events, Audited, Gates
  <2>3. QED
    BY <2>1, <2>2
<1>3. QED
  BY <1>1, <1>2, PutAndGo DEF SignatureAccepted

LEMMA PaidStep ==
  ASSUME WorkflowInv, NEW c \in Calls, ResumePaid(c)
  PROVE  WorkflowInv'
<1> DEFINE w == call[c].id
           s == workflow[w]
           next == Transition(s, "running", {"payment.accepted"})
<1>1. call[c] \in Request /\ call[c].step = "resuming" /\ w \in Workflows /\ CopyOK(call[c])
      /\ s # NoWorkflow /\ s \in Workflow
  BY DEF ResumePaid, WorkflowInv, McpTypeOK, Request
<1>2. CASE s.status = "pending_signature" /\ call[c].signs
  <2> DEFINE r == [call[c] EXCEPT !.step = "verifying", !.copy = s]
  <2>1. r \in Request /\ r.step = "verifying" /\ r.copy = s /\ r.id = w
    BY <1>1, <1>2 DEF Request
  <2>2. call' = [call EXCEPT ![c] = r] /\ UNCHANGED <<workflow, finished, receipts, cut>>
    BY <1>1, <1>2 DEF ResumePaid, WorkflowInv, McpTypeOK, Request
  <2>3. CopyOK(r)
    BY <1>1, <1>2, <2>1 DEF CopyOK, WorkflowInv
  <2>4. QED
    BY <1>1, <2>1, <2>2, <2>3, OnlyTheCall
<1>3. CASE s.status = "pending_payment"
  <2>1. Audited(s)
    BY <1>1, <1>3 DEF WorkflowInv
  <2>2. next \in Workflow /\ next.status = "running" /\ next.tool = s.tool
        /\ next.audit = s.audit \cup {"payment.accepted"}
    BY <1>1, <1>3, TransitionOK DEF Statuses, Events
  <2>3. Audited(next)
    BY <1>3, <2>1, <2>2 DEF Audited, Gates
  <2>4. Put(w, next) /\ Goes(c, w, next) /\ UNCHANGED <<receipts, cut>>
    BY <1>3 DEF ResumePaid
  <2>5. QED
    BY <1>1, <2>2, <2>3, <2>4, PutAndGo
<1>4. CASE call' = [call EXCEPT ![c] = Idle] /\ UNCHANGED <<workflow, finished, receipts, cut>>
  BY <1>1, <1>4, OnlyTheCall
<1>5. QED
  BY <1>1, <1>2, <1>3, <1>4 DEF ResumePaid, WorkflowInv, McpTypeOK

LEMMA EndStep ==
  ASSUME WorkflowInv, NEW c \in Calls, NEW to \in {"completed", "failed"}, ExecutionEnds(c, to)
  PROVE  WorkflowInv'
<1> DEFINE next == Transition(call[c].copy, to, {})
           w == call[c].id
<1>1. /\ call[c] \in Request /\ call[c].step = "executing" /\ call[c].copy \in Workflow
      /\ w \in Workflows /\ call[c].copy.status = "running" /\ Audited(call[c].copy)
  BY DEF ExecutionEnds, WorkflowInv, McpTypeOK, CopyOK, Request
<1>2. next \in Workflow /\ next.status = to /\ next.tool = call[c].copy.tool
      /\ next.audit = call[c].copy.audit
  <2>1. to \in Statuses
    BY DEF Statuses
  <2>2. /\ Transition(call[c].copy, to, {}) \in Workflow
        /\ Transition(call[c].copy, to, {}).status = to
        /\ Transition(call[c].copy, to, {}).tool = call[c].copy.tool
        /\ Transition(call[c].copy, to, {}).audit = call[c].copy.audit \cup {}
    BY <1>1, <2>1, TransitionOK, Zenon
  <2>3. QED
    BY <2>2
<1>3. Audited(next)
  BY <1>1, <1>2 DEF Audited
<1>4. Put(w, next) /\ Goes(c, w, next) /\ UNCHANGED <<receipts, cut>>
  BY <1>2 DEF ExecutionEnds, Goes
<1>5. QED
  BY <1>1, <1>2, <1>3, <1>4, PutAndGo

LEMMA ReadStep ==
  ASSUME WorkflowInv, NEW c \in Calls, NEW w \in Workflows,
         \/ ResumeSigned(c, w) \/ SignatureRejected(c)
         \/ \E signs \in BOOLEAN : PresentReceipt(c, w, signs)
  PROVE  WorkflowInv'
<1>1. CASE ResumeSigned(c, w)
  <2> DEFINE r == [step |-> "verifying", id |-> w, copy |-> workflow[w], signs |-> TRUE]
  <2>1. r \in Request /\ CopyOK(r) /\ workflow[r.id] # NoWorkflow
    BY <1>1 DEF ResumeSigned, Resumable, WorkflowInv, McpTypeOK, Request, CopyOK
  <2>2. QED
    BY <1>1, <2>1, OnlyTheCall DEF ResumeSigned
<1>2. CASE SignatureRejected(c)
  BY <1>2, OnlyTheCall DEF SignatureRejected
<1>3. ASSUME NEW signs \in BOOLEAN, PresentReceipt(c, w, signs)
      PROVE  WorkflowInv'
  <2> DEFINE r == [step |-> "resuming", id |-> w, copy |-> workflow[w], signs |-> signs]
  <2>1. r \in Request
    BY <1>3 DEF PresentReceipt, WorkflowInv, McpTypeOK, Request
  <2>2. CopyOK(r) /\ workflow[r.id] # NoWorkflow
    BY <1>3 DEF PresentReceipt, WorkflowInv, CopyOK
  <2>3. QED
    BY <1>3, <2>1, <2>2, OnlyTheCall DEF PresentReceipt
<1>4. QED
  BY <1>1, <1>2, <1>3

LEMMA McpStep ==
  ASSUME WorkflowInv, [McpNext]_mcpVars
  PROVE  WorkflowInv'
<1>1. CASE Restart
  <2>1. call' = [c \in Calls |-> Idle] /\ UNCHANGED <<workflow, receipts, finished>>
        /\ cut' = cut \cup {call[c].id : c \in {d \in Calls : call[d] # Idle}}
    BY <1>1 DEF Restart
  <2>2. McpTypeOK'
    BY <2>1 DEF WorkflowInv, McpTypeOK, Request
  <2>3. ASSUME NEW w \in Workflows \ cut', Resumable(w, "running") PROVE FALSE
    <3>1. PICK c \in Calls : call[c] # Idle /\ call[c].id = w
      BY <2>1, <2>3 DEF WorkflowInv, Executing
    <3>2. QED
      BY <2>1, <2>3, <3>1
  <2>4. QED
    BY <2>1, <2>2, <2>3 DEF WorkflowInv, Resumable
<1>2. ASSUME NEW r \in Receipts, Pay(r) PROVE WorkflowInv'
  BY <1>2 DEF Pay, WorkflowInv, McpTypeOK, Executing, Resumable
<1>3. ASSUME NEW c \in Calls, SignatureAccepted(c) \/ ResumePaid(c) PROVE WorkflowInv'
  BY <1>3, AcceptedStep, PaidStep
<1>4. ASSUME NEW c \in Calls, NEW to \in {"completed", "failed"}, ExecutionEnds(c, to)
      PROVE  WorkflowInv'
  BY <1>4, EndStep
<1>5. ASSUME NEW c \in Calls, SignatureRejected(c) PROVE WorkflowInv'
  BY <1>5, OnlyTheCall DEF SignatureRejected
<1>6. ASSUME NEW c \in Calls, NEW w \in Workflows,
             ResumeSigned(c, w) \/ \E signs \in BOOLEAN : PresentReceipt(c, w, signs)
      PROVE  WorkflowInv'
  BY <1>6, ReadStep
<1>7. ASSUME NEW c \in Calls, NEW w \in Workflows, NEW tool \in Tools,
             NEW actor \in Wallets \cup {NoWallet}, Start(c, w, tool, actor)
      PROVE  WorkflowInv'
  BY <1>7, StartStep
<1>8. CASE UNCHANGED mcpVars
  BY <1>8 DEF mcpVars, WorkflowInv, McpTypeOK, Executing, Resumable
<1>9. QED
  BY <1>1, <1>2, <1>3, <1>4, <1>5, <1>6, <1>7, <1>8 DEF McpNext

LEMMA WorkflowInvariant == Spec => []WorkflowInv
<1>1. Init => WorkflowInv
  BY DEF Init, McpInit, WorkflowInv, McpTypeOK, Resumable
<1>2. WorkflowInv /\ [Next]_vars => WorkflowInv'
  <2>1. [Next]_vars => [McpNext]_mcpVars
    BY DEF Next, vars, mcpVars
  <2>2. QED
    BY <2>1, McpStep
<1>3. QED
  BY <1>1, <1>2, PTL DEF Spec

\* runner.ts: a workflow runs, has run or has failed in its tool only behind
\* every gate of the tool, although calls write back copies they read before.
THEOREM WorkflowGatesAreAudited == Spec => []GatesAreAudited
<1>1. WorkflowInv => GatesAreAudited
  BY DEF WorkflowInv, Audited, GatesAreAudited
<1>2. QED
  BY <1>1, WorkflowInvariant, PTL

\* runner.ts, runExecution: only a restart leaves a workflow running for good.
THEOREM WorkflowRunningIsExecuted == Spec => []RunningIsExecuted
<1>1. WorkflowInv => RunningIsExecuted
  BY DEF WorkflowInv, Executing, RunningIsExecuted
<1>2. QED
  BY <1>1, WorkflowInvariant, PTL

-----------------------------------------------------------------------------
(* The gateway.                                                            *)

\* Whoever holds a key's lock is past the check and not yet answered.
LockIsHeld ==
    \A a \in HttpAgents : lock[a] # None =>
        /\ request[lock[a]] # Free
        /\ request[lock[a]].agent = a /\ request[lock[a]].step # "hashing"

\* What is late has disturbed its agent; what is being unlocked has left an
\* answer, or has thrown.
LeavesTrace(r) ==
    /\ r.late => r.agent \in disturbed
    /\ r.step = "unlocking" => r.agent \in HttpAgents \cap (stored \cup disturbed)

\* An order that has begun is stored or still locked, and so begins once.
BegunIsKnown ==
    \A a \in HttpAgents \ disturbed :
        \/ begun[a] = 0
        \/ begun[a] = 1 /\ (a \in stored \/ lock[a] # None)

GatewayInv ==
    /\ request \in [Slots -> Pending \cup {Free}]
    /\ lock \in [HttpAgents -> Slots \cup {None}]
    /\ begun \in [Agents -> Nat]
    /\ \A s \in Slots : request[s] # Free => LeavesTrace(request[s])
    /\ LockIsHeld
    /\ BegunIsKnown

LEMMA SendStep ==
  ASSUME GatewayInv, NEW s \in Slots, NEW a \in Agents, Send(s, a)
  PROVE  GatewayInv'
<1> DEFINE hashing == [agent |-> a, step |-> "hashing", late |-> FALSE]
           executing == [agent |-> a, step |-> "executing", late |-> FALSE]
<1>1. request[s] = Free /\ UNCHANGED <<stored, lock, disturbed>>
  BY DEF Send
<1>2. CASE UNCHANGED <<request, begun>>
  BY <1>1, <1>2 DEF GatewayInv, LeavesTrace, LockIsHeld, BegunIsKnown
<1>3. CASE a \in McpAgents /\ Executes(s, a)
  <2>1. executing \in Pending /\ executing # Free /\ a \notin HttpAgents
    <3>1. executing \in Pending
      BY DEF Pending
    <3>2. QED
      BY <1>3, <3>1, FreeAssumption, HyperGatewayAssumption
  <2>2. request' = [request EXCEPT ![s] = executing] /\ begun' = [begun EXCEPT ![a] = @ + 1]
    BY <1>3 DEF Executes
  <2>3. QED
    BY <1>1, <2>1, <2>2 DEF GatewayInv, LeavesTrace, LockIsHeld, BegunIsKnown, Agents
<1>4. CASE request' = [request EXCEPT ![s] = hashing] /\ UNCHANGED begun
  <2>1. hashing \in Pending /\ hashing # Free
    <3>1. hashing \in Pending
      BY DEF Pending
    <3>2. QED
      BY <3>1, FreeAssumption
  <2>2. QED
    BY <1>1, <1>4, <2>1 DEF GatewayInv, LeavesTrace, LockIsHeld, BegunIsKnown
<1>5. QED
  BY <1>2, <1>3, <1>4 DEF Send

LEMMA CheckStep ==
  ASSUME GatewayInv, NEW s \in Slots, Check(s)
  PROVE  GatewayInv'
<1> DEFINE a == request[s].agent
           executing == [agent |-> a, step |-> "executing", late |-> FALSE]
<1>1. /\ request[s] # Free /\ request[s].step = "hashing" /\ a \in Agents
      /\ UNCHANGED <<stored, disturbed>>
  BY DEF Check, GatewayInv, Pending
<1>2. CASE Answers(s) /\ UNCHANGED <<lock, begun>>
  BY <1>1, <1>2 DEF Answers, GatewayInv, LeavesTrace, LockIsHeld, BegunIsKnown
<1>3. CASE a \notin stored /\ ~Conflict(a) /\ Executes(s, a) /\ lock' = [lock EXCEPT ![a] = s]
  <2>1. executing \in Pending /\ executing # Free /\ lock[a] = None
    <3>1. executing \in Pending
      BY <1>1 DEF Pending
    <3>2. QED
      BY <1>3, <3>1, FreeAssumption DEF Conflict
  <2>2. request' = [request EXCEPT ![s] = executing] /\ begun' = [begun EXCEPT ![a] = @ + 1]
    BY <1>3 DEF Executes
  <2>3. LockIsHeld'
    BY <1>1, <1>3, <2>1, <2>2, HyperGatewayAssumption DEF GatewayInv, LockIsHeld
  <2>4. BegunIsKnown'
    BY <1>1, <1>3, <2>1, <2>2, HyperGatewayAssumption DEF GatewayInv, BegunIsKnown, Agents
  <2>5. (\A t \in Slots : request[t] # Free => LeavesTrace(request[t]))'
    BY <1>1, <2>1, <2>2 DEF GatewayInv, LeavesTrace
  <2>6. request' \in [Slots -> Pending \cup {Free}]
    BY <2>1, <2>2 DEF GatewayInv
  <2>7. lock' \in [HttpAgents -> Slots \cup {None}]
    BY <1>3 DEF GatewayInv
  <2>8. begun' \in [Agents -> Nat]
    BY <1>1, <2>2 DEF GatewayInv
  <2>9. QED
    BY <2>3, <2>4, <2>5, <2>6, <2>7, <2>8 DEF GatewayInv
<1>4. QED
  BY <1>2, <1>3 DEF Check

LEMMA HandlerStep ==
  ASSUME GatewayInv, NEW s \in Slots, HandlerReturns(s) \/ HandlerThrows(s)
  PROVE  GatewayInv'
<1> DEFINE a == request[s].agent
           unlocking == [request[s] EXCEPT !.step = "unlocking"]
<1>1. /\ request[s] # Free /\ request[s] \in Pending /\ a \in Agents
      /\ LeavesTrace(request[s]) /\ UNCHANGED <<lock, begun>>
  BY DEF HandlerReturns, HandlerThrows, GatewayInv, Pending
<1>2. stored \subseteq stored' /\ disturbed \subseteq disturbed'
  BY DEF HandlerReturns, HandlerThrows
<1>3. CASE a \in McpAgents /\ Answers(s)
  <2>1. a \notin HttpAgents
    BY <1>3, HyperGatewayAssumption
  <2>2. QED
    BY <1>1, <1>2, <1>3, <2>1 DEF Answers, GatewayInv, LeavesTrace, LockIsHeld, BegunIsKnown
<1>4. CASE /\ a \in HttpAgents /\ a \in stored' \cup disturbed'
           /\ request' = [request EXCEPT ![s] = unlocking]
  <2>1. /\ unlocking \in Pending /\ unlocking # Free /\ unlocking.agent = a
        /\ unlocking.step = "unlocking" /\ unlocking.late = request[s].late
    BY <1>1, FreeAssumption DEF Pending
  <2>2. QED
    BY <1>1, <1>2, <1>4, <2>1 DEF GatewayInv, LeavesTrace, LockIsHeld, BegunIsKnown
<1>5. QED
  BY <1>1, <1>3, <1>4 DEF HandlerReturns, HandlerThrows, Agents

LEMMA UnlockStep ==
  ASSUME GatewayInv, NEW s \in Slots, Unlock(s)
  PROVE  GatewayInv'
<1> DEFINE a == request[s].agent
<1>1. /\ request[s] # Free /\ a \in HttpAgents /\ a \in stored \cup disturbed
      /\ lock' = [lock EXCEPT ![a] = None] /\ request' = [request EXCEPT ![s] = Free]
      /\ UNCHANGED <<stored, disturbed, begun>>
  BY DEF Unlock, Answers, GatewayInv, LeavesTrace
<1>2. QED
  BY <1>1 DEF GatewayInv, LeavesTrace, LockIsHeld, BegunIsKnown

LEMMA TimerStep ==
  ASSUME GatewayInv,
         \/ \E s \in Slots : TimesOut(s)
         \/ \E a \in HttpAgents : LockExpires(a)
  PROVE  GatewayInv'
<1>1. ASSUME NEW s \in Slots, TimesOut(s) PROVE GatewayInv'
  <2> DEFINE late == [request[s] EXCEPT !.late = TRUE]
  <2>1. /\ request[s] # Free /\ request[s] \in Pending /\ request[s].step = "executing"
        /\ request' = [request EXCEPT ![s] = late]
        /\ disturbed' = disturbed \cup {request[s].agent}
        /\ UNCHANGED <<stored, lock, begun>>
    BY <1>1 DEF TimesOut, GatewayInv
  <2>2. /\ late \in Pending /\ late # Free /\ late.agent = request[s].agent
        /\ late.step = "executing"
    BY <2>1, FreeAssumption DEF Pending
  <2>3. QED
    BY <2>1, <2>2 DEF GatewayInv, LeavesTrace, LockIsHeld, BegunIsKnown
<1>2. ASSUME NEW a \in HttpAgents, LockExpires(a) PROVE GatewayInv'
  <2>1. a \in disturbed
    BY <1>2 DEF LockExpires, GatewayInv, LeavesTrace, LockIsHeld
  <2>2. QED
    BY <1>2, <2>1 DEF LockExpires, GatewayInv, LeavesTrace, LockIsHeld, BegunIsKnown
<1>3. QED
  BY <1>1, <1>2

LEMMA GatewayStep ==
  ASSUME GatewayInv, [GatewayNext]_gatewayVars
  PROVE  GatewayInv'
<1>1. ASSUME NEW c \in Callers, WindowEnds(c) PROVE GatewayInv'
  BY <1>1 DEF WindowEnds, GatewayInv, LeavesTrace, LockIsHeld, BegunIsKnown
<1>2. CASE UNCHANGED gatewayVars
  BY <1>2 DEF gatewayVars, GatewayInv, LeavesTrace, LockIsHeld, BegunIsKnown
<1>3. QED
  BY <1>1, <1>2, SendStep, CheckStep, HandlerStep, UnlockStep, TimerStep DEF GatewayNext

\* hyper/core, idempotency: however an agent's repetitions of a request
\* interleave, its order is executed once, unless a request timed out or threw.
THEOREM GatewayExecutesOnce == Spec => []ExecutedOnce
<1>1. Init => GatewayInv
  BY DEF Init, GatewayInit, GatewayInv, LeavesTrace, LockIsHeld, BegunIsKnown, Agents
<1>2. GatewayInv /\ [Next]_vars => GatewayInv'
  <2>1. [Next]_vars => [GatewayNext]_gatewayVars
    BY DEF Next, vars, gatewayVars
  <2>2. QED
    BY <2>1, GatewayStep
<1>3. GatewayInv => ExecutedOnce
  BY DEF GatewayInv, BegunIsKnown, ExecutedOnce, Agents
<1>4. QED
  BY <1>1, <1>2, <1>3, PTL DEF Spec

-----------------------------------------------------------------------------
(* The lending intents.                                                    *)

\* A post's copy is of an intent that is still there; only its signer may have
\* changed.  So an intent that has been verified meanwhile holds the nonce of
\* the copy, and the store's nonce has moved beyond it.
CopyIsOf(r) ==
    /\ intent[r.id] # NoIntent
    /\ intent[r.id].scope = r.copy.scope /\ intent[r.id].nonce = r.copy.nonce

IntentInv ==
    /\ IntentTypeOK
    /\ \A p \in Posts : post[p] # Nothing => CopyIsOf(post[p])
    /\ NoncesSpentInOrder

LEMMA MaxNonceType == MaxNonce \in Nat
BY LendingIntentsAssumption

LEMMA CreateStep ==
  ASSUME IntentInv, NEW i \in Ids, NEW s \in Scopes, NEW n \in 0..MaxNonce,
         CreateIntent(i, s, n)
  PROVE  IntentInv'
<1> DEFINE new == [scope |-> s, nonce |-> n, signer |-> Nothing]
<1>1. new \in Intent
  BY DEF Intent
<1>2. new # NoIntent
  BY <1>1, AbsenceAssumption
<1>3. intent[i] = NoIntent /\ intent' = [intent EXCEPT ![i] = new] /\ UNCHANGED <<nextNonce, post>>
  BY DEF CreateIntent
<1>4. IntentTypeOK'
  BY <1>1, <1>3 DEF IntentInv, IntentTypeOK
<1>5. (\A p \in Posts : post[p] # Nothing => CopyIsOf(post[p]))'
  BY <1>3 DEF IntentInv, IntentTypeOK, CopyIsOf, Post
<1>6. \A t \in Scopes : Verified(t)' = Verified(t) /\ i \notin Verified(t)
  BY <1>2, <1>3 DEF IntentInv, IntentTypeOK, Verified
<1>7. \A t \in Scopes : \A j \in Verified(t) : intent'[j] = intent[j]
  BY <1>3, <1>6 DEF IntentInv, IntentTypeOK, Verified
<1>8. NoncesSpentInOrder'
  BY <1>3, <1>6, <1>7 DEF IntentInv, NoncesSpentInOrder
<1>9. QED
  BY <1>4, <1>5, <1>8 DEF IntentInv

LEMMA VerifiedStep ==
  ASSUME IntentInv, NEW p \in Posts, SignatureVerified(p)
  PROVE  IntentInv'
<1> DEFINE r == post[p]
           i == r.id
           s == r.copy.scope
           n == r.copy.nonce
           new == [r.copy EXCEPT !.signer = r.signer]
<1>1. /\ r # Nothing /\ r \in Post /\ CopyIsOf(r) /\ r.signer = s.account /\ n = nextNonce[s]
      /\ intent' = [intent EXCEPT ![i] = new]
      /\ nextNonce' = [nextNonce EXCEPT ![s] = @ + 1]
      /\ post' = [post EXCEPT ![p] = Nothing]
  BY DEF SignatureVerified, NonceFits, IntentInv, IntentTypeOK
<1>2. i \in Ids /\ s \in Scopes /\ n \in 0..MaxNonce /\ r.signer \in Signers
  BY <1>1 DEF Post, Intent
<1>3. /\ new \in Intent
      /\ new.scope = s /\ new.nonce = n /\ new.signer = r.signer
  BY <1>1, <1>2 DEF Post, Intent
<1>4. new # NoIntent /\ r.signer # Nothing
  BY <1>2, <1>3, AbsenceAssumption
<1>5. IntentTypeOK'
  BY <1>1, <1>2, <1>3 DEF IntentInv, IntentTypeOK
<1>6. (\A q \in Posts : post[q] # Nothing => CopyIsOf(post[q]))'
  <2> SUFFICES ASSUME NEW q \in Posts, post'[q] # Nothing
               PROVE  /\ intent'[post'[q].id] # NoIntent
                      /\ intent'[post'[q].id].scope = post'[q].copy.scope
                      /\ intent'[post'[q].id].nonce = post'[q].copy.nonce
    BY DEF CopyIsOf
  <2>1. post'[q] = post[q] /\ post[q] # Nothing /\ post[q] \in Post /\ CopyIsOf(post[q])
    BY <1>1 DEF IntentInv, IntentTypeOK
  <2>2. post[q].id \in Ids /\ intent[i].scope = s /\ intent[i].nonce = n
    BY <1>1, <2>1 DEF Post, CopyIsOf
  <2>3. QED
    BY <1>1, <1>2, <1>3, <1>4, <2>1, <2>2 DEF IntentInv, IntentTypeOK, CopyIsOf
<1>7. i \notin Verified(s)
  BY <1>1, <1>2, MaxNonceType DEF IntentInv, IntentTypeOK, NoncesSpentInOrder, CopyIsOf
<1>8. intent[i] # NoIntent /\ intent[i].scope = s
  BY <1>1 DEF CopyIsOf
<1>9. \A t \in Scopes : Verified(t)' = IF t = s THEN Verified(t) \cup {i} ELSE Verified(t)
  BY <1>1, <1>2, <1>3, <1>4, <1>7, <1>8 DEF IntentInv, IntentTypeOK, Verified
<1>10. \A t \in Scopes : i \notin Verified(t)
  BY <1>7, <1>8 DEF Verified
<1>11. \A t \in Scopes : \A j \in Verified(t) : intent'[j] = intent[j]
  BY <1>1, <1>10 DEF IntentInv, IntentTypeOK, Verified
<1>12. intent'[i] = new
  BY <1>1, <1>2 DEF IntentInv, IntentTypeOK
<1>13. NoncesSpentInOrder'
  <2> SUFFICES ASSUME NEW t \in Scopes
               PROVE  /\ \A j, k \in Verified(t)' : intent'[j].nonce = intent'[k].nonce => j = k
                      /\ \A m \in 0..MaxNonce :
                           m < nextNonce'[t] <=> \E j \in Verified(t)' : intent'[j].nonce = m
                      /\ \A j \in Verified(t)' : intent'[j].signer = t.account
    BY DEF NoncesSpentInOrder
  <2>1. /\ \A j, k \in Verified(t) : intent[j].nonce = intent[k].nonce => j = k
        /\ \A m \in 0..MaxNonce :
             m < nextNonce[t] <=> \E j \in Verified(t) : intent[j].nonce = m
        /\ \A j \in Verified(t) : intent[j].signer = t.account
    BY DEF IntentInv, NoncesSpentInOrder
  <2>2. CASE t # s
    <3>1. Verified(t)' = Verified(t) /\ nextNonce'[t] = nextNonce[t]
      BY <1>1, <1>2, <1>9, <2>2 DEF IntentInv, IntentTypeOK
    <3>2. QED
      BY <1>11, <2>1, <3>1
  <2>3. CASE t = s
    <3>1. Verified(t)' = Verified(t) \cup {i} /\ nextNonce'[t] = n + 1 /\ nextNonce[t] = n
      BY <1>1, <1>2, <1>9, <2>3 DEF IntentInv, IntentTypeOK
    <3>2. \A j \in Verified(t) : intent[j].nonce # n
      BY <2>1, <3>1, <1>2, MaxNonceType
    <3>3. ASSUME NEW m \in 0..MaxNonce
          PROVE  m < n + 1 <=> \E j \in Verified(t)' : intent'[j].nonce = m
      <4>1. (\E j \in Verified(t)' : intent'[j].nonce = m)
              <=> m = n \/ \E j \in Verified(t) : intent[j].nonce = m
        BY <1>3, <1>11, <1>12, <3>1
      <4>2. m < n + 1 <=> m = n \/ m < n
        BY <1>2, MaxNonceType
      <4>3. QED
        BY <2>1, <3>1, <4>1, <4>2
    <3>4. ASSUME NEW j \in Verified(t)', NEW k \in Verified(t)', intent'[j].nonce = intent'[k].nonce
          PROVE  j = k
      <4>1. intent'[i].nonce = n /\ \A l \in Verified(t) : intent'[l].nonce # n
        BY <1>3, <1>11, <1>12, <3>2
      <4>2. CASE j \in Verified(t) /\ k \in Verified(t)
        BY <1>11, <2>1, <3>4, <4>2
      <4>3. QED
        BY <3>1, <3>4, <4>1, <4>2
    <3>5. \A j \in Verified(t)' : intent'[j].signer = t.account
      <4>1. r.signer = t.account
        BY <1>1, <2>3
      <4>2. intent'[i].signer = r.signer
        BY <1>3, <1>12
      <4>3. QED
        BY <1>11, <2>1, <3>1, <4>1, <4>2
    <3>6. QED
      BY <3>1, <3>3, <3>4, <3>5
  <2>4. QED
    BY <2>2, <2>3
<1>14. QED
  BY <1>5, <1>6, <1>13 DEF IntentInv

LEMMA IntentStep ==
  ASSUME IntentInv, [IntentNext]_intentVars
  PROVE  IntentInv'
<1>1. CASE StoreIsLost
  <2>1. IntentTypeOK'
    BY <1>1 DEF StoreIsLost, IntentTypeOK
  <2>2. \A s \in Scopes : Verified(s)' = {} /\ nextNonce'[s] = 0
    BY <1>1 DEF StoreIsLost, Verified
  <2>3. NoncesSpentInOrder'
    BY <2>2, MaxNonceType DEF NoncesSpentInOrder
  <2>4. QED
    BY <1>1, <2>1, <2>3 DEF StoreIsLost, IntentInv
<1>2. ASSUME NEW p \in Posts, NEW i \in Ids, NEW signer \in Signers, PostSignature(p, i, signer)
      PROVE  IntentInv'
  <2> DEFINE r == [id |-> i, signer |-> signer, copy |-> intent[i]]
  <2>1. r \in Post /\ intent[i] # NoIntent
    BY <1>2 DEF PostSignature, IntentInv, IntentTypeOK, Post
  <2>2. post' = [post EXCEPT ![p] = r] /\ UNCHANGED <<intent, nextNonce>>
    BY <1>2 DEF PostSignature
  <2>3. IntentTypeOK' /\ (\A q \in Posts : post[q] # Nothing => CopyIsOf(post[q]))'
    BY <2>1, <2>2 DEF IntentInv, IntentTypeOK, CopyIsOf
  <2>4. NoncesSpentInOrder'
    BY <2>2 DEF IntentInv, NoncesSpentInOrder, Verified
  <2>5. QED
    BY <2>3, <2>4 DEF IntentInv
<1>3. ASSUME NEW p \in Posts, SignatureRefused(p) PROVE IntentInv'
  <2>1. post' = [post EXCEPT ![p] = Nothing] /\ UNCHANGED <<intent, nextNonce>>
    BY <1>3 DEF SignatureRefused
  <2>2. IntentTypeOK' /\ (\A q \in Posts : post[q] # Nothing => CopyIsOf(post[q]))'
    BY <2>1 DEF IntentInv, IntentTypeOK, CopyIsOf
  <2>3. NoncesSpentInOrder'
    BY <2>1 DEF IntentInv, NoncesSpentInOrder, Verified
  <2>4. QED
    BY <2>2, <2>3 DEF IntentInv
<1>4. CASE UNCHANGED intentVars
  BY <1>4 DEF intentVars, IntentInv, IntentTypeOK, CopyIsOf, NoncesSpentInOrder, Verified
<1>5. QED
  BY <1>1, <1>2, <1>3, <1>4, CreateStep, VerifiedStep DEF IntentNext

\* MemoryIntentStore: however posts interleave across the signature check, a
\* scope's nonces are spent once each, in order, by their own account.
THEOREM LendingNoncesInOrder == Spec => []NoncesSpentInOrder
<1>1. Init => IntentInv
  <2> SUFFICES ASSUME Init PROVE IntentInv
    OBVIOUS
  <2>1. \A s \in Scopes : Verified(s) = {} /\ nextNonce[s] = 0
    BY DEF Init, IntentInit, Verified
  <2>2. NoncesSpentInOrder
    BY <2>1, MaxNonceType DEF NoncesSpentInOrder
  <2>3. QED
    BY <2>2 DEF Init, IntentInit, IntentInv, IntentTypeOK
<1>2. IntentInv /\ [Next]_vars => IntentInv'
  <2>1. [Next]_vars => [IntentNext]_intentVars
    BY DEF Next, vars, intentVars
  <2>2. QED
    BY <2>1, IntentStep
<1>3. IntentInv => NoncesSpentInOrder
  BY DEF IntentInv
<1>4. QED
  BY <1>1, <1>2, <1>3, PTL DEF Spec
=============================================================================
