-------------------------------- MODULE Agents --------------------------------
(***************************************************************************)
(* What agents call: the workflows of the API's tools, its lending intents *)
(* and the gateway of apps/hyper-mcp.  The three share neither tables nor  *)
(* memory: one behaviour is about one of them.                             *)
(***************************************************************************)
EXTENDS McpWorkflow, HyperGateway, LendingIntents

VARIABLE part     \* "workflows", "gateway" or "intents"

vars == <<workflow, receipts, call, cut, finished,
          request, taken, stored, lock, sends, begun, disturbed,
          intent, nextNonce, post, part>>

Init ==
    /\ McpInit /\ GatewayInit /\ IntentInit
    /\ part \in {"workflows", "gateway", "intents"}

Next ==
    /\ UNCHANGED part
    /\ \/ part = "workflows" /\ McpNext /\ UNCHANGED <<gatewayVars, intentVars>>
       \/ part = "gateway" /\ GatewayNext /\ UNCHANGED <<mcpVars, intentVars>>
       \/ part = "intents" /\ IntentNext /\ UNCHANGED <<mcpVars, gatewayVars>>

Spec == Init /\ [][Next]_vars

FairSpec == Spec /\ GatewayFairness

TypeOK == McpTypeOK /\ GatewayTypeOK /\ IntentTypeOK
=============================================================================
