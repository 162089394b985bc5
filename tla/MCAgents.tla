------------------------------ MODULE MCAgents ------------------------------
(* Two workflows and two requests; the tools are one without a gate, one    *)
(* that wants a payment, one a signature and one both.  Three lending       *)
(* intents of two scopes, and two posts of a signature.                     *)
EXTENDS Agents

MCTools == {"quote", "premium", "intent", "room"}
MCSigned == {"intent", "room"}
MCPaid == {"premium", "room"}
MCPrice == [premium |-> 1, room |-> 2]
\* One receipt that pays for the room, and one of bob's for the other paid
\* tool: it fits bob's workflows and those of nobody.
MCReceipts == {[tool |-> "room", payer |-> "alice", amount |-> 2],
               [tool |-> "premium", payer |-> "bob", amount |-> 1]}
MCWallets == {"alice", "bob"}

\* Two actions of one account: each has nonces of its own.
MCScopes == {[account |-> "alice", action |-> a] : a \in {"Supply", "Borrow"}}
=============================================================================
