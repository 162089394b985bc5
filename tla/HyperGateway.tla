----------------------------- MODULE HyperGateway -----------------------------
(***************************************************************************)
(* A trade submitted to the agents' gateway (apps/hyper-mcp): the request  *)
(* pipeline of hyper/core app.ts with its timeout, the rate limiter, and   *)
(* the idempotency middleware over its built-in stores.  A tool called     *)
(* through /mcp goes down the same pipeline without the caller's headers.  *)
(* What is traded is left out.  Stored answers are kept for a day, longer  *)
(* than any behaviour here.                                                *)
(***************************************************************************)
EXTENDS Naturals, FiniteSets

CONSTANTS
    HttpAgents,   \* submit over HTTP, each one order under one Idempotency-Key
    McpAgents,    \* submit by tools/call
    Slots,        \* requests that may be under way together
    Limit,        \* 120: requests of a caller in a window
    MaxSends,     \* bound on an agent's submissions
    Free, None

ASSUME HyperGatewayAssumption ==
    /\ HttpAgents \cap McpAgents = {}
    /\ {Limit, MaxSends} \subseteq Nat \ {0}
    /\ None \notin Slots

VARIABLES
    request,      \* the requests under way
    taken,        \* the limiter's count of each caller in its window
    stored,       \* the idempotency store: the keys that have an answer
    lock,         \* and the request that holds its lock
    sends,        \* submissions of each agent
    begun,        \* executions begun for each agent
    disturbed     \* agents of whose requests one has timed out or thrown

gatewayVars == <<request, taken, stored, lock, sends, begun, disturbed>>

Agents == HttpAgents \cup McpAgents

\* defaultKey of the limiter: invoke passes no address of the caller on.
Callers == HttpAgents \cup {"anonymous"}

Caller(a) == IF a \in HttpAgents THEN a ELSE "anonymous"

\* A request under way; late once its caller has been told 504.
Pending == [agent : Agents, step : {"hashing", "executing", "unlocking"}, late : BOOLEAN]

ASSUME FreeAssumption == Free \notin Pending

GatewayTypeOK ==
    /\ request \in [Slots -> Pending \cup {Free}]
    /\ taken \in [Callers -> 0..MaxSends * Cardinality(Agents)]
    /\ stored \subseteq HttpAgents
    /\ lock \in [HttpAgents -> Slots \cup {None}]
    /\ {sends, begun} \subseteq [Agents -> 0..MaxSends]
    /\ disturbed \subseteq Agents
    \* A request keeps its lock no longer than it is under way.
    /\ \A a \in HttpAgents : lock[a] # None =>
         request[lock[a]] # Free /\ request[lock[a]].agent = a

GatewayInit ==
    /\ request = [s \in Slots |-> Free]
    /\ taken = [c \in Callers |-> 0]
    /\ stored = {}
    /\ lock = [a \in HttpAgents |-> None]
    /\ sends = [a \in Agents |-> 0] /\ begun = sends
    /\ disturbed = {}

-----------------------------------------------------------------------------
Executes(s, a) ==
    /\ request' = [request EXCEPT ![s] = [agent |-> a, step |-> "executing", late |-> FALSE]]
    /\ begun' = [begun EXCEPT ![a] = @ + 1]

Answers(s) == request' = [request EXCEPT ![s] = Free]

\* rateLimit, and idempotency up to the hash of the key.  The hash is of the
\* key and the path: the body has been parsed by then, and reads as empty.  A
\* call without a key goes straight on.
Send(s, a) ==
    /\ request[s] = Free /\ sends[a] < MaxSends
    /\ sends' = [sends EXCEPT ![a] = @ + 1]
    /\ taken' = [taken EXCEPT ![Caller(a)] = @ + 1]
    /\ IF taken'[Caller(a)] > Limit THEN UNCHANGED <<request, begun>>
       ELSE IF a \in McpAgents THEN Executes(s, a)
       ELSE /\ request' = [request EXCEPT ![s] =
                  [agent |-> a, step |-> "hashing", late |-> FALSE]]
            /\ UNCHANGED begun
    /\ UNCHANGED <<stored, lock, disturbed>>

WindowEnds(c) ==
    /\ taken[c] # 0
    /\ taken' = [taken EXCEPT ![c] = 0]
    /\ UNCHANGED <<request, stored, lock, sends, begun, disturbed>>

\* Mutant of Conflict: a lock that is held turns nobody away.
NoConflict(a) == FALSE

\* store.lock: the key is locked already.
Conflict(a) == lock[a] # None

\* get and lock: nothing of another request runs between the two, for each of
\* the built-in stores answers within the call.
Check(s) ==
    /\ request[s] # Free /\ request[s].step = "hashing"
    /\ LET a == request[s].agent IN
       IF a \in stored \/ Conflict(a)
       THEN Answers(s) /\ UNCHANGED <<lock, begun>>
       ELSE Executes(s, a) /\ lock' = [lock EXCEPT ![a] = s]
    /\ UNCHANGED <<taken, stored, sends, disturbed>>

\* The handler returns, with the order or with the error it has caught: either
\* is stored, unless there is no key.
HandlerReturns(s) ==
    /\ request[s] # Free /\ request[s].step = "executing"
    /\ LET a == request[s].agent IN
       IF a \in McpAgents THEN Answers(s) /\ UNCHANGED stored
       ELSE /\ request' = [request EXCEPT ![s].step = "unlocking"]
            /\ stored' = stored \cup {a}
    /\ UNCHANGED <<taken, lock, sends, begun, disturbed>>

\* It throws what it has not caught: nothing is stored.
HandlerThrows(s) ==
    /\ request[s] # Free /\ request[s].step = "executing"
    /\ LET a == request[s].agent IN
       /\ disturbed' = disturbed \cup {a}
       /\ IF a \in McpAgents THEN Answers(s)
          ELSE request' = [request EXCEPT ![s].step = "unlocking"]
    /\ UNCHANGED <<taken, stored, lock, sends, begun>>

\* unlock: of the key, whoever holds its lock by now.
Unlock(s) ==
    /\ request[s] # Free /\ request[s].step = "unlocking"
    /\ lock' = [lock EXCEPT ![request[s].agent] = None]
    /\ Answers(s)
    /\ UNCHANGED <<taken, stored, sends, begun, disturbed>>

\* withTimeout, 30 seconds: the caller is told 504, and the handler goes on.
TimesOut(s) ==
    /\ request[s] # Free /\ request[s].step = "executing" /\ ~request[s].late
    /\ request' = [request EXCEPT ![s].late = TRUE]
    /\ disturbed' = disturbed \cup {request[s].agent}
    /\ UNCHANGED <<taken, stored, lock, sends, begun>>

\* Mutant of LockExpires: the lock has no end.
LockStays(a) ==
    /\ lock[a] # None /\ request[lock[a]] = Free
    /\ lock' = [lock EXCEPT ![a] = None]
    /\ UNCHANGED <<request, taken, stored, sends, begun, disturbed>>

\* The lock's 30 seconds begin after the request's and so end after them.
LockExpires(a) ==
    /\ lock[a] # None /\ request[lock[a]].late
    /\ lock' = [lock EXCEPT ![a] = None]
    /\ UNCHANGED <<request, taken, stored, sends, begun, disturbed>>

GatewayNext ==
    \/ \E c \in Callers : WindowEnds(c)
    \/ \E a \in HttpAgents : LockExpires(a)
    \/ \E s \in Slots :
         \/ Check(s) \/ HandlerReturns(s) \/ HandlerThrows(s) \/ Unlock(s) \/ TimesOut(s)
         \/ \E a \in Agents : Send(s, a)

\* Timers fire and promises that are settled go on; a handler may never end.
GatewayFairness ==
    /\ \A s \in Slots : WF_gatewayVars(Unlock(s)) /\ WF_gatewayVars(TimesOut(s))
    /\ \A a \in HttpAgents : WF_gatewayVars(LockExpires(a))

-----------------------------------------------------------------------------
(* Properties.                                                             *)

\* However often an agent repeats its request, and however the repetitions
\* interleave with the one that executes, its order is executed at most once
\* as long as no request of it has timed out or thrown.
ExecutedOnce ==
    \A a \in HttpAgents \ disturbed : begun[a] <= 1

\* A key is never locked for good, also when its handler hangs.
KeysComeFree ==
    \A a \in HttpAgents : lock[a] # None ~> lock[a] = None
=============================================================================
