------------------------------ MODULE Indexer ------------------------------
(***************************************************************************)
(* The indexer (services/envio-yield): the handlers of the three groups of *)
(* tables behind one cursor.  No handler of one group touches a table of   *)
(* another, so a behaviour studies one group at a time.                    *)
(***************************************************************************)
EXTENDS ArcadeIndex, MarketIndex, RequestIndex

vars == <<logVars, arcadeVars, marketVars, requestVars>>

Event == ArcadeEvent \cup MarketEvent \cup RequestEvent

TypeOK ==
    /\ log \in Seq([day : 0..Days, event : Event])
    /\ today \in 0..Days
    /\ product \in {"arcade", "market", "request"}
    /\ ArcadeTypeOK /\ MarketTypeOK /\ RequestTypeOK

Init ==
    /\ log = <<>>
    /\ today = 0
    /\ product \in {"arcade", "market", "request"}
    /\ ArcadeInit /\ MarketInit /\ RequestInit

Next ==
    \/ ArcadeNext /\ UNCHANGED <<marketVars, requestVars>>
    \/ MarketNext /\ UNCHANGED <<arcadeVars, requestVars>>
    \/ RequestNext /\ UNCHANGED <<arcadeVars, marketVars>>

Spec == Init /\ [][Next]_vars
=============================================================================
