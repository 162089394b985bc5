---------------------------------- MODULE Web ----------------------------------
(***************************************************************************)
(* The trading page and its server side: the price feed of a connection,   *)
(* the live price of a page, and an order with its status.  They share no  *)
(* state: one behaviour is about one of the three.                         *)
(***************************************************************************)
EXTENDS ServerFeed, LiveMarket, OrderTicket

VARIABLE part     \* "feed", "page" or "ticket"

vars == <<feedVars, pageVars, ticketVars, part>>

Init ==
    /\ FeedInit /\ PageInit /\ TicketInit
    /\ part \in {"feed", "page", "ticket"}
    \* Where a variable of another part may start in two ways, it starts in one.
    /\ part # "feed" => ~feed
    /\ part # "ticket" => mode = "ws"

Next ==
    /\ UNCHANGED part
    /\ \/ part = "feed" /\ FeedNext /\ UNCHANGED <<pageVars, ticketVars>>
       \/ part = "page" /\ PageNext /\ UNCHANGED <<feedVars, ticketVars>>
       \/ part = "ticket" /\ TicketNext /\ UNCHANGED <<feedVars, pageVars>>

\* The parts a behaviour is not about stay as they start, and nothing their
\* fairness asks for can happen then.
FairSpec ==
    /\ Init /\ [][Next]_vars
    /\ FeedFairness /\ PageFairness /\ TicketFairness

TypeOK == FeedTypeOK /\ PageTypeOK /\ TicketTypeOK
=============================================================================
