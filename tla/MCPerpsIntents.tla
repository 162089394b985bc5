--------------------------- MODULE MCPerpsIntents ---------------------------
(***************************************************************************)
(* A small instance of PerpsIntents: one trader with two tabs and a        *)
(* counterparty.  The long of two units can be filled by half, so that a   *)
(* residual of one appears; two orders of the same trader share a nonce.   *)
(***************************************************************************)
EXTENDS PerpsIntents, TLC

CONSTANTS alice, bob, tab1, tab2, desk

MCOwner == (tab1 :> alice) @@ (tab2 :> alice) @@ (desk :> bob)

MCTraders == {alice, bob}

Order(t, n, s, p, post, d) ==
    [trader |-> t, nonce |-> n, size |-> s, price |-> p, post |-> post,
     deadline |-> d]

\* A long of two, another order under the same nonce, and a short of one that
\* fills half of the long.
MCRequests ==
    {Order(alice, 1, 2, 1, FALSE, 2), Order(alice, 1, 1, 1, TRUE, 2),
     Order(bob, 1, -1, 0, FALSE, 2)}

\* A residual may re-enter at its original's price or at market.
MCOverrides == {[price |-> 0, post |-> FALSE]}

\* The sizes these requests and their residuals have.
MCSizes == {-1, 1, 2}

\* The digests differ, so their ranks do.
MCIdRank ==
    [o \in [trader : Traders, nonce : Nonces, size : MCSizes, price : Prices,
            post : BOOLEAN, deadline : Deadlines] |->
        o.nonce * 100 + o.size * 10 + o.price * 4 + (IF o.post THEN 2 ELSE 0)
          + (IF o.trader = alice THEN 1 ELSE 0)]
=============================================================================
