--------------------------- MODULE MCWebTransaction ---------------------------
(* Three wallets and positions.  alice has the admin keys of p1 and p2,    *)
(* which are in different markets, and a delegated key of p3, whose first  *)
(* admin key was burnt in a recovery; bob has two delegated keys of p1,   *)
(* carol has nothing.                                                      *)
EXTENDS WebTransaction, TLC

CONSTANTS alice, bob, carol, p1, p2, p3, a1, a2, a3, d1, d2, d3, navSOL, navJUP, f1, f2

MCSeed == (p1 :> a1) @@ (p2 :> a2) @@ (p3 :> a3)

MCPositionOf ==
    (a1 :> p1) @@ (a2 :> p2) @@ (a3 :> p3) @@ (d1 :> p1) @@ (d2 :> p1) @@ (d3 :> p3)

MCHolder ==
    (a1 :> alice) @@ (a2 :> alice) @@ (a3 :> None) @@
    (d1 :> bob) @@ (d2 :> bob) @@ (d3 :> alice)

MCWeight ==
    (a1 :> 6) @@ (a2 :> 6) @@ (a3 :> 6) @@ (d1 :> 3) @@ (d2 :> 1) @@ (d3 :> 2)

MCMarketOf == (p1 :> navJUP) @@ (p2 :> navSOL) @@ (p3 :> navSOL)

MCPermits ==
    [a \in {a1, a2, a3} |-> Trades \cup {"manage_keys"}] @@
    (d1 :> {"buy", "sell", "borrow"}) @@ (d2 :> {"sell"}) @@ (d3 :> {"borrow", "repay"})

(* Bounds: one flow at most under a revocation or a send left behind, not  *)
(* both of these, and none under a trade or a creation: a creation reads   *)
(* no signal, and what a trade would be is checked at every moment, form   *)
(* or no form.  What a confirmation starts may still meet another flow.    *)
(* carol, who has no key, looks but asks for nothing.                      *)
FewUnderTheModal ==
    /\ modal # Closed \/ sending # None => Cardinality(InFlight) <= 1
    /\ modal.kind \in {"trade", "create"} => InFlight = {}
    /\ modal = Closed \/ sending = None
    /\ modal # Closed => wallet # carol

Symmetry == Permutations(FlowIds)
==============================================================================
