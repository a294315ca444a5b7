---------------------------- MODULE MCTuiCommand -----------------------------
(* Two positions at the start and one that may be created, in two markets: *)
(* the wallet may hold a delegated key of p1, the admin and the recovery   *)
(* key of p2, and the admin key of p3 once it exists.                      *)
EXTENDS TuiCommand, TLC

CONSTANTS p1, p2, p3, d1, a2, r2, a3, navSOL, navJUP

MCPositionOf == (d1 :> p1) @@ (a2 :> p2) @@ (r2 :> p2) @@ (a3 :> p3)

MCRole == (d1 :> "delegate") @@ (a2 :> "admin") @@ (r2 :> "recovery") @@ (a3 :> "admin")

MCMarketOf == (p1 :> navSOL) @@ (p2 :> navJUP) @@ (p3 :> navSOL)
==============================================================================
