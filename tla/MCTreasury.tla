----------------------------- MODULE MCTreasury ------------------------------
(* A small position: its admin key; a key limited in both ways and capped; *)
(* a second limited one, with tighter terms, that may also reinvest.  Fees *)
(* are at most one, and at a floor price of 1 the floor value rounds.      *)
EXTENDS Treasury, TLC

CONSTANTS admin, spender, keeper

MCKeys == {admin, spender, keeper}

MCGranted ==
    (admin   :> {"BUY", "SELL", "BORROW", "REPAY", "REINVEST", "MANAGE_KEYS"}) @@
    (spender :> {"LIMITED_SELL", "LIMITED_BORROW"}) @@
    (keeper  :> {"BUY", "REINVEST", "LIMITED_SELL"})

NoTerms == [capacity |-> 0, period |-> 0, cap |-> 0]

MCSellTerms ==
    (admin   :> NoTerms) @@
    (spender :> [capacity |-> 1, period |-> 1, cap |-> 0]) @@
    (keeper  :> [capacity |-> 2, period |-> 2, cap |-> 2])

MCBorrowTerms ==
    (admin   :> NoTerms) @@
    (spender :> [capacity |-> 2, period |-> 2, cap |-> 2]) @@
    (keeper  :> NoTerms)

MCFloors  == {1, 2}
MCSpreads == {0, 5000}
=============================================================================
