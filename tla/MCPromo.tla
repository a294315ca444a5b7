------------------------------- MODULE MCPromo -------------------------------
(* Small instances of Promo: one campaign per position, with a mask it may *)
(* grant and one only an admin may; no limit, and a limit of one key.      *)
EXTENDS Promo, TLC

MCMasks       == {{"BUY"}, {"BUY", "SELL"}}
MCLockouts    == {1}
MCNames       == {"promo"}
MCClaimLimits == {0, 1}

Symmetry == Permutations(Wallets) \cup Permutations(Assets)
=============================================================================
