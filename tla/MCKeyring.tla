------------------------------ MODULE MCKeyring ------------------------------
(* Small instances of Keyring.  One mask an admin may hand out, one with   *)
(* MANAGE_KEYS and the empty one, which must be refused; a lockout of 0    *)
(* and one above the limit, which must be refused, beside a good one.      *)
EXTENDS Keyring, TLC

MCMasks    == {{"BUY"}, {"BUY", "MANAGE_KEYS"}, {}}
MCLockouts == {0, 2, 3}

Symmetry == Permutations(Wallets) \cup Permutations(Assets)
=============================================================================
