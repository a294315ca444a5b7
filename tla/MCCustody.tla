------------------------------ MODULE MCCustody ------------------------------
(* The refinement on the small instance of MCKeyring.                      *)
EXTENDS KeyringRefinement, TLC

MCMasks    == {{"BUY"}, {"BUY", "MANAGE_KEYS"}, {}}
MCLockouts == {0, 2, 3}

Symmetry == Permutations(Wallets) \cup Permutations(Assets)
=============================================================================
