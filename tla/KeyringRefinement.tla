-------------------------- MODULE KeyringRefinement --------------------------
(***************************************************************************)
(* The keyring implements Custody: a position's controller is whoever      *)
(* holds a live key that can manage it, its heir whoever holds a live key  *)
(* of it without permissions, whatever the position's record says.         *)
(***************************************************************************)
EXTENDS Keyring

Holders(keys) == {asset[a].owner : a \in keys}

Managing(p) == {a \in KeysOf(p) : "MANAGE_KEYS" \in asset[a].permissions}
Powerless(p) == {a \in KeysOf(p) : asset[a].permissions = {}}

Abstract == INSTANCE Custody WITH
    Positions   <- Assets,
    MaxPatience <- MaxLockout,
    founded     <- positions,
    controller  <- [p \in Assets |-> Holders(Managing(p))],
    heir        <- [p \in Assets |-> Holders(Powerless(p))],
    patience    <- [p \in Assets |-> position[p].recovery_lockout_secs],
    sealed      <- [p \in Assets |-> position[p].recovery_config_locked],
    heard       <- [p \in Assets |-> position[p].last_admin_activity],
    clock       <- now

(* Every instruction is one step of custody or none: control moves only by *)
(* the controller's hand or by an heir who waited out the agreed silence,  *)
(* and there are never two controllers or two heirs.                       *)
ImplementsCustody == Abstract!Spec
=============================================================================
