------------------------------- MODULE Keyring -------------------------------
(***************************************************************************)
(* The NFT keyring of Hardig positions: who may act on a position, how     *)
(* keys are made and destroyed, and how control passes to a recovery key.  *)
(*                                                                         *)
(* Every instruction is one transaction: an action with all of its checks  *)
(* as guards.  A key is an MPL-Core asset.  Its address is used once: a    *)
(* burnt asset leaves a stub behind, which no instruction can read and on  *)
(* which nothing can be minted.  A position is named by its authority_seed,*)
(* the address of its first admin key, so Assets is the set of positions   *)
(* too.                                                                    *)
(*                                                                         *)
(* Positions carry no artwork here (validate_artwork_receipt then accepts  *)
(* at once) and hold no money: both are the business of other modules.     *)
(***************************************************************************)
EXTENDS Integers

CONSTANTS
    Wallets,          \* signers
    Assets,           \* addresses at which MPL-Core assets can be created
    NoKey,            \* Pubkey::default()
    PermissionMasks,  \* permission masks an admin may ask for
    Lockouts,         \* lockout_secs an admin may ask for
    MaxLockout,       \* MAX_LOCKOUT_SECS
    MaxTime           \* bound on the clock explored

ASSUME KeyringAssumption ==
    /\ NoKey \notin Assets \cup Wallets
    /\ MaxLockout \in Nat \ {0}
    /\ MaxTime \in Nat
    /\ Lockouts \subseteq Int

VARIABLES
    asset,       \* MPL-Core: the account at each address
    positions,   \* initialised PositionState accounts, by authority_seed
    position,    \* their contents
    keyStates,   \* keys whose KeyState account exists
    now,         \* Clock::unix_timestamp
    lastSigned   \* history: when the admin key of a position last signed

vars == <<asset, positions, position, keyStates, now, lastSigned>>

-----------------------------------------------------------------------------
(* Permission bits (state/mod.rs).                                         *)

Permissions == {"BUY", "SELL", "BORROW", "REPAY", "REINVEST", "MANAGE_KEYS",
                "LIMITED_SELL", "LIMITED_BORROW"}

PRESET_ADMIN == {"BUY", "SELL", "BORROW", "REPAY", "REINVEST", "MANAGE_KEYS"}

AdminOriginPermissions == Permissions \ {"MANAGE_KEYS"}

(* An asset: "burned" by the program, "destroyed" by its owner; either way *)
(* only a stub is left.  authority tells the keys of the collection from   *)
(* look-alikes anybody can mint with the same attributes.                  *)
AssetAccount ==
    [state       : {"free", "live", "burned", "destroyed"},
     authority   : {"none", "collection", "foreign"},
     owner       : Wallets \cup {NoKey},
     position    : Assets \cup {NoKey},
     permissions : SUBSET Permissions]

PositionState ==
    [current_admin_asset    : Assets \cup {NoKey},
     recovery_asset         : Assets \cup {NoKey},
     recovery_lockout_secs  : 0 .. MaxLockout,
     recovery_config_locked : BOOLEAN,
     last_admin_activity    : 0 .. MaxTime]

BlankPosition ==
    [current_admin_asset |-> NoKey, recovery_asset |-> NoKey,
     recovery_lockout_secs |-> 0, recovery_config_locked |-> FALSE,
     last_admin_activity |-> 0]

Minted(a, to, p, perms) ==
    [state |-> "live", authority |-> "collection", owner |-> to,
     position |-> p, permissions |-> perms]

Unminted ==
    [state |-> "free", authority |-> "none", owner |-> NoKey,
     position |-> NoKey, permissions |-> {}]

(* All that burning leaves at an address.                                  *)
Stub(how) == [Unminted EXCEPT !.state = how]

IsFree(a) == asset[a].state = "free"
IsLive(a) == asset[a].state = "live"

(* The keys of a position: what validate_key could accept for it.          *)
KeysOf(p) ==
    {a \in Assets : IsLive(a) /\ asset[a].authority = "collection"
                              /\ asset[a].position = p}

Init ==
    /\ asset = [a \in Assets |-> Unminted]
    /\ positions = {}
    /\ position = [p \in Assets |-> BlankPosition]
    /\ keyStates = {}
    /\ now = 0
    /\ lastSigned = [p \in Assets |-> 0]
-----------------------------------------------------------------------------
(* Checks.                                                                 *)

(* validate_key: the signer owns a live asset of the collection bound to   *)
(* the position, with one of the required permissions.                     *)
ValidateKey(w, k, p, required) ==
    /\ IsLive(k)
    /\ asset[k].authority = "collection"
    /\ asset[k].owner = w
    /\ asset[k].position = p
    /\ asset[k].permissions \cap required # {}

(* validate_delegated_permissions, its rate-limit part aside.              *)
DelegableAnything(perms) == perms # {}  \* slip: the origin's mask ignored
Delegable(perms) == perms # {} /\ perms \subseteq AdminOriginPermissions

LockoutAllowedUnbounded(lockout) == lockout > 0  \* slip: no upper limit
LockoutAllowed(lockout) == lockout > 0 /\ lockout <= MaxLockout

LockoutExpiredOneLate(p) ==  \* slip: > for >=
    now - position[p].last_admin_activity > position[p].recovery_lockout_secs
LockoutExpired(p) ==
    now - position[p].last_admin_activity >= position[p].recovery_lockout_secs

(* revoke_key: the target is a readable asset bound to this position.      *)
TargetOfAnyPosition(t, p) == IsLive(t)  \* slip: position not compared
TargetOf(t, p) == IsLive(t) /\ asset[t].position = p

-----------------------------------------------------------------------------
(* Instructions.                                                           *)

(* create_position: the first admin key names the position.                *)
CreatePosition(w, a) ==
    /\ IsFree(a)
    /\ asset' = [asset EXCEPT ![a] = Minted(a, w, a, PRESET_ADMIN)]
    /\ positions' = positions \cup {a}
    /\ position' = [position EXCEPT ![a] =
           [BlankPosition EXCEPT !.current_admin_asset = a,
                                 !.last_admin_activity = now]]
    /\ lastSigned' = [lastSigned EXCEPT ![a] = now]
    /\ UNCHANGED <<keyStates, now>>

(* authorize_key: a delegated key and its KeyState.                        *)
AuthorizeKey(w, k, p, a, to, perms) ==
    /\ p \in positions
    /\ ValidateKey(w, k, p, {"MANAGE_KEYS"})
    /\ Delegable(perms)
    /\ IsFree(a)
    /\ a \notin keyStates
    /\ asset' = [asset EXCEPT ![a] = Minted(a, to, p, perms)]
    /\ keyStates' = keyStates \cup {a}
    /\ position' = [position EXCEPT ![p].last_admin_activity = now]
    /\ lastSigned' = [lastSigned EXCEPT ![p] = now]
    /\ UNCHANGED <<positions, now>>

(* revoke_key: burns the key wherever it is and closes its KeyState.       *)
RevokeKeyKeepingState(w, k, p, t) ==  \* slip: KeyState not closed
    /\ p \in positions
    /\ t \in keyStates
    /\ ValidateKey(w, k, p, {"MANAGE_KEYS"})
    /\ t # position[p].current_admin_asset
    /\ TargetOf(t, p)
    /\ asset' = [asset EXCEPT ![t] = Stub("burned")]
    /\ position' = [position EXCEPT ![p].last_admin_activity = now]
    /\ lastSigned' = [lastSigned EXCEPT ![p] = now]
    /\ UNCHANGED <<positions, keyStates, now>>
RevokeKey(w, k, p, t) ==
    /\ p \in positions
    /\ t \in keyStates
    /\ ValidateKey(w, k, p, {"MANAGE_KEYS"})
    /\ t # position[p].current_admin_asset
    /\ TargetOf(t, p)
    /\ asset' = [asset EXCEPT ![t] = Stub("burned")]
    /\ keyStates' = keyStates \ {t}
    /\ position' = [position EXCEPT ![p].last_admin_activity = now]
    /\ lastSigned' = [lastSigned EXCEPT ![p] = now]
    /\ UNCHANGED <<positions, now>>

(* heartbeat: nothing but the activity time, and only with the current key.*)
HeartbeatUndated(w, k, p) ==  \* slip: the timer is not reset
    /\ p \in positions
    /\ k = position[p].current_admin_asset
    /\ ValidateKey(w, k, p, {"MANAGE_KEYS"})
    /\ lastSigned' = [lastSigned EXCEPT ![p] = now]
    /\ UNCHANGED <<asset, positions, position, keyStates, now>>
Heartbeat(w, k, p) ==
    /\ p \in positions
    /\ k = position[p].current_admin_asset
    /\ ValidateKey(w, k, p, {"MANAGE_KEYS"})
    /\ position' = [position EXCEPT ![p].last_admin_activity = now]
    /\ lastSigned' = [lastSigned EXCEPT ![p] = now]
    /\ UNCHANGED <<asset, positions, keyStates, now>>

(* configure_recovery's accounts for a key it replaces: the old key must   *)
(* be passed, be the configured one, and still be there to burn.           *)
ReplacementAccepted(p, old) ==
    position[p].recovery_asset # NoKey =>
        old = position[p].recovery_asset /\ IsLive(old)

NotSealedIgnored(p) == TRUE  \* slip: the lock is never looked at
NotSealed(p) == ~position[p].recovery_config_locked

(* configure_recovery: burns the recovery key it replaces and mints a new  *)
(* one without permissions.                                                *)
RecoveryMintedOnly(p, r, to) ==  \* slip: the old key is left alive
    [asset EXCEPT ![r] = Minted(r, to, p, {})]
RecoveryMinted(p, r, to) ==
    [a \in Assets |->
        IF a = r THEN Minted(r, to, p, {})
        ELSE IF a = position[p].recovery_asset THEN Stub("burned")
        ELSE asset[a]]

RecoverySettled(p, r, lockout, lock) ==
    [position[p] EXCEPT
        !.recovery_asset = r,
        !.recovery_lockout_secs = lockout,
        !.recovery_config_locked = IF lock THEN TRUE ELSE @,
        !.last_admin_activity = now]

ConfigureRecovery(w, k, p, r, to, old, lockout, lock) ==
    /\ p \in positions
    /\ ValidateKey(w, k, p, {"MANAGE_KEYS"})
    /\ NotSealed(p)
    /\ LockoutAllowed(lockout)
    /\ ReplacementAccepted(p, old)
    /\ IsFree(r)
    /\ asset' = RecoveryMinted(p, r, to)
    /\ position' = [position EXCEPT ![p] = RecoverySettled(p, r, lockout, lock)]
    /\ lastSigned' = [lastSigned EXCEPT ![p] = now]
    /\ UNCHANGED <<positions, keyStates, now>>

(* execute_recovery: after the lockout, the holder of the recovery key     *)
(* gets a new admin key; the old one and the recovery key are burnt and    *)
(* the recovery settings, the lock included, are cleared.                  *)
KeysRecoveredOldKept(w, r, p, new) ==  \* slip: the old admin key stays
    [a \in Assets |->
        IF a = new THEN Minted(new, w, p, PRESET_ADMIN)
        ELSE IF a = r THEN Stub("burned")
        ELSE asset[a]]
KeysRecovered(w, r, p, new) ==
    [a \in Assets |->
        IF a = new THEN Minted(new, w, p, PRESET_ADMIN)
        ELSE IF a \in {position[p].current_admin_asset, r} THEN Stub("burned")
        ELSE asset[a]]

SettingsAfterRecovery(p, new) ==
    [BlankPosition EXCEPT !.current_admin_asset = new, !.last_admin_activity = now]

ExecuteRecovery(w, r, p, old, new) ==
    /\ p \in positions
    /\ position[p].recovery_asset # NoKey
    /\ r = position[p].recovery_asset
    /\ IsLive(r)
    /\ asset[r].owner = w
    /\ LockoutExpired(p)
    /\ old = position[p].current_admin_asset
    /\ IsLive(old)
    /\ IsFree(new)
    /\ asset' = KeysRecovered(w, r, p, new)
    /\ position' = [position EXCEPT ![p] = SettingsAfterRecovery(p, new)]
    /\ lastSigned' = [lastSigned EXCEPT ![p] = now]
    /\ UNCHANGED <<positions, keyStates, now>>
-----------------------------------------------------------------------------
(* MPL-Core, and time.                                                     *)

(* The owner of a key sends it to somebody else.                           *)
TransferKey(a, to) ==
    /\ IsLive(a)
    /\ to # asset[a].owner
    /\ asset' = [asset EXCEPT ![a].owner = to]
    /\ UNCHANGED <<positions, position, keyStates, now, lastSigned>>

(* The owner of a key burns it.                                            *)
DestroyKey(a) ==
    /\ IsLive(a)
    /\ asset' = [asset EXCEPT ![a] = Stub("destroyed")]
    /\ UNCHANGED <<positions, position, keyStates, now, lastSigned>>

(* Anybody mints an asset outside the collection, with the attributes of   *)
(* an admin key.                                                           *)
ForeignMint(a, w, p) ==
    /\ IsFree(a)
    /\ asset' = [asset EXCEPT ![a] =
           [state |-> "live", authority |-> "foreign", owner |-> w,
            position |-> p, permissions |-> PRESET_ADMIN]]
    /\ UNCHANGED <<positions, position, keyStates, now, lastSigned>>

Tick ==
    /\ now < MaxTime
    /\ now' = now + 1
    /\ UNCHANGED <<asset, positions, position, keyStates, lastSigned>>

(* The instructions of the program, with any accounts and arguments.       *)
Live == {a \in Assets : IsLive(a)}
Free == {a \in Assets : IsFree(a)}

Instruction ==
    \/ \E w \in Wallets, a \in Free : CreatePosition(w, a)
    \/ \E w \in Wallets, p \in positions, k \in Live :
          \/ Heartbeat(w, k, p)
          \/ \E t \in Assets : RevokeKey(w, k, p, t)
          \/ \E a \in Free, to \in Wallets, perms \in PermissionMasks :
                AuthorizeKey(w, k, p, a, to, perms)
          \/ \E r \in Free, to \in Wallets, old \in Live \cup {NoKey},
                lockout \in Lockouts, lock \in BOOLEAN :
                ConfigureRecovery(w, k, p, r, to, old, lockout, lock)
          \/ \E old \in Assets, new \in Free : ExecuteRecovery(w, k, p, old, new)

Environment ==
    \/ \E a \in Live, to \in Wallets : TransferKey(a, to)
    \/ \E a \in Live : DestroyKey(a)
    \/ \E a \in Free, p \in positions, w \in Wallets : ForeignMint(a, w, p)
    \/ Tick

Next == Instruction \/ Environment

Spec == Init /\ [][Next]_vars

(* Time passes, and the holder of a recovery key who may use it at last    *)
(* does.  Nothing obliges anybody else to act.                             *)
Recover(p) ==
    \E w \in Wallets, r, old \in Assets, new \in Free :
        ExecuteRecovery(w, r, p, old, new)

LiveSpec ==
    /\ Spec
    /\ WF_vars(Tick)
    /\ \A p \in Assets : WF_vars(p \in positions /\ Recover(p))
-----------------------------------------------------------------------------
TypeOK ==
    /\ asset \in [Assets -> AssetAccount]
    /\ positions \subseteq Assets
    /\ position \in [Assets -> PositionState]
    /\ keyStates \subseteq Assets
    /\ now \in 0 .. MaxTime
    /\ lastSigned \in [Assets -> 0 .. MaxTime]

(* No second admin, not even for the time of a recovery: the only live key *)
(* that could manage a position is the one the position names.             *)
SoleAdmin ==
    \A p \in positions : \A a \in KeysOf(p) :
        "MANAGE_KEYS" \in asset[a].permissions =>
            a = position[p].current_admin_asset

(* Every live key of a position has exactly one role: it is the admin key, *)
(* the recovery key, or a delegated key with a KeyState, which is what     *)
(* revoke_key needs to take it back.  So no key is ever out of the admin's *)
(* reach, a replaced recovery key included.                                *)
OneRolePerKey ==
    \A p \in positions : \A a \in KeysOf(p) :
        LET admin     == a = position[p].current_admin_asset
            recovery  == a = position[p].recovery_asset
            delegated == a \in keyStates
        IN /\ admin \/ recovery \/ delegated
           /\ ~(admin /\ recovery) /\ ~(admin /\ delegated) /\ ~(recovery /\ delegated)
           /\ recovery => asset[a].permissions = {}

(* The program leaves no dangling record: the key a position or a KeyState *)
(* names was minted for it and is still alive, unless its own holder       *)
(* destroyed it behind the program's back.                                 *)
NoDangling ==
    /\ \A p \in positions :
          LET names == {position[p].current_admin_asset, position[p].recovery_asset}
          IN \A a \in names \ {NoKey} :
                a \in KeysOf(p) \/ asset[a].state = "destroyed"
    /\ \A p \in positions : position[p].current_admin_asset # NoKey
    /\ \A a \in keyStates :
          asset[a].state = "destroyed" \/ \E p \in positions : a \in KeysOf(p)

(* Control of a position passes only to whoever holds its recovery key,    *)
(* and only when the admin key has signed nothing for the whole lockout.   *)
SuccessionIsEarned ==
    [][\A p \in positions :
          position'[p].current_admin_asset # position[p].current_admin_asset =>
              /\ position[p].recovery_asset \in Assets
              /\ now - lastSigned[p] >= position[p].recovery_lockout_secs
              /\ asset'[position'[p].current_admin_asset].owner
                    = asset[position[p].recovery_asset].owner]_vars

(* Sealed settings stay as they are until the recovery they describe.      *)
SealHolds ==
    [][\A p \in positions :
          /\ position[p].recovery_config_locked
          /\ position'[p].current_admin_asset = position[p].current_admin_asset
          => /\ position'[p].recovery_config_locked
             /\ position'[p].recovery_asset = position[p].recovery_asset
             /\ position'[p].recovery_lockout_secs = position[p].recovery_lockout_secs]_vars

(* Positions do not reach into each other: a step that changes the record  *)
(* of one position leaves every key and KeyState of the others alone.      *)
Isolation ==
    [][\A p \in positions : position'[p] # position[p] =>
          \A a \in Assets : asset[a].position \notin {p, NoKey} =>
              /\ asset'[a] = asset[a]
              /\ a \in keyStates' <=> a \in keyStates]_vars

(* A recovery key r of p is kept waiting: it is configured and its lockout *)
(* ends within the time explored (and an address is left to mint at).      *)
DueWithin(p, r) ==
    /\ position[p].recovery_asset = r
    /\ IsLive(r)
    /\ position[p].last_admin_activity + position[p].recovery_lockout_secs <= MaxTime
    /\ Free # {}

(* The dead man's switch fires: unless the admin shows up again or some    *)
(* holder destroys a key, a configured recovery is carried out.            *)
RecoveryFires ==
    \A p, r \in Assets :
        LET Due == DueWithin(p, r) /\ IsLive(position[p].current_admin_asset)
        IN Due ~> ~Due

(* docs/recovery-key-design.md: a position is only irrecoverable if both   *)
(* the admin key and the recovery key are lost; so losing the admin key    *)
(* alone, even to fire, would not stop a recovery.                         *)
RecoverableUnlessBothLost ==
    \A p, r \in Assets : DueWithin(p, r) ~> ~DueWithin(p, r)
=============================================================================
