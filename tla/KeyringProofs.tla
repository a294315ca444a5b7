---------------------------- MODULE KeyringProofs ----------------------------
(***************************************************************************)
(* What Keyring guarantees for any set of wallets, addresses, masks and    *)
(* lockouts, and for any length of time.                                   *)
(***************************************************************************)
EXTENDS KeyringRefinement, TLAPS

-----------------------------------------------------------------------------
(* Types.                                                                  *)

LEMMA MintedType ==
    ASSUME NEW a \in Assets, NEW to \in Wallets, NEW p \in Assets,
           NEW perms \in SUBSET Permissions
    PROVE  Minted(a, to, p, perms) \in AssetAccount
  BY DEF Minted, AssetAccount

LEMMA StubType ==
    /\ Stub("burned") \in AssetAccount
    /\ Stub("destroyed") \in AssetAccount
  BY DEF Stub, Unminted, AssetAccount

LEMMA PresetType == PRESET_ADMIN \in SUBSET Permissions
  BY DEF PRESET_ADMIN, Permissions

LEMMA BlankType == BlankPosition \in PositionState
<1>1. MaxTime \in Nat /\ MaxLockout \in Nat
  BY KeyringAssumption
<1> QED
  BY <1>1 DEF BlankPosition, PositionState

(* The initial state is well typed.                                        *)
LEMMA TypeInit == Init => TypeOK
<1> SUFFICES ASSUME Init PROVE TypeOK
  OBVIOUS
<1>1. MaxTime \in Nat
  BY KeyringAssumption
<1>2. Unminted \in AssetAccount
  BY DEF Unminted, AssetAccount
<1> QED
  BY <1>1, <1>2, BlankType DEF Init, TypeOK

(* A record of a position whose activity time is brought up to date.       *)
LEMMA TouchedType ==
    ASSUME TypeOK, NEW p \in Assets
    PROVE  /\ [position EXCEPT ![p].last_admin_activity = now]
                 \in [Assets -> PositionState]
           /\ [lastSigned EXCEPT ![p] = now] \in [Assets -> 0 .. MaxTime]
  BY DEF TypeOK, PositionState

(* The record of a position that has just got a new admin key.             *)
LEMMA FreshType ==
    ASSUME TypeOK, NEW a \in Assets
    PROVE  [BlankPosition EXCEPT !.current_admin_asset = a,
                                 !.last_admin_activity = now] \in PositionState
<1>1. BlankPosition \in PositionState
  BY BlankType
<1>2. now \in 0 .. MaxTime
  BY DEF TypeOK
<1> QED
  BY <1>1, <1>2 DEF PositionState

(* Every instruction and every step of the environment keeps the types.    *)
LEMMA TypeNext == TypeOK /\ [Next]_vars => TypeOK'
<1> SUFFICES ASSUME TypeOK, [Next]_vars PROVE TypeOK'
  OBVIOUS
<1> USE MintedType, StubType, PresetType DEF IsFree, IsLive
<1>1. ASSUME NEW w \in Wallets, NEW a \in Free, CreatePosition(w, a)
      PROVE  TypeOK'
  <2>1. a \in Assets
    BY DEF Free
  <2>2. asset' \in [Assets -> AssetAccount]
    BY <1>1, <2>1 DEF CreatePosition, TypeOK
  <2> QED
    BY <1>1, <2>1, <2>2, FreshType DEF CreatePosition, TypeOK
<1>2. ASSUME NEW p \in positions, NEW w \in Wallets, NEW k \in Live, Heartbeat(w, k, p)
      PROVE  TypeOK'
  BY <1>2, TouchedType DEF Heartbeat, TypeOK
<1>3. ASSUME NEW p \in positions, NEW w \in Wallets, NEW k \in Live, NEW t \in Assets,
             RevokeKey(w, k, p, t)
      PROVE  TypeOK'
  BY <1>3, TouchedType DEF RevokeKey, TypeOK
<1>4. ASSUME NEW p \in positions, NEW w \in Wallets, NEW k \in Live, NEW a \in Free,
             NEW to \in Wallets, NEW perms \in PermissionMasks,
             AuthorizeKey(w, k, p, a, to, perms)
      PROVE  TypeOK'
  <2>1. a \in Assets /\ p \in Assets
    BY DEF Free, TypeOK
  <2>2. perms \in SUBSET Permissions
    BY <1>4 DEF AuthorizeKey, Delegable, AdminOriginPermissions
  <2>3. asset' \in [Assets -> AssetAccount]
    BY <1>4, <2>1, <2>2 DEF AuthorizeKey, TypeOK
  <2> QED
    BY <1>4, <2>1, <2>3, TouchedType DEF AuthorizeKey, TypeOK
<1>5. ASSUME NEW p \in positions, NEW w \in Wallets, NEW k \in Live, NEW r \in Free,
             NEW to \in Wallets, NEW old \in Live \cup {NoKey}, NEW lockout \in Lockouts,
             NEW lock \in BOOLEAN, ConfigureRecovery(w, k, p, r, to, old, lockout, lock)
      PROVE  TypeOK'
  <2>1. r \in Assets /\ p \in Assets
    BY DEF Free, TypeOK
  <2>2. lockout \in 0 .. MaxLockout
    <3>1. Lockouts \subseteq Int /\ MaxLockout \in Nat
      BY KeyringAssumption
    <3> QED
      BY <1>5, <3>1 DEF ConfigureRecovery, LockoutAllowed
  <2>3. asset' \in [Assets -> AssetAccount]
    BY <1>5, <2>1 DEF ConfigureRecovery, RecoveryMinted, TypeOK
  <2>4. position' \in [Assets -> PositionState]
    <3>1. position[p] \in PositionState /\ now \in 0 .. MaxTime
      BY <2>1 DEF TypeOK
    <3>2. (IF lock THEN TRUE ELSE position[p].recovery_config_locked) \in BOOLEAN
      BY <3>1 DEF PositionState
    <3>3. RecoverySettled(p, r, lockout, lock) \in PositionState
      BY <2>1, <2>2, <3>1, <3>2 DEF RecoverySettled, PositionState
    <3> QED
      BY <1>5, <2>1, <3>3 DEF ConfigureRecovery, TypeOK
  <2> QED
    BY <1>5, <2>1, <2>3, <2>4, TouchedType DEF ConfigureRecovery, TypeOK
<1>6. ASSUME NEW p \in positions, NEW w \in Wallets, NEW k \in Live, NEW old \in Assets,
             NEW new \in Free, ExecuteRecovery(w, k, p, old, new)
      PROVE  TypeOK'
  <2>1. new \in Assets /\ p \in Assets
    BY DEF Free, TypeOK
  <2>2. asset' \in [Assets -> AssetAccount]
    BY <1>6, <2>1 DEF ExecuteRecovery, KeysRecovered, TypeOK
  <2>3. SettingsAfterRecovery(p, new) \in PositionState
    BY <2>1, FreshType DEF SettingsAfterRecovery
  <2> QED
    BY <1>6, <2>1, <2>2, <2>3, TouchedType DEF ExecuteRecovery, TypeOK
<1>7. ASSUME NEW a \in Live, NEW to \in Wallets, TransferKey(a, to)
      PROVE  TypeOK'
  BY <1>7 DEF TransferKey, TypeOK, AssetAccount
<1>8. ASSUME NEW a \in Live, DestroyKey(a)
      PROVE  TypeOK'
  BY <1>8 DEF DestroyKey, TypeOK
<1>9. ASSUME NEW a \in Free, NEW p \in positions, NEW w \in Wallets, ForeignMint(a, w, p)
      PROVE  TypeOK'
  <2>1. [state |-> "live", authority |-> "foreign", owner |-> w,
         position |-> p, permissions |-> PRESET_ADMIN] \in AssetAccount
    BY DEF AssetAccount, TypeOK
  <2> QED
    BY <1>9, <2>1 DEF ForeignMint, TypeOK
<1>10. CASE Tick
  BY <1>10, KeyringAssumption DEF Tick, TypeOK
<1>11. CASE UNCHANGED vars
  BY <1>11 DEF vars, TypeOK
<1>12. CASE Instruction
  <2>1. CASE \E w \in Wallets, a \in Free : CreatePosition(w, a)
    BY <1>1, <2>1
  <2>2. ASSUME NEW w \in Wallets, NEW p \in positions, NEW k \in Live,
               \/ Heartbeat(w, k, p)
               \/ \E t \in Assets : RevokeKey(w, k, p, t)
               \/ \E a \in Free, to \in Wallets, perms \in PermissionMasks :
                     AuthorizeKey(w, k, p, a, to, perms)
               \/ \E r \in Free, to \in Wallets, old \in Live \cup {NoKey},
                     lockout \in Lockouts, lock \in BOOLEAN :
                     ConfigureRecovery(w, k, p, r, to, old, lockout, lock)
               \/ \E old \in Assets, new \in Free : ExecuteRecovery(w, k, p, old, new)
        PROVE  TypeOK'
    BY <1>2, <1>3, <1>4, <1>5, <1>6, <2>2
  <2> QED
    BY <1>12, <2>1, <2>2 DEF Instruction
<1>13. CASE Environment
  BY <1>7, <1>8, <1>9, <1>10, <1>13 DEF Environment
<1> QED
  BY <1>11, <1>12, <1>13 DEF Next

(* The types hold, whatever the constants.                                 *)
THEOREM TypeCorrect == Spec => []TypeOK
  BY TypeInit, TypeNext, PTL DEF Spec
-----------------------------------------------------------------------------
(* Keys and roles.  The three invariants about them hold each other up,    *)
(* with three more facts: the address that names a position stays used,    *)
(* live keys belong to existing positions, and no key is named twice.      *)

Founded == \A p \in positions : ~IsFree(p)

KeysBound ==
    \A a \in Assets :
        IsLive(a) /\ asset[a].authority = "collection" => asset[a].position \in positions

Apart ==
    \A p \in positions :
        /\ position[p].current_admin_asset \notin keyStates
        /\ position[p].recovery_asset \notin keyStates
        /\ position[p].current_admin_asset # position[p].recovery_asset

Roles ==
    /\ TypeOK
    /\ Founded
    /\ KeysBound
    /\ Apart
    /\ SoleAdmin
    /\ OneRolePerKey
    /\ NoDangling

(* What the records written by the instructions say.                       *)
LEMMA StubState == Stub("burned").state = "burned" /\ Stub("destroyed").state = "destroyed"
  BY DEF Stub, Unminted

LEMMA MintedFields ==
    ASSUME NEW a, NEW to, NEW p, NEW perms
    PROVE  /\ Minted(a, to, p, perms).state = "live"
           /\ Minted(a, to, p, perms).authority = "collection"
           /\ Minted(a, to, p, perms).position = p
           /\ Minted(a, to, p, perms).permissions = perms
  BY DEF Minted

LEMMA FreshFields ==
    ASSUME NEW a
    PROVE  LET fresh == [BlankPosition EXCEPT !.current_admin_asset = a,
                                              !.last_admin_activity = now]
           IN fresh.current_admin_asset = a /\ fresh.recovery_asset = NoKey
  BY DEF BlankPosition

LEMMA RolesInit == Init => Roles
  BY TypeInit DEF Init, Roles, Founded, KeysBound, Apart, SoleAdmin, OneRolePerKey,
                  NoDangling, KeysOf, IsLive, Unminted

LEMMA RolesCreate ==
    ASSUME Roles, TypeOK', NEW w \in Wallets, NEW a \in Assets, CreatePosition(w, a)
    PROVE  Roles'
<1> USE StubState, MintedFields DEF IsLive, IsFree, KeysOf
<1>1. /\ asset' = [asset EXCEPT ![a] = Minted(a, w, a, PRESET_ADMIN)]
      /\ positions' = positions \cup {a}
      /\ keyStates' = keyStates
      /\ position'[a].current_admin_asset = a
      /\ position'[a].recovery_asset = NoKey
      /\ \A p \in Assets \ {a} : position'[p] = position[p]
  BY FreshFields DEF CreatePosition, Roles, TypeOK
<1>2. /\ IsFree(a) /\ a \notin positions /\ a \notin keyStates /\ a # NoKey
      /\ positions \subseteq Assets
      /\ asset \in [Assets -> AssetAccount]
      /\ keyStates \subseteq Assets
  <2>1. NoKey \notin Assets
    BY KeyringAssumption
  <2> QED
    BY <2>1 DEF CreatePosition, Roles, TypeOK, Founded, NoDangling
<1>3. Founded'
  BY <1>1, <1>2 DEF Roles, Founded
<1>4. KeysBound'
  BY <1>1, <1>2 DEF Roles, KeysBound
<1>5. Apart'
  BY <1>1, <1>2, KeyringAssumption DEF Roles, Apart
<1>6. SoleAdmin'
  BY <1>1, <1>2 DEF Roles, SoleAdmin, KeysBound
<1>7. OneRolePerKey'
  BY <1>1, <1>2 DEF Roles, OneRolePerKey, KeysBound
<1>8. NoDangling'
  BY <1>1, <1>2 DEF Roles, NoDangling
<1> QED
  BY <1>3, <1>4, <1>5, <1>6, <1>7, <1>8 DEF Roles

(* Bringing the activity time up to date changes no role.                  *)
LEMMA TouchedFields ==
    ASSUME TypeOK, NEW p \in Assets,
           position' = [position EXCEPT ![p].last_admin_activity = now]
    PROVE  \A q \in Assets :
              /\ position'[q].current_admin_asset = position[q].current_admin_asset
              /\ position'[q].recovery_asset = position[q].recovery_asset
  BY DEF TypeOK, PositionState

LEMMA RolesAuthorize ==
    ASSUME Roles, TypeOK', NEW w, NEW k, NEW p \in Assets, NEW a \in Assets,
           NEW to \in Wallets, NEW perms, AuthorizeKey(w, k, p, a, to, perms)
    PROVE  Roles'
<1> USE StubState, MintedFields DEF IsLive, IsFree, KeysOf
<1>1. /\ asset' = [asset EXCEPT ![a] = Minted(a, to, p, perms)]
      /\ positions' = positions
      /\ keyStates' = keyStates \cup {a}
      /\ \A q \in Assets :
            /\ position'[q].current_admin_asset = position[q].current_admin_asset
            /\ position'[q].recovery_asset = position[q].recovery_asset
  BY TouchedFields DEF AuthorizeKey, Roles
<1>2. /\ IsFree(a) /\ a \notin keyStates /\ p \in positions
      /\ "MANAGE_KEYS" \notin perms
      /\ positions \subseteq Assets
      /\ asset \in [Assets -> AssetAccount]
      /\ keyStates \subseteq Assets
  BY DEF AuthorizeKey, Delegable, AdminOriginPermissions, Roles, TypeOK
<1>3. \A q \in positions : a # position[q].current_admin_asset
                           /\ a # position[q].recovery_asset
  <2>1. NoKey \notin Assets
    BY KeyringAssumption
  <2> QED
    BY <1>2, <2>1 DEF Roles, NoDangling
<1>4. Founded'
  BY <1>1, <1>2 DEF Roles, Founded
<1>5. KeysBound'
  BY <1>1, <1>2 DEF Roles, KeysBound
<1>6. Apart'
  BY <1>1, <1>2, <1>3 DEF Roles, Apart
<1>7. SoleAdmin'
  BY <1>1, <1>2 DEF Roles, SoleAdmin
<1>8. OneRolePerKey'
  BY <1>1, <1>2, <1>3 DEF Roles, OneRolePerKey
<1>9. NoDangling'
  BY <1>1, <1>2, <1>3 DEF Roles, NoDangling
<1> QED
  BY <1>4, <1>5, <1>6, <1>7, <1>8, <1>9 DEF Roles

LEMMA RolesRevoke ==
    ASSUME Roles, TypeOK', NEW w, NEW k, NEW p \in Assets, NEW t \in Assets,
           RevokeKey(w, k, p, t)
    PROVE  Roles'
<1> USE StubState DEF IsLive, IsFree, KeysOf
<1>1. /\ asset' = [asset EXCEPT ![t] = Stub("burned")]
      /\ positions' = positions
      /\ keyStates' = keyStates \ {t}
      /\ \A q \in Assets :
            /\ position'[q].current_admin_asset = position[q].current_admin_asset
            /\ position'[q].recovery_asset = position[q].recovery_asset
  BY TouchedFields DEF RevokeKey, Roles
<1>2. /\ t \in keyStates
      /\ positions \subseteq Assets
      /\ asset \in [Assets -> AssetAccount]
      /\ keyStates \subseteq Assets
  BY DEF RevokeKey, Roles, TypeOK
<1>3. \A q \in positions : t # position[q].current_admin_asset
                           /\ t # position[q].recovery_asset
  BY <1>2 DEF Roles, Apart
<1>4. Founded'
  BY <1>1, <1>2 DEF Roles, Founded
<1>5. KeysBound'
  BY <1>1, <1>2 DEF Roles, KeysBound
<1>6. Apart'
  BY <1>1, <1>2 DEF Roles, Apart
<1>7. SoleAdmin'
  BY <1>1, <1>2 DEF Roles, SoleAdmin
<1>8. OneRolePerKey'
  BY <1>1, <1>2, <1>3 DEF Roles, OneRolePerKey
<1>9. NoDangling'
  BY <1>1, <1>2, <1>3 DEF Roles, NoDangling
<1> QED
  BY <1>4, <1>5, <1>6, <1>7, <1>8, <1>9 DEF Roles

LEMMA RolesConfigure ==
    ASSUME Roles, TypeOK', NEW w, NEW k, NEW p \in Assets, NEW r \in Assets,
           NEW to \in Wallets, NEW old, NEW lockout, NEW lock,
           ConfigureRecovery(w, k, p, r, to, old, lockout, lock)
    PROVE  Roles'
<1> DEFINE previous == position[p].recovery_asset
<1> USE StubState, MintedFields DEF IsLive, IsFree, KeysOf
<1>1. /\ asset' = [a \in Assets |->
                     IF a = r THEN Minted(r, to, p, {})
                     ELSE IF a = previous THEN Stub("burned") ELSE asset[a]]
      /\ positions' = positions
      /\ keyStates' = keyStates
  BY DEF ConfigureRecovery, RecoveryMinted
<1>2. /\ \A q \in Assets :
            position'[q].current_admin_asset = position[q].current_admin_asset
      /\ position'[p].recovery_asset = r
      /\ \A q \in Assets \ {p} : position'[q].recovery_asset = position[q].recovery_asset
  BY DEF ConfigureRecovery, RecoverySettled, Roles, TypeOK, PositionState
<1>3. /\ IsFree(r) /\ p \in positions
      /\ positions \subseteq Assets
      /\ asset \in [Assets -> AssetAccount]
      /\ keyStates \subseteq Assets
      /\ NoKey \notin Assets
      /\ previous # NoKey => IsLive(previous)
      /\ previous \in Assets \cup {NoKey}
  <2>1. NoKey \notin Assets
    BY KeyringAssumption
  <2> QED
    BY <2>1 DEF ConfigureRecovery, ReplacementAccepted, Roles, TypeOK, PositionState
<1>4. /\ r \notin keyStates
      /\ \A q \in positions : r # position[q].current_admin_asset
                              /\ r # position[q].recovery_asset
  BY <1>3 DEF Roles, NoDangling
<1>5. previous # NoKey =>
         /\ previous \notin keyStates
         /\ asset[previous].position = p
         /\ \A q \in positions \ {p} : previous # position[q].current_admin_asset
                                       /\ previous # position[q].recovery_asset
         /\ previous # position[p].current_admin_asset
  BY <1>3 DEF Roles, NoDangling, Apart
<1>6. Founded'
  BY <1>1, <1>3 DEF Roles, Founded
<1>7. KeysBound'
  BY <1>1, <1>3 DEF Roles, KeysBound
<1>8. Apart'
  BY <1>1, <1>2, <1>3, <1>4 DEF Roles, Apart
<1>9. SoleAdmin'
  BY <1>1, <1>2, <1>3 DEF Roles, SoleAdmin
<1>10. OneRolePerKey'
  BY <1>1, <1>2, <1>3, <1>4, <1>5 DEF Roles, OneRolePerKey, KeysBound
<1>11. NoDangling'
  <2>1. \A a \in Assets \ {r, previous} : asset'[a] = asset[a]
    BY <1>1
  <2>2. r \in KeysOf(p)'
    BY <1>1
  <2>3. ASSUME NEW q \in positions
        PROVE  /\ position'[q].current_admin_asset # NoKey
               /\ \/ position'[q].current_admin_asset \in KeysOf(q)'
                  \/ asset'[position'[q].current_admin_asset].state = "destroyed"
    <3> DEFINE cur == position[q].current_admin_asset
    <3>1. /\ cur \in Assets /\ position'[q].current_admin_asset = cur
          /\ cur \in KeysOf(q) \/ asset[cur].state = "destroyed"
      BY <1>2, <1>3 DEF Roles, NoDangling, TypeOK, PositionState
    <3>2. cur # r /\ cur # previous
      BY <1>3, <1>4, <1>5, <3>1
    <3> QED
      BY <1>3, <2>1, <3>1, <3>2
  <2>4. ASSUME NEW q \in positions, position'[q].recovery_asset # NoKey
        PROVE  \/ position'[q].recovery_asset \in KeysOf(q)'
               \/ asset'[position'[q].recovery_asset].state = "destroyed"
    <3> DEFINE rec == position[q].recovery_asset
    <3>1. CASE q = p
      BY <1>2, <2>2, <3>1
    <3>2. CASE q # p
      <4>1. /\ rec \in Assets /\ position'[q].recovery_asset = rec
            /\ rec \in KeysOf(q) \/ asset[rec].state = "destroyed"
        BY <1>2, <1>3, <2>4, <3>2 DEF Roles, NoDangling, TypeOK, PositionState
      <4>2. rec # r /\ rec # previous
        BY <1>3, <1>4, <1>5, <3>2, <4>1
      <4> QED
        BY <1>3, <2>1, <4>1, <4>2
    <3> QED
      BY <3>1, <3>2
  <2>5. ASSUME NEW a \in keyStates
        PROVE  asset'[a].state = "destroyed" \/ \E q \in positions : a \in KeysOf(q)'
    BY <1>3, <1>4, <1>5, <2>1 DEF Roles, NoDangling
  <2> HIDE DEF KeysOf, previous
  <2> QED
    BY <1>1, <2>3, <2>4, <2>5 DEF NoDangling
<1> QED
  BY <1>6, <1>7, <1>8, <1>9, <1>10, <1>11 DEF Roles

LEMMA RolesRecover ==
    ASSUME Roles, TypeOK', NEW w \in Wallets, NEW r \in Assets, NEW p \in Assets,
           NEW old \in Assets, NEW new \in Assets, ExecuteRecovery(w, r, p, old, new)
    PROVE  Roles'
<1> USE StubState, MintedFields DEF IsLive, IsFree, KeysOf
<1>1. /\ asset' = [a \in Assets |->
                     IF a = new THEN Minted(new, w, p, PRESET_ADMIN)
                     ELSE IF a \in {old, r} THEN Stub("burned") ELSE asset[a]]
      /\ positions' = positions
      /\ keyStates' = keyStates
      /\ old = position[p].current_admin_asset
      /\ r = position[p].recovery_asset
  BY DEF ExecuteRecovery, KeysRecovered
<1>2. /\ position'[p].current_admin_asset = new
      /\ position'[p].recovery_asset = NoKey
      /\ \A q \in Assets \ {p} : position'[q] = position[q]
  BY FreshFields DEF ExecuteRecovery, SettingsAfterRecovery, Roles, TypeOK
<1>3. /\ IsFree(new) /\ IsLive(old) /\ IsLive(r) /\ p \in positions
      /\ positions \subseteq Assets
      /\ asset \in [Assets -> AssetAccount]
      /\ keyStates \subseteq Assets
      /\ NoKey \notin Assets
  <2>1. NoKey \notin Assets
    BY KeyringAssumption
  <2> QED
    BY <2>1 DEF ExecuteRecovery, Roles, TypeOK
<1>4. /\ new \notin keyStates /\ NoKey \notin keyStates
      /\ \A q \in positions : new # position[q].current_admin_asset
                              /\ new # position[q].recovery_asset
  BY <1>3 DEF Roles, NoDangling
<1>5. /\ old \in KeysOf(p) /\ r \in KeysOf(p)
      /\ old \notin keyStates /\ r \notin keyStates
  BY <1>1, <1>3 DEF Roles, NoDangling, Apart
<1>6. ASSUME NEW q \in positions \ {p},
             NEW a \in {position[q].current_admin_asset, position[q].recovery_asset}
      PROVE  a \notin {old, r, new}
  BY <1>3, <1>4, <1>5 DEF Roles, NoDangling
<1>7. Founded'
  BY <1>1, <1>3 DEF Roles, Founded
<1>8. KeysBound'
  BY <1>1, <1>3 DEF Roles, KeysBound
<1>9. Apart'
  BY <1>1, <1>2, <1>3, <1>4 DEF Roles, Apart
<1>10. SoleAdmin'
  BY <1>1, <1>2, <1>3 DEF Roles, SoleAdmin
<1>11. OneRolePerKey'
  BY <1>1, <1>2, <1>3, <1>4, <1>5 DEF Roles, OneRolePerKey, PRESET_ADMIN
<1>12. NoDangling'
  <2>1. \A a \in Assets \ {old, r, new} : asset'[a] = asset[a]
    BY <1>1
  <2>2. new \in KeysOf(p)'
    BY <1>1
  <2>3. ASSUME NEW q \in positions,
               NEW a \in {position'[q].current_admin_asset, position'[q].recovery_asset},
               a # NoKey
        PROVE  a \in KeysOf(q)' \/ asset'[a].state = "destroyed"
    <3>1. CASE q = p
      BY <1>2, <2>2, <2>3, <3>1
    <3>2. CASE q # p
      <4>1. a \in {position[q].current_admin_asset, position[q].recovery_asset}
        BY <1>2, <1>3, <3>2
      <4>2. a \in Assets \ {old, r, new}
        BY <1>3, <1>6, <2>3, <3>2, <4>1 DEF Roles, TypeOK, PositionState
      <4>3. a \in KeysOf(q) \/ asset[a].state = "destroyed"
        BY <2>3, <4>1 DEF Roles, NoDangling
      <4> QED
        BY <2>1, <4>2, <4>3
    <3> QED
      BY <3>1, <3>2
  <2>4. ASSUME NEW q \in positions
        PROVE  position'[q].current_admin_asset # NoKey
    BY <1>2, <1>3 DEF Roles, NoDangling
  <2>5. ASSUME NEW a \in keyStates
        PROVE  asset'[a].state = "destroyed" \/ \E q \in positions : a \in KeysOf(q)'
    BY <1>3, <1>4, <1>5, <2>1 DEF Roles, NoDangling
  <2> HIDE DEF KeysOf
  <2> QED
    BY <1>1, <2>3, <2>4, <2>5 DEF NoDangling
<1> QED
  BY <1>7, <1>8, <1>9, <1>10, <1>11, <1>12 DEF Roles

(* What happens to a key outside the program: its owner changes, or it     *)
(* goes.                                                                   *)
LEMMA RolesTransfer ==
    ASSUME Roles, TypeOK', NEW a \in Assets, NEW to \in Wallets, TransferKey(a, to)
    PROVE  Roles'
<1>1. /\ UNCHANGED <<positions, position, keyStates>>
      /\ \A b \in Assets : /\ asset'[b].state = asset[b].state
                           /\ asset'[b].authority = asset[b].authority
                           /\ asset'[b].position = asset[b].position
                           /\ asset'[b].permissions = asset[b].permissions
  BY DEF TransferKey, Roles, TypeOK, AssetAccount
<1>2. \A p : KeysOf(p)' = KeysOf(p)
  BY <1>1 DEF KeysOf, IsLive
<1>3. positions \subseteq Assets /\ keyStates \subseteq Assets
  BY DEF Roles, TypeOK
<1>4. Founded' /\ KeysBound' /\ Apart'
  BY <1>1, <1>3 DEF Roles, Founded, KeysBound, Apart, IsFree, IsLive
<1>5. \A p : KeysOf(p) \subseteq Assets
  BY DEF KeysOf
<1>6. SoleAdmin' /\ OneRolePerKey'
  BY <1>1, <1>2, <1>5 DEF Roles, SoleAdmin, OneRolePerKey
<1>7. NoDangling'
  BY <1>1, <1>2, <1>3 DEF Roles, TypeOK, PositionState, NoDangling
<1> QED
  BY <1>4, <1>6, <1>7 DEF Roles

LEMMA RolesDestroy ==
    ASSUME Roles, TypeOK', NEW a \in Assets, DestroyKey(a)
    PROVE  Roles'
<1> USE StubState DEF IsLive, IsFree, KeysOf
<1>1. /\ UNCHANGED <<positions, position, keyStates>>
      /\ asset' = [asset EXCEPT ![a] = Stub("destroyed")]
      /\ asset \in [Assets -> AssetAccount]
      /\ positions \subseteq Assets /\ keyStates \subseteq Assets
  BY DEF DestroyKey, Roles, TypeOK
<1>2. Founded' /\ KeysBound' /\ Apart'
  BY <1>1 DEF Roles, Founded, KeysBound, Apart
<1>3. SoleAdmin'
  BY <1>1 DEF Roles, SoleAdmin
<1>4. OneRolePerKey'
  BY <1>1 DEF Roles, OneRolePerKey
<1>5. NoDangling'
  BY <1>1 DEF Roles, NoDangling
<1> QED
  BY <1>2, <1>3, <1>4, <1>5 DEF Roles

LEMMA RolesForeign ==
    ASSUME Roles, TypeOK', NEW a \in Assets, NEW w \in Wallets, NEW p \in Assets,
           ForeignMint(a, w, p)
    PROVE  Roles'
<1> USE DEF IsLive, IsFree, KeysOf
<1>1. /\ UNCHANGED <<positions, position, keyStates>>
      /\ IsFree(a)
      /\ asset'[a].state = "live" /\ asset'[a].authority = "foreign"
      /\ \A b \in Assets \ {a} : asset'[b] = asset[b]
      /\ asset \in [Assets -> AssetAccount]
      /\ positions \subseteq Assets /\ keyStates \subseteq Assets
  BY DEF ForeignMint, Roles, TypeOK
<1>2. Founded' /\ KeysBound' /\ Apart'
  BY <1>1 DEF Roles, Founded, KeysBound, Apart
<1>3. SoleAdmin'
  BY <1>1 DEF Roles, SoleAdmin
<1>4. OneRolePerKey'
  BY <1>1 DEF Roles, OneRolePerKey
<1>5. NoDangling'
  <2>1. \A b, q \in Assets : b \in KeysOf(q) => b \in KeysOf(q)'
    BY <1>1
  <2>2. \A b \in Assets : asset[b].state = "destroyed" => asset'[b].state = "destroyed"
    BY <1>1
  <2>3. \A q \in positions : /\ position[q].current_admin_asset \in Assets \cup {NoKey}
                             /\ position[q].recovery_asset \in Assets \cup {NoKey}
    BY DEF Roles, TypeOK, PositionState
  <2> HIDE DEF KeysOf
  <2> QED
    BY <1>1, <2>1, <2>2, <2>3 DEF Roles, NoDangling
<1> QED
  BY <1>2, <1>3, <1>4, <1>5 DEF Roles

(* No step of the program or around it disturbs the roles.                 *)
LEMMA RolesNext == Roles /\ [Next]_vars => Roles'
<1> SUFFICES ASSUME Roles, [Next]_vars PROVE Roles'
  OBVIOUS
<1>1. TypeOK /\ TypeOK'
  BY TypeNext DEF Roles
<1>2. positions \subseteq Assets /\ Live \subseteq Assets /\ Free \subseteq Assets
  BY <1>1 DEF TypeOK, Live, Free
<1>3. ASSUME UNCHANGED <<asset, positions, keyStates>>,
             \A q \in Assets :
                /\ position'[q].current_admin_asset = position[q].current_admin_asset
                /\ position'[q].recovery_asset = position[q].recovery_asset
      PROVE  Roles'
  <2>1. \A p : KeysOf(p)' = KeysOf(p)
    BY <1>3 DEF KeysOf, IsLive
  <2> QED
    BY <1>1, <1>2, <1>3, <2>1
       DEF Roles, Founded, KeysBound, Apart, SoleAdmin, OneRolePerKey, NoDangling,
           IsFree, IsLive
<1>4. ASSUME NEW p \in positions, NEW w \in Wallets, NEW k \in Live, Heartbeat(w, k, p)
      PROVE  Roles'
  BY <1>1, <1>2, <1>3, <1>4, TouchedFields DEF Heartbeat
<1>5. ASSUME NEW w \in Wallets, NEW p \in positions, NEW k \in Live,
             \/ Heartbeat(w, k, p)
             \/ \E t \in Assets : RevokeKey(w, k, p, t)
             \/ \E a \in Free, to \in Wallets, perms \in PermissionMasks :
                   AuthorizeKey(w, k, p, a, to, perms)
             \/ \E r \in Free, to \in Wallets, old \in Live \cup {NoKey},
                   lockout \in Lockouts, lock \in BOOLEAN :
                   ConfigureRecovery(w, k, p, r, to, old, lockout, lock)
             \/ \E old \in Assets, new \in Free : ExecuteRecovery(w, k, p, old, new)
      PROVE  Roles'
  BY <1>1, <1>2, <1>4, <1>5, RolesRevoke, RolesAuthorize, RolesConfigure, RolesRecover
<1>6. CASE Instruction
  BY <1>1, <1>2, <1>5, <1>6, RolesCreate DEF Instruction
<1>7. CASE Tick
  BY <1>3, <1>7 DEF Tick
<1>8. CASE Environment
  BY <1>1, <1>2, <1>7, <1>8, RolesTransfer, RolesDestroy, RolesForeign DEF Environment
<1>9. CASE UNCHANGED vars
  BY <1>3, <1>9 DEF vars
<1> QED
  BY <1>6, <1>8, <1>9 DEF Next

LEMMA RolesHold == Spec => []Roles
  BY RolesInit, RolesNext, PTL DEF Spec

(* There is never a second admin.                                          *)
THEOREM AdminIsSole == Spec => []SoleAdmin
  BY RolesHold, PTL DEF Roles

(* Every live key has one role, and the admin can reach it.                *)
THEOREM RolesAreDisjoint == Spec => []OneRolePerKey
  BY RolesHold, PTL DEF Roles

(* The program leaves no dangling name behind.                             *)
THEOREM NothingDangles == Spec => []NoDangling
  BY RolesHold, PTL DEF Roles
-----------------------------------------------------------------------------
(* Succession.  Who controls a position changes in execute_recovery alone, *)
(* and by then the recorded silence is the real one.                       *)

TimerExact == \A p \in Assets : position[p].last_admin_activity = lastSigned[p]

LEMMA TimerInit == Init => TimerExact
  BY DEF Init, TimerExact, BlankPosition

(* A step that signs for p stores the same time twice.                     *)
LEMMA TimerStored ==
    ASSUME TypeOK, TimerExact, NEW p \in Assets,
           position'[p].last_admin_activity = now,
           \A q \in Assets \ {p} : position'[q] = position[q],
           lastSigned' = [lastSigned EXCEPT ![p] = now]
    PROVE  TimerExact'
  BY DEF TypeOK, TimerExact

LEMMA TimerNext == TypeOK /\ TimerExact /\ [Next]_vars => TimerExact'
<1> SUFFICES ASSUME TypeOK, TimerExact, [Next]_vars PROVE TimerExact'
  OBVIOUS
<1>1. positions \subseteq Assets /\ Free \subseteq Assets /\ position \in [Assets -> PositionState]
  BY DEF TypeOK, Free
<1>2. ASSUME NEW p \in Assets, position' = [position EXCEPT ![p].last_admin_activity = now],
             lastSigned' = [lastSigned EXCEPT ![p] = now]
      PROVE  TimerExact'
  <2>1. /\ position'[p].last_admin_activity = now
        /\ \A q \in Assets \ {p} : position'[q] = position[q]
    BY <1>1, <1>2 DEF PositionState
  <2> QED
    BY <1>2, <2>1, TimerStored
<1>3. ASSUME NEW p \in Assets, NEW to \in PositionState, to.last_admin_activity = now,
             position' = [position EXCEPT ![p] = to],
             lastSigned' = [lastSigned EXCEPT ![p] = now]
      PROVE  TimerExact'
  BY <1>1, <1>3, TimerStored
<1>4. ASSUME NEW a \in Assets
      PROVE  LET fresh == [BlankPosition EXCEPT !.current_admin_asset = a,
                                                !.last_admin_activity = now]
             IN fresh \in PositionState /\ fresh.last_admin_activity = now
  <2>1. BlankPosition \in PositionState
    BY BlankType
  <2> QED
    BY <1>4, <2>1, FreshType DEF PositionState
<1>5. ASSUME NEW w \in Wallets, NEW a \in Free, CreatePosition(w, a)
      PROVE  TimerExact'
  BY <1>1, <1>3, <1>4, <1>5 DEF CreatePosition
<1>6. ASSUME NEW w \in Wallets, NEW p \in positions, NEW r \in Free, NEW k, NEW to, NEW old,
             NEW lockout, NEW lock, ConfigureRecovery(w, k, p, r, to, old, lockout, lock)
      PROVE  TimerExact'
  <2>1. /\ position'[p].last_admin_activity = now
        /\ \A q \in Assets \ {p} : position'[q] = position[q]
    BY <1>1, <1>6 DEF ConfigureRecovery, RecoverySettled, PositionState
  <2> QED
    BY <1>1, <1>6, <2>1, TimerStored DEF ConfigureRecovery
<1>7. ASSUME NEW w, NEW p \in positions, NEW r, NEW old, NEW new \in Free,
             ExecuteRecovery(w, r, p, old, new)
      PROVE  TimerExact'
  BY <1>1, <1>3, <1>4, <1>7 DEF ExecuteRecovery, SettingsAfterRecovery
<1>8. ASSUME NEW w \in Wallets, NEW p \in positions, NEW k \in Live,
             \/ Heartbeat(w, k, p)
             \/ \E t \in Assets : RevokeKey(w, k, p, t)
             \/ \E a \in Free, to \in Wallets, perms \in PermissionMasks :
                   AuthorizeKey(w, k, p, a, to, perms)
      PROVE  TimerExact'
  BY <1>1, <1>2, <1>8 DEF Heartbeat, RevokeKey, AuthorizeKey
<1>9. CASE Instruction
  <2>1. ASSUME NEW w \in Wallets, NEW p \in positions, NEW k \in Live,
               \/ Heartbeat(w, k, p)
               \/ \E t \in Assets : RevokeKey(w, k, p, t)
               \/ \E a \in Free, to \in Wallets, perms \in PermissionMasks :
                     AuthorizeKey(w, k, p, a, to, perms)
               \/ \E r \in Free, to \in Wallets, old \in Live \cup {NoKey},
                     lockout \in Lockouts, lock \in BOOLEAN :
                     ConfigureRecovery(w, k, p, r, to, old, lockout, lock)
               \/ \E old \in Assets, new \in Free : ExecuteRecovery(w, k, p, old, new)
        PROVE  TimerExact'
    BY <1>6, <1>7, <1>8, <2>1
  <2> QED
    BY <1>5, <1>9, <2>1 DEF Instruction
<1>10. CASE Environment \/ UNCHANGED vars
  BY <1>10 DEF Environment, TransferKey, DestroyKey, ForeignMint, Tick, vars, TimerExact
<1> QED
  BY <1>9, <1>10 DEF Next

(* What a step does to the name of the admin key: only a recovery changes  *)
(* that of a position that exists, and it changes nothing else's.          *)
LEMMA AdminNamed ==
    ASSUME Roles, [Next]_vars, NEW p \in positions,
           position'[p].current_admin_asset # position[p].current_admin_asset
    PROVE  \E w \in Wallets, r \in Live, new \in Free :
              ExecuteRecovery(w, r, p, position[p].current_admin_asset, new)
<1>1. /\ TypeOK /\ positions \subseteq Assets /\ position \in [Assets -> PositionState]
      /\ p \in Assets
  BY DEF Roles, TypeOK
<1>2. ASSUME NEW w, NEW a \in Free, CreatePosition(w, a)
      PROVE  position'[p] = position[p]
  <2>1. a # p
    BY DEF Roles, Founded, Free
  <2> QED
    BY <1>1, <1>2, <2>1 DEF CreatePosition
<1>3. ASSUME NEW q \in positions, NEW w, NEW k,
             \/ Heartbeat(w, k, q)
             \/ \E t \in Assets : RevokeKey(w, k, q, t)
             \/ \E a \in Free, to \in Wallets, perms \in PermissionMasks :
                   AuthorizeKey(w, k, q, a, to, perms)
      PROVE  position'[p].current_admin_asset = position[p].current_admin_asset
  BY <1>1, <1>3, TouchedFields DEF Heartbeat, RevokeKey, AuthorizeKey
<1>4. ASSUME NEW q \in positions, NEW w, NEW k, NEW r, NEW to, NEW old, NEW lockout, NEW lock,
             ConfigureRecovery(w, k, q, r, to, old, lockout, lock)
      PROVE  position'[p].current_admin_asset = position[p].current_admin_asset
  BY <1>1, <1>4 DEF ConfigureRecovery, RecoverySettled, PositionState
<1>5. ASSUME NEW q \in positions, NEW w, NEW r, NEW old, NEW new,
             ExecuteRecovery(w, r, q, old, new)
      PROVE  q = p /\ old = position[p].current_admin_asset
  BY <1>1, <1>5 DEF ExecuteRecovery
<1>6. ASSUME Environment \/ UNCHANGED vars
      PROVE  position' = position
  BY <1>6 DEF Environment, TransferKey, DestroyKey, ForeignMint, Tick, vars
<1>7. CASE Instruction
  <2>1. PICK w \in Wallets, q \in positions, k \in Live :
           \/ Heartbeat(w, k, q)
           \/ \E t \in Assets : RevokeKey(w, k, q, t)
           \/ \E a \in Free, to \in Wallets, perms \in PermissionMasks :
                 AuthorizeKey(w, k, q, a, to, perms)
           \/ \E r \in Free, to \in Wallets, old \in Live \cup {NoKey},
                 lockout \in Lockouts, lock \in BOOLEAN :
                 ConfigureRecovery(w, k, q, r, to, old, lockout, lock)
           \/ \E old \in Assets, new \in Free : ExecuteRecovery(w, k, q, old, new)
    BY <1>2, <1>7 DEF Instruction
  <2>2. PICK old \in Assets, new \in Free : ExecuteRecovery(w, k, q, old, new)
    BY <1>3, <1>4, <2>1
  <2> QED
    BY <1>5, <2>2
<1> QED
  BY <1>6, <1>7 DEF Next

(* Control passes only to the holder of the recovery key and only after    *)
(* the admin key has been silent for the whole lockout.                    *)
THEOREM SuccessionEarned == Spec => SuccessionIsEarned
<1>1. Roles /\ TimerExact /\ [Next]_vars =>
         [\A p \in positions :
            position'[p].current_admin_asset # position[p].current_admin_asset =>
              /\ position[p].recovery_asset \in Assets
              /\ now - lastSigned[p] >= position[p].recovery_lockout_secs
              /\ asset'[position'[p].current_admin_asset].owner
                    = asset[position[p].recovery_asset].owner]_vars
  <2> SUFFICES ASSUME Roles, TimerExact, [Next]_vars, NEW p \in positions,
                      position'[p].current_admin_asset # position[p].current_admin_asset
               PROVE  /\ position[p].recovery_asset \in Assets
                      /\ now - lastSigned[p] >= position[p].recovery_lockout_secs
                      /\ asset'[position'[p].current_admin_asset].owner
                            = asset[position[p].recovery_asset].owner
    OBVIOUS
  <2>1. PICK w \in Wallets, r \in Live, new \in Free :
           ExecuteRecovery(w, r, p, position[p].current_admin_asset, new)
    BY AdminNamed
  <2>2. p \in Assets /\ new \in Assets /\ r \in Assets
    BY DEF Roles, TypeOK, Free, Live
  <2>3. position[p].recovery_asset = r /\ asset[r].owner = w
    BY <2>1 DEF ExecuteRecovery
  <2>4. now - lastSigned[p] >= position[p].recovery_lockout_secs
    BY <2>1, <2>2 DEF ExecuteRecovery, LockoutExpired, TimerExact
  <2>5. position'[p].current_admin_asset = new
    BY <2>1, <2>2, FreshFields DEF ExecuteRecovery, SettingsAfterRecovery, Roles, TypeOK
  <2>6. asset'[new].owner = w
    BY <2>1, <2>2 DEF ExecuteRecovery, KeysRecovered, Minted
  <2> QED
    BY <2>2, <2>3, <2>4, <2>5, <2>6
<1>2. Spec => []TimerExact
  <2>1. Spec => []TypeOK
    BY TypeCorrect
  <2> QED
    BY <2>1, TimerInit, TimerNext, PTL DEF Spec
<1> QED
  BY <1>1, <1>2, RolesHold, PTL DEF Spec, SuccessionIsEarned
-----------------------------------------------------------------------------
(* Settings and neighbours.                                                *)

(* The steps there are, one by one.                                        *)
LEMMA Steps ==
    ASSUME [Next]_vars
    PROVE  \/ \E w \in Wallets, a \in Free : CreatePosition(w, a)
           \/ \E p \in positions, w \in Wallets, k \in Live : Heartbeat(w, k, p)
           \/ \E p \in positions, w \in Wallets, k \in Live, t \in Assets :
                 RevokeKey(w, k, p, t)
           \/ \E p \in positions, w \in Wallets, k \in Live, a \in Free, to \in Wallets,
                 perms \in PermissionMasks : AuthorizeKey(w, k, p, a, to, perms)
           \/ \E p \in positions, w \in Wallets, k \in Live, r \in Free, to \in Wallets,
                 old \in Live \cup {NoKey}, lockout \in Lockouts, lock \in BOOLEAN :
                 ConfigureRecovery(w, k, p, r, to, old, lockout, lock)
           \/ \E p \in positions, w \in Wallets, k \in Live, old \in Assets, new \in Free :
                 ExecuteRecovery(w, k, p, old, new)
           \/ \E a \in Live, to \in Wallets : TransferKey(a, to)
           \/ \E a \in Live : DestroyKey(a)
           \/ \E a \in Free, p \in positions, w \in Wallets : ForeignMint(a, w, p)
           \/ Tick
           \/ UNCHANGED vars
<1>1. CASE Instruction
  BY <1>1 DEF Instruction
<1>2. CASE Environment
  BY <1>2 DEF Environment
<1> QED
  BY <1>1, <1>2 DEF Next

(* What a step that only dates the admin's activity leaves alone.          *)
LEMMA TouchedSettings ==
    ASSUME TypeOK, NEW p \in Assets, NEW q \in Assets,
           position' = [position EXCEPT ![p].last_admin_activity = now]
    PROVE  /\ q # p => position'[q] = position[q]
           /\ position'[q].current_admin_asset = position[q].current_admin_asset
           /\ position'[q].recovery_asset = position[q].recovery_asset
           /\ position'[q].recovery_lockout_secs = position[q].recovery_lockout_secs
           /\ position'[q].recovery_config_locked = position[q].recovery_config_locked
  BY DEF TypeOK, PositionState

(* recovery_config_locked: whatever was configured when it was set stays   *)
(* configured, until execute_recovery brings a new admin.                  *)
THEOREM SealIsKept == Spec => SealHolds
<1> DEFINE Kept(p) ==
      /\ position'[p].recovery_config_locked
      /\ position'[p].recovery_asset = position[p].recovery_asset
      /\ position'[p].recovery_lockout_secs = position[p].recovery_lockout_secs
<1>1. ASSUME Roles, [Next]_vars, NEW p \in positions, position[p].recovery_config_locked,
             position'[p].current_admin_asset = position[p].current_admin_asset
      PROVE  Kept(p)
  <2>1. /\ TypeOK /\ positions \subseteq Assets /\ p \in Assets
        /\ Live \subseteq Assets /\ Free \subseteq Assets
        /\ position \in [Assets -> PositionState]
    BY <1>1 DEF Roles, TypeOK, Live, Free
  <2>2. CASE position'[p] = position[p]
    BY <1>1, <2>2
  <2>3. ASSUME NEW q \in positions,
               position' = [position EXCEPT ![q].last_admin_activity = now]
        PROVE  Kept(p)
    BY <1>1, <2>1, <2>3, TouchedSettings
  <2>4. ASSUME NEW w, NEW a \in Free, CreatePosition(w, a)
        PROVE  position'[p] = position[p]
    <3>1. a # p
      BY <1>1 DEF Roles, Founded, Free
    <3> QED
      BY <2>1, <2>4, <3>1 DEF CreatePosition
  <2>5. ASSUME NEW q \in positions, NEW w, NEW k, NEW r, NEW to, NEW old, NEW lockout,
               NEW lock, ConfigureRecovery(w, k, q, r, to, old, lockout, lock)
        PROVE  position'[p] = position[p]
    <3>1. q # p
      BY <1>1, <2>5 DEF ConfigureRecovery, NotSealed
    <3> QED
      BY <2>1, <2>5, <3>1 DEF ConfigureRecovery
  <2>6. ASSUME NEW q \in positions, NEW w, NEW r, NEW old, NEW new \in Free,
               ExecuteRecovery(w, r, q, old, new)
        PROVE  position'[p] = position[p]
    <3>1. q # p
      <4> SUFFICES ASSUME q = p PROVE FALSE
        OBVIOUS
      <4>1. position'[p].current_admin_asset = new
        BY <2>1, <2>6, FreshFields DEF ExecuteRecovery, SettingsAfterRecovery
      <4>2. IsLive(position[p].current_admin_asset) /\ IsFree(new)
        BY <2>6 DEF ExecuteRecovery
      <4> QED
        BY <1>1, <4>1, <4>2 DEF IsLive, IsFree
    <3> QED
      BY <2>1, <2>6, <3>1 DEF ExecuteRecovery
  <2>7. ASSUME NEW q \in positions, NEW w \in Wallets, NEW k \in Live,
               \/ Heartbeat(w, k, q)
               \/ \E t \in Assets : RevokeKey(w, k, q, t)
               \/ \E a \in Free, to \in Wallets, perms \in PermissionMasks :
                     AuthorizeKey(w, k, q, a, to, perms)
        PROVE  Kept(p)
    BY <2>3, <2>7 DEF Heartbeat, RevokeKey, AuthorizeKey
  <2>8. CASE UNCHANGED position
    BY <2>2, <2>8
  <2> HIDE DEF Kept
  <2> QED
    BY <1>1, <2>2, <2>4, <2>5, <2>6, <2>7, <2>8, Steps
    DEF TransferKey, DestroyKey, ForeignMint, Tick, vars
<1>2. Roles /\ [Next]_vars =>
        [\A p \in positions :
          /\ position[p].recovery_config_locked
          /\ position'[p].current_admin_asset = position[p].current_admin_asset
          => /\ position'[p].recovery_config_locked
             /\ position'[p].recovery_asset = position[p].recovery_asset
             /\ position'[p].recovery_lockout_secs = position[p].recovery_lockout_secs]_vars
  BY <1>1
<1> QED
  BY <1>2, RolesHold, PTL DEF Spec, SealHolds

(* An address on which nothing was minted yet names no position.           *)
BlankFree == \A a \in Assets : IsFree(a) => asset[a].position = NoKey

LEMMA BlankFreeNext == TypeOK /\ BlankFree /\ [Next]_vars => BlankFree'
<1> SUFFICES ASSUME TypeOK, BlankFree, [Next]_vars, NEW b \in Assets, IsFree(b)'
             PROVE  asset'[b] = asset[b]
  BY DEF BlankFree, IsFree
<1> USE StubState DEF IsFree
<1>1. /\ asset \in [Assets -> AssetAccount] /\ asset'[b].state = "free"
      /\ Live \subseteq Assets /\ Free \subseteq Assets /\ positions \subseteq Assets
  BY DEF TypeOK, Live, Free
<1>2. ASSUME NEW a \in Free, NEW to, NEW p, NEW perms,
             asset' = [asset EXCEPT ![a] = Minted(a, to, p, perms)]
      PROVE  asset'[b] = asset[b]
  BY <1>1, <1>2, MintedFields
<1>3. ASSUME NEW a \in Assets, NEW stub \in {Stub("burned"), Stub("destroyed")},
             asset' = [asset EXCEPT ![a] = stub]
      PROVE  asset'[b] = asset[b]
  BY <1>1, <1>3
<1>4. ASSUME NEW p, NEW w, NEW k, NEW r, NEW to, NEW old, NEW lockout,
             NEW lock, ConfigureRecovery(w, k, p, r, to, old, lockout, lock)
      PROVE  asset'[b] = asset[b]
  BY <1>1, <1>4, MintedFields DEF ConfigureRecovery, RecoveryMinted
<1>5. ASSUME NEW p, NEW w, NEW r, NEW old, NEW new, ExecuteRecovery(w, r, p, old, new)
      PROVE  asset'[b] = asset[b]
  BY <1>1, <1>5, MintedFields DEF ExecuteRecovery, KeysRecovered
<1>6. ASSUME NEW a \in Live, NEW to, TransferKey(a, to)
      PROVE  asset'[b] = asset[b]
  <2>1. a # b
    BY <1>1, <1>6 DEF TransferKey, IsLive, AssetAccount
  <2> QED
    BY <1>1, <1>6, <2>1 DEF TransferKey
<1>7. ASSUME NEW a \in Free, NEW w, NEW p, ForeignMint(a, w, p)
      PROVE  asset'[b] = asset[b]
  BY <1>1, <1>7 DEF ForeignMint
<1>8. CASE UNCHANGED asset
  BY <1>8
<1>9. ASSUME NEW w, NEW a \in Free, CreatePosition(w, a)
      PROVE  asset'[b] = asset[b]
  BY <1>2, <1>9 DEF CreatePosition
<1>10. ASSUME NEW p, NEW w, NEW k, NEW a \in Free, NEW to, NEW perms,
              AuthorizeKey(w, k, p, a, to, perms)
       PROVE  asset'[b] = asset[b]
  BY <1>2, <1>10 DEF AuthorizeKey
<1>11. ASSUME NEW p, NEW w, NEW k, NEW t \in Assets, RevokeKey(w, k, p, t)
       PROVE  asset'[b] = asset[b]
  BY <1>3, <1>11 DEF RevokeKey
<1>12. ASSUME NEW a \in Live, DestroyKey(a)
       PROVE  asset'[b] = asset[b]
  BY <1>1, <1>3, <1>12 DEF DestroyKey
<1> QED
  BY <1>4, <1>5, <1>6, <1>7, <1>8, <1>9, <1>10, <1>11, <1>12, Steps
  DEF Heartbeat, Tick, vars

LEMMA BlankFreeHolds == Spec => []BlankFree
<1>1. Init => BlankFree
  BY DEF Init, BlankFree, Unminted
<1>2. Spec => []TypeOK
  BY TypeCorrect
<1> QED
  BY <1>1, <1>2, BlankFreeNext, PTL DEF Spec

(* validate_key, revoke_key: an instruction on one position changes no key *)
(* and no KeyState of another.                                             *)
THEOREM PositionsAreIsolated == Spec => Isolation
<1> DEFINE Alone(p) ==
      \A b \in Assets : asset[b].position \notin {p, NoKey} =>
          /\ asset'[b] = asset[b]
          /\ b \in keyStates' <=> b \in keyStates
<1>1. ASSUME Roles, BlankFree, [Next]_vars, NEW p \in positions, position'[p] # position[p]
      PROVE  Alone(p)
  <2>1. /\ TypeOK /\ positions \subseteq Assets /\ p \in Assets
        /\ Live \subseteq Assets /\ Free \subseteq Assets
        /\ position \in [Assets -> PositionState]
        /\ asset \in [Assets -> AssetAccount]
    BY <1>1 DEF Roles, TypeOK, Live, Free
  <2>2. \A a \in Free : asset[a].position = NoKey
    BY <1>1 DEF BlankFree, Free
  <2>3. ASSUME NEW q \in positions, NEW to,
               position' = [position EXCEPT ![q] = to]
        PROVE  q = p
    BY <1>1, <2>1, <2>3
  <2>4. ASSUME NEW q \in positions,
               position' = [position EXCEPT ![q].last_admin_activity = now]
        PROVE  q = p
    BY <1>1, <2>1, <2>4, TouchedSettings
  <2>5. ASSUME NEW w, NEW a \in Free, CreatePosition(w, a)
        PROVE  FALSE
    <3>1. a # p
      BY <1>1 DEF Roles, Founded, Free
    <3> QED
      BY <1>1, <2>1, <2>5, <3>1 DEF CreatePosition
  <2>6. ASSUME NEW q \in positions, NEW w, NEW k, Heartbeat(w, k, q)
        PROVE  Alone(p)
    BY <2>6 DEF Heartbeat
  <2>7. ASSUME NEW q \in positions, NEW w, NEW k, NEW t \in Assets, RevokeKey(w, k, q, t)
        PROVE  Alone(p)
    BY <2>1, <2>4, <2>7 DEF RevokeKey, TargetOf
  <2>8. ASSUME NEW q \in positions, NEW w, NEW k, NEW a \in Free, NEW to, NEW perms,
               AuthorizeKey(w, k, q, a, to, perms)
        PROVE  Alone(p)
    BY <2>1, <2>2, <2>8 DEF AuthorizeKey
  <2>9. ASSUME NEW q \in positions, NEW w, NEW k, NEW r \in Free, NEW to, NEW old,
               NEW lockout, NEW lock, ConfigureRecovery(w, k, q, r, to, old, lockout, lock)
        PROVE  Alone(p)
    <3> DEFINE previous == position[p].recovery_asset
    <3>1. q = p
      BY <2>3, <2>9 DEF ConfigureRecovery
    <3>2. previous \in Assets => asset[previous].position = p
      <4>1. NoKey \notin Assets
        BY KeyringAssumption
      <4> QED
        BY <1>1, <2>9, <3>1, <4>1
        DEF ConfigureRecovery, ReplacementAccepted, Roles, NoDangling, KeysOf, IsLive
    <3> QED
      BY <2>1, <2>2, <2>9, <3>1, <3>2 DEF ConfigureRecovery, RecoveryMinted
  <2>10. ASSUME NEW q \in positions, NEW w, NEW r \in Live, NEW old \in Assets,
                NEW new \in Free, ExecuteRecovery(w, r, q, old, new)
         PROVE  Alone(p)
    <3>1. q = p
      BY <2>3, <2>10 DEF ExecuteRecovery
    <3>2. asset[old].position = p /\ asset[r].position = p
      <4>1. NoKey \notin Assets
        BY KeyringAssumption
      <4> QED
        BY <1>1, <2>1, <2>10, <3>1, <4>1
        DEF ExecuteRecovery, Roles, NoDangling, KeysOf, IsLive
    <3> QED
      BY <2>1, <2>2, <2>10, <3>1, <3>2 DEF ExecuteRecovery, KeysRecovered
  <2>11. ~UNCHANGED position
    BY <1>1
  <2> HIDE DEF Alone
  <2> QED
    BY <1>1, <2>5, <2>6, <2>7, <2>8, <2>9, <2>10, <2>11, Steps
    DEF TransferKey, DestroyKey, ForeignMint, Tick, vars
<1>2. Roles /\ BlankFree /\ [Next]_vars =>
        [\A p \in positions : position'[p] # position[p] =>
          \A a \in Assets : asset[a].position \notin {p, NoKey} =>
              /\ asset'[a] = asset[a]
              /\ a \in keyStates' <=> a \in keyStates]_vars
  BY <1>1
<1> QED
  BY <1>2, RolesHold, BlankFreeHolds, PTL DEF Spec, Isolation

-----------------------------------------------------------------------------
(* The custody.  KeyringRefinement looks at the assets, Custody at nothing *)
(* but who controls and who inherits: every step of the keyring is one     *)
(* step of custody, or none.                                               *)

(* What the mapping needs beside the roles: a position that does not exist *)
(* has a blank record, a delegated key can do something, and the admin key *)
(* can manage.                                                             *)

Unfounded == \A p \in Assets \ positions : position[p] = BlankPosition

PowersFit ==
    \A p \in positions : \A a \in KeysOf(p) :
        /\ a \in keyStates => asset[a].permissions # {}
        /\ a = position[p].current_admin_asset => "MANAGE_KEYS" \in asset[a].permissions

Seated == Roles /\ Unfounded /\ PowersFit

LEMMA SeatedInit == Init => Seated
  BY RolesInit DEF Init, Seated, Unfounded, PowersFit

LEMMA UnfoundedNext == Roles /\ Unfounded /\ [Next]_vars => Unfounded'
<1> SUFFICES ASSUME Roles, Unfounded, [Next]_vars PROVE Unfounded'
  OBVIOUS
<1>1. positions \subseteq Assets /\ position \in [Assets -> PositionState]
  BY DEF Roles, TypeOK
<1>2. ASSUME NEW p \in positions, positions' = positions,
             \A q \in Assets \ {p} : position'[q] = position[q]
      PROVE  Unfounded'
  BY <1>1, <1>2 DEF Unfounded
<1>3. ASSUME NEW w, NEW a \in Free, CreatePosition(w, a)
      PROVE  Unfounded'
  BY <1>1, <1>3 DEF CreatePosition, Unfounded
<1>4. ASSUME NEW p \in positions, NEW w, NEW k,
             \/ Heartbeat(w, k, p)
             \/ \E t \in Assets : RevokeKey(w, k, p, t)
             \/ \E a \in Free, to \in Wallets, perms \in PermissionMasks :
                   AuthorizeKey(w, k, p, a, to, perms)
             \/ \E r \in Free, to \in Wallets, old \in Live \cup {NoKey},
                   lockout \in Lockouts, lock \in BOOLEAN :
                   ConfigureRecovery(w, k, p, r, to, old, lockout, lock)
             \/ \E old \in Assets, new \in Free : ExecuteRecovery(w, k, p, old, new)
      PROVE  Unfounded'
  <2>1. positions' = positions
    BY <1>4 DEF Heartbeat, RevokeKey, AuthorizeKey, ConfigureRecovery, ExecuteRecovery
  <2>2. \A q \in Assets \ {p} : position'[q] = position[q]
    BY <1>1, <1>4 DEF Heartbeat, RevokeKey, AuthorizeKey, ConfigureRecovery, ExecuteRecovery
  <2> QED
    BY <1>2, <2>1, <2>2
<1>5. CASE UNCHANGED <<positions, position>>
  BY <1>5 DEF Unfounded
<1> QED
  BY <1>3, <1>4, <1>5, Steps DEF TransferKey, DestroyKey, ForeignMint, Tick, vars

LEMMA PowersFitNext == Roles /\ PowersFit /\ [Next]_vars => PowersFit'
<1> SUFFICES ASSUME Roles, PowersFit, [Next]_vars PROVE PowersFit'
  OBVIOUS
<1> USE StubState, MintedFields DEF IsLive, IsFree, KeysOf
<1>1. /\ TypeOK /\ positions \subseteq Assets /\ keyStates \subseteq Assets
      /\ asset \in [Assets -> AssetAccount]
      /\ Live \subseteq Assets /\ Free \subseteq Assets
      /\ NoKey \notin Assets
  BY KeyringAssumption DEF Roles, TypeOK, Live, Free
<1>2. \A a \in Free : /\ a \notin keyStates
                      /\ \A p \in positions : a # position[p].current_admin_asset
  BY <1>1 DEF Roles, NoDangling, Free
<1>3. ASSUME NEW w, NEW a \in Free, CreatePosition(w, a)
      PROVE  PowersFit'
  <2>1. \A p \in positions : p # a
    BY DEF Roles, Founded, Free
  <2>2. \A p \in positions : position'[p] = position[p]
    BY <1>1, <1>3, <2>1 DEF CreatePosition
  <2> QED
    BY <1>1, <1>2, <1>3, <2>1, <2>2
    DEF CreatePosition, PowersFit, PRESET_ADMIN, Roles, KeysBound
<1>4. ASSUME NEW p \in positions, NEW w, NEW k, Heartbeat(w, k, p)
      PROVE  PowersFit'
  BY <1>1, <1>4, TouchedFields DEF Heartbeat, PowersFit
<1>5. ASSUME NEW p \in positions, NEW w, NEW k, NEW t \in Assets, RevokeKey(w, k, p, t)
      PROVE  PowersFit'
  BY <1>1, <1>5, TouchedFields DEF RevokeKey, PowersFit
<1>6. ASSUME NEW p \in positions, NEW w, NEW k, NEW a \in Free, NEW to, NEW perms,
             AuthorizeKey(w, k, p, a, to, perms)
      PROVE  PowersFit'
  BY <1>1, <1>2, <1>6, TouchedFields DEF AuthorizeKey, Delegable, PowersFit
<1>7. ASSUME NEW p \in positions, NEW w, NEW k, NEW r \in Free, NEW to, NEW old, NEW lockout,
             NEW lock, ConfigureRecovery(w, k, p, r, to, old, lockout, lock)
      PROVE  PowersFit'
  <2>1. \A q \in positions :
           position'[q].current_admin_asset = position[q].current_admin_asset
    BY <1>1, <1>7 DEF ConfigureRecovery, RecoverySettled, TypeOK, PositionState
  <2>2. \A q \in positions : \A a \in KeysOf(q)' : a # r => a \in KeysOf(q) /\ asset'[a] = asset[a]
    BY <1>1, <1>7 DEF ConfigureRecovery, RecoveryMinted
  <2>3. r \notin keyStates /\ keyStates' = keyStates /\ positions' = positions
    BY <1>2, <1>7 DEF ConfigureRecovery
  <2> HIDE DEF KeysOf
  <2> QED
    BY <1>2, <2>1, <2>2, <2>3 DEF PowersFit
<1>8. ASSUME NEW p \in positions, NEW w, NEW r \in Live, NEW old, NEW new \in Free,
             ExecuteRecovery(w, r, p, old, new)
      PROVE  PowersFit'
  <2>1. /\ position'[p].current_admin_asset = new
        /\ \A q \in positions \ {p} : position'[q] = position[q]
    BY <1>1, <1>8, FreshFields DEF ExecuteRecovery, SettingsAfterRecovery, TypeOK
  <2>2. \A q \in positions : \A a \in KeysOf(q)' : a # new => a \in KeysOf(q) /\ asset'[a] = asset[a]
    BY <1>1, <1>8 DEF ExecuteRecovery, KeysRecovered
  <2>3. new \notin keyStates /\ keyStates' = keyStates /\ positions' = positions
    BY <1>2, <1>8 DEF ExecuteRecovery
  <2>4. "MANAGE_KEYS" \in asset'[new].permissions
    BY <1>1, <1>8 DEF ExecuteRecovery, KeysRecovered, PRESET_ADMIN
  <2> HIDE DEF KeysOf
  <2> QED
    BY <1>2, <2>1, <2>2, <2>3, <2>4 DEF PowersFit
<1>9. ASSUME NEW a \in Live, NEW to, TransferKey(a, to)
      PROVE  PowersFit'
  <2>1. \A b \in Assets : /\ asset'[b].state = asset[b].state
                          /\ asset'[b].authority = asset[b].authority
                          /\ asset'[b].position = asset[b].position
                          /\ asset'[b].permissions = asset[b].permissions
    BY <1>1, <1>9 DEF TransferKey, AssetAccount
  <2> QED
    BY <1>1, <1>9, <2>1 DEF TransferKey, PowersFit
<1>10. ASSUME NEW a \in Live, DestroyKey(a)
       PROVE  PowersFit'
  BY <1>1, <1>10 DEF DestroyKey, PowersFit
<1>11. ASSUME NEW a \in Free, NEW w, NEW p, ForeignMint(a, w, p)
       PROVE  PowersFit'
  BY <1>1, <1>11 DEF ForeignMint, PowersFit
<1>12. CASE UNCHANGED <<asset, positions, position, keyStates>>
  BY <1>12 DEF PowersFit
<1> QED
  BY <1>3, <1>4, <1>5, <1>6, <1>7, <1>8, <1>9, <1>10, <1>11, <1>12, Steps DEF Tick, vars

LEMMA SeatedNext == Seated /\ [Next]_vars => Seated'
  BY RolesNext, UnfoundedNext, PowersFitNext DEF Seated

LEMMA SeatedHolds == Spec => []Seated
  BY SeatedInit, SeatedNext, PTL DEF Spec
-----------------------------------------------------------------------------
(* Two seats.  What Custody sees of a position, in terms of its record.    *)

Seat(p, a) == IF p \in positions /\ a \in KeysOf(p) THEN {asset[a].owner} ELSE {}

Controller(p) == Seat(p, position[p].current_admin_asset)
Heir(p) == Seat(p, position[p].recovery_asset)

(* The controllers are at most one: the holder of the current admin key;   *)
(* the heirs too: the holder of the recovery key.                          *)
SeatsSeen == \A p \in Assets : /\ Holders(Managing(p)) = Controller(p)
                               /\ Holders(Powerless(p)) = Heir(p)

LEMMA SeatsAreTaken == Seated => SeatsSeen
<1> SUFFICES ASSUME Seated, NEW p \in Assets
             PROVE  /\ Holders(Managing(p)) = Controller(p)
                    /\ Holders(Powerless(p)) = Heir(p)
  BY DEF SeatsSeen
<1>1. CASE p \in positions
  <2>1. \A a : a \in Managing(p) <=> a \in KeysOf(p) /\ a = position[p].current_admin_asset
    BY <1>1 DEF Seated, Roles, SoleAdmin, PowersFit, Managing
  <2>2. \A a : a \in Powerless(p) <=> a \in KeysOf(p) /\ a = position[p].recovery_asset
    BY <1>1 DEF Seated, Roles, OneRolePerKey, PowersFit, Powerless
  <2> QED
    BY <1>1, <2>1, <2>2 DEF Holders, Controller, Heir, Seat
<1>2. CASE p \notin positions
  <2>1. KeysOf(p) = {}
    BY <1>2 DEF Seated, Roles, KeysBound, KeysOf
  <2> QED
    BY <1>2, <2>1 DEF Holders, Managing, Powerless, Controller, Heir, Seat
<1> QED
  BY <1>1, <1>2

(* A position whose record names the same keys, as they were, has the same *)
(* holders.                                                                *)
LEMMA SeatsKept ==
    ASSUME NEW p \in Assets, NoKey \notin Assets,
           p \in positions' <=> p \in positions,
           position'[p].current_admin_asset = position[p].current_admin_asset,
           position'[p].recovery_asset = position[p].recovery_asset,
           p \in positions =>
             \A a \in {position[p].current_admin_asset, position[p].recovery_asset} \cap Assets :
                 asset'[a] = asset[a]
    PROVE  Controller(p)' = Controller(p) /\ Heir(p)' = Heir(p)
  BY DEF Controller, Heir, Seat, KeysOf, IsLive

(* The keys a record names, if there are any left.                         *)
LEMMA NamedKeys ==
    ASSUME Seated, NEW p \in positions,
           NEW a \in {position[p].current_admin_asset, position[p].recovery_asset} \cap Assets
    PROVE  /\ ~IsFree(a)
           /\ a \notin keyStates
           /\ IsLive(a) => a \in KeysOf(p) /\ asset[a].position = p
                           /\ asset[a].authority = "collection"
<1>1. NoKey \notin Assets
  BY KeyringAssumption
<1> QED
  BY <1>1 DEF Seated, Roles, NoDangling, Apart, KeysOf, IsLive, IsFree

LEMMA SeatedTypes ==
    ASSUME Seated
    PROVE  /\ TypeOK /\ positions \subseteq Assets /\ keyStates \subseteq Assets
           /\ asset \in [Assets -> AssetAccount] /\ position \in [Assets -> PositionState]
           /\ Live \subseteq Assets /\ Free \subseteq Assets
           /\ NoKey \notin Assets
  BY KeyringAssumption DEF Seated, Roles, TypeOK, Live, Free

(* The five functions of the mapping, and how a step shows in them.        *)
Controllers == [p \in Assets |-> Holders(Managing(p))]
Heirs == [p \in Assets |-> Holders(Powerless(p))]
Patience == [p \in Assets |-> position[p].recovery_lockout_secs]
Seals == [p \in Assets |-> position[p].recovery_config_locked]
Heard == [p \in Assets |-> position[p].last_admin_activity]

LEMMA ControllersSet ==
    ASSUME Seated, Seated', NEW p \in Assets, NEW who, Controller(p)' = who,
           \A q \in Assets \ {p} : Controller(q)' = Controller(q)
    PROVE  Controllers' = [Controllers EXCEPT ![p] = who]
<1>1. SeatsSeen /\ SeatsSeen'
  BY SeatsAreTaken, PTL
<1> QED
  BY <1>1 DEF SeatsSeen, Controllers

LEMMA HeirsSet ==
    ASSUME Seated, Seated', NEW p \in Assets, NEW who, Heir(p)' = who,
           \A q \in Assets \ {p} : Heir(q)' = Heir(q)
    PROVE  Heirs' = [Heirs EXCEPT ![p] = who]
<1>1. SeatsSeen /\ SeatsSeen'
  BY SeatsAreTaken, PTL
<1> QED
  BY <1>1 DEF SeatsSeen, Heirs

LEMMA ControllersKept ==
    ASSUME Seated, Seated', \A q \in Assets : Controller(q)' = Controller(q)
    PROVE  Controllers' = Controllers
<1>1. SeatsSeen /\ SeatsSeen'
  BY SeatsAreTaken, PTL
<1> QED
  BY <1>1 DEF SeatsSeen, Controllers

LEMMA HeirsKept ==
    ASSUME Seated, Seated', \A q \in Assets : Heir(q)' = Heir(q)
    PROVE  Heirs' = Heirs
<1>1. SeatsSeen /\ SeatsSeen'
  BY SeatsAreTaken, PTL
<1> QED
  BY <1>1 DEF SeatsSeen, Heirs

LEMMA SeatsRead ==
    ASSUME Seated, NEW p \in Assets
    PROVE  Controllers[p] = Controller(p) /\ Heirs[p] = Heir(p)
  BY SeatsAreTaken DEF SeatsSeen, Controllers, Heirs

(* A record that is only brought up to date.                               *)
LEMMA Spoken ==
    ASSUME TypeOK, NEW p \in Assets,
           position' = [position EXCEPT ![p].last_admin_activity = now]
    PROVE  /\ Heard' = [Heard EXCEPT ![p] = now]
           /\ Patience' = Patience /\ Seals' = Seals
<1>1. \A q \in Assets :
         /\ position'[q].recovery_lockout_secs = position[q].recovery_lockout_secs
         /\ position'[q].recovery_config_locked = position[q].recovery_config_locked
  BY TouchedSettings
<1>2. \A q \in Assets : position'[q].last_admin_activity
                          = IF q = p THEN now ELSE position[q].last_admin_activity
  BY DEF TypeOK, PositionState
<1> QED
  BY <1>1, <1>2 DEF Heard, Patience, Seals

LEMMA Unspoken == position' = position => UNCHANGED <<Heard, Patience, Seals>>
  BY DEF Heard, Patience, Seals
-----------------------------------------------------------------------------
(* One lemma for each kind of step.                                        *)

(* create_position founds.                                                 *)
LEMMA CreateFounds ==
    ASSUME Seated, Seated', NEW w \in Wallets, NEW a \in Free, CreatePosition(w, a)
    PROVE  Abstract!Found(a, w)
<1> USE SeatedTypes
<1>1. /\ a \in Assets /\ IsFree(a) /\ a \notin positions
      /\ positions' = positions \cup {a} /\ now' = now
      /\ asset' = [asset EXCEPT ![a] = Minted(a, w, a, PRESET_ADMIN)]
  BY DEF CreatePosition, Seated, Roles, Founded, Free
<1>2. /\ position'[a].current_admin_asset = a /\ position'[a].recovery_asset = NoKey
      /\ position'[a].recovery_lockout_secs = 0
      /\ position'[a].recovery_config_locked = FALSE
      /\ position'[a].last_admin_activity = now
      /\ \A p \in Assets \ {a} : position'[p] = position[p]
  BY <1>1 DEF CreatePosition, BlankPosition
<1>3. /\ position[a].recovery_lockout_secs = 0
      /\ position[a].recovery_config_locked = FALSE
  BY <1>1 DEF Seated, Unfounded, BlankPosition
<1>4. \A p \in Assets \ {a} : Controller(p)' = Controller(p) /\ Heir(p)' = Heir(p)
  <2> SUFFICES ASSUME NEW p \in Assets \ {a}
               PROVE  Controller(p)' = Controller(p) /\ Heir(p)' = Heir(p)
    OBVIOUS
  <2>1. p \in positions =>
          \A b \in {position[p].current_admin_asset, position[p].recovery_asset} \cap Assets :
              asset'[b] = asset[b]
    BY <1>1, NamedKeys
  <2> QED
    BY <1>1, <1>2, <2>1, SeatsKept
<1>5. Controller(a)' = {w} /\ Heir(a)' = {} /\ Heir(a) = {}
  BY <1>1, <1>2 DEF Controller, Heir, Seat, KeysOf, IsLive, Minted
<1>6. Controllers' = [Controllers EXCEPT ![a] = {w}] /\ Heirs' = Heirs
  BY <1>1, <1>4, <1>5, ControllersSet, HeirsKept
<1>7. /\ Heard' = [Heard EXCEPT ![a] = now]
      /\ Patience' = Patience /\ Seals' = Seals
  BY <1>1, <1>2, <1>3 DEF Heard, Patience, Seals
<1> QED
  BY <1>1, <1>6, <1>7 DEF Abstract!Found, Controllers, Heirs, Heard, Patience, Seals

(* heartbeat, revoke_key, authorize_key: a controller speaks.              *)
LEMMA SignerControls ==
    ASSUME Seated, NEW w, NEW k, NEW p \in positions, ValidateKey(w, k, p, {"MANAGE_KEYS"}),
           k \in Assets
    PROVE  /\ k = position[p].current_admin_asset
           /\ Controllers[p] # {}
<1>1. k \in KeysOf(p) /\ "MANAGE_KEYS" \in asset[k].permissions
  BY DEF ValidateKey, KeysOf
<1>2. k = position[p].current_admin_asset
  BY <1>1 DEF Seated, Roles, SoleAdmin
<1> QED
  BY <1>1, <1>2, SeatedTypes, SeatsRead DEF Controller, Seat

LEMMA AdminSpeaks ==
    ASSUME Seated, Seated', NEW w, NEW k \in Live, NEW p \in positions,
           ValidateKey(w, k, p, {"MANAGE_KEYS"}),
           positions' = positions, now' = now,
           position' = [position EXCEPT ![p].last_admin_activity = now],
           \A q \in positions :
             \A a \in {position[q].current_admin_asset, position[q].recovery_asset} \cap Assets :
                 asset'[a] = asset[a]
    PROVE  Abstract!Speak(p)
<1> USE SeatedTypes
<1>1. Controllers[p] # {}
  BY SignerControls
<1>2. \A q \in Assets : Controller(q)' = Controller(q) /\ Heir(q)' = Heir(q)
  BY TouchedFields, SeatsKept
<1>3. Controllers' = Controllers /\ Heirs' = Heirs
  BY <1>2, ControllersKept, HeirsKept
<1>4. /\ Heard' = [Heard EXCEPT ![p] = now]
      /\ Patience' = Patience /\ Seals' = Seals
  BY Spoken
<1> QED
  BY <1>1, <1>3, <1>4 DEF Abstract!Speak, Controllers, Heirs, Heard, Patience, Seals

LEMMA DelegationSpeaks ==
    ASSUME Seated, Seated', NEW w, NEW k \in Live, NEW p \in positions,
           \/ Heartbeat(w, k, p)
           \/ \E t \in Assets : RevokeKey(w, k, p, t)
           \/ \E a \in Free, to \in Wallets, perms \in PermissionMasks :
                 AuthorizeKey(w, k, p, a, to, perms)
    PROVE  Abstract!Speak(p)
<1> USE SeatedTypes
<1>1. CASE Heartbeat(w, k, p)
  BY <1>1, AdminSpeaks DEF Heartbeat
<1>2. ASSUME NEW t \in Assets, RevokeKey(w, k, p, t)
      PROVE  Abstract!Speak(p)
  <2>1. \A q \in positions :
          \A a \in {position[q].current_admin_asset, position[q].recovery_asset} \cap Assets :
              asset'[a] = asset[a]
    <3>1. t \in keyStates
      BY <1>2 DEF RevokeKey
    <3> QED
      BY <1>2, <3>1, NamedKeys DEF RevokeKey
  <2> QED
    BY <1>2, <2>1, AdminSpeaks DEF RevokeKey
<1>3. ASSUME NEW a \in Free, NEW to, NEW perms, AuthorizeKey(w, k, p, a, to, perms)
      PROVE  Abstract!Speak(p)
  <2>1. \A q \in positions :
          \A b \in {position[q].current_admin_asset, position[q].recovery_asset} \cap Assets :
              asset'[b] = asset[b]
    <3>1. IsFree(a)
      BY DEF Free
    <3> QED
      BY <1>3, <3>1, NamedKeys DEF AuthorizeKey
  <2> QED
    BY <1>3, <2>1, AdminSpeaks DEF AuthorizeKey
<1> QED
  BY <1>1, <1>2, <1>3

(* configure_recovery arranges the succession.                             *)
LEMMA ConfigureArranges ==
    ASSUME Seated, Seated', NEW w, NEW k \in Live, NEW p \in positions, NEW r \in Free,
           NEW to \in Wallets, NEW old, NEW lockout \in Lockouts, NEW lock \in BOOLEAN,
           ConfigureRecovery(w, k, p, r, to, old, lockout, lock)
    PROVE  lockout \in 1 .. MaxLockout /\ Abstract!Arrange(p, to, lockout, lock)
<1> USE SeatedTypes
<1> DEFINE previous == position[p].recovery_asset
<1>1. /\ Controllers[p] # {} /\ k = position[p].current_admin_asset
      /\ positions' = positions /\ now' = now
      /\ r \in Assets /\ IsFree(r)
      /\ position[p].recovery_config_locked = FALSE
  BY SignerControls DEF ConfigureRecovery, NotSealed, TypeOK, PositionState, Free
<1>2. lockout \in 1 .. MaxLockout
  BY KeyringAssumption DEF ConfigureRecovery, LockoutAllowed
<1>3. /\ \A q \in Assets \ {p} : position'[q] = position[q]
      /\ position'[p].current_admin_asset = position[p].current_admin_asset
      /\ position'[p].recovery_asset = r
      /\ position'[p].recovery_lockout_secs = lockout
      /\ position'[p].recovery_config_locked = lock
      /\ position'[p].last_admin_activity = now
  <2>1. /\ position[p] \in PositionState
        /\ position'[p] = RecoverySettled(p, r, lockout, lock)
        /\ \A q \in Assets \ {p} : position'[q] = position[q]
    BY DEF ConfigureRecovery, TypeOK
  <2>2. (IF lock THEN TRUE ELSE position[p].recovery_config_locked) = lock
    <3>1. CASE lock = TRUE
      BY <3>1
    <3>2. CASE lock = FALSE
      BY <1>1, <3>2
    <3> QED
      BY <3>1, <3>2
  <2>3. RecoverySettled(p, r, lockout, lock).recovery_config_locked
          = (IF lock THEN TRUE ELSE position[p].recovery_config_locked)
    BY <2>1 DEF RecoverySettled, PositionState
  <2>4. position'[p].recovery_config_locked = lock
    BY <2>1, <2>2, <2>3
  <2>5. /\ position'[p].current_admin_asset = position[p].current_admin_asset
        /\ position'[p].recovery_asset = r
        /\ position'[p].recovery_lockout_secs = lockout
        /\ position'[p].last_admin_activity = now
    BY <2>1 DEF RecoverySettled, PositionState
  <2> QED
    BY <2>1, <2>4, <2>5
<1>4. \A a \in Assets \ {r, previous} : asset'[a] = asset[a]
  BY DEF ConfigureRecovery, RecoveryMinted
<1>5. previous \in Assets => previous \in KeysOf(p)
  BY NamedKeys DEF ConfigureRecovery, ReplacementAccepted
<1>6. \A q \in Assets \ {p} : Controller(q)' = Controller(q) /\ Heir(q)' = Heir(q)
  <2> SUFFICES ASSUME NEW q \in Assets \ {p}
               PROVE  Controller(q)' = Controller(q) /\ Heir(q)' = Heir(q)
    OBVIOUS
  <2>1. ASSUME q \in positions,
               NEW a \in {position[q].current_admin_asset, position[q].recovery_asset} \cap Assets
        PROVE  asset'[a] = asset[a]
    BY <1>1, <1>4, <1>5, <2>1, NamedKeys DEF KeysOf
  <2> QED
    BY <1>1, <1>3, <2>1, SeatsKept
<1>7. Controller(p)' = Controller(p)
  <2>1. k # previous /\ k # r
    BY <1>1 DEF Seated, Roles, Apart, Live, IsLive, IsFree
  <2>2. asset'[k] = asset[k]
    BY <1>4, <2>1
  <2> QED
    BY <1>1, <1>3, <2>2 DEF Controller, Seat, KeysOf, IsLive
<1>8. Heir(p)' = {to}
  BY <1>1, <1>3 DEF ConfigureRecovery, RecoveryMinted, Heir, Seat, KeysOf, IsLive, Minted
<1>9. Controllers' = Controllers /\ Heirs' = [Heirs EXCEPT ![p] = {to}]
  BY <1>6, <1>7, <1>8, ControllersKept, HeirsSet
<1>10. /\ Heard' = [Heard EXCEPT ![p] = now]
       /\ Patience' = [Patience EXCEPT ![p] = lockout]
       /\ Seals' = [Seals EXCEPT ![p] = lock]
  BY <1>3 DEF Heard, Patience, Seals
<1>11. ~Seals[p]
  BY <1>1 DEF Seals
<1> QED
  BY <1>1, <1>2, <1>9, <1>10, <1>11
  DEF Abstract!Arrange, Controllers, Heirs, Heard, Patience, Seals

(* execute_recovery: the heir succeeds.                                    *)
LEMMA RecoverySucceeds ==
    ASSUME Seated, Seated', NEW w \in Wallets, NEW r \in Live, NEW p \in positions,
           NEW old \in Assets, NEW new \in Free, ExecuteRecovery(w, r, p, old, new)
    PROVE  Abstract!Succeed(p)
<1> USE SeatedTypes
<1>1. /\ old = position[p].current_admin_asset /\ IsLive(old)
      /\ r = position[p].recovery_asset /\ IsLive(r) /\ asset[r].owner = w
      /\ new \in Assets /\ IsFree(new)
      /\ positions' = positions /\ now' = now
      /\ now - position[p].last_admin_activity >= position[p].recovery_lockout_secs
  BY DEF ExecuteRecovery, LockoutExpired, Free
<1>2. /\ \A q \in Assets \ {p} : position'[q] = position[q]
      /\ position'[p].current_admin_asset = new
      /\ position'[p].recovery_asset = NoKey
      /\ position'[p].recovery_lockout_secs = 0
      /\ position'[p].recovery_config_locked = FALSE
      /\ position'[p].last_admin_activity = now
  BY DEF ExecuteRecovery, SettingsAfterRecovery, BlankPosition
<1>3. \A a \in Assets \ {old, r, new} : asset'[a] = asset[a]
  BY <1>1 DEF ExecuteRecovery, KeysRecovered
<1>4. old \in KeysOf(p) /\ r \in KeysOf(p)
  BY <1>1, NamedKeys
<1>5. \A q \in Assets \ {p} : Controller(q)' = Controller(q) /\ Heir(q)' = Heir(q)
  <2> SUFFICES ASSUME NEW q \in Assets \ {p}
               PROVE  Controller(q)' = Controller(q) /\ Heir(q)' = Heir(q)
    OBVIOUS
  <2>1. ASSUME q \in positions,
               NEW a \in {position[q].current_admin_asset, position[q].recovery_asset} \cap Assets
        PROVE  asset'[a] = asset[a]
    BY <1>1, <1>3, <1>4, <2>1, NamedKeys DEF KeysOf
  <2> QED
    BY <1>1, <1>2, <2>1, SeatsKept
<1>6. Heir(p) = {w}
  BY <1>1, <1>4 DEF Heir, Seat
<1>7. Controller(p)' = {w} /\ Heir(p)' = {}
  BY <1>1, <1>2 DEF ExecuteRecovery, KeysRecovered, Controller, Heir, Seat, KeysOf, IsLive, Minted
<1>8. /\ Controllers' = [Controllers EXCEPT ![p] = {w}]
      /\ Heirs' = [Heirs EXCEPT ![p] = {}]
      /\ Heirs[p] = {w}
  BY <1>5, <1>6, <1>7, ControllersSet, HeirsSet, SeatsRead
<1>9. /\ Heard' = [Heard EXCEPT ![p] = now]
      /\ Patience' = [Patience EXCEPT ![p] = 0]
      /\ Seals' = [Seals EXCEPT ![p] = FALSE]
      /\ now - Heard[p] >= Patience[p]
  BY <1>1, <1>2 DEF Heard, Patience, Seals
<1> QED
  BY <1>1, <1>8, <1>9 DEF Abstract!Succeed, Controllers, Heirs, Heard, Patience, Seals

(* A key that is sent away or destroyed takes its seat with it, if it has  *)
(* one.                                                                    *)
LEMMA SeatPassed ==
    ASSUME Seated, Seated', NEW a \in Live, NEW who \in Abstract!NobodyOrOne,
           UNCHANGED <<positions, position, now>>,
           \A b \in Assets \ {a} : asset'[b] = asset[b],
           \A p \in positions :
              /\ a = position[p].current_admin_asset => Controller(p)' = who
              /\ a = position[p].recovery_asset => Heir(p)' = who
    PROVE  \/ \E p \in Assets : Abstract!PassControl(p, who) \/ Abstract!PassHeirship(p, who)
           \/ UNCHANGED Abstract!vars
<1> USE SeatedTypes
<1>1. IsLive(a) /\ a \in Assets
  BY DEF Live
<1>2. Heard' = Heard /\ Patience' = Patience /\ Seals' = Seals
  BY Unspoken
<1>3. ASSUME NEW p \in positions, a = position[p].current_admin_asset
      PROVE  Abstract!PassControl(p, who)
  <2>1. a \in KeysOf(p) /\ asset[a].position = p
    BY <1>1, <1>3, NamedKeys
  <2>2. \A q \in Assets \ {p} : Controller(q)' = Controller(q) /\ Heir(q)' = Heir(q)
    BY <1>1, <2>1, NamedKeys, SeatsKept
  <2>3. Heir(p)' = Heir(p)
    <3>1. a # position[p].recovery_asset
      BY <1>3 DEF Seated, Roles, Apart
    <3> QED
      BY <3>1 DEF Heir, Seat, KeysOf, IsLive
  <2>4. Controller(p) # {}
    BY <1>3, <2>1 DEF Controller, Seat
  <2>5. /\ Controllers' = [Controllers EXCEPT ![p] = who] /\ Heirs' = Heirs
        /\ Controllers[p] # {}
    BY <1>3, <2>2, <2>3, <2>4, ControllersSet, HeirsKept, SeatsRead
  <2> QED
    BY <1>2, <2>5 DEF Abstract!PassControl, Controllers, Heirs, Heard, Patience, Seals
<1>4. ASSUME NEW p \in positions, a = position[p].recovery_asset
      PROVE  Abstract!PassHeirship(p, who)
  <2>1. a \in KeysOf(p) /\ asset[a].position = p
    BY <1>1, <1>4, NamedKeys
  <2>2. \A q \in Assets \ {p} : Controller(q)' = Controller(q) /\ Heir(q)' = Heir(q)
    BY <1>1, <2>1, NamedKeys, SeatsKept
  <2>3. Controller(p)' = Controller(p)
    <3>1. a # position[p].current_admin_asset
      BY <1>4 DEF Seated, Roles, Apart
    <3> QED
      BY <3>1 DEF Controller, Seat, KeysOf, IsLive
  <2>4. Heir(p) # {}
    BY <1>4, <2>1 DEF Heir, Seat
  <2>5. /\ Heirs' = [Heirs EXCEPT ![p] = who] /\ Controllers' = Controllers
        /\ Heirs[p] # {}
    BY <1>4, <2>2, <2>3, <2>4, ControllersKept, HeirsSet, SeatsRead
  <2> QED
    BY <1>2, <2>5 DEF Abstract!PassHeirship, Controllers, Heirs, Heard, Patience, Seals
<1>5. ASSUME \A p \in positions : /\ a # position[p].current_admin_asset
                                  /\ a # position[p].recovery_asset
      PROVE  UNCHANGED Abstract!vars
  <2>1. \A q \in Assets : Controller(q)' = Controller(q) /\ Heir(q)' = Heir(q)
    BY <1>5, SeatsKept
  <2>2. Controllers' = Controllers /\ Heirs' = Heirs
    BY <2>1, ControllersKept, HeirsKept
  <2> QED
    BY <1>2, <2>2 DEF Abstract!vars, Controllers, Heirs, Heard, Patience, Seals
<1> QED
  BY <1>3, <1>4, <1>5

(* Steps in which no key with a seat has a part.                           *)
LEMMA NoSeatMoves ==
    ASSUME Seated, Seated', UNCHANGED <<positions, position>>,
           \A q \in positions :
             \A a \in {position[q].current_admin_asset, position[q].recovery_asset} \cap Assets :
                 asset'[a] = asset[a]
    PROVE  UNCHANGED <<positions, Controllers, Heirs, Patience, Seals, Heard>>
<1>1. \A q \in Assets : Controller(q)' = Controller(q) /\ Heir(q)' = Heir(q)
  BY SeatedTypes, SeatsKept
<1> QED
  BY <1>1, ControllersKept, HeirsKept, Unspoken
-----------------------------------------------------------------------------
LEMMA AbstractInit == Init => Abstract!Init
<1> SUFFICES ASSUME Init PROVE Abstract!Init
  OBVIOUS
<1>1. \A p \in Assets : KeysOf(p) = {}
  BY DEF Init, KeysOf, IsLive, Unminted
<1>2. \A p \in Assets : Holders(Managing(p)) = {} /\ Holders(Powerless(p)) = {}
  BY <1>1 DEF Managing, Powerless, Holders
<1>3. \A p \in Assets : position[p] = BlankPosition
  BY DEF Init
<1> QED
  BY <1>2, <1>3 DEF Abstract!Init, Init, BlankPosition

LEMMA AbstractNext == Seated /\ Seated' /\ [Next]_vars => [Abstract!Next]_(Abstract!vars)
<1> SUFFICES ASSUME Seated, Seated', [Next]_vars
             PROVE  Abstract!Next \/ UNCHANGED Abstract!vars
  OBVIOUS
<1> USE SeatedTypes
<1>1. ASSUME NEW w \in Wallets, NEW a \in Free, CreatePosition(w, a)
      PROVE  Abstract!Next
  BY <1>1, CreateFounds DEF Abstract!Next
<1>2. ASSUME NEW p \in positions, NEW w \in Wallets, NEW k \in Live,
             \/ Heartbeat(w, k, p)
             \/ \E t \in Assets : RevokeKey(w, k, p, t)
             \/ \E a \in Free, to \in Wallets, perms \in PermissionMasks :
                   AuthorizeKey(w, k, p, a, to, perms)
      PROVE  Abstract!Next
  BY <1>2, DelegationSpeaks DEF Abstract!Next
<1>3. ASSUME NEW p \in positions, NEW w \in Wallets, NEW k \in Live, NEW r \in Free,
             NEW to \in Wallets, NEW old, NEW lockout \in Lockouts, NEW lock \in BOOLEAN,
             ConfigureRecovery(w, k, p, r, to, old, lockout, lock)
      PROVE  Abstract!Next
  BY <1>3, ConfigureArranges DEF Abstract!Next
<1>4. ASSUME NEW p \in positions, NEW w \in Wallets, NEW r \in Live, NEW old \in Assets,
             NEW new \in Free, ExecuteRecovery(w, r, p, old, new)
      PROVE  Abstract!Next
  BY <1>4, RecoverySucceeds DEF Abstract!Next
<1>5. ASSUME NEW a \in Live, NEW to \in Wallets, TransferKey(a, to)
      PROVE  Abstract!Next \/ UNCHANGED Abstract!vars
  <2>1. {to} \in Abstract!NobodyOrOne
    BY DEF Abstract!NobodyOrOne
  <2>2. ASSUME NEW p \in positions,
               a \in {position[p].current_admin_asset, position[p].recovery_asset}
        PROVE  /\ a = position[p].current_admin_asset => Controller(p)' = {to}
               /\ a = position[p].recovery_asset => Heir(p)' = {to}
    <3>1. a \in KeysOf(p)'
      BY <1>5, <2>2, NamedKeys DEF TransferKey, KeysOf, IsLive, AssetAccount
    <3>2. asset'[a].owner = to
      BY <1>5 DEF TransferKey, AssetAccount
    <3> QED
      BY <1>5, <3>1, <3>2 DEF TransferKey, Controller, Heir, Seat
  <2> QED
    BY <1>5, <2>1, <2>2, SeatPassed DEF TransferKey, Abstract!Next
<1>6. ASSUME NEW a \in Live, DestroyKey(a)
      PROVE  Abstract!Next \/ UNCHANGED Abstract!vars
  <2>1. {} \in Abstract!NobodyOrOne
    BY DEF Abstract!NobodyOrOne
  <2>2. \A p : a \notin KeysOf(p)'
    BY <1>6, StubState DEF DestroyKey, KeysOf, IsLive
  <2>3. \A p \in positions : /\ a = position[p].current_admin_asset => Controller(p)' = {}
                             /\ a = position[p].recovery_asset => Heir(p)' = {}
    BY <1>6, <2>2 DEF DestroyKey, Controller, Heir, Seat
  <2> QED
    BY <1>6, <2>1, <2>3, SeatPassed DEF DestroyKey, Abstract!Next
<1>7. ASSUME NEW a \in Free, NEW p \in positions, NEW w \in Wallets, ForeignMint(a, w, p)
      PROVE  UNCHANGED Abstract!vars
  <2>1. IsFree(a)
    BY DEF Free
  <2>2. \A q \in positions :
          \A b \in {position[q].current_admin_asset, position[q].recovery_asset} \cap Assets :
              asset'[b] = asset[b]
    BY <1>7, <2>1, NamedKeys DEF ForeignMint
  <2> QED
    BY <1>7, <2>2, NoSeatMoves
    DEF ForeignMint, Abstract!vars, Controllers, Heirs, Heard, Patience, Seals
<1>8. CASE Tick
  <2>1. now' \in now + 1 .. MaxTime
    BY <1>8, KeyringAssumption DEF Tick, TypeOK
  <2> QED
    BY <1>8, <2>1, NoSeatMoves
    DEF Tick, Abstract!Next, Abstract!Wait, Controllers, Heirs, Heard, Patience, Seals
<1>9. CASE UNCHANGED vars
  BY <1>9, NoSeatMoves
  DEF vars, Abstract!vars, Controllers, Heirs, Heard, Patience, Seals
<1> QED
  BY <1>1, <1>2, <1>3, <1>4, <1>5, <1>6, <1>7, <1>8, <1>9, Steps

(* Every behaviour of the program and of the holders of keys is a          *)
(* behaviour of Custody: whoever controls a position got it from its       *)
(* controller or waited for it.                                            *)
THEOREM KeyringImplementsCustody == Spec => ImplementsCustody
<1>1. Spec => []Seated
  BY SeatedHolds
<1>2. Init => Abstract!Init
  BY AbstractInit
<1>3. Seated /\ Seated' /\ [Next]_vars => [Abstract!Next]_(Abstract!vars)
  BY AbstractNext
<1> QED
  BY <1>1, <1>2, <1>3, PTL DEF Spec, ImplementsCustody, Abstract!Spec
=============================================================================
