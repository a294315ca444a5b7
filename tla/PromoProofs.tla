------------------------------ MODULE PromoProofs ------------------------------
(***************************************************************************)
(* Campaigns over the keyring, for any wallets, names, limits and deposits *)
(* and for any length of time.                                             *)
(***************************************************************************)
EXTENDS Promo, KeyringProofs, FiniteSetTheorems

-----------------------------------------------------------------------------
(* The campaigns and their claims.                                         *)

(* One campaign and the wallets that claimed from it: the record, if there *)
(* is one, counts the receipts, and nobody claims before there is one.     *)
Counted(p, n) ==
    /\ IsFiniteSet(Claimers(p, n))
    /\ promos[p][n] = {} => Claimers(p, n) = {}
    /\ \A promo \in promos[p][n] :
          /\ promos[p][n] = {promo}
          /\ promo \in PromoConfig
          /\ promo.claims_count = Cardinality(Claimers(p, n))
          /\ promo.max_claims > 0 => promo.claims_count <= promo.max_claims

Campaigns ==
    /\ receipts \subseteq Assets \X Names \X Wallets
    /\ promos \in [Assets -> [Names -> SUBSET PromoConfig]]
    /\ \A p \in Assets, n \in Names : Counted(p, n)

PInv == Roles /\ Campaigns

LEMMA CampaignsAreTyped == PInv => PromoTypeOK
<1> SUFFICES ASSUME PInv, NEW p \in Assets, NEW n \in Names
             PROVE  promos[p][n] \subseteq PromoConfig /\ Cardinality(promos[p][n]) <= 1
  BY DEF PInv, Roles, Campaigns, PromoTypeOK
<1>1. promos[p][n] \subseteq PromoConfig
  BY DEF PInv, Campaigns
<1>2. CASE promos[p][n] = {}
  BY <1>1, <1>2, FS_EmptySet
<1>3. CASE promos[p][n] # {}
  <2>1. PICK promo : promos[p][n] = {promo}
    BY <1>3 DEF PInv, Campaigns, Counted
  <2>2. Cardinality({promo}) = 1
    BY FS_Singleton
  <2> QED
    BY <1>1, <2>1, <2>2
<1> QED
  BY <1>2, <1>3

LEMMA CampaignsStart == PromoInit => PInv
<1> SUFFICES ASSUME PromoInit PROVE PInv
  OBVIOUS
<1>1. Roles
  BY RolesInit DEF PromoInit
<1>2. \A p, n : Claimers(p, n) = {}
  BY DEF PromoInit, Claimers
<1>3. \A p \in Assets, n \in Names : promos[p][n] = {}
  BY DEF PromoInit
<1>4. \A p \in Assets, n \in Names : Counted(p, n)
  BY <1>2, <1>3, FS_EmptySet DEF Counted
<1> QED
  BY <1>1, <1>4 DEF PromoInit, PInv, Campaigns

(* A step that touches one campaign leaves the count of the others right.  *)
LEMMA OthersCounted ==
    ASSUME Campaigns, NEW p \in Assets, NEW n \in Names, NEW P \in SUBSET PromoConfig,
           promos' = [promos EXCEPT ![p][n] = P],
           \A q, m : q # p \/ m # n =>
                \A w : <<q, m, w>> \in receipts' <=> <<q, m, w>> \in receipts
    PROVE  /\ promos' \in [Assets -> [Names -> SUBSET PromoConfig]]
           /\ promos'[p][n] = P
           /\ \A q \in Assets, m \in Names : q # p \/ m # n => Counted(q, m)'
<1>1. /\ promos' \in [Assets -> [Names -> SUBSET PromoConfig]]
      /\ promos'[p][n] = P
      /\ \A q \in Assets, m \in Names : q # p \/ m # n => promos'[q][m] = promos[q][m]
  BY DEF Campaigns
<1>2. ASSUME NEW q \in Assets, NEW m \in Names, q # p \/ m # n
      PROVE  Claimers(q, m)' = Claimers(q, m)
  <2>1. \A w : <<q, m, w>> \in receipts' <=> <<q, m, w>> \in receipts
    BY <1>2
  <2> QED
    BY <2>1 DEF Claimers
<1>3. ASSUME NEW q \in Assets, NEW m \in Names, q # p \/ m # n
      PROVE  Counted(q, m)'
  BY <1>1, <1>2, <1>3 DEF Campaigns, Counted
<1> QED
  BY <1>1, <1>3

LEMMA CampaignCreated ==
    ASSUME Campaigns, NEW w, NEW k, NEW p \in Assets, NEW n \in Names, NEW perms,
           NEW d \in Deposits, NEW m \in ClaimLimits, CreatePromo(w, k, p, n, perms, d, m)
    PROVE  Campaigns'
<1> DEFINE promo == [permissions |-> perms, min_deposit |-> d, max_claims |-> m,
                     claims_count |-> 0, active |-> TRUE]
<1>1. /\ promos[p][n] = {} /\ receipts' = receipts
      /\ promos' = [promos EXCEPT ![p][n] = {promo}]
      /\ perms \subseteq PromoOriginPermissions
  BY DEF CreatePromo, Grantable
<1>2. promo \in PromoConfig /\ m \in Nat
  BY <1>1, PromoAssumption DEF PromoConfig
<1> HIDE DEF promo
<1>3. /\ promos' \in [Assets -> [Names -> SUBSET PromoConfig]]
      /\ promos'[p][n] = {promo}
      /\ \A q \in Assets, o \in Names : q # p \/ o # n => Counted(q, o)'
  <2>1. {promo} \in SUBSET PromoConfig
    BY <1>2
  <2>2. \A q, o : q # p \/ o # n =>
            \A v : <<q, o, v>> \in receipts' <=> <<q, o, v>> \in receipts
    BY <1>1
  <2> QED
    BY <1>1, <2>1, <2>2, OthersCounted
<1>4. Claimers(p, n)' = {}
  BY <1>1 DEF Claimers, Campaigns, Counted
<1>5. promo.claims_count = 0 /\ promo.max_claims = m
  BY DEF promo
<1>6. Counted(p, n)'
  BY <1>2, <1>3, <1>4, <1>5, FS_EmptySet DEF Counted
<1> QED
  BY <1>1, <1>3, <1>6 DEF Campaigns

(* The limit an admin sets is not below what was claimed.                  *)
LEMMA CampaignUpdated ==
    ASSUME Campaigns, NEW w, NEW k, NEW p \in Assets, NEW n \in Names,
           NEW active \in SUBSET BOOLEAN, NEW max_claims \in SUBSET ClaimLimits,
           UpdatePromo(w, k, p, n, active, max_claims)
    PROVE  Campaigns'
<1>1. PICK promo \in promos[p][n] :
        /\ \A m \in max_claims : LimitAccepted(promo, m)
        /\ \E a \in IF active = {} THEN {promo.active} ELSE active,
              m \in IF max_claims = {} THEN {promo.max_claims} ELSE max_claims :
              promos' = [promos EXCEPT ![p][n] =
                            {[promo EXCEPT !.active = a, !.max_claims = m]}]
  BY DEF UpdatePromo
<1>2. PICK a \in IF active = {} THEN {promo.active} ELSE active,
           m \in IF max_claims = {} THEN {promo.max_claims} ELSE max_claims :
              promos' = [promos EXCEPT ![p][n] =
                            {[promo EXCEPT !.active = a, !.max_claims = m]}]
  BY <1>1
<1> DEFINE updated == [promo EXCEPT !.active = a, !.max_claims = m]
<1>3. /\ promo \in PromoConfig /\ receipts' = receipts /\ IsFiniteSet(Claimers(p, n))
      /\ promo.claims_count = Cardinality(Claimers(p, n))
      /\ promo.max_claims > 0 => promo.claims_count <= promo.max_claims
  BY <1>1 DEF UpdatePromo, Campaigns, Counted
<1>4. a \in BOOLEAN /\ m \in ClaimLimits
  BY <1>2, <1>3 DEF PromoConfig
<1>5. m > 0 => promo.claims_count <= m
  <2>1. CASE max_claims = {}
    BY <1>2, <1>3, <2>1
  <2>2. CASE max_claims # {}
    <3>1. m \in max_claims
      BY <1>2, <2>2
    <3>2. m \in Nat /\ promo.claims_count \in Nat
      BY <1>3, <1>4, PromoAssumption DEF PromoConfig
    <3> QED
      BY <1>1, <3>1, <3>2 DEF LimitAccepted
  <2> QED
    BY <2>1, <2>2
<1>6. /\ updated \in PromoConfig /\ updated.claims_count = promo.claims_count
      /\ updated.max_claims = m
  BY <1>3, <1>4 DEF PromoConfig
<1> HIDE DEF updated
<1>7. /\ promos' \in [Assets -> [Names -> SUBSET PromoConfig]]
      /\ promos'[p][n] = {updated}
      /\ \A q \in Assets, o \in Names : q # p \/ o # n => Counted(q, o)'
  <2>1. {updated} \in SUBSET PromoConfig
    BY <1>6
  <2>2. \A q, o : q # p \/ o # n =>
            \A v : <<q, o, v>> \in receipts' <=> <<q, o, v>> \in receipts
    BY <1>3
  <2>3. promos' = [promos EXCEPT ![p][n] = {updated}]
    BY <1>2 DEF updated
  <2> QED
    BY <2>1, <2>2, <2>3, OthersCounted
<1>8. Claimers(p, n)' = Claimers(p, n)
  BY <1>3 DEF Claimers
<1>9. Counted(p, n)'
  BY <1>3, <1>5, <1>6, <1>7, <1>8 DEF Counted
<1> QED
  BY <1>3, <1>7, <1>9 DEF Campaigns

(* A claim adds one receipt and one to the count.                          *)
LEMMA CampaignClaimed ==
    ASSUME Campaigns, NEW w \in Wallets, NEW p \in Assets, NEW n \in Names, NEW a,
           NEW amount, ClaimPromoKey(w, p, n, a, amount)
    PROVE  Campaigns'
<1>1. PICK promo \in promos[p][n] :
        /\ KeysLeft(promo)
        /\ promo.claims_count < MaxU32
        /\ promos' = [promos EXCEPT ![p][n] = {[promo EXCEPT !.claims_count = @ + 1]}]
        /\ receipts' = receipts \cup {<<p, n, w>>}
        /\ <<p, n, w>> \notin receipts
  BY DEF ClaimPromoKey, ClaimRecorded
<1> DEFINE counted == [promo EXCEPT !.claims_count = @ + 1]
<1>2. /\ promo \in PromoConfig /\ IsFiniteSet(Claimers(p, n))
      /\ promo.claims_count = Cardinality(Claimers(p, n))
  BY <1>1 DEF Campaigns, Counted
<1>3. /\ counted \in PromoConfig /\ counted.claims_count = promo.claims_count + 1
      /\ counted.max_claims = promo.max_claims
      /\ promo.claims_count \in Nat /\ promo.max_claims \in Nat
  BY <1>1, <1>2, PromoAssumption DEF PromoConfig
<1> HIDE DEF counted
<1>4. receipts' \subseteq Assets \X Names \X Wallets
  BY <1>1 DEF Campaigns
<1>5. /\ promos' \in [Assets -> [Names -> SUBSET PromoConfig]]
      /\ promos'[p][n] = {counted}
      /\ \A q \in Assets, o \in Names : q # p \/ o # n => Counted(q, o)'
  <2>1. {counted} \in SUBSET PromoConfig
    BY <1>3
  <2>2. \A q, o : q # p \/ o # n =>
            \A v : <<q, o, v>> \in receipts' <=> <<q, o, v>> \in receipts
    BY <1>1
  <2>3. promos' = [promos EXCEPT ![p][n] = {counted}]
    BY <1>1 DEF counted
  <2> QED
    BY <2>1, <2>2, <2>3, OthersCounted
<1>6. Claimers(p, n)' = Claimers(p, n) \cup {w} /\ w \notin Claimers(p, n)
  BY <1>1 DEF Claimers
<1>7. /\ IsFiniteSet(Claimers(p, n)')
      /\ Cardinality(Claimers(p, n)') = promo.claims_count + 1
  BY <1>2, <1>6, FS_AddElement
<1>8. counted.max_claims > 0 => counted.claims_count <= counted.max_claims
  BY <1>1, <1>3 DEF KeysLeft
<1>9. Counted(p, n)'
  BY <1>3, <1>5, <1>7, <1>8 DEF Counted
<1> QED
  BY <1>4, <1>5, <1>9 DEF Campaigns
-----------------------------------------------------------------------------
(* The keyring.                                                            *)

(* A claimed key is one more delegated key: the argument of RolesAuthorize *)
(* without an admin.                                                       *)
LEMMA RolesClaim ==
    ASSUME PInv, NEW w \in Wallets, NEW p \in Assets, NEW n \in Names, NEW a \in Assets,
           NEW amount, ClaimPromoKey(w, p, n, a, amount)
    PROVE  Roles'
<1> USE StubState, MintedFields DEF IsLive, IsFree, KeysOf
<1>1. PICK promo \in promos[p][n] :
        /\ asset' = [asset EXCEPT ![a] = Minted(a, w, p, promo.permissions)]
        /\ keyStates' = keyStates \cup {a}
        /\ UNCHANGED <<positions, position, now, lastSigned>>
        /\ p \in positions /\ IsFree(a) /\ a \notin keyStates
  BY DEF ClaimPromoKey, KeyStatesAfterClaim
<1> DEFINE perms == promo.permissions
<1>2. perms \subseteq PromoOriginPermissions
  BY DEF PInv, Campaigns, Counted, PromoConfig
<1>3. /\ "MANAGE_KEYS" \notin perms /\ perms \in SUBSET Permissions
      /\ positions \subseteq Assets
      /\ asset \in [Assets -> AssetAccount]
      /\ keyStates \subseteq Assets
      /\ Roles
  BY <1>2 DEF PromoOriginPermissions, Permissions, PInv, Roles, TypeOK
<1> HIDE DEF perms
<1>4. asset' = [asset EXCEPT ![a] = Minted(a, w, p, perms)]
  BY <1>1 DEF perms
<1>5. \A q \in positions : a # position[q].current_admin_asset
                           /\ a # position[q].recovery_asset
  <2>1. NoKey \notin Assets
    BY KeyringAssumption
  <2> QED
    BY <1>1, <1>3, <2>1 DEF Roles, NoDangling
<1>6. TypeOK'
  <2>1. Minted(a, w, p, perms) \in AssetAccount
    BY <1>3, MintedType
  <2>2. asset' \in [Assets -> AssetAccount]
    BY <1>3, <1>4, <2>1
  <2> QED
    BY <1>1, <1>3, <2>2 DEF Roles, TypeOK
<1>7. Founded'
  BY <1>1, <1>3, <1>4 DEF Roles, Founded
<1>8. KeysBound'
  BY <1>1, <1>3, <1>4 DEF Roles, KeysBound
<1>9. Apart'
  BY <1>1, <1>3, <1>5 DEF Roles, Apart
<1>10. SoleAdmin'
  BY <1>1, <1>3, <1>4 DEF Roles, SoleAdmin
<1>11. OneRolePerKey'
  BY <1>1, <1>3, <1>4, <1>5 DEF Roles, OneRolePerKey
<1>12. NoDangling'
  BY <1>1, <1>3, <1>4, <1>5 DEF Roles, NoDangling
<1> QED
  BY <1>6, <1>7, <1>8, <1>9, <1>10, <1>11, <1>12 DEF Roles

(* The admin's instructions on campaigns change nothing of the keyring but *)
(* the history.                                                            *)
LEMMA RolesSigned ==
    ASSUME Roles, NEW p \in Assets, lastSigned' = [lastSigned EXCEPT ![p] = now],
           UNCHANGED <<asset, positions, position, keyStates, now>>
    PROVE  Roles'
<1>1. TypeOK'
  BY DEF Roles, TypeOK
<1>2. \A q : KeysOf(q)' = KeysOf(q)
  BY DEF KeysOf, IsLive
<1> QED
  BY <1>1, <1>2 DEF Roles, Founded, KeysBound, Apart, SoleAdmin, OneRolePerKey,
                    NoDangling, IsFree, IsLive

LEMMA CampaignsStep == PInv /\ [PromoNext]_allVars => PInv'
<1> SUFFICES ASSUME PInv, [PromoNext]_allVars PROVE PInv'
  OBVIOUS
<1>1. /\ Roles /\ Campaigns /\ positions \subseteq Assets /\ Free \subseteq Assets
  BY DEF PInv, Roles, TypeOK, Free
<1>2. ASSUME UNCHANGED promoVars
      PROVE  Campaigns'
  <2>1. \A p, n : Claimers(p, n)' = Claimers(p, n)
    BY <1>2 DEF promoVars, Claimers
  <2> QED
    BY <1>1, <1>2, <2>1 DEF promoVars, Campaigns, Counted
<1>3. CASE Next /\ UNCHANGED promoVars
  BY <1>1, <1>2, <1>3, RolesNext DEF PInv
<1>4. CASE UNCHANGED allVars
  <2>1. UNCHANGED vars /\ UNCHANGED promoVars
    BY <1>4 DEF allVars
  <2> QED
    BY <1>1, <1>2, <2>1, RolesNext DEF PInv
<1>5. ASSUME NEW w, NEW p \in positions, NEW n \in Names, NEW k, NEW perms,
             NEW d \in Deposits, NEW m \in ClaimLimits, CreatePromo(w, k, p, n, perms, d, m)
      PROVE  PInv'
  <2>1. Campaigns'
    BY <1>1, <1>5, CampaignCreated
  <2>2. Roles'
    BY <1>1, <1>5, RolesSigned DEF CreatePromo
  <2> QED
    BY <2>1, <2>2 DEF PInv
<1>6. ASSUME NEW w, NEW p \in positions, NEW n \in Names, NEW k,
             NEW active \in {{}, {TRUE}, {FALSE}},
             NEW max_claims \in {{}} \cup {{c} : c \in ClaimLimits},
             UpdatePromo(w, k, p, n, active, max_claims)
      PROVE  PInv'
  <2>1. active \in SUBSET BOOLEAN /\ max_claims \in SUBSET ClaimLimits
    OBVIOUS
  <2>2. Campaigns'
    BY <1>1, <1>6, <2>1, CampaignUpdated
  <2>3. Roles'
    BY <1>1, <1>6, RolesSigned DEF UpdatePromo
  <2> QED
    BY <2>2, <2>3 DEF PInv
<1>7. ASSUME NEW w \in Wallets, NEW p \in positions, NEW n \in Names, NEW a \in Free,
             NEW amount, ClaimPromoKey(w, p, n, a, amount)
      PROVE  PInv'
  BY <1>1, <1>7, CampaignClaimed, RolesClaim DEF PInv
<1>8. CASE PromoInstruction
  BY <1>5, <1>6, <1>7, <1>8 DEF PromoInstruction
<1> QED
  BY <1>3, <1>4, <1>8 DEF PromoNext

LEMMA CampaignsHold == PromoSpec => []PInv
<1> QED
  BY CampaignsStart, CampaignsStep, PTL DEF PromoSpec
-----------------------------------------------------------------------------
(* The theorems.                                                           *)

(* At most one PromoConfig per position and name_suffix, with the types of *)
(* its fields, whatever is created, updated and claimed.                   *)
THEOREM PromoTypes == PromoSpec => []PromoTypeOK
<1> QED
  BY CampaignsHold, CampaignsAreTyped, PTL

(* create_promo, update_promo, claim_promo_key: one key per wallet, no     *)
(* more than max_claims whenever it is lowered, and claims_count exact.    *)
THEOREM LimitIsKept == PromoSpec => []ClaimsWithinLimit
<1>1. PInv => ClaimsWithinLimit
  BY DEF PInv, Campaigns, Counted, ClaimsWithinLimit
<1> QED
  BY <1>1, CampaignsHold, PTL

(* Keys minted with no admin's signature are delegated keys that the admin *)
(* can revoke, and none of them manages the position.                      *)
THEOREM ClaimedKeysDelegated == PromoSpec => []ClaimedKeysAreDelegated
<1>1. PInv => ClaimedKeysAreDelegated
  BY DEF PInv, Roles, ClaimedKeysAreDelegated
<1> QED
  BY <1>1, CampaignsHold, PTL
=============================================================================
