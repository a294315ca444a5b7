-------------------------------- MODULE Promo --------------------------------
(***************************************************************************)
(* Promotional campaigns on top of the keyring: the admin of a position    *)
(* sets one up, and anybody may then mint a key for himself, once per      *)
(* wallet, while the campaign is active and has keys left.                 *)
(*                                                                         *)
(* A campaign is named by its name_suffix within its position.  The        *)
(* deposit a claim makes is a buy, modelled in Treasury; here it is only   *)
(* the amount the campaign asks for.                                       *)
(***************************************************************************)
EXTENDS Keyring, FiniteSets

CONSTANTS
    Names,       \* name_suffixes
    ClaimLimits, \* max_claims an admin may ask for; 0 is unlimited
    Deposits,    \* lamports, as a minimum asked for or as a deposit made
    MaxU32       \* the largest claims_count

ASSUME PromoAssumption ==
    /\ ClaimLimits \subseteq Nat
    /\ Deposits \subseteq Nat
    /\ MaxU32 \in Nat

VARIABLES
    promos,      \* the PromoConfig of each position and name; {} before create
    receipts     \* ClaimReceipts: <<position, name, claimer>>

promoVars == <<promos, receipts>>
allVars   == <<vars, promoVars>>

PromoOriginPermissions == {"BUY", "LIMITED_BORROW"}

PromoConfig ==
    [permissions : SUBSET PromoOriginPermissions, min_deposit : Deposits,
     max_claims : ClaimLimits, claims_count : 0 .. MaxU32, active : BOOLEAN]

PromoInit ==
    /\ Init
    /\ promos = [p \in Assets |-> [n \in Names |-> {}]]
    /\ receipts = {}

Claimers(p, n) == {w \in Wallets : <<p, n, w>> \in receipts}
-----------------------------------------------------------------------------
(* create_promo: signed by the admin key, which is all that is recorded of *)
(* it: the handler does not touch the position.                            *)
GrantableByAdmin(perms) ==  \* slip: the admin's mask, not the campaign's
    perms # {} /\ perms \subseteq AdminOriginPermissions
Grantable(perms) == perms # {} /\ perms \subseteq PromoOriginPermissions

CreatePromo(w, k, p, n, perms, min_deposit, max_claims) ==
    /\ p \in positions
    /\ ValidateKey(w, k, p, {"MANAGE_KEYS"})
    /\ promos[p][n] = {}
    /\ Grantable(perms)
    /\ promos' = [promos EXCEPT ![p][n] =
           {[permissions |-> perms, min_deposit |-> min_deposit,
             max_claims |-> max_claims, claims_count |-> 0, active |-> TRUE]}]
    /\ lastSigned' = [lastSigned EXCEPT ![p] = now]
    /\ UNCHANGED <<asset, positions, position, keyStates, now, receipts>>

(* update_promo: an Option per setting, {} for None.                       *)
LimitAccepted(promo, max_claims) == max_claims >= promo.claims_count

UpdatePromo(w, k, p, n, active, max_claims) ==
    \E promo \in promos[p][n] :
        /\ p \in positions
        /\ ValidateKey(w, k, p, {"MANAGE_KEYS"})
        /\ \A m \in max_claims : LimitAccepted(promo, m)
        /\ \E a \in IF active = {} THEN {promo.active} ELSE active,
              m \in IF max_claims = {} THEN {promo.max_claims} ELSE max_claims :
              promos' = [promos EXCEPT ![p][n] =
                            {[promo EXCEPT !.active = a, !.max_claims = m]}]
        /\ lastSigned' = [lastSigned EXCEPT ![p] = now]
        /\ UNCHANGED <<asset, positions, position, keyStates, now, receipts>>

(* claim_promo_key: no key is needed to get one.                           *)
KeysLeftOneMore(promo) ==  \* slip: <= for <
    promo.max_claims > 0 => promo.claims_count <= promo.max_claims
KeysLeft(promo) == promo.max_claims > 0 => promo.claims_count < promo.max_claims

ClaimRecorded(p, n, w) == <<p, n, w>> \notin receipts

KeyStatesAfterClaimNone(a) == keyStates  \* slip: the key gets no KeyState
KeyStatesAfterClaim(a) == keyStates \cup {a}

ClaimPromoKey(w, p, n, a, amount) ==
    \E promo \in promos[p][n] :
        /\ p \in positions
        /\ ClaimRecorded(p, n, w)
        /\ IsFree(a)
        /\ a \notin keyStates
        /\ promo.active
        /\ KeysLeft(promo)
        /\ amount >= promo.min_deposit
        /\ promo.claims_count < MaxU32
        /\ asset' = [asset EXCEPT ![a] = Minted(a, w, p, promo.permissions)]
        /\ keyStates' = KeyStatesAfterClaim(a)
        /\ receipts' = receipts \cup {<<p, n, w>>}
        /\ promos' = [promos EXCEPT ![p][n] =
               {[promo EXCEPT !.claims_count = @ + 1]}]
        /\ UNCHANGED <<positions, position, now, lastSigned>>

PromoInstruction ==
    \E w \in Wallets, p \in positions, n \in Names :
       \/ \E k \in Live, perms \in PermissionMasks, d \in Deposits, m \in ClaimLimits :
             CreatePromo(w, k, p, n, perms, d, m)
       \/ \E k \in Live, active \in {{}, {TRUE}, {FALSE}},
             m \in {{}} \cup {{c} : c \in ClaimLimits} : UpdatePromo(w, k, p, n, active, m)
       \/ \E a \in Free, amount \in Deposits : ClaimPromoKey(w, p, n, a, amount)

PromoNext ==
    \/ Next /\ UNCHANGED promoVars
    \/ PromoInstruction

PromoSpec == PromoInit /\ [][PromoNext]_allVars
-----------------------------------------------------------------------------
PromoTypeOK ==
    /\ TypeOK
    /\ \A p \in Assets, n \in Names :
          promos[p][n] \subseteq PromoConfig /\ Cardinality(promos[p][n]) <= 1
    /\ receipts \subseteq Assets \X Names \X Wallets

(* A campaign hands out at most one key per wallet and, whatever its admin *)
(* does to the limit meanwhile, never more than the limit; claims_count is *)
(* the number of wallets that have one, those of revoked keys included.    *)
ClaimsWithinLimit ==
    \A p \in Assets, n \in Names : \A promo \in promos[p][n] :
        /\ promo.claims_count = Cardinality(Claimers(p, n))
        /\ promo.max_claims > 0 => promo.claims_count <= promo.max_claims

(* Keys that no admin signed for are delegated keys like any others: each  *)
(* has one role, a KeyState through which the admin can revoke it, and no  *)
(* power to manage the position.                                           *)
ClaimedKeysAreDelegated == OneRolePerKey /\ SoleAdmin

(* docs/recovery-key-design.md, on a stolen recovery key: the admin resets *)
(* the timer with any transaction, so nothing is gained unless he is       *)
(* inactive for the full lockout.                                          *)
AnyAdminTransactionDelaysRecovery ==
    [][\A p \in positions :
          position'[p].current_admin_asset # position[p].current_admin_asset =>
              now - lastSigned[p] >= position[p].recovery_lockout_secs]_allVars
=============================================================================
