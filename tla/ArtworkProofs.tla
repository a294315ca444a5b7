---------------------------- MODULE ArtworkProofs ----------------------------
(***************************************************************************)
(* What Protocol and Artwork guarantee for any number of admins,           *)
(* collections, programs, receipts and pictures.                           *)
(***************************************************************************)
EXTENDS Artwork, TLAPS

-----------------------------------------------------------------------------
(* The protocol's administration.                                          *)

(* Before initialize_protocol there is nothing a later step could keep:    *)
(* what makes CollectionIsForever survive the first instruction.           *)
AbsentIsUnset == layout = "absent" => config.collection = Nobody

ProtocolInv == ProtocolTypeOK /\ AbsentIsUnset /\ NominationIsCurrent

LEMMA UnsetType == Unset \in ProtocolConfig
  BY DEF Unset, ProtocolConfig

LEMMA ProtocolInvInit == ProtocolInit => ProtocolInv
<1> SUFFICES ASSUME ProtocolInit PROVE ProtocolInv
  OBVIOUS
<1>1. PICK w \in Admins, c \in Collections \cup {Nobody} :
          config = CASE layout = "absent" -> Unset
                     [] layout = "v0" -> [Unset EXCEPT !.admin = w]
                     [] layout = "v1" -> [Unset EXCEPT !.admin = w, !.collection = c]
  BY DEF ProtocolInit
<1>2. Nobody \notin Admins \cup Collections
  BY ProtocolAssumption
<1>3. CASE layout = "absent"
  BY <1>1, <1>2, <1>3
  DEF ProtocolInit, ProtocolInv, ProtocolTypeOK, AbsentIsUnset, NominationIsCurrent,
      ProtocolConfig, Unset
<1>4. CASE layout = "v0"
  BY <1>1, <1>2, <1>4
  DEF ProtocolInit, ProtocolInv, ProtocolTypeOK, AbsentIsUnset, NominationIsCurrent,
      ProtocolConfig, Unset
<1>5. CASE layout = "v1"
  BY <1>1, <1>2, <1>5
  DEF ProtocolInit, ProtocolInv, ProtocolTypeOK, AbsentIsUnset, NominationIsCurrent,
      ProtocolConfig, Unset
<1> QED
  BY <1>3, <1>4, <1>5 DEF ProtocolInit

(* Every instruction of the protocol's admin, and of the one he names,     *)
(* keeps the invariant and leaves a collection where it is.                *)
LEMMA ProtocolStep ==
    ASSUME ProtocolInv, ProtocolNext
    PROVE  /\ ProtocolInv'
           /\ config.collection # Nobody => config'.collection = config.collection
<1> USE DEF ProtocolInv, ProtocolTypeOK, AbsentIsUnset, NominationIsCurrent,
            ProtocolConfig
<1>0. Nobody \notin Admins \cup Collections
  BY ProtocolAssumption
<1>1. ASSUME NEW w \in Admins, InitializeProtocol(w)
      PROVE  /\ ProtocolInv'
             /\ config.collection # Nobody => config'.collection = config.collection
  BY <1>0, <1>1 DEF InitializeProtocol, Unset
<1>2. ASSUME NEW w \in Admins, AcceptAdmin(w)
      PROVE  /\ ProtocolInv'
             /\ config.collection # Nobody => config'.collection = config.collection
  BY <1>0, <1>2 DEF AcceptAdmin, Accepted
<1>3. ASSUME NEW w \in Admins, MigrateConfig(w)
      PROVE  /\ ProtocolInv'
             /\ config.collection # Nobody => config'.collection = config.collection
  BY <1>0, <1>3 DEF MigrateConfig, Migrated
<1>4. ASSUME NEW w \in Admins, NEW c \in Collections, CreateCollection(w, c)
      PROVE  /\ ProtocolInv'
             /\ config.collection # Nobody => config'.collection = config.collection
  BY <1>0, <1>4 DEF CreateCollection, SignedByAdmin
<1>5. ASSUME NEW w \in Admins, NEW new \in Admins \cup {Nobody}, TransferAdmin(w, new)
      PROVE  /\ ProtocolInv'
             /\ config.collection # Nobody => config'.collection = config.collection
  BY <1>0, <1>5 DEF TransferAdmin, SignedByAdmin
<1>6. ASSUME NEW w \in Admins, NEW mint \in NavMints, CreateMarketConfig(w, mint)
      PROVE  /\ ProtocolInv'
             /\ config.collection # Nobody => config'.collection = config.collection
  BY <1>6 DEF CreateMarketConfig
<1>7. ASSUME NEW w \in Admins, NEW program \in Programs,
             AddTrustedProvider(w, program) \/ RemoveTrustedProvider(w, program)
      PROVE  /\ ProtocolInv'
             /\ config.collection # Nobody => config'.collection = config.collection
  BY <1>7 DEF AddTrustedProvider, RemoveTrustedProvider
<1> QED
  BY <1>1, <1>2, <1>3, <1>4, <1>5, <1>6, <1>7 DEF ProtocolNext

(* Instructions of a position leave the protocol's accounts alone.         *)
LEMMA ProtocolKept == ProtocolInv /\ UNCHANGED protocolVars => ProtocolInv'
  BY DEF ProtocolInv, ProtocolTypeOK, AbsentIsUnset, NominationIsCurrent,
         protocolVars, ProtocolConfig
-----------------------------------------------------------------------------
(* What validate_artwork_receipt lets through.                             *)

(* An answer is the default picture, or a picture of the set bought for    *)
(* this position from a trusted program; without grace and with artwork    *)
(* named it is never the default.                                          *)
LEMMA AnswerIsLicensed ==
    ASSUME NEW id, NEW acc \in Accounts, NEW p, NEW key_type, NEW permissions,
           NEW graceful \in BOOLEAN,
           NEW picture \in ArtworkAnswers(id, acc, p, key_type, permissions, graceful)
    PROVE  /\ picture \in Image \cup {NoPicture}
           /\ \/ picture # NoPicture
              \/ id # NoArtwork /\ ~graceful
              => /\ acc.receipt = id
                 /\ VouchedFor(acc)
                 /\ BoughtFor(acc, p)
                 /\ picture = acc.image
                 /\ Depicts(acc, key_type, permissions)
<1>1. acc.image \in Image /\ NoPicture \notin Image
  BY ArtworkAssumption DEF Accounts
<1> QED
  BY <1>1 DEF ArtworkAnswers

(* A receipt is determined by its program, its set and its position.       *)
LEMMA ReceiptIsItsParts ==
    ASSUME NEW acc \in Accounts, NEW p, BoughtFor(acc, p)
    PROVE  [program |-> acc.provider, set |-> acc.receipt.set, position |-> p] = acc.receipt
<1>1. acc.receipt \in Receipt
  BY ArtworkAssumption DEF Accounts
<1> QED
  BY <1>1 DEF BoughtFor, Receipt

LEMMA MintedType ==
    ASSUME NEW p \in Seeds, NEW key_type \in KeyTypes, NEW permissions \in Masks \cup {0},
           NEW picture \in Image \cup {NoPicture}
    PROVE  Minted(p, key_type, permissions, picture) \subseteq Key
  BY DEF Minted, Key
-----------------------------------------------------------------------------
(* Positions, receipts and keys.                                           *)

(* The inductive invariant: types, the nomination, and where the artwork   *)
(* of every position came from.                                            *)
Inv == TypeOK /\ ProtocolInv /\ ArtworkIsBought

LEMMA InvInit == Init => Inv
  BY ProtocolInvInit
  DEF Init, Inv, TypeOK, ProtocolInv, ProtocolInit, ArtworkIsBought

(* An instruction, a sale, a change of pictures or an act of the admin     *)
(* keeps the invariant.                                                    *)
LEMMA InvStep == Inv /\ [Next]_vars => Inv'
<1> SUFFICES ASSUME Inv, [Next]_vars PROVE Inv'
  OBVIOUS
<1> USE DEF Inv
<1>1. ASSUME Administer PROVE Inv'
  <2>1. ProtocolInv'
    BY <1>1, ProtocolStep DEF Administer
  <2>2. TypeOK'
    BY <1>1, <2>1 DEF Administer, TypeOK, ProtocolInv, ProtocolTypeOK
  <2>3. ArtworkIsBought'
    BY <1>1 DEF Administer, ArtworkIsBought
  <2> QED
    BY <2>1, <2>2, <2>3
<1>2. ASSUME NEW p \in Seeds, NEW acc \in Accounts, NEW id \in {NoArtwork, acc.receipt},
             CreatePosition(p, id, acc)
      PROVE  Inv'
  <2>1. PICK picture \in ArtworkAnswers(id, acc, p, "admin", 0, FALSE) :
            lastKey' = Minted(p, "admin", 0, picture)
    BY <1>2 DEF CreatePosition
  <2>2. /\ picture \in Image \cup {NoPicture}
        /\ id # NoArtwork => acc.receipt = id /\ VouchedFor(acc) /\ BoughtFor(acc, p)
    BY <2>1, AnswerIsLicensed
  <2>3. id \in Receipt \cup {NoArtwork}
    BY ArtworkAssumption DEF Accounts
  <2>4. lastKey' \subseteq Key
    BY <2>1, <2>2, MintedType DEF KeyTypes
  <2>5. ProtocolInv'
    BY <1>2, ProtocolKept DEF CreatePosition
  <2>6. TypeOK'
    BY <1>2, <2>3, <2>4, <2>5
    DEF CreatePosition, TypeOK, ProtocolInv, ProtocolTypeOK, protocolVars
  <2>7. ASSUME id # NoArtwork
        PROVE  id \in sold /\ id.position = p /\ id.program \in vouched
    BY <2>2, <2>7 DEF VouchedFor, BoughtFor, TypeOK
  <2>8. ArtworkIsBought'
    BY <1>2, <2>7 DEF CreatePosition, ArtworkIsBought, TypeOK
  <2> QED
    BY <2>5, <2>6, <2>8
<1>3. ASSUME NEW p \in Seeds, NEW acc \in Accounts, NEW id \in {NoArtwork, acc.receipt},
             SetPositionArtwork(p, id, acc)
      PROVE  Inv'
  <2>1. id \in Receipt \cup {NoArtwork}
    BY ArtworkAssumption DEF Accounts
  <2>2. ProtocolInv'
    BY <1>3, ProtocolKept DEF SetPositionArtwork
  <2>3. TypeOK'
    BY <1>3, <2>1, <2>2
    DEF SetPositionArtwork, TypeOK, ProtocolInv, ProtocolTypeOK, protocolVars
  <2>4. ASSUME id # NoArtwork
        PROVE  id \in sold /\ id.position = p /\ id.program \in vouched
    BY <1>3, <2>4 DEF SetPositionArtwork, ArtworkLicensed, VouchedFor, BoughtFor, TypeOK
  <2>5. ArtworkIsBought'
    BY <1>3, <2>4 DEF SetPositionArtwork, ArtworkIsBought, TypeOK
  <2> QED
    BY <2>2, <2>3, <2>5
<1>4. ASSUME NEW p \in Seeds, NEW acc \in Accounts, NEW key_type \in KeyTypes,
             NEW mask \in Masks \cup {0}, MintKey(p, key_type, mask, acc)
      PROVE  Inv'
  <2>1. PICK picture \in ArtworkAnswers(artwork_id[p], acc, p, key_type, mask, TRUE) :
            lastKey' = Minted(p, key_type, mask, picture)
    BY <1>4 DEF MintKey
  <2>2. lastKey' \subseteq Key
    BY <2>1, AnswerIsLicensed, MintedType
  <2>3. ProtocolInv'
    BY <1>4, ProtocolKept DEF MintKey
  <2> QED
    BY <1>4, <2>2, <2>3
    DEF MintKey, TypeOK, ProtocolInv, ProtocolTypeOK, protocolVars, ArtworkIsBought
<1>5. ASSUME NEW p \in Seeds, RecoverKey(p)
      PROVE  Inv'
  <2>1. lastKey' \subseteq Key
    BY <1>5, MintedType DEF RecoverKey, KeyTypes
  <2>2. ProtocolInv'
    BY <1>5, ProtocolKept DEF RecoverKey
  <2> QED
    BY <1>5, <2>1, <2>2
    DEF RecoverKey, TypeOK, ProtocolInv, ProtocolTypeOK, protocolVars, ArtworkIsBought
<1>6. ASSUME NEW r \in ReceiptAccounts, OpenReceipt(r) \/ CloseReceipt(r)
      PROVE  Inv'
  <2>1. ProtocolInv'
    BY <1>6, ProtocolKept DEF OpenReceipt, CloseReceipt
  <2> QED
    BY <1>6, <2>1
    DEF OpenReceipt, CloseReceipt, TypeOK, ProtocolInv, ProtocolTypeOK, protocolVars,
        ArtworkIsBought
<1>7. ASSUME NEW i \in ImageAccounts, ImageChanges(i)
      PROVE  Inv'
  <2>1. ProtocolInv'
    BY <1>7, ProtocolKept DEF ImageChanges
  <2> QED
    BY <1>7, <2>1
    DEF ImageChanges, TypeOK, ProtocolInv, ProtocolTypeOK, protocolVars, ArtworkIsBought
<1>8. CASE UNCHANGED vars
  <2>1. ProtocolInv'
    BY <1>8, ProtocolKept DEF vars
  <2> QED
    BY <1>8, <2>1
    DEF vars, artworkVars, TypeOK, ProtocolInv, ProtocolTypeOK, protocolVars,
        ArtworkIsBought
<1>9. \A mask \in Masks : mask \in Masks \cup {0} /\ "delegate" \in KeyTypes
  BY DEF KeyTypes
<1>10. 0 \in Masks \cup {0} /\ "recovery" \in KeyTypes
  BY DEF KeyTypes
<1> QED
  BY <1>1, <1>2, <1>3, <1>4, <1>5, <1>6, <1>7, <1>8, <1>9, <1>10 DEF Next

LEMMA InvAlways == Spec => []Inv
<1>1. Init => Inv
  BY InvInit
<1>2. Inv /\ [Next]_vars => Inv'
  BY InvStep
<1> QED
  BY <1>1, <1>2, PTL DEF Spec
-----------------------------------------------------------------------------
(* The accounts of the protocol and of artwork stay well formed, whoever   *)
(* administers: Artwork!TypeOK.                                            *)
THEOREM TypeCorrect == Spec => []TypeOK
<1>1. Inv => TypeOK
  BY DEF Inv
<1> QED
  BY <1>1, InvAlways, PTL

(* transfer_admin, accept_admin, migrate_config: only a nomination by the  *)
(* sitting admin can ever be accepted.                                     *)
THEOREM NominationCurrent == Spec => []NominationIsCurrent
<1>1. Inv => NominationIsCurrent
  BY DEF Inv, ProtocolInv
<1> QED
  BY <1>1, InvAlways, PTL

(* create_collection, migrate_config: a collection once named in the       *)
(* config is named for ever.                                               *)
THEOREM CollectionForever == Spec => CollectionIsForever
<1>1. ASSUME Inv, [Next]_vars
      PROVE  [config.collection # Nobody => config'.collection = config.collection]_protocolVars
  <2>1. CASE Administer
    BY <1>1, <2>1, ProtocolStep DEF Administer, Inv
  <2>2. CASE UNCHANGED protocolVars
    BY <2>2
  <2>3. Administer \/ UNCHANGED protocolVars
    BY <1>1
    DEF Next, vars, CreatePosition, SetPositionArtwork, MintKey, RecoverKey, OpenReceipt,
        CloseReceipt, ImageChanges
  <2> QED
    BY <2>1, <2>2, <2>3
<1> QED
  BY <1>1, InvAlways, PTL DEF Spec, CollectionIsForever

(* create_position, set_position_artwork: the artwork a position names was *)
(* bought for it from a program trusted at some time.                      *)
THEOREM ArtworkBought == Spec => []ArtworkIsBought
<1>1. Inv => ArtworkIsBought
  BY DEF Inv
<1> QED
  BY <1>1, InvAlways, PTL

(* validate_artwork_receipt: whatever accounts are passed with a receipt   *)
(* that is closed, the answer is the default picture.                      *)
THEOREM ClosedFallsBack == Spec => []ClosedReceiptFallsBack
<1>1. ClosedReceiptFallsBack
  BY DEF ClosedReceiptFallsBack, ArtworkAnswers, ReceiptMissing
<1> QED
  BY <1>1, PTL

(* Every instruction that mints a key: its picture is licensed now.        *)
THEOREM PicturesLicensed == Spec => PicturesAreLicensed
<1> DEFINE Licensed ==
      \A key \in lastKey' \ lastKey :
          key.picture # NoPicture =>
              /\ key.picture.program \in trusted
              /\ [program |-> key.picture.program, set |-> key.picture.set,
                  position |-> key.position] = artwork_id'[key.position]
              /\ key.picture.key_type = key.key_type
              /\ key.picture.permissions \in {key.permissions, 0}
<1>1. ASSUME Inv, NEW p \in Seeds, NEW acc \in Accounts, NEW id, NEW key_type,
             NEW permissions, NEW graceful \in BOOLEAN,
             NEW picture \in ArtworkAnswers(id, acc, p, key_type, permissions, graceful),
             lastKey' = Minted(p, key_type, permissions, picture),
             artwork_id'[p] = id
      PROVE  Licensed
  <2> SUFFICES ASSUME picture # NoPicture
               PROVE  /\ picture.program \in trusted
                      /\ [program |-> picture.program, set |-> picture.set,
                          position |-> p] = id
                      /\ picture.key_type = key_type
                      /\ picture.permissions \in {permissions, 0}
    BY <1>1 DEF Minted
  <2>1. /\ acc.receipt = id
        /\ VouchedFor(acc)
        /\ BoughtFor(acc, p)
        /\ picture = acc.image
        /\ Depicts(acc, key_type, permissions)
    BY <1>1, AnswerIsLicensed
  <2>2. [program |-> acc.provider, set |-> acc.receipt.set, position |-> p] = id
    BY <2>1, ReceiptIsItsParts
  <2> QED
    BY <2>1, <2>2 DEF VouchedFor, Depicts
<1>2. ASSUME Inv, [Next]_vars
      PROVE  Licensed
  <2>1. ASSUME NEW p \in Seeds, NEW acc \in Accounts, NEW id \in {NoArtwork, acc.receipt},
               CreatePosition(p, id, acc)
        PROVE  Licensed
    <3>1. PICK picture \in ArtworkAnswers(id, acc, p, "admin", 0, FALSE) :
              lastKey' = Minted(p, "admin", 0, picture)
      BY <2>1 DEF CreatePosition
    <3>2. artwork_id'[p] = id
      BY <1>2, <2>1 DEF CreatePosition, Inv, TypeOK
    <3> QED
      BY <1>1, <1>2, <3>1, <3>2
  <2>2. ASSUME NEW p \in Seeds, NEW acc \in Accounts, NEW key_type, NEW mask,
               MintKey(p, key_type, mask, acc)
        PROVE  Licensed
    <3>1. PICK picture \in ArtworkAnswers(artwork_id[p], acc, p, key_type, mask, TRUE) :
              lastKey' = Minted(p, key_type, mask, picture)
      BY <2>2 DEF MintKey
    <3>2. artwork_id'[p] = artwork_id[p]
      BY <2>2 DEF MintKey
    <3> QED
      BY <1>1, <1>2, <3>1, <3>2
  <2>3. ASSUME NEW p \in Seeds, RecoverKey(p)
        PROVE  Licensed
    BY <2>3 DEF RecoverKey, Minted
  <2>4. CASE UNCHANGED lastKey
    BY <2>4
  <2>5. \/ \E p \in Seeds, acc \in Accounts : \E id \in {NoArtwork, acc.receipt} :
              CreatePosition(p, id, acc)
        \/ \E p \in Seeds, acc \in Accounts, mask \in Masks : MintKey(p, "delegate", mask, acc)
        \/ \E p \in Seeds, acc \in Accounts : MintKey(p, "recovery", 0, acc)
        \/ \E p \in Seeds : RecoverKey(p)
        \/ UNCHANGED lastKey
    BY <1>2
    DEF Next, vars, artworkVars, Administer, SetPositionArtwork, OpenReceipt, CloseReceipt,
        ImageChanges
  <2> QED
    BY <2>1, <2>2, <2>3, <2>4, <2>5
<1>3. Inv /\ [Next]_vars => [Licensed]_vars
  BY <1>2
<1> QED
  BY <1>3, InvAlways, PTL DEF Spec, PicturesAreLicensed
=============================================================================
