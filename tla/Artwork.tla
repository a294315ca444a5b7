------------------------------- MODULE Artwork -------------------------------
(***************************************************************************)
(* Artwork on keys: a position may name a receipt, and every key minted    *)
(* for it afterwards takes its picture from the receipt's set, if the      *)
(* caller passes the accounts that prove it.                               *)
(*                                                                         *)
(* Receipts and pictures belong to programs of other people, modelled as   *)
(* far as validate_artwork_receipt can tell: accounts at derived addresses *)
(* that their program opens and closes as it likes.  Anybody can write     *)
(* such a program; Protocol's admin says which are trusted.  Who signs is  *)
(* Keyring's business.                                                     *)
(***************************************************************************)
EXTENDS Protocol

CONSTANTS
    Seeds,         \* authority_seeds of positions
    Sets,          \* artwork sets
    Masks,         \* permission masks of delegated keys; 0 is none of them
    Elsewhere,     \* the authority_seed of a position not followed here
    ReceiptAccounts, ImageAccounts,  \* accounts the programs may open
    NoArtwork,     \* None
    NoPicture      \* the default picture

KeyTypes == {"admin", "delegate", "recovery"}

(* An ArtworkReceipt and an ArtworkImage, named by what they are derived   *)
(* from.                                                                   *)
Receipt == [program : Programs, set : Sets, position : Seeds \cup {Elsewhere}]
Image == [program : Programs, set : Sets, key_type : KeyTypes,
          permissions : Masks \cup {0}]

ASSUME ArtworkAssumption ==
    /\ 0 \notin Masks
    /\ Elsewhere \notin Seeds
    /\ ReceiptAccounts \subseteq Receipt
    /\ ImageAccounts \subseteq Image
    /\ NoArtwork \notin Receipt
    /\ NoPicture \notin Image

VARIABLES
    positions,     \* seeds whose position exists
    artwork_id,    \* PositionState.artwork_id
    receipts,      \* receipts in existence
    images,        \* images in existence
    sold,          \* history: receipts that ever existed
    vouched,       \* history: programs that were ever trusted
    lastKey        \* history: the last key minted; {} before the first

artworkVars == <<positions, artwork_id, receipts, images, sold, vouched, lastKey>>
vars == <<protocolVars, artworkVars>>

Key == [position : Seeds, key_type : KeyTypes, permissions : Masks \cup {0},
        picture : Image \cup {NoPicture}]

Init ==
    /\ ProtocolInit
    /\ positions = {}
    /\ artwork_id = [p \in Seeds |-> NoArtwork]
    /\ receipts = {} /\ images = {}
    /\ sold = {} /\ vouched = {} /\ lastKey = {}
-----------------------------------------------------------------------------
(* remaining_accounts: count of them, the receipt, the program the second  *)
(* claims to vouch for and whether that account is Hardig's own, the image.*)
Accounts ==
    [count : {0, 2, 3}, receipt : ReceiptAccounts, provider : Programs,
     genuine : BOOLEAN, image : ImageAccounts]

(* The chain of trust: a TrustedProvider account of Hardig's, a receipt    *)
(* its program owns, for this position.  A closed receipt is nobody's.     *)
VouchedForAny(acc) == acc.provider \in trusted \/ ~acc.genuine  \* slip: owner
VouchedFor(acc) == acc.provider \in trusted /\ acc.genuine

BoughtForAny(acc, p) ==  \* slip: position_seed not compared
    acc.receipt \in receipts /\ acc.receipt.program = acc.provider
BoughtFor(acc, p) ==
    /\ acc.receipt \in receipts
    /\ acc.receipt.program = acc.provider
    /\ acc.receipt.position = p

(* The picture of a key: the image made for it, or the catch-all of its    *)
(* type; one of the trusted program, from the set bought.                  *)
Depicts(acc, key_type, permissions) ==
    /\ acc.image \in images
    /\ acc.image.program = acc.provider
    /\ acc.image.set = acc.receipt.set
    /\ acc.image.key_type = key_type
    /\ acc.image.permissions \in {permissions, 0}

(* validate_artwork_receipt falls back to the default picture before it    *)
(* looks at the provider when accounts are missing or the receipt is gone. *)
ReceiptMissingLate(id, acc) == acc.count < 2  \* slip: the closed one forgotten
ReceiptMissing(id, acc) ==
    acc.count < 2 \/ (acc.receipt = id /\ id \notin receipts)

(* Its answers: none is an error.                                          *)
ArtworkAnswers(id, acc, p, key_type, permissions, graceful) ==
    LET licensed == /\ acc.count >= 2
                    /\ acc.receipt = id
                    /\ VouchedFor(acc)
                    /\ BoughtFor(acc, p)
        fallback == \/ id = NoArtwork
                    \/ graceful /\ ReceiptMissing(id, acc)
                    \/ graceful /\ licensed /\ acc.count < 3
        pictured == /\ licensed
                    /\ acc.count = 3
                    /\ Depicts(acc, key_type, permissions)
    IN IF fallback THEN {NoPicture} ELSE IF pictured THEN {acc.image} ELSE {}

(* set_position_artwork asks for no image.                                 *)
ArtworkLicensed(id, acc, p) ==
    id # NoArtwork =>
        acc.count >= 2 /\ acc.receipt = id /\ VouchedFor(acc) /\ BoughtFor(acc, p)
-----------------------------------------------------------------------------
Minted(p, key_type, permissions, picture) ==
    {[position |-> p, key_type |-> key_type, permissions |-> permissions,
      picture |-> picture]}

(* create_position: a market and a collection are needed, the receipt and  *)
(* its image too if there is to be artwork.                                *)
CreatePosition(p, id, acc) ==
    /\ layout = "v2" /\ config.collection # Nobody
    /\ markets # {}
    /\ p \notin positions
    /\ \E picture \in ArtworkAnswers(id, acc, p, "admin", 0, FALSE) :
          lastKey' = Minted(p, "admin", 0, picture)
    /\ positions' = positions \cup {p}
    /\ artwork_id' = [artwork_id EXCEPT ![p] = id]
    /\ UNCHANGED <<protocolVars, receipts, images, sold, vouched>>

(* authorize_key and configure_recovery.                                   *)
MintKey(p, key_type, permissions, acc) ==
    /\ layout = "v2"
    /\ p \in positions
    /\ \E picture \in ArtworkAnswers(artwork_id[p], acc, p, key_type, permissions, TRUE) :
          lastKey' = Minted(p, key_type, permissions, picture)
    /\ UNCHANGED <<protocolVars, positions, artwork_id, receipts, images, sold, vouched>>

(* execute_recovery mints the new admin key without a picture and leaves   *)
(* artwork_id alone.                                                       *)
RecoverKey(p) ==
    /\ layout = "v2"
    /\ p \in positions
    /\ lastKey' = Minted(p, "admin", 0, NoPicture)
    /\ UNCHANGED <<protocolVars, positions, artwork_id, receipts, images, sold, vouched>>

SetPositionArtwork(p, id, acc) ==
    /\ layout = "v2"
    /\ p \in positions
    /\ ArtworkLicensed(id, acc, p)
    /\ artwork_id' = [artwork_id EXCEPT ![p] = id]
    /\ UNCHANGED <<protocolVars, positions, receipts, images, sold, vouched, lastKey>>

(* The artwork programs.                                                   *)
OpenReceipt(r) ==
    /\ r \notin receipts
    /\ receipts' = receipts \cup {r}
    /\ sold' = sold \cup {r}
    /\ UNCHANGED <<protocolVars, positions, artwork_id, images, vouched, lastKey>>

CloseReceipt(r) ==
    /\ r \in receipts
    /\ receipts' = receipts \ {r}
    /\ UNCHANGED <<protocolVars, positions, artwork_id, images, sold, vouched, lastKey>>

(* An image is put up, or taken down.                                      *)
ImageChanges(i) ==
    /\ images' = IF i \in images THEN images \ {i} ELSE images \cup {i}
    /\ UNCHANGED <<protocolVars, positions, artwork_id, receipts, sold, vouched, lastKey>>

Administer ==
    /\ ProtocolNext
    /\ vouched' = vouched \cup trusted'
    /\ UNCHANGED <<positions, artwork_id, receipts, images, sold, lastKey>>

Next ==
    \/ Administer
    \/ \E p \in Seeds, acc \in Accounts :
          \/ \E id \in {NoArtwork, acc.receipt} :
                CreatePosition(p, id, acc) \/ SetPositionArtwork(p, id, acc)
          \/ \E mask \in Masks : MintKey(p, "delegate", mask, acc)
          \/ MintKey(p, "recovery", 0, acc)
    \/ \E p \in Seeds : RecoverKey(p)
    \/ \E r \in ReceiptAccounts : OpenReceipt(r) \/ CloseReceipt(r)
    \/ \E i \in ImageAccounts : ImageChanges(i)

Spec == Init /\ [][Next]_vars
-----------------------------------------------------------------------------
(* Artwork is only on positions that exist, and trust leaves a trace.      *)
TypeOK ==
    /\ ProtocolTypeOK
    /\ positions \subseteq Seeds
    /\ artwork_id \in [Seeds -> Receipt \cup {NoArtwork}]
    /\ \A p \in Seeds \ positions : artwork_id[p] = NoArtwork
    /\ receipts \subseteq sold /\ sold \subseteq ReceiptAccounts
    /\ images \subseteq ImageAccounts
    /\ trusted \subseteq vouched /\ vouched \subseteq Programs
    /\ lastKey \subseteq Key

(* The artwork a position names was bought for that very position, from a  *)
(* program that was trusted, whatever became of either since.              *)
ArtworkIsBought ==
    \A p \in positions :
        artwork_id[p] # NoArtwork =>
            /\ artwork_id[p] \in sold
            /\ artwork_id[p].position = p
            /\ artwork_id[p].program \in vouched

(* A new key shows nothing but a picture made for such a key, in the set   *)
(* its position names now, by a program trusted now: not by one dropped    *)
(* from the list since the artwork was set.                                *)
PicturesAreLicensed ==
    [][\A key \in lastKey' \ lastKey :
          key.picture # NoPicture =>
              /\ key.picture.program \in trusted
              /\ [program |-> key.picture.program, set |-> key.picture.set,
                  position |-> key.position] = artwork_id'[key.position]
              /\ key.picture.key_type = key.key_type
              /\ key.picture.permissions \in {key.permissions, 0}]_vars

(* A receipt that was closed, even one of a program no longer trusted,     *)
(* never stands in the way of making keys (artwork.rs: "a closed receipt   *)
(* doesn't brick key management").                                         *)
ClosedReceiptFallsBack ==
    \A p \in positions, acc \in Accounts, mask \in Masks :
        acc.receipt = artwork_id[p] /\ artwork_id[p] \notin receipts =>
            ArtworkAnswers(artwork_id[p], acc, p, "delegate", mask, TRUE) = {NoPicture}
=============================================================================
