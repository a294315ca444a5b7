---------------------------- MODULE WebTransaction ----------------------------
(***************************************************************************)
(* Transactions of the web client: the builders of instructions/, which    *)
(* read the signals as they find them, and the modal in which one is asked *)
(* for, confirmed, sent, and perhaps sent again.                           *)
(*                                                                         *)
(* Nothing disables the page below the modal: flows go on, the wallet may  *)
(* change, and a click beside the modal closes it even while it sends.     *)
(* What the program accepts is stated by its account constraints.          *)
(***************************************************************************)
EXTENDS WebSession, Sequences, SequencesExt

CONSTANT Permits     \* key -> what its permissions allow

Trades == {"buy", "sell", "borrow", "repay", "reinvest"}

ASSUME WebTransactionAssumption ==
    Permits \in [Assets -> SUBSET (Trades \cup {"manage_keys"})]

VARIABLES
    modal,           \* the ActionModal, and what it would send
    sending          \* the wallet of a send whose modal was closed, or None

vars == <<sessionVars, modal, sending>>
-----------------------------------------------------------------------------
(* buildBuy, buildWithdraw, buildBorrow, buildRepay, buildReinvest for the *)
(* wallet w, from the signals pg.                                          *)

(* withdraw and borrow always name the KeyState the key would have.        *)
KeyStateNamed(kind, pg) == IF kind \in {"sell", "borrow"} THEN pg.key ELSE None

AuthorityOfTheSelected(pg) == pg.positionPda  \* slip: not the account shown
AuthorityOfTheShown(pg) == pg.position

Trade(kind, pg, w) ==
    [kind |-> kind, signer |-> w, key |-> pg.key,
     key_state |-> KeyStateNamed(kind, pg), position |-> pg.positionPda,
     authority |-> AuthorityOfTheShown(pg), market |-> pg.market]

(* Their minimum output: one percent below the floor price read last, with *)
(* the position and the market it was read for; none before it is read.    *)
MinOut(pg) == pg.figures

(* canBuy and its like.  Without an account or a market to read the        *)
(* builder throws.                                                         *)
Offered(kind, pg) == pg.initialized /\ pg.key # None /\ kind \in Permits[pg.key]
Buildable(kind, pg) == Offered(kind, pg) /\ pg.market # None

(* validate_key of the program.                                            *)
KeyValid(key, signer, p, permission) ==
    PositionOf[key] = p /\ Holder[key] = signer /\ permission \in Permits[key]

(* An Option<Account<KeyState>> is None only if it is the program's own    *)
(* address; any other must be an account that exists.                      *)
Accepts(tx) ==
    /\ KeyValid(tx.key, tx.signer, tx.position, tx.kind)
    /\ tx.key_state # None => tx.key_state \in Delegated
    /\ tx.authority = tx.position
    /\ tx.market = MarketOf[tx.position]
-----------------------------------------------------------------------------
(* buildRevokeKey.  The form lists the keyring, which has each key once,   *)
(* without the admin key of the position shown; the key is named by its    *)
(* row in that list, which handleSubmit makes anew.                        *)
Revocable(shown, rows) ==
    IF shown = None THEN rows ELSE RemoveFirst(rows, Seed[shown])

TargetAmongAll(pg, rows, row) == rows[row]  \* slip: the admin key not left out
Target(pg, rows, row) == Revocable(pg.position, rows)[row]

RevocationAccepted(key, signer, p, target) ==
    /\ KeyValid(key, signer, p, "manage_keys")
    /\ target \in Delegated
    /\ PositionOf[target] = p

(* The keyring in the order a node may list it, the admin key first.       *)
Listings(pg) ==
    {s \in SetToSeqs(pg.keyring) :
        \A i \in DOMAIN s : s[i] \notin Delegated => i = 1}
-----------------------------------------------------------------------------
(* The modal.                                                              *)
Closed ==
    [at |-> "closed", kind |-> "none", rows |-> <<>>, row |-> 0, ticked |-> None,
     reread |-> FALSE, target |-> None, signer |-> None, good |-> FALSE,
     by |-> None, spent |-> FALSE, landings |-> 0]

Init ==
    /\ SessionInit
    /\ modal = Closed
    /\ sending = None

(* What the buttons offer: any trade, a revocation, or something new (a    *)
(* position, a key or a promo).                                            *)
OpenTrade ==
    /\ wallet # None
    /\ {kind \in Trades : Offered(kind, page)} # {}
    /\ modal = Closed
    /\ modal' = [Closed EXCEPT !.at = "form", !.kind = "trade"]
    /\ UNCHANGED <<sessionVars, sending>>

OpenCreate ==
    /\ wallet # None
    /\ protocolExists
    /\ modal = Closed
    /\ modal' = [Closed EXCEPT !.at = "form", !.kind = "create"]
    /\ UNCHANGED <<sessionVars, sending>>

OpenRevoke ==
    /\ wallet # None
    /\ page.key # None
    /\ "manage_keys" \in Permits[page.key]
    /\ Cardinality(page.keyring) > 1
    /\ modal = Closed
    /\ \E rows \in Listings(page) :
          modal' = [Closed EXCEPT !.at = "form", !.kind = "revoke",
                                  !.rows = rows, !.row = 1,
                                  !.ticked = Revocable(page.position, rows)[1]]
    /\ UNCHANGED <<sessionVars, sending>>

(* Another row of the list as it is now.                                   *)
Choose(row) ==
    /\ modal.at = "form" /\ modal.kind = "revoke"
    /\ row \in DOMAIN Revocable(page.position, modal.rows) \ {modal.row}
    /\ modal' = [modal EXCEPT !.row = row, !.reread = FALSE,
                              !.ticked = Revocable(page.position, modal.rows)[row]]
    /\ UNCHANGED <<sessionVars, sending>>

(* handleSubmit, in the closure of the wallet connected.  What it builds   *)
(* is kept only as far as its fate depends on it: whether the program      *)
(* would accept it from its signer.                                        *)
Pending(good) ==
    [modal EXCEPT !.at = "confirm", !.signer = wallet, !.good = good, !.rows = <<>>,
                  !.row = 0]

SubmitTrade(kind) ==
    /\ modal.at = "form" /\ modal.kind = "trade"
    /\ wallet # None
    /\ Buildable(kind, page)
    /\ modal' = Pending(Accepts(Trade(kind, page, wallet)))
    /\ UNCHANGED <<sessionVars, sending>>

SubmitCreate ==
    /\ modal.at = "form" /\ modal.kind = "create"
    /\ wallet # None
    /\ modal' = Pending(TRUE)
    /\ UNCHANGED <<sessionVars, sending>>

SubmitRevoke ==
    /\ modal.at = "form" /\ modal.kind = "revoke"
    /\ wallet # None
    /\ page.key # None
    /\ modal.row \in DOMAIN Revocable(page.position, modal.rows)
    /\ LET target == Target(page, modal.rows, modal.row)
       IN modal' = [Pending(RevocationAccepted(page.key, wallet, page.positionPda,
                                               target))
                      EXCEPT !.target = target, !.reread = FALSE,
                             !.ticked = IF modal.reread THEN None ELSE @]
    /\ UNCHANGED <<sessionVars, sending>>

(* handleConfirm: a new blockhash each time, the instructions and the keys *)
(* made for them as they were built.                                       *)
ConfirmedAnew(m) ==  \* slip: the key generated when sent
    [m EXCEPT !.at = "sending", !.by = wallet, !.spent = FALSE]
ConfirmedAsBuilt(m) == [m EXCEPT !.at = "sending", !.by = wallet]

Confirm ==
    /\ modal.at = "confirm"
    /\ wallet # None
    /\ modal' = ConfirmedAsBuilt(modal)
    /\ UNCHANGED <<sessionVars, sending>>

(* It lands if the wallet that signs is the one it was built for, and what *)
(* it makes or burns is not made or burnt already.                         *)
CanLand == modal.good /\ modal.by = modal.signer /\ ~modal.spent

Once == modal.kind \in {"create", "revoke"}

(* Confirmed: the result is shown, after a refresh by the same closure.    *)
Confirmed ==
    /\ modal.at = "sending"
    /\ CanLand
    /\ modal' = Closed
    /\ \E i \in FlowIds : StartRefresh(i, modal.by)
    /\ UNCHANGED <<wallet, page, protocolExists, sending>>

(* It lands, but the answer is lost or comes too late: the catch block     *)
(* offers the same transaction again.                                      *)
ConfirmationLost ==
    /\ modal.at = "sending"
    /\ CanLand
    /\ modal' = [modal EXCEPT !.at = "confirm", !.by = None, !.spent = Once,
                              !.landings = IF Once THEN @ + 1 ELSE 0]
    /\ UNCHANGED <<sessionVars, sending>>

(* It is refused, not signed, or never lands.                              *)
Failed ==
    /\ modal.at = "sending"
    /\ modal' = [modal EXCEPT !.at = "confirm", !.by = None]
    /\ UNCHANGED <<sessionVars, sending>>

(* onClose, by Cancel, by Done, or by a click on the overlay: a send under *)
(* way goes on.  (One such send is followed at a time.)                    *)
Close ==
    /\ modal # Closed
    /\ modal' = Closed
    /\ IF modal.at = "sending"
       THEN /\ sending = None
            /\ sending' = IF CanLand THEN modal.by ELSE None
       ELSE UNCHANGED sending
    /\ UNCHANGED sessionVars

DetachedConfirmed ==
    /\ sending # None
    /\ sending' = None
    /\ \E i \in FlowIds : StartRefresh(i, sending)
    /\ UNCHANGED <<wallet, page, protocolExists, modal>>

DetachedFailed ==
    /\ sending # None
    /\ sending' = None
    /\ UNCHANGED <<sessionVars, modal>>
-----------------------------------------------------------------------------
(* A flow under an open form.                                              *)

(* discoverPosition stores the keyring it has read.                        *)
StoresKeyring(i) ==
    /\ flows[i].at \in {"position", "market", "keyring"}
    /\ flows'[i].at \in {"promos", "figures"}

ListedAnew(i) ==
    \/ page'.keyring # page.keyring
    \/ StoresKeyring(i)
ReadAnew(i) == ListedAnew(i) \/ page'.position # page.position

RowsAfter(i) == IF ListedAnew(i) THEN Listings(page') ELSE {modal.rows}

UnderTheForm(i) ==
    IF modal.at = "form" /\ modal.kind = "revoke"
    THEN \E rows \in RowsAfter(i) :
            modal' = [modal EXCEPT !.rows = rows, !.reread = @ \/ ReadAnew(i)]
    ELSE UNCHANGED modal

(* resetPositionState empties the list, and forgets the position shown.    *)
BrowseUnderTheForm ==
    IF /\ modal.at = "form" /\ modal.kind = "revoke"
       /\ page'.keyring # page.keyring \/ page'.position # page.position
    THEN modal' = [modal EXCEPT !.rows = <<>>, !.reread = TRUE]
    ELSE UNCHANGED modal

Modal ==
    \/ OpenTrade \/ OpenCreate \/ OpenRevoke
    \/ \E row \in 1 .. Cardinality(Assets) : Choose(row)
    \/ \E kind \in Trades : SubmitTrade(kind)
    \/ SubmitCreate \/ SubmitRevoke
    \/ Confirm \/ Confirmed \/ ConfirmationLost \/ Failed \/ Close
    \/ DetachedConfirmed \/ DetachedFailed

Next ==
    \/ Browse /\ BrowseUnderTheForm /\ UNCHANGED sending
    \/ \E i \in FlowIds : Answer(i) /\ UnderTheForm(i) /\ UNCHANGED sending
    \/ Modal

Spec == Init /\ [][Next]_vars
-----------------------------------------------------------------------------
TypeOK ==
    /\ SessionTypeOK
    /\ modal.at \in {"closed", "form", "confirm", "sending"}
    /\ modal.kind \in {"none", "trade", "create", "revoke"}
    /\ modal.row \in 0 .. Cardinality(Assets)
    /\ Range(modal.rows) \subseteq Assets
    /\ {modal.ticked, modal.target} \subseteq OrNone(Assets)
    /\ {modal.signer, modal.by, sending} \subseteq OrNone(Wallets)
    /\ modal.landings \in Nat
    /\ modal.at = "sending" <=> modal.by # None
    /\ modal.at = "closed" => modal = Closed

(* Whatever mixture of old and new signals a trade is built from, if the   *)
(* program accepts it, it is of the position whose account is on the       *)
(* screen: the builders take program_pda from that account, and everything *)
(* else from the selection, so half a switch is refused, not misdirected.  *)
TradeIsOfTheShown ==
    \A kind \in Trades :
        LET tx == Trade(kind, page, wallet)
        IN Buildable(kind, page) /\ wallet # None /\ Accepts(tx) =>
              tx.position = page.position

(* A trade built after an undisturbed refresh or switch, and accepted, has *)
(* its minimum output from its own position and market: a switch leaves    *)
(* the old market in the signals and reads the figures there, but then the *)
(* program refuses.                                                        *)
MinOutIsOfTheTrade ==
    (RefreshedUndisturbed /\ ~story.overlapped) \/ SwitchedUndisturbed =>
        \A kind \in Trades :
            LET tx == Trade(kind, page, wallet)
            IN Buildable(kind, page) /\ Accepts(tx) =>
                  MinOut(page) = <<tx.position, MarketOf[tx.position]>>

(* The key to be revoked is the one the user saw in the row he chose,      *)
(* unless the keyring or the position was read anew in between (ActionModal*)
(* sends the row, not the key); and if the program would accept it, it is  *)
(* a delegated key.                                                        *)
RevokesTheChosen ==
    modal.kind = "revoke" /\ modal.at \in {"confirm", "sending"} =>
        /\ modal.ticked # None => modal.target = modal.ticked
        /\ modal.good => modal.target \in Delegated

(* Confirm may be pressed again after an error, and the error may be only  *)
(* that the confirmation was lost: what was to be created or burnt once is *)
(* created or burnt once all the same, for its key was made when it was    *)
(* built and the program does not make an account twice.                   *)
NothingMadeTwice == modal.landings <= 1

(* withdraw.js: "Include keyState if the key might be rate-limited", and   *)
(* of withdraw.rs: "Optional KeyState for rate-limited keys": a sale that  *)
(* the page offers after an undisturbed refresh is one the program takes.  *)
OfferedSaleIsAccepted ==
    RefreshedUndisturbed /\ Buildable("sell", page) =>
        Accepts(Trade("sell", page, wallet))
===============================================================================
