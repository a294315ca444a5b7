------------------------------ MODULE WebSession ------------------------------
(***************************************************************************)
(* One open page of the web client: the signals it shows, and the flows    *)
(* that fill them.  A flow (a refresh, or a switch to another position)    *)
(* asks an RPC node, waits, and writes what it learns; between two awaits  *)
(* it runs alone, at an await any other flow, or the user, may come in.    *)
(*                                                                         *)
(* The chain stands still here: what goes wrong below goes wrong although  *)
(* every answer is right.  All positions have their Mayflower account, as  *)
(* create_position gives it to them.                                       *)
(***************************************************************************)
EXTENDS FiniteSets, Integers

CONSTANTS
    Wallets,
    None,
    Positions,       \* PositionState accounts
    Assets,          \* keys that exist or existed
    Seed,            \* position -> authority_seed, its first admin key
    Delegated,       \* keys with a KeyState account
    PositionOf,      \* key -> the position it is bound to
    Holder,          \* key -> the wallet that owns it, None once burnt
    Weight,          \* key -> number of permission bits, of the eight there are
    MarketOf,        \* position -> its market
    DefaultMarket,   \* DEFAULT_NAV_SOL_MINT and its accounts
    FlowIds          \* bound on the flows under way at once

ASSUME WebSessionAssumption ==
    /\ None \notin Wallets \cup Positions \cup Assets
    /\ Positions # {}
    /\ IsFiniteSet(Assets)
    /\ Seed \in [Positions -> Assets]
    /\ Delegated \subseteq Assets
    /\ PositionOf \in [Assets -> Positions]
    /\ Holder \in [Assets -> Wallets \cup {None}]
    /\ Weight \in [Assets -> 0 .. 8]
    /\ \A p \in Positions : PositionOf[Seed[p]] = p

VARIABLES
    wallet,          \* the wallet adapter's publicKey, None when disconnected
    page,            \* the signals that describe a position (state.js)
    protocolExists,  \* signal
    refreshing,      \* signal: disables the Refresh button
    flows,           \* the async calls under way
    story            \* history: what happened since no flow was under way

sessionVars == <<wallet, page, protocolExists, refreshing, flows, story>>

-----------------------------------------------------------------------------
Markets == {MarketOf[p] : p \in Positions} \cup {DefaultMarket}

(* Figures that are there can be told from figures that are not.           *)
ASSUME NoneIsNoFigures == None \notin Positions \X Markets

(* resetPositionState.                                                     *)
Blank ==
    [positionPda |-> None, key |-> None, position |-> None,
     initialized |-> FALSE, market |-> None, keyring |-> {},
     found |-> {}, selected |-> None, promos |-> None, figures |-> None]

Idle ==
    [at |-> "idle", wallet |-> None, best |-> None, found |-> {},
     about |-> None, market |-> None]

Flow(at, w) == [Idle EXCEPT !.at = at, !.wallet = w]

InFlight == {i \in FlowIds : flows[i].at # "idle"}

(* What a wallet can be shown: the keys it holds among those looked at.    *)
Held(keys, w) == {a \in keys : Holder[a] = w}

(* The key with the most permissions, the first one listed among equals.   *)
Best(keys) ==
    CHOOSE a \in keys : \A b \in keys : Weight[a] >= Weight[b]

(* activePositionIndex: the first entry with the position of the best key. *)
EntryFor(keys, best) ==
    CHOOSE a \in keys : PositionOf[a] = PositionOf[best]

DelegatesOf(p) == {a \in Delegated : PositionOf[a] = p}
KeyringOf(p) == {Seed[p]} \cup {a \in DelegatesOf(p) : Holder[a] # None}

SessionInit ==
    /\ wallet = None
    /\ page = Blank
    /\ protocolExists = FALSE
    /\ refreshing = FALSE
    /\ flows = [i \in FlowIds |-> Idle]
    /\ story = [wallets |-> {}, kinds |-> {}, failed |-> FALSE,
                overlapped |-> FALSE]

-----------------------------------------------------------------------------
(* The synchronous stretches between two awaits, from the signals pg and   *)
(* the locals f of the flow to both as they are at the next await.         *)

(* refreshMayflowerState, up to its only await.                            *)
ToFiguresInDefault(pg, f) ==  \* slip: the market signal not used
    IF pg.initialized
    THEN [page |-> [pg EXCEPT !.figures = None],
          flow |-> [f EXCEPT !.at = "figures", !.about = pg.position,
                       !.market = DefaultMarket]]
    ELSE [page |-> [pg EXCEPT !.figures = None], flow |-> Idle]
ToFigures(pg, f) ==
    LET cleared == [pg EXCEPT !.figures = None]
    IN IF pg.initialized
       THEN [page |-> cleared,
             flow |-> [f EXCEPT !.at = "figures", !.about = pg.position,
                          !.market = IF pg.market = None THEN DefaultMarket
                                                         ELSE pg.market]]
       ELSE [page |-> cleared, flow |-> Idle]

(* discoverPromos, up to its only await.                                   *)
ToPromos(pg, f) ==
    IF pg.position = None
    THEN ToFigures([pg EXCEPT !.promos = None], f)
    ELSE [page |-> pg,
          flow |-> [f EXCEPT !.at = "promos", !.about = pg.position]]

(* The end of discoverPosition, the keyring known.                         *)
KeyringKnownWithoutPromos(pg, f, keys) ==  \* slip: discoverPromos not called
    ToFigures([pg EXCEPT !.keyring = keys, !.found = f.found,
                         !.selected = EntryFor(f.found, f.best)], f)
KeyringKnown(pg, f, keys) ==
    ToPromos([pg EXCEPT !.keyring = keys, !.found = f.found,
                        !.selected = EntryFor(f.found, f.best)], f)

(* The keyring of whatever position the signal holds at this moment.       *)
ToKeyring(pg, f) ==
    IF pg.position = None
    THEN KeyringKnown(pg, f, {})
    ELSE IF DelegatesOf(pg.position) = {}
         THEN KeyringKnown(pg, f, {Seed[pg.position]})
         ELSE [page |-> pg,
               flow |-> [f EXCEPT !.at = "keyring", !.about = pg.position]]

(* The choice among the keys found; nothing is shown of a wallet with none.*)
ToPosition(pg, f, keys) ==
    IF keys = {}
    THEN ToFigures(pg, f)
    ELSE LET best == Best(keys)
         IN [page |-> [pg EXCEPT !.positionPda = PositionOf[best], !.key = best],
             flow |-> [f EXCEPT !.at = "position", !.best = best, !.found = keys]]

-----------------------------------------------------------------------------
(* Ends and beginnings of flows.                                           *)

(* The flow runs on to where r puts it; the last thing it does is to clear *)
(* the flag, whether or not another flow is still under way.               *)
RunTo(i, r) ==
    /\ page' = r.page
    /\ flows' = [flows EXCEPT ![i] = r.flow]
    /\ refreshing' = (refreshing /\ r.flow # Idle)

(* Once something failed nothing else is remembered until all is at rest.  *)
Spoilt == [wallets |-> {}, kinds |-> {}, failed |-> TRUE, overlapped |-> FALSE]

(* A rejected promise that the flow catches and survives.                  *)
Survives(i, r) ==
    /\ RunTo(i, r)
    /\ story' = Spoilt

(* One that it does not: the error is logged, the flag cleared.            *)
GivesUpSilently(i) ==  \* slip: refreshing stays set
    /\ flows' = [flows EXCEPT ![i] = Idle]
    /\ story' = Spoilt
    /\ UNCHANGED <<page, refreshing>>
GivesUp(i) ==
    /\ flows' = [flows EXCEPT ![i] = Idle]
    /\ refreshing' = FALSE
    /\ story' = Spoilt
    /\ UNCHANGED page

(* The history of a flow of that kind beginning for w.                     *)
Begun(kind, w, many) ==
    IF InFlight = {}
    THEN [wallets |-> {w}, kinds |-> {kind}, failed |-> FALSE, overlapped |-> many]
    ELSE IF story.failed THEN story
    ELSE [story EXCEPT !.wallets = @ \cup {w}, !.kinds = @ \cup {kind},
                       !.overlapped = TRUE]

(* doRefresh, as the closure made for wallet w.                            *)
StartRefresh(i, w) ==
    /\ flows[i] = Idle
    /\ flows' = [flows EXCEPT ![i] = Flow("protocol", w)]
    /\ refreshing' = TRUE
    /\ story' = Begun("refresh", w, FALSE)
-----------------------------------------------------------------------------
(* The user, and the effects of app.jsx.                                   *)

Connect(w) ==
    /\ wallet # w
    /\ wallet' = w
    /\ \E i \in FlowIds : StartRefresh(i, w)
    /\ UNCHANGED <<page, protocolExists>>

Disconnect ==
    /\ wallet # None
    /\ wallet' = None
    /\ page' = Blank
    /\ protocolExists' = FALSE
    /\ story' = Spoilt
    /\ UNCHANGED <<refreshing, flows>>

(* Another cluster makes another connection, so both effects refresh.      *)
ChangeCluster ==
    /\ wallet # None
    /\ \E i, j \in FlowIds :
        /\ i # j
        /\ flows[i] = Idle
        /\ flows[j] = Idle
        /\ flows' = [flows EXCEPT ![i] = Flow("protocol", wallet),
                                  ![j] = Flow("protocol", wallet)]
    /\ page' = Blank
    /\ refreshing' = TRUE
    /\ story' = Begun("refresh", wallet, TRUE)
    /\ UNCHANGED <<wallet, protocolExists>>

ClickRefresh ==
    /\ wallet # None
    /\ ~refreshing
    /\ \E i \in FlowIds : StartRefresh(i, wallet)
    /\ UNCHANGED <<wallet, page, protocolExists>>

(* selectActivePosition, up to its await.                                  *)
SelectedKeepingKey(pg, a) ==  \* slip: myKeyAsset left alone
    [pg EXCEPT !.selected = a, !.positionPda = PositionOf[a]]
Selected(pg, a) ==
    [pg EXCEPT !.selected = a, !.positionPda = PositionOf[a], !.key = a]

(* The selector is there when the dashboard is and there is a choice; it   *)
(* is not disabled by a refresh.                                           *)
SwitchPosition(a) ==
    /\ wallet # None
    /\ protocolExists
    /\ Cardinality(page.found) > 1
    /\ a \in page.found \ {page.selected}
    /\ \E i \in FlowIds :
        /\ flows[i] = Idle
        /\ flows' = [flows EXCEPT ![i] = [Flow("selected", wallet) EXCEPT
                                             !.best = a]]
    /\ page' = Selected(page, a)
    /\ refreshing' = TRUE
    /\ story' = Begun("switch", wallet, FALSE)
    /\ UNCHANGED <<wallet, protocolExists>>
-----------------------------------------------------------------------------
(* Answers of the RPC node, one action per await.                          *)

(* checkProtocol; discoverPosition then begins by a reset.  (loadMarkets   *)
(* comes first, fills a signal of its own and catches its own errors: its  *)
(* await and this one are a single wait here.)                             *)
ProtocolArrives(i) ==
    /\ flows[i].at = "protocol"
    /\ \E ok \in BOOLEAN :
        /\ protocolExists' = ok
        /\ story' = IF ok THEN story ELSE Spoilt
    /\ page' = Blank
    /\ flows' = [flows EXCEPT ![i].at = "accounts"]
    /\ UNCHANGED refreshing

(* The position and the key state accounts.                                *)
AccountsArrive(i) ==
    /\ flows[i].at = "accounts"
    /\ \/ /\ flows' = [flows EXCEPT ![i].at = "admins"]
          /\ UNCHANGED <<page, refreshing, story>>
       \/ GivesUp(i)
    /\ UNCHANGED protocolExists

(* Their seeds, taken for the admin keys; delegated keys are looked for    *)
(* only by a wallet that has none of them.                                 *)
AdminsArrive(i) ==
    LET admins == Held({Seed[p] : p \in Positions}, flows[i].wallet)
    IN /\ flows[i].at = "admins"
       /\ \/ /\ IF admins = {} /\ Delegated # {}
                THEN /\ flows' = [flows EXCEPT ![i].at = "delegates"]
                     /\ UNCHANGED <<page, refreshing>>
                ELSE RunTo(i, ToPosition(page, flows[i], admins))
             /\ UNCHANGED story
          \/ GivesUp(i)
       /\ UNCHANGED protocolExists

DelegatesArrive(i) ==
    /\ flows[i].at = "delegates"
    /\ \/ /\ RunTo(i, ToPosition(page, flows[i], Held(Delegated, flows[i].wallet)))
          /\ UNCHANGED story
       \/ GivesUp(i)
    /\ UNCHANGED protocolExists

(* The account of the best position; without it the keyring is still built.*)
PositionArrives(i) ==
    /\ flows[i].at = "position"
    /\ \/ /\ page' = [page EXCEPT !.position = PositionOf[flows[i].best],
                                  !.initialized = TRUE]
          /\ flows' = [flows EXCEPT ![i].at = "market"]
          /\ UNCHANGED <<refreshing, story>>
       \/ Survives(i, ToKeyring(page, flows[i]))
    /\ UNCHANGED protocolExists

MarketArrives(i) ==
    LET market == MarketOf[PositionOf[flows[i].best]]
    IN /\ flows[i].at = "market"
       /\ \/ /\ RunTo(i, ToKeyring([page EXCEPT !.market = market], flows[i]))
             /\ UNCHANGED story
          \/ Survives(i, ToKeyring(page, flows[i]))
       /\ UNCHANGED protocolExists

KeyringArrives(i) ==
    /\ flows[i].at = "keyring"
    /\ \/ /\ RunTo(i, KeyringKnown(page, flows[i], KeyringOf(flows[i].about)))
          /\ UNCHANGED story
       \/ GivesUp(i)
    /\ UNCHANGED protocolExists

(* selectActivePosition, its await: the market is not read again, nor the  *)
(* keyring.                                                                *)
SelectedShownUninitialized(pg, a) ==  \* slip: mayflowerInitialized left alone
    [pg EXCEPT !.position = PositionOf[a]]
SelectedShown(pg, a) ==
    [pg EXCEPT !.position = PositionOf[a], !.initialized = TRUE]
SelectedArrives(i) ==
    /\ flows[i].at = "selected"
    /\ \/ /\ RunTo(i, ToPromos(SelectedShown(page, flows[i].best), flows[i]))
          /\ UNCHANGED story
       \/ GivesUp(i)
    /\ UNCHANGED protocolExists

PromosArrive(i) ==
    /\ flows[i].at = "promos"
    /\ \/ /\ RunTo(i, ToFigures([page EXCEPT !.promos = flows[i].about], flows[i]))
          /\ UNCHANGED story
       \/ Survives(i, ToFigures([page EXCEPT !.promos = None], flows[i]))
    /\ UNCHANGED protocolExists

FiguresArrive(i) ==
    /\ flows[i].at = "figures"
    /\ \/ /\ RunTo(i, [page |-> [page EXCEPT !.figures =
                                    <<flows[i].about, flows[i].market>>],
                       flow |-> Idle])
          /\ UNCHANGED story
       \/ GivesUp(i)
    /\ UNCHANGED protocolExists

Answer(i) ==
    /\ \/ ProtocolArrives(i)
       \/ AccountsArrive(i)
       \/ AdminsArrive(i)
       \/ DelegatesArrive(i)
       \/ PositionArrives(i)
       \/ MarketArrives(i)
       \/ KeyringArrives(i)
       \/ SelectedArrives(i)
       \/ PromosArrive(i)
       \/ FiguresArrive(i)
    /\ UNCHANGED wallet

(* What the user does to the page, no transaction asked for.               *)
Browse ==
    \/ \E w \in Wallets : Connect(w)
    \/ Disconnect
    \/ ChangeCluster
    \/ ClickRefresh
    \/ \E a \in Assets : SwitchPosition(a)

-----------------------------------------------------------------------------
(* Types.                                                                  *)
OrNone(S) == S \cup {None}

SessionTypeOK ==
    /\ wallet \in OrNone(Wallets)
    /\ refreshing \in BOOLEAN
    /\ protocolExists \in BOOLEAN
    /\ page \in [positionPda : OrNone(Positions), key : OrNone(Assets),
                 position : OrNone(Positions), initialized : BOOLEAN,
                 market : OrNone(Markets), keyring : SUBSET Assets,
                 found : SUBSET Assets, selected : OrNone(Assets),
                 promos : OrNone(Positions),
                 figures : OrNone(Positions \X Markets)]
    /\ page.initialized <=> page.position # None
    /\ \A i \in FlowIds :
        /\ flows[i].at \in {"idle", "protocol", "accounts", "admins",
                            "delegates", "position", "market", "keyring",
                            "promos", "figures", "selected"}
        /\ flows[i].at \in {"keyring", "promos", "figures"} =>
                            flows[i].about \in Positions

(* Whatever flows overlap, and whichever answers are lost: the key that    *)
(* signs is a key of the position the transaction names.  (The signals are *)
(* written together by discoverPosition and by selectActivePosition.)      *)
KeyFitsPosition ==
    /\ page.key = None <=> page.positionPda = None
    /\ page.key # None => PositionOf[page.key] = page.positionPda

AtRest == InFlight = {}

(* The Refresh button is released: every flow, whatever becomes of its     *)
(* requests, clears the flag that disables it on its way out (doRefresh,   *)
(* handleSwitchPosition), so it is never left set with nothing under way.  *)
ButtonIsReleased == AtRest => ~refreshing

(* What the page shows of position p, all of it from p.                    *)
ShowsAccountOf(p) == page.position = p /\ page.promos = p
ShowsAllOf(p) ==
    /\ ShowsAccountOf(p)
    /\ page.keyring = KeyringOf(p)
    /\ page.market = MarketOf[p]
    /\ page.selected \in page.found

(* Refreshes of one wallet may overlap as they like (every transaction and *)
(* every change of cluster starts one): once the last of them is done and  *)
(* none has failed.                                                        *)
RefreshedUndisturbed ==
    /\ AtRest
    /\ story.kinds = {"refresh"}
    /\ story.wallets = {wallet}
    /\ ~story.failed

(* A switch that met no other flow.                                        *)
SwitchedUndisturbed ==
    /\ AtRest
    /\ story.kinds = {"switch"}
    /\ ~story.overlapped
    /\ ~story.failed

(* Undisturbed, a refresh leaves the page about one position the wallet    *)
(* has a key of, or about none, with the Mayflower figures of that         *)
(* position; and a switch shows the account, the promos and the figures of *)
(* the position chosen (discoverPosition, selectActivePosition,            *)
(* refreshMayflowerState).                                                 *)
UndisturbedFlowsAgree ==
    /\ RefreshedUndisturbed =>
         IF page.positionPda = None
         THEN page = Blank
         ELSE /\ ShowsAllOf(page.positionPda)
              /\ Holder[page.key] = wallet
              /\ page.figures # None
              /\ page.figures[1] = page.positionPda
    /\ SwitchedUndisturbed =>
         /\ ShowsAccountOf(page.positionPda)
         /\ page.figures # None
         /\ page.figures[1] = page.positionPda
===============================================================================
