------------------------------ MODULE TuiSession ------------------------------
(***************************************************************************)
(* The interactive terminal client: one thread that waits for a key, does  *)
(* what it means and waits for the RPC node while it does.  What it knows  *)
(* of the chain is what it read last; keys come and go meanwhile, requests *)
(* fail, and a transaction may land although its answer is lost.  The same *)
(* client without the screens is TuiCommand's.                             *)
(*                                                                         *)
(* A key stands for a place in a position's keyring: the admin key of p    *)
(* is the current one, whichever asset that is.  Others give the wallet    *)
(* keys and take them at any time, and a request that fails is read by the *)
(* client as "not mine": what a refresh sees is any part of the keys.      *)
(***************************************************************************)
EXTENDS FiniteSets, Integers

CONSTANTS
    Positions,
    Keys,
    PositionOf,      \* key -> position
    Role,            \* key -> "admin", "delegate" or "recovery"
    MarketOf,        \* position -> market
    DefaultMarket,   \* DEFAULT_MAYFLOWER_MARKET and its accounts
    LoadedMarkets,   \* from --markets-file
    FirstPositions,  \* positions that exist at the start
    None

ASSUME TuiSessionAssumption ==
    /\ None \notin Positions \cup Keys
    /\ IsFiniteSet(Keys)
    /\ PositionOf \in [Keys -> Positions]
    /\ Role \in [Keys -> {"admin", "delegate", "recovery"}]
    /\ FirstPositions \subseteq Positions

VARIABLES
    app,        \* the client (App)
    existing    \* PositionState accounts

sessionVars == <<app, existing>>

-----------------------------------------------------------------------------
Markets == {MarketOf[p] : p \in Positions} \cup {DefaultMarket}

OrDefault(market) == IF market = None THEN DefaultMarket ELSE market

KeysAmong(positions) == {k \in Keys : PositionOf[k] \in positions}

PositionsOf(keys) == {PositionOf[k] : k \in keys}

(* discover_position lists a position once, by its admin key if that is    *)
(* found, else by a delegated key, else by the recovery key.               *)
Outranks(k, j) ==
    \/ Role[k] = Role[j]
    \/ Role[k] = "admin"
    \/ Role[j] = "recovery"

Listed(seen) ==
    {CHOOSE k \in seen : /\ PositionOf[k] = p
                         /\ \A j \in seen : PositionOf[j] = p => Outranks(k, j)
        : p \in PositionsOf(seen)}

NewApp ==
    [screen |-> "Dashboard", protocol |-> "absent",
     position |-> None, key |-> None, market |-> None,
     initialized |-> FALSE, addresses |-> None, figures |-> None,
     listed |-> {}, promos |-> None, select |-> None, pending |-> None]

(* check_protocol: the configuration cannot be read, has no collection yet *)
(* or has one.                                                             *)
ProtocolReads == {"absent", "bare", "ready"}

-----------------------------------------------------------------------------
(* What the calls of a refresh make of the client a.                       *)

(* discover_position forgets the position; not the addresses derived for   *)
(* it, nor that its Mayflower account is there.                            *)
Cleared(a) ==
    [a EXCEPT !.position = None, !.key = None, !.market = None, !.listed = {}]

(* select_active_position.  The market may be unreadable; the addresses    *)
(* are then derived from the default one.                                  *)
Selected(a, k, marketRead) ==
    LET p      == PositionOf[k]
        market == IF marketRead THEN MarketOf[p] ELSE None
    IN [a EXCEPT !.position = p, !.key = k, !.initialized = TRUE,
                 !.market = market, !.addresses = <<p, OrDefault(market)>>,
                 !.screen = "Dashboard"]

(* reselect_position does nothing when the accounts cannot be read.        *)
Reselected(a, k, accountsRead, marketRead) ==
    IF accountsRead THEN Selected(a, k, marketRead) ELSE a

(* A position found alone is selected at once.                             *)
Discovered(a, seen, marketRead) ==
    LET keys  == Listed(seen)
        found == [Cleared(a) EXCEPT !.listed = keys]
    IN IF Cardinality(keys) = 1
       THEN Selected(found, CHOOSE k \in keys : TRUE, marketRead)
       ELSE found

(* Where refresh goes next: to the position just created, or the one on    *)
(* the screen before, or the list.                                         *)
RoutedToFirst(a, prev, select, accountsRead, marketRead) ==  \* slip: prev ignored
    IF a.listed = {}
    THEN [a EXCEPT !.screen = "Dashboard"]
    ELSE Reselected(a, CHOOSE k \in a.listed : TRUE, accountsRead, marketRead)
Routed(a, prev, select, accountsRead, marketRead) ==
    LET wanted == IF select # None THEN select ELSE prev
        keys   == {k \in a.listed : PositionOf[k] = wanted}
        n      == Cardinality(a.listed)
    IN IF n = 0 THEN [a EXCEPT !.screen = "Dashboard"]
       ELSE IF keys # {} /\ (select # None \/ n > 1)
            THEN Reselected(a, CHOOSE k \in keys : TRUE, accountsRead, marketRead)
            ELSE IF n = 1 THEN a ELSE [a EXCEPT !.screen = "PositionList"]

(* refresh_mayflower_state: balances, debt and floor price, all zero when  *)
(* there is nothing to read, or no answer.                                 *)
WithFigures(a, answered) ==
    [a EXCEPT !.figures = IF a.initialized /\ answered
                          THEN <<a.addresses[1], OrDefault(a.market)>> ELSE None]

(* Up to discover_position: check_protocol, and the wish to select a       *)
(* position just created is taken.                                         *)
Begun(a, ok) == [a EXCEPT !.protocol = ok, !.select = None]

RefreshedFiguresEarly(a, keys) ==  \* slip: figures read before the routing
    LET found == {Discovered(Begun(a, ok), seen, mr)
                    : seen \in SUBSET keys, ok \in ProtocolReads, mr \in BOOLEAN}
        read  == {WithFigures(b, fr) : b \in found, fr \in BOOLEAN}
    IN {Routed(b, a.position, a.select, ar, mr)
          : b \in read, ar \in BOOLEAN, mr \in BOOLEAN}
Refreshed(a, keys) ==
    LET found  == {Discovered(Begun(a, ok), seen, mr)
                     : seen \in SUBSET keys, ok \in ProtocolReads, mr \in BOOLEAN}
        routed == {Routed(b, a.position, a.select, ar, mr)
                     : b \in found, ar \in BOOLEAN, mr \in BOOLEAN}
    IN {WithFigures(b, fr) : b \in routed, fr \in BOOLEAN}

-----------------------------------------------------------------------------
(* Permissions of the key in use: a delegated one is taken to be allowed   *)
(* to trade, and one that is not only takes choices away.                  *)
MayManage == app.position # None /\ Role[app.key] = "admin"
MayTrade == app.position # None /\ app.initialized /\ Role[app.key] \in {"admin", "delegate"}

(* Forms to type in, and three that only show something at first.          *)
TradeForms == {"buy", "sell", "borrow", "repay"}
PromoForms == {"createPromo", "viewPromo", "maxClaims"}
Forms == {"create", "authorize", "revoke", "recovery", "settings", "sealed"}
             \cup TradeForms \cup PromoForms
Screens == Forms \cup {"PositionList", "Dashboard", "MarketPicker", "PromoList",
                       "Confirm", "Result"}

On(screen) == app.screen = screen

Show(screen) ==
    /\ app' = [app EXCEPT !.screen = screen]
    /\ UNCHANGED existing

(* App::new.                                                               *)
StartApp ==
    /\ app' \in Refreshed(NewApp, KeysAmong(existing))
    /\ UNCHANGED existing
-----------------------------------------------------------------------------
(* The keys of the list, the dashboard and the promo list.                 *)

PressRefresh ==
    /\ On("PositionList") \/ On("Dashboard")
    /\ app' \in Refreshed(app, KeysAmong(existing))
    /\ UNCHANGED existing

(* Enter on the list: reselect_position alone.                             *)
ChooseFromList(k) ==
    /\ On("PositionList")
    /\ k \in app.listed
    /\ \E ar, mr \in BOOLEAN : app' = Reselected(app, k, ar, mr)
    /\ UNCHANGED existing

BackToList ==
    /\ On("Dashboard")
    /\ Cardinality(app.listed) > 1
    /\ Show("PositionList")

(* enter_create_position, by way of the market picker if there is a choice.*)
BeginCreate ==
    /\ On("PositionList") \/ On("Dashboard")
    /\ app.protocol # "absent"
    /\ IF Cardinality(LoadedMarkets) > 1 THEN Show("MarketPicker") ELSE Show("create")

PickMarket ==
    /\ On("MarketPicker")
    /\ Show("create") \/ Show("Dashboard")

(* enter_authorize_key, enter_revoke_key, enter_configure_recovery: the    *)
(* settings of recovery are first only shown, and stay so when sealed.     *)
OpenKeyForm ==
    /\ On("Dashboard")
    /\ MayManage
    /\ \E form \in {"authorize", "revoke", "recovery", "settings", "sealed"} : Show(form)

UnlockSettings ==
    /\ On("settings")
    /\ Show("recovery")

OpenTradeForm ==
    /\ On("Dashboard")
    /\ MayTrade
    /\ \E form \in TradeForms : Show(form)

(* discover_promos: those of the position, or none if the scan fails.      *)
ListPromos ==
    /\ (On("Dashboard") /\ MayManage) \/ On("PromoList")
    /\ \E promos \in {app.position, None} :
          app' = [app EXCEPT !.promos = promos, !.screen = "PromoList"]
    /\ UNCHANGED existing

WithinPromoList ==
    /\ On("PromoList")
    /\ \/ Show("Dashboard")
       \/ Show("createPromo")
       \/ app.promos # None /\ Show("viewPromo")

EditMaxClaims ==
    /\ On("viewPromo")
    /\ Show("maxClaims")

LeaveForm ==
    /\ app.screen \in Forms
    /\ Show(IF app.screen \in PromoForms THEN "PromoList" ELSE "Dashboard")
-----------------------------------------------------------------------------
(* Building a transaction.  A builder that misses something logs it and    *)
(* leaves the screen as it is.                                             *)
Action(kind, key) ==
    [kind |-> kind, position |-> app.position, key |-> key,
     market |-> None, addresses |-> None, floor |-> None, promosOf |-> None]

GotoConfirm(action) ==
    /\ app' = [app EXCEPT !.pending = action, !.screen = "Confirm"]
    /\ UNCHANGED existing

HasKey == app.position # None /\ app.key # None

(* The transactions of the protocol's admin, or whoever takes himself for  *)
(* him; they name no position.                                             *)
BuildProtocol(kind) == GotoConfirm([Action(kind, None) EXCEPT !.position = None])

(* build_create_position makes up the address of the position, and asks    *)
(* for it to be selected by the next refresh.                              *)
BuildCreate(p) ==
    /\ app.protocol = "ready"
    /\ p \notin existing /\ p # app.select
    /\ app' = [app EXCEPT !.pending = [Action("create", None) EXCEPT !.position = p],
                          !.select = p, !.screen = "Confirm"]
    /\ UNCHANGED existing

(* build_authorize_key, build_revoke_key, build_configure_recovery: what   *)
(* mints or burns keys needs the collection.                               *)
BuildKeyChange(kind) ==
    /\ HasKey /\ app.protocol = "ready"
    /\ GotoConfirm(Action(kind, app.key))

BuildHeartbeat == HasKey /\ GotoConfirm(Action("heartbeat", app.key))

(* build_execute_recovery names the recovery key of the position shown,    *)
(* whichever key the position was found by.                                *)
BuildExecuteRecovery(r) ==
    /\ app.position # None /\ app.protocol = "ready"
    /\ PositionOf[r] = app.position /\ Role[r] = "recovery"
    /\ GotoConfirm(Action("recover", r))

(* build_buy, build_sell, build_borrow, build_repay, build_reinvest name   *)
(* the market and every address derived from it; the minimum output of a   *)
(* sale is taken from the floor price.                                     *)
Trade(kind) ==
    [Action(kind, app.key) EXCEPT
        !.market = app.market, !.addresses = app.addresses,
        !.floor = IF kind = "sell" THEN app.figures ELSE None]

BuildTrade(kind) == HasKey /\ app.market # None /\ GotoConfirm(Trade(kind))

BuildCreatePromo == HasKey /\ GotoConfirm(Action("createPromo", app.key))

(* Both builders of update_promo: to toggle it, to change max_claims.      *)
BuildUpdatePromo ==
    /\ HasKey
    /\ GotoConfirm([Action("updatePromo", app.key) EXCEPT !.promosOf = app.promos])

(* Enter in a form: submit_form, and the toggle of a promo on view.        *)
SubmitForm ==
    \/ On("create") /\ \E p \in Positions : BuildCreate(p)
    \/ On("authorize") /\ BuildKeyChange("authorize")
    \/ On("revoke") /\ BuildKeyChange("revoke")
    \/ On("recovery") /\ BuildKeyChange("configure")
    \/ \E kind \in TradeForms : On(kind) /\ BuildTrade(kind)
    \/ On("createPromo") /\ BuildCreatePromo
    \/ On("viewPromo") /\ BuildUpdatePromo
    \/ On("maxClaims") /\ BuildUpdatePromo

(* The keys of the dashboard that build at once.                           *)
PressAction ==
    /\ On("Dashboard")
    /\ \/ app.protocol = "absent" /\ BuildProtocol("init")
       \/ MayManage /\ BuildHeartbeat
       \/ \E r \in Keys : BuildExecuteRecovery(r)
       \/ MayTrade /\ BuildTrade("reinvest")
-----------------------------------------------------------------------------
(* The chain.                                                              *)

(* create_position makes the account; nothing else adds one.               *)
Lands(action) ==
    existing' = IF action.kind = "create" THEN existing \cup {action.position} ELSE existing

(* handle_confirm, y: the transaction is confirmed, and a refresh follows. *)
ConfirmSent ==
    /\ On("Confirm")
    /\ Lands(app.pending)
    /\ \E after \in Refreshed([app EXCEPT !.pending = None], KeysAmong(existing')) :
          app' = [after EXCEPT !.screen = "Result"]

(* y: an error comes back, whether or not the transaction landed.          *)
ConfirmFailed ==
    /\ On("Confirm")
    /\ app' = [app EXCEPT !.pending = None, !.screen = "Dashboard"]
    /\ Lands(app.pending) \/ UNCHANGED existing

CancelledKeepingAction(a) ==  \* slip: pending_action left alone
    [a EXCEPT !.select = None, !.screen = "Dashboard"]
Cancelled(a) ==
    [a EXCEPT !.pending = None, !.select = None, !.screen = "Dashboard"]

Cancel ==
    /\ On("Confirm")
    /\ app' = Cancelled(app)
    /\ UNCHANGED existing

CloseResult ==
    /\ On("Result")
    /\ Show("Dashboard")

PressKey ==
    \/ PressRefresh \/ BackToList \/ BeginCreate \/ PickMarket
    \/ OpenKeyForm \/ UnlockSettings \/ OpenTradeForm
    \/ ListPromos \/ WithinPromoList \/ EditMaxClaims \/ LeaveForm
    \/ SubmitForm \/ PressAction
    \/ ConfirmSent \/ ConfirmFailed \/ Cancel \/ CloseResult
    \/ \E k \in Keys : ChooseFromList(k)
-----------------------------------------------------------------------------
OrNone(S) == S \cup {None}

Kinds == {"init", "collection", "administer", "create", "authorize", "revoke",
          "configure", "recover", "heartbeat", "reinvest", "createPromo", "updatePromo"}
             \cup TradeForms

Transactions ==
    [kind : Kinds, position : OrNone(Positions), key : OrNone(Keys),
     market : OrNone(Markets), addresses : OrNone(Positions \X Markets),
     floor : OrNone(Positions \X Markets), promosOf : OrNone(Positions)]

ASSUME NoneIsNoTransaction == None \notin Transactions

SessionTypeOK ==
    /\ existing \subseteq Positions
    /\ app.screen \in Screens
    /\ app.protocol \in ProtocolReads /\ app.initialized \in BOOLEAN
    /\ app.position \in OrNone(Positions)
    /\ app.key \in OrNone(Keys)
    /\ app.market \in OrNone(Markets)
    /\ app.addresses \in OrNone(Positions \X Markets)
    /\ app.figures \in OrNone(Positions \X Markets)
    /\ app.listed \subseteq Keys
    /\ app.promos \in OrNone(Positions) /\ app.select \in OrNone(Positions)
    /\ app.pending \in OrNone(Transactions)

(* A transaction is about one position: the key, the addresses, the market *)
(* and the promo are those of the position it names.                       *)
OfOnePosition(t) ==
    /\ t.key # None => PositionOf[t.key] = t.position
    /\ t.market # None => /\ t.market = MarketOf[t.position]
                          /\ t.addresses = <<t.position, t.market>>
    /\ t.kind = "updatePromo" => t.promosOf = t.position

(* Only the user's own choice, or a position he created, takes him from    *)
(* one position to another: a refresh, also the one after a transaction,   *)
(* comes back to the position it left while that is still found.           *)
RefreshKeepsThePosition ==
    [][(/\ app.position \in PositionsOf(app'.listed)
        /\ app.select = None
        /\ \A k \in Keys : ~ChooseFromList(k))
       => app'.position \in {app.position, None}]_sessionVars

(* Figures that come with a refresh are of the position it ends at, and in *)
(* its market if that could be read: also those shown after a transaction, *)
(* when the position may have been chosen anew.                            *)
RefreshReadsItsFigures ==
    [][(/\ app'.figures # None /\ app'.position # None
        /\ app'.figures # app.figures \/ app'.screen = "Result")
       => /\ app'.figures[1] = app'.position
          /\ app'.market # None => app'.figures[2] = MarketOf[app'.position]]_sessionVars

(* build_sell says: "Slippage protection: estimate min_out using floor     *)
(* price", and select_active_position, which Enter on the list comes to,   *)
(* that it loads all state for the position.  The floor price it leaves is *)
(* that of the market of the position shown before.                        *)
SaleFloorIsOfItsMarket ==
    LET t == app.pending
    IN t # None /\ t.floor # None => t.floor[2] = t.market
===============================================================================
