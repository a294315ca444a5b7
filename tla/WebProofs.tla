------------------------------- MODULE WebProofs -------------------------------
(***************************************************************************)
(* The web client with any wallets, keys and positions, and any number of  *)
(* flows under way at once.                                                *)
(***************************************************************************)
EXTENDS WebTransaction, FiniteSetTheorems, WellFoundedInduction, TLAPS

-----------------------------------------------------------------------------
(* The signals and the flows, whatever came in between.                    *)

Page ==
    [positionPda : OrNone(Positions), key : OrNone(Assets),
     position : OrNone(Positions), initialized : BOOLEAN,
     market : OrNone(Markets), keyring : SUBSET Assets,
     found : SUBSET Assets, selected : OrNone(Assets),
     promos : OrNone(Positions), figures : OrNone(Positions \X Markets)]

GoodPage(pg) ==
    /\ pg \in Page
    /\ pg.initialized <=> pg.position # None
    /\ pg.key = None <=> pg.positionPda = None
    /\ pg.key # None => PositionOf[pg.key] = pg.positionPda

Waits == {"protocol", "accounts", "admins", "delegates", "position", "market",
          "keyring", "promos", "figures", "selected"}

FlowRecord ==
    [at : Waits \cup {"idle"}, wallet : OrNone(Wallets), best : OrNone(Assets),
     found : SUBSET Assets, about : OrNone(Positions), market : OrNone(Markets)]

(* A flow knows what its next answer is about.                             *)
GoodFlow(f) ==
    /\ f \in FlowRecord
    /\ f.at = "idle" => f = Idle
    /\ f.at \in {"keyring", "promos", "figures"} => f.about \in Positions
    /\ f.at = "figures" => f.market \in Markets
    /\ f.at \in {"position", "market", "keyring"} => f.best \in f.found
    /\ f.at = "selected" => f.best \in Assets

Good(r) == GoodPage(r.page) /\ GoodFlow(r.flow)

(* While the button is disabled some flow is under way.                    *)
Busy == refreshing => \E i \in FlowIds : flows[i].at # "idle"

SessionInv ==
    /\ wallet \in OrNone(Wallets)
    /\ refreshing \in BOOLEAN
    /\ protocolExists \in BOOLEAN
    /\ GoodPage(page)
    /\ flows \in [FlowIds -> FlowRecord]
    /\ \A i \in FlowIds : GoodFlow(flows[i])
    /\ Busy

LEMMA BlankIsGood == GoodPage(Blank)
  BY DEF Blank, GoodPage, Page, OrNone

LEMMA IdleIsGood == GoodFlow(Idle)
  BY DEF Idle, GoodFlow, FlowRecord, OrNone

LEMMA ConstantTypes ==
    /\ None \notin Positions /\ None \notin Assets
    /\ \A p \in Positions : Seed[p] \in Assets
    /\ \A a \in Assets : PositionOf[a] \in Positions
    /\ Delegated \subseteq Assets
    /\ DefaultMarket \in Markets
    /\ \A p \in Positions : MarketOf[p] \in Markets
  BY WebSessionAssumption DEF Markets

(* There is a key with the most permissions: there are eight bits.         *)
LEMMA BestIsOne ==
    ASSUME NEW keys \in SUBSET Assets, keys # {}
    PROVE  Best(keys) \in keys
<1>1. \A a \in keys : Weight[a] \in 0 .. 8
  BY WebSessionAssumption
<1>2. \E a \in keys : \A b \in keys : Weight[a] >= Weight[b]
  <2> SUFFICES ASSUME \A a \in keys : \E b \in keys : ~(Weight[a] >= Weight[b])
               PROVE  FALSE
    OBVIOUS
  <2> DEFINE Reaches(n) == \E a \in keys : Weight[a] >= n
  <2>1. \A n \in Nat : Reaches(n) => Reaches(n + 1)
    BY <1>1
  <2>2. Reaches(0)
    BY <1>1
  <2>3. ~Reaches(9)
    BY <1>1
  <2> HIDE DEF Reaches
  <2>4. Reaches(1) /\ Reaches(2) /\ Reaches(3)
    BY <2>1, <2>2
  <2>5. Reaches(4) /\ Reaches(5) /\ Reaches(6)
    BY <2>1, <2>4
  <2>6. Reaches(7) /\ Reaches(8) /\ Reaches(9)
    BY <2>1, <2>5
  <2> QED
    BY <2>3, <2>6
<1> QED
  BY <1>2 DEF Best

-----------------------------------------------------------------------------
(* The stretches between two awaits.                                       *)

LEMMA ToFiguresGood ==
    ASSUME NEW pg, NEW f, GoodPage(pg), GoodFlow(f)
    PROVE  Good(ToFigures(pg, f))
<1> DEFINE cleared == [pg EXCEPT !.figures = None]
<1>1. GoodPage(cleared)
  BY DEF GoodPage, Page, OrNone
<1>2. CASE pg.initialized
  <2> DEFINE m == IF pg.market = None THEN DefaultMarket ELSE pg.market
             next == [f EXCEPT !.at = "figures", !.about = pg.position, !.market = m]
  <2>1. m \in Markets /\ pg.position \in Positions
    BY <1>2, ConstantTypes DEF GoodPage, Page, OrNone
  <2> HIDE DEF m
  <2>2. GoodFlow(next)
    BY <2>1 DEF GoodFlow, FlowRecord, Waits, OrNone
  <2>3. ToFigures(pg, f) = [page |-> cleared, flow |-> next]
    BY <1>2 DEF ToFigures, m
  <2> HIDE DEF cleared, next
  <2> QED
    BY <1>1, <2>2, <2>3 DEF Good
<1>3. CASE ~pg.initialized
  <2>1. ToFigures(pg, f) = [page |-> cleared, flow |-> Idle]
    BY <1>3 DEF ToFigures
  <2> HIDE DEF cleared
  <2> QED
    BY <1>1, <2>1, IdleIsGood DEF Good
<1> QED
  BY <1>2, <1>3

LEMMA ToPromosGood ==
    ASSUME NEW pg, NEW f, GoodPage(pg), GoodFlow(f), f.at # "idle"
    PROVE  Good(ToPromos(pg, f))
<1>1. CASE pg.position = None
  <2>1. GoodPage([pg EXCEPT !.promos = None])
    BY DEF GoodPage, Page, OrNone
  <2> QED
    BY <1>1, <2>1, ToFiguresGood DEF ToPromos
<1>2. CASE pg.position # None
  <2> DEFINE next == [f EXCEPT !.at = "promos", !.about = pg.position]
  <2>1. pg.position \in Positions
    BY <1>2 DEF GoodPage, Page, OrNone
  <2>2. GoodFlow(next)
    BY <2>1 DEF GoodFlow, FlowRecord, Waits, OrNone
  <2>3. ToPromos(pg, f) = [page |-> pg, flow |-> next]
    BY <1>2 DEF ToPromos
  <2> HIDE DEF next
  <2> QED
    BY <2>2, <2>3 DEF Good
<1> QED
  BY <1>1, <1>2

LEMMA KeyringKnownGood ==
    ASSUME NEW pg, NEW f, GoodPage(pg), GoodFlow(f), f.best \in f.found,
           f.at # "idle", NEW keys \in SUBSET Assets
    PROVE  Good(KeyringKnown(pg, f, keys))
<1> DEFINE entry == EntryFor(f.found, f.best)
           next == [pg EXCEPT !.keyring = keys, !.found = f.found, !.selected = entry]
<1>1. entry \in f.found
  BY DEF EntryFor
<1>2. f.found \in SUBSET Assets /\ entry \in Assets
  BY <1>1 DEF GoodFlow, FlowRecord
<1> HIDE DEF entry
<1>3. GoodPage(next)
  BY <1>2 DEF GoodPage, Page, OrNone
<1> QED
  BY <1>3, ToPromosGood DEF KeyringKnown, entry

LEMMA KeyringTypes ==
    ASSUME NEW p \in Positions
    PROVE  {Seed[p]} \in SUBSET Assets /\ KeyringOf(p) \in SUBSET Assets
  BY ConstantTypes DEF KeyringOf, DelegatesOf

LEMMA ToKeyringGood ==
    ASSUME NEW pg, NEW f, GoodPage(pg), GoodFlow(f), f.best \in f.found, f.at # "idle"
    PROVE  Good(ToKeyring(pg, f))
<1>1. CASE pg.position = None
  BY <1>1, KeyringKnownGood DEF ToKeyring
<1>2. CASE pg.position # None
  <2>1. pg.position \in Positions
    BY <1>2 DEF GoodPage, Page, OrNone
  <2>2. CASE DelegatesOf(pg.position) = {}
    <3>1. Good(KeyringKnown(pg, f, {Seed[pg.position]}))
      BY <2>1, KeyringTypes, KeyringKnownGood
    <3> QED
      BY <1>2, <2>2, <3>1 DEF ToKeyring
  <2>3. CASE DelegatesOf(pg.position) # {}
    <3> DEFINE next == [f EXCEPT !.at = "keyring", !.about = pg.position]
    <3>1. GoodFlow(next)
      BY <2>1 DEF GoodFlow, FlowRecord, Waits, OrNone
    <3>2. ToKeyring(pg, f) = [page |-> pg, flow |-> next]
      BY <1>2, <2>3 DEF ToKeyring
    <3> HIDE DEF next
    <3> QED
      BY <3>1, <3>2 DEF Good
  <2> QED
    BY <2>2, <2>3
<1> QED
  BY <1>1, <1>2

LEMMA ToPositionGood ==
    ASSUME NEW pg, NEW f, GoodPage(pg), GoodFlow(f), NEW keys \in SUBSET Assets
    PROVE  Good(ToPosition(pg, f, keys))
<1>1. CASE keys = {}
  BY <1>1, ToFiguresGood DEF ToPosition
<1>2. CASE keys # {}
  <2> DEFINE best == Best(keys)
             shown == [pg EXCEPT !.positionPda = PositionOf[best], !.key = best]
             next == [f EXCEPT !.at = "position", !.best = best, !.found = keys]
  <2>1. best \in keys
    BY <1>2, BestIsOne
  <2> HIDE DEF best
  <2>2. best \in Assets /\ PositionOf[best] \in Positions
    BY <2>1, ConstantTypes
  <2>3. GoodPage(shown)
    BY <2>2, ConstantTypes DEF GoodPage, Page, OrNone
  <2>4. GoodFlow(next)
    BY <2>1, <2>2 DEF GoodFlow, FlowRecord, Waits, OrNone
  <2>5. ToPosition(pg, f, keys) = [page |-> shown, flow |-> next]
    BY <1>2 DEF ToPosition, best
  <2> HIDE DEF shown, next
  <2> QED
    BY <2>3, <2>4, <2>5 DEF Good
<1> QED
  BY <1>1, <1>2

-----------------------------------------------------------------------------
(* Flows begin, run on, and end.                                           *)

LEMMA RunKeeps ==
    ASSUME SessionInv, NEW i \in FlowIds, NEW r, Good(r), RunTo(i, r),
           wallet' = wallet, protocolExists' = protocolExists
    PROVE  SessionInv'
<1>1. /\ page' = r.page /\ GoodPage(r.page) /\ GoodFlow(r.flow)
      /\ r.flow \in FlowRecord /\ (r.flow.at = "idle" => r.flow = Idle)
      /\ flows' = [flows EXCEPT ![i] = r.flow]
      /\ refreshing' = (refreshing /\ r.flow # Idle)
  BY DEF RunTo, Good, GoodFlow
<1>2. /\ flows' \in [FlowIds -> FlowRecord]
      /\ flows'[i] = r.flow
      /\ \A j \in FlowIds \ {i} : flows'[j] = flows[j]
  BY <1>1 DEF SessionInv
<1>3. \A j \in FlowIds : GoodFlow(flows'[j])
  BY <1>1, <1>2 DEF SessionInv
<1>4. Busy'
  BY <1>1, <1>2 DEF Busy
<1>5. GoodPage(page')
  BY <1>1
<1>6. \A j \in FlowIds : GoodFlow(flows[j])'
  BY <1>3 DEF GoodFlow
<1>7. refreshing' \in BOOLEAN
  BY <1>1
<1>8. GoodPage(page)'
  BY <1>5 DEF GoodPage
<1> QED
  BY <1>2, <1>4, <1>6, <1>7, <1>8 DEF SessionInv

(* A flow that goes on to another wait, with or without the flag.          *)
LEMMA WaitKeeps ==
    ASSUME SessionInv, NEW i \in FlowIds, NEW f, GoodFlow(f), f.at # "idle",
           flows' = [flows EXCEPT ![i] = f],
           GoodPage(page)', refreshing' \in BOOLEAN,
           wallet' \in OrNone(Wallets), protocolExists' \in BOOLEAN
    PROVE  SessionInv'
<1>1. f \in FlowRecord
  BY DEF GoodFlow
<1>2. /\ flows' \in [FlowIds -> FlowRecord]
      /\ flows'[i] = f
      /\ \A j \in FlowIds \ {i} : flows'[j] = flows[j]
  BY <1>1 DEF SessionInv
<1>3. \A j \in FlowIds : GoodFlow(flows[j])'
  BY <1>2 DEF SessionInv, GoodFlow
<1>4. Busy'
  BY <1>2 DEF Busy
<1> QED
  BY <1>2, <1>3, <1>4 DEF SessionInv

LEMMA GiveUpKeeps ==
    ASSUME SessionInv, NEW i \in FlowIds, GivesUp(i),
           wallet' = wallet, protocolExists' = protocolExists
    PROVE  SessionInv'
<1>1. /\ flows' = [flows EXCEPT ![i] = Idle] /\ refreshing' = FALSE /\ page' = page
      /\ Idle \in FlowRecord
  BY IdleIsGood DEF GivesUp, GoodFlow
<1>2. /\ flows' \in [FlowIds -> FlowRecord]
      /\ flows'[i] = Idle
      /\ \A j \in FlowIds \ {i} : flows'[j] = flows[j]
  BY <1>1 DEF SessionInv
<1>3. \A j \in FlowIds : GoodFlow(flows[j])'
  BY <1>2, IdleIsGood DEF SessionInv, GoodFlow
<1>4. GoodPage(page)'
  BY <1>1 DEF SessionInv, GoodPage
<1> QED
  BY <1>1, <1>2, <1>3, <1>4 DEF SessionInv, Busy

LEMMA BegunIsGood ==
    ASSUME NEW w \in OrNone(Wallets)
    PROVE  /\ GoodFlow(Flow("protocol", w)) /\ Flow("protocol", w).at = "protocol"
           /\ \A a \in Assets :
                 LET f == [Flow("selected", w) EXCEPT !.best = a]
                 IN GoodFlow(f) /\ f.at = "selected"
  BY DEF Flow, Idle, GoodFlow, FlowRecord, Waits, OrNone

LEMMA StartKeeps ==
    ASSUME SessionInv, NEW i \in FlowIds, NEW w \in OrNone(Wallets), StartRefresh(i, w),
           page' = page, wallet' \in OrNone(Wallets), protocolExists' = protocolExists
    PROVE  SessionInv'
<1>1. /\ flows' = [flows EXCEPT ![i] = Flow("protocol", w)] /\ refreshing' \in BOOLEAN
      /\ GoodFlow(Flow("protocol", w)) /\ Flow("protocol", w).at # "idle"
  BY BegunIsGood DEF StartRefresh
<1>2. GoodPage(page)' /\ protocolExists' \in BOOLEAN
  BY DEF SessionInv, GoodPage
<1> QED
  BY <1>1, <1>2, WaitKeeps

LEMMA BrowseKeeps == SessionInv /\ Browse => SessionInv'
<1> SUFFICES ASSUME SessionInv, Browse PROVE SessionInv'
  OBVIOUS
<1>1. wallet \in OrNone(Wallets)
  BY DEF SessionInv
<1>2. ASSUME NEW w \in Wallets, Connect(w)
      PROVE  SessionInv'
  <2>1. w \in OrNone(Wallets)
    BY DEF OrNone
  <2> QED
    BY <1>2, <2>1, StartKeeps DEF Connect
<1>3. CASE Disconnect
  <2>1. GoodPage(page)'
    BY <1>3, BlankIsGood DEF Disconnect, GoodPage
  <2>2. \A i \in FlowIds : GoodFlow(flows[i])'
    BY <1>3 DEF Disconnect, SessionInv, GoodFlow
  <2> QED
    BY <1>3, <2>1, <2>2 DEF Disconnect, SessionInv, Busy, OrNone
<1>4. CASE ChangeCluster
  <2>1. PICK i \in FlowIds, j \in FlowIds :
          /\ i # j
          /\ flows' = [flows EXCEPT ![i] = Flow("protocol", wallet),
                                    ![j] = Flow("protocol", wallet)]
    BY <1>4 DEF ChangeCluster
  <2> DEFINE f == Flow("protocol", wallet)
  <2>2. GoodFlow(f) /\ f.at = "protocol" /\ f \in FlowRecord
    BY <1>1, BegunIsGood DEF GoodFlow
  <2> HIDE DEF f
  <2>3. /\ flows' \in [FlowIds -> FlowRecord]
        /\ flows'[i] = f
        /\ \A k \in FlowIds : flows'[k] \in {f, flows[k]}
    BY <2>1, <2>2 DEF SessionInv, f
  <2>4. \A k \in FlowIds : GoodFlow(flows[k])'
    BY <2>2, <2>3 DEF SessionInv, GoodFlow
  <2>5. Busy'
    BY <2>2, <2>3 DEF Busy
  <2>6. GoodPage(page)'
    BY <1>4, BlankIsGood DEF ChangeCluster, GoodPage
  <2> QED
    BY <1>4, <2>3, <2>4, <2>5, <2>6 DEF ChangeCluster, SessionInv
<1>5. CASE ClickRefresh
  BY <1>1, <1>5, StartKeeps DEF ClickRefresh
<1>6. ASSUME NEW a \in Assets, SwitchPosition(a)
      PROVE  SessionInv'
  <2>1. PICK i \in FlowIds :
          flows' = [flows EXCEPT ![i] = [Flow("selected", wallet) EXCEPT !.best = a]]
    BY <1>6 DEF SwitchPosition
  <2> DEFINE f == [Flow("selected", wallet) EXCEPT !.best = a]
  <2>2. GoodFlow(f) /\ f.at = "selected"
    BY <1>1, BegunIsGood
  <2>3. GoodPage(page)'
    <3>1. page' = [page EXCEPT !.selected = a, !.positionPda = PositionOf[a], !.key = a]
      BY <1>6 DEF SwitchPosition, Selected
    <3>2. PositionOf[a] \in Positions /\ a # None /\ PositionOf[a] # None
      BY ConstantTypes
    <3>3. GoodPage(page)
      BY DEF SessionInv
    <3>4. GoodPage([page EXCEPT !.selected = a, !.positionPda = PositionOf[a], !.key = a])
      BY <3>2, <3>3 DEF GoodPage, Page, OrNone
    <3> QED
      BY <3>1, <3>4 DEF GoodPage
  <2>4. /\ refreshing' \in BOOLEAN /\ wallet' = wallet
        /\ protocolExists' = protocolExists /\ protocolExists \in BOOLEAN
    BY <1>6 DEF SwitchPosition, SessionInv
  <2> HIDE DEF f
  <2>5. flows' = [flows EXCEPT ![i] = f]
    BY <2>1 DEF f
  <2> QED
    BY <1>1, <2>2, <2>3, <2>4, <2>5, WaitKeeps
<1> QED
  BY <1>2, <1>3, <1>4, <1>5, <1>6 DEF Browse

-----------------------------------------------------------------------------
(* The answers.                                                            *)

LEMMA HeldTypes ==
    ASSUME NEW w
    PROVE  /\ Held({Seed[p] : p \in Positions}, w) \in SUBSET Assets
           /\ Held(Delegated, w) \in SUBSET Assets
  BY ConstantTypes DEF Held

LEMMA AnswerKeeps ==
    ASSUME SessionInv, NEW i \in FlowIds, Answer(i)
    PROVE  SessionInv'
<1> DEFINE f == flows[i]
<1>1. /\ GoodPage(page) /\ GoodFlow(f) /\ f \in FlowRecord
      /\ flows \in [FlowIds -> FlowRecord]
      /\ wallet' = wallet /\ wallet \in OrNone(Wallets)
      /\ refreshing \in BOOLEAN /\ protocolExists \in BOOLEAN
  BY DEF SessionInv, Answer
<1>2. ASSUME NEW at \in {"accounts", "admins", "delegates"}
      PROVE  /\ GoodFlow([f EXCEPT !.at = at]) /\ [f EXCEPT !.at = at].at # "idle"
             /\ [flows EXCEPT ![i].at = at] = [flows EXCEPT ![i] = [f EXCEPT !.at = at]]
  BY <1>1, <1>2 DEF GoodFlow, FlowRecord, Waits
<1>3. ASSUME page' = page PROVE GoodPage(page)'
  BY <1>1, <1>3 DEF GoodPage
<1>4. CASE ProtocolArrives(i)
  <2>1. GoodPage(page)'
    BY <1>4, BlankIsGood DEF ProtocolArrives, GoodPage
  <2>2. flows' = [flows EXCEPT ![i] = [f EXCEPT !.at = "accounts"]]
    BY <1>2, <1>4 DEF ProtocolArrives
  <2>3. protocolExists' \in BOOLEAN /\ refreshing' = refreshing
    BY <1>4 DEF ProtocolArrives
  <2> QED
    BY <1>1, <1>2, <2>1, <2>2, <2>3, WaitKeeps
<1>5. CASE AccountsArrive(i)
  <2>1. CASE GivesUp(i)
    BY <1>1, <1>5, <2>1, GiveUpKeeps DEF AccountsArrive
  <2>2. CASE ~GivesUp(i)
    <3>1. /\ flows' = [flows EXCEPT ![i] = [f EXCEPT !.at = "admins"]]
          /\ page' = page /\ refreshing' = refreshing /\ protocolExists' = protocolExists
      BY <1>2, <1>5, <2>2 DEF AccountsArrive
    <3> QED
      BY <1>1, <1>2, <1>3, <3>1, WaitKeeps
  <2> QED
    BY <2>1, <2>2
<1>6. CASE AdminsArrive(i)
  <2> DEFINE admins == Held({Seed[p] : p \in Positions}, f.wallet)
  <2>1. admins \in SUBSET Assets
    BY HeldTypes
  <2>2. Good(ToPosition(page, f, admins))
    BY <1>1, <2>1, ToPositionGood
  <2>3. CASE GivesUp(i)
    BY <1>1, <1>6, <2>3, GiveUpKeeps DEF AdminsArrive
  <2>4. CASE /\ flows' = [flows EXCEPT ![i].at = "delegates"]
             /\ UNCHANGED <<page, refreshing>>
    <3>1. flows' = [flows EXCEPT ![i] = [f EXCEPT !.at = "delegates"]]
      BY <1>2, <2>4
    <3>2. protocolExists' = protocolExists
      BY <1>6 DEF AdminsArrive
    <3> QED
      BY <1>1, <1>2, <1>3, <2>4, <3>1, <3>2, WaitKeeps
  <2>5. CASE RunTo(i, ToPosition(page, f, admins))
    BY <1>1, <1>6, <2>2, <2>5, RunKeeps DEF AdminsArrive
  <2> QED
    BY <1>6, <2>3, <2>4, <2>5 DEF AdminsArrive
<1>7. CASE DelegatesArrive(i)
  <2>1. Good(ToPosition(page, f, Held(Delegated, f.wallet)))
    BY <1>1, HeldTypes, ToPositionGood
  <2> QED
    BY <1>1, <1>7, <2>1, RunKeeps, GiveUpKeeps DEF DelegatesArrive
<1>8. CASE PositionArrives(i)
  <2>1. f.best \in f.found /\ f.at # "idle" /\ f.best \in Assets
    BY <1>1, <1>8 DEF PositionArrives, GoodFlow, FlowRecord
  <2>2. protocolExists' = protocolExists
    BY <1>8 DEF PositionArrives
  <2>3. CASE Survives(i, ToKeyring(page, f))
    <3>1. Good(ToKeyring(page, f))
      BY <1>1, <2>1, ToKeyringGood
    <3> QED
      BY <1>1, <2>2, <2>3, <3>1, RunKeeps DEF Survives
  <2>4. CASE ~Survives(i, ToKeyring(page, f))
    <3> DEFINE shown == [page EXCEPT !.position = PositionOf[f.best], !.initialized = TRUE]
               next == [f EXCEPT !.at = "market"]
    <3>1. GoodPage(shown)
      BY <1>1, <2>1, ConstantTypes DEF GoodPage, Page, OrNone
    <3>2. GoodFlow(next) /\ next.at # "idle"
      BY <1>1, <2>1 DEF GoodFlow, FlowRecord, Waits
    <3>3. page' = shown /\ flows' = [flows EXCEPT ![i] = next] /\ refreshing' = refreshing
      BY <1>1, <1>8, <2>4 DEF PositionArrives
    <3> HIDE DEF shown, next
    <3>4. GoodPage(page)'
      BY <3>1, <3>3 DEF GoodPage
    <3> QED
      BY <1>1, <2>2, <3>2, <3>3, <3>4, WaitKeeps
  <2> QED
    BY <2>3, <2>4
<1>9. CASE MarketArrives(i)
  <2>1. f.best \in f.found /\ f.at # "idle" /\ f.best \in Assets
    BY <1>1, <1>9 DEF MarketArrives, GoodFlow, FlowRecord
  <2> DEFINE known == [page EXCEPT !.market = MarketOf[PositionOf[f.best]]]
  <2>2. GoodPage(known)
    BY <1>1, <2>1, ConstantTypes DEF GoodPage, Page, OrNone
  <2>3. Good(ToKeyring(known, f)) /\ Good(ToKeyring(page, f))
    BY <1>1, <2>1, <2>2, ToKeyringGood
  <2>4. /\ protocolExists' = protocolExists
        /\ RunTo(i, ToKeyring(known, f)) \/ RunTo(i, ToKeyring(page, f))
    BY <1>9 DEF MarketArrives, Survives
  <2> HIDE DEF known
  <2> QED
    BY <1>1, <2>3, <2>4, RunKeeps
<1>10. CASE KeyringArrives(i)
  <2>1. f.best \in f.found /\ f.at # "idle" /\ f.about \in Positions
    BY <1>1, <1>10 DEF KeyringArrives, GoodFlow
  <2>2. Good(KeyringKnown(page, f, KeyringOf(f.about)))
    BY <1>1, <2>1, KeyringTypes, KeyringKnownGood
  <2> QED
    BY <1>1, <1>10, <2>2, RunKeeps, GiveUpKeeps DEF KeyringArrives
<1>11. CASE SelectedArrives(i)
  <2>1. f.at # "idle" /\ f.best \in Assets
    BY <1>1, <1>11 DEF SelectedArrives, GoodFlow
  <2>2. GoodPage(SelectedShown(page, f.best))
    BY <1>1, <2>1, ConstantTypes DEF SelectedShown, GoodPage, Page, OrNone
  <2>3. Good(ToPromos(SelectedShown(page, f.best), f))
    BY <1>1, <2>1, <2>2, ToPromosGood
  <2> QED
    BY <1>1, <1>11, <2>3, RunKeeps, GiveUpKeeps DEF SelectedArrives
<1>12. CASE PromosArrive(i)
  <2>1. f.about \in Positions
    BY <1>1, <1>12 DEF PromosArrive, GoodFlow
  <2> DEFINE known == [page EXCEPT !.promos = f.about]
             unknown == [page EXCEPT !.promos = None]
  <2>2. GoodPage(known) /\ GoodPage(unknown)
    BY <1>1, <2>1 DEF GoodPage, Page, OrNone
  <2>3. Good(ToFigures(known, f)) /\ Good(ToFigures(unknown, f))
    BY <1>1, <2>2, ToFiguresGood
  <2>4. /\ protocolExists' = protocolExists
        /\ RunTo(i, ToFigures(known, f)) \/ RunTo(i, ToFigures(unknown, f))
    BY <1>12 DEF PromosArrive, Survives
  <2> HIDE DEF known, unknown
  <2> QED
    BY <1>1, <2>3, <2>4, RunKeeps
<1>13. CASE FiguresArrive(i)
  <2> DEFINE shown == [page EXCEPT !.figures = <<f.about, f.market>>]
             r == [page |-> shown, flow |-> Idle]
  <2>1. f.about \in Positions /\ f.market \in Markets
    BY <1>1, <1>13 DEF FiguresArrive, GoodFlow
  <2>2. GoodPage(shown)
    BY <1>1, <2>1 DEF GoodPage, Page, OrNone
  <2>3. protocolExists' = protocolExists /\ (RunTo(i, r) \/ GivesUp(i))
    BY <1>13 DEF FiguresArrive
  <2> HIDE DEF shown
  <2>4. Good(r)
    BY <2>2, IdleIsGood DEF Good
  <2> HIDE DEF r
  <2> QED
    BY <1>1, <2>3, <2>4, RunKeeps, GiveUpKeeps
<1> QED
  BY <1>4, <1>5, <1>6, <1>7, <1>8, <1>9, <1>10, <1>11, <1>12, <1>13 DEF Answer

-----------------------------------------------------------------------------
(* The histories.  While nothing fails, overlapping refreshes of one       *)
(* wallet all look for the same keys and choose the same position; what    *)
(* one of them blanks, it will itself fill in later.                       *)

AdminsOf(w) == Held({Seed[p] : p \in Positions}, w)
FoundBy(w) == IF AdminsOf(w) = {} THEN Held(Delegated, w) ELSE AdminsOf(w)
ChosenBy(w) == Best(FoundBy(w))
ShownTo(w) == PositionOf[ChosenBy(w)]

(* The waits of a flow that has yet to write each signal: the choice, the  *)
(* position, its market, the keyring, the promos and the figures.          *)
ToChoose == {"protocol", "accounts", "admins", "delegates"}
ToShow == ToChoose \cup {"position"}
ToTrade == ToShow \cup {"market"}
ToList == ToTrade \cup {"keyring"}
ToOffer == ToList \cup {"promos"}
ToValue == ToOffer \cup {"figures"}

Ahead(stages, waits) == \E s \in stages : s \in waits

(* Every signal is right, or some flow that will write it is still at a    *)
(* wait before that.                                                       *)
KeyChosen(pg, stages, w) ==
    Ahead(stages, ToChoose) \/ (pg.positionPda = ShownTo(w) /\ pg.key = ChosenBy(w))
AccountShown(pg, stages, w) == Ahead(stages, ToShow) \/ pg.position = ShownTo(w)
MarketShown(pg, stages, w) == Ahead(stages, ToTrade) \/ pg.market = MarketOf[ShownTo(w)]
KeysListed(pg, stages, w) ==
    Ahead(stages, ToList) \/ (pg.keyring = KeyringOf(ShownTo(w)) /\ pg.selected \in pg.found)
PromosShown(pg, stages, w) == Ahead(stages, ToOffer) \/ pg.promos = ShownTo(w)
FiguresShown(pg, stages, w) ==
    Ahead(stages, ToValue) \/ (pg.figures # None /\ pg.figures[1] = ShownTo(w))

Progress(pg, stages, w) ==
    /\ KeyChosen(pg, stages, w)
    /\ AccountShown(pg, stages, w)
    /\ MarketShown(pg, stages, w)
    /\ KeysListed(pg, stages, w)
    /\ PromosShown(pg, stages, w)
    /\ FiguresShown(pg, stages, w)

(* What a refresh of w knows at each wait.                                 *)
RefreshFlow(f, w) ==
    /\ f.wallet = w
    /\ f.at # "selected"
    /\ f.at = "delegates" => AdminsOf(w) = {}
    /\ f.at \in {"position", "market", "keyring", "promos", "figures"} => FoundBy(w) # {}
    /\ f.at \in {"position", "market", "keyring"} =>
          f.best = ChosenBy(w) /\ f.found = FoundBy(w)
    /\ f.at \in {"keyring", "promos", "figures"} => f.about = ShownTo(w)

(* No refresh has had its first answer, and the page is as it was before.  *)
Untouched == \A i \in InFlight : flows[i].at = "protocol"

StagesNow == {flows[i].at : i \in FlowIds}

RefreshState(w) ==
    /\ \A i \in InFlight : RefreshFlow(flows[i], w)
    /\ IF FoundBy(w) = {}
       THEN page = Blank \/ (InFlight # {} /\ Untouched)
       ELSE /\ Progress(page, StagesNow, w)
            /\ Untouched \/ page.position \in {None, ShownTo(w)}

(* A switch that meets no other flow.                                      *)
SwitchFlow(f, pg) ==
    \/ f.at = "selected" /\ PositionOf[f.best] = pg.positionPda
    \/ f.at = "promos" /\ pg.position = pg.positionPda /\ f.about = pg.positionPda
    \/ /\ f.at = "figures" /\ pg.position = pg.positionPda /\ f.about = pg.positionPda
       /\ pg.promos = pg.positionPda

Switched(pg) ==
    /\ pg.position = pg.positionPda /\ pg.promos = pg.positionPda
    /\ pg.figures # None /\ pg.figures[1] = pg.positionPda

SwitchState ==
    /\ page.positionPda \in Positions
    /\ \A i \in InFlight : SwitchFlow(flows[i], page)
    /\ InFlight = {} => Switched(page)

MarketFor(pg) == IF pg.market = None THEN DefaultMarket ELSE pg.market

(* With one flow at a time the figures are of the market in the signals.   *)
Priced ==
    /\ \A i \in InFlight : flows[i].at = "figures" => flows[i].market = MarketFor(page)
    /\ InFlight = {} /\ page.figures # None => page.figures[2] = MarketFor(page)

Undisturbed(w) == ~story.failed /\ story.kinds = {"refresh"} /\ story.wallets = {w}
Alone == ~story.failed /\ ~story.overlapped

HistoryInv ==
    /\ story \in [wallets : SUBSET OrNone(Wallets), kinds : SUBSET {"refresh", "switch"},
                  failed : BOOLEAN, overlapped : BOOLEAN]
    /\ ~story.failed /\ InFlight # {} => story.kinds # {} /\ story.wallets # {}
    /\ Alone => /\ \A i, j \in InFlight : i = j
                /\ Priced
    /\ \A w \in OrNone(Wallets) : Undisturbed(w) => RefreshState(w)
    /\ Alone /\ story.kinds = {"switch"} => SwitchState

-----------------------------------------------------------------------------
(* How far the flows have come.                                            *)

(* Who has yet to choose has yet to show, and so on.                       *)
LEMMA StagesInOrder ==
    ASSUME NEW O
    PROVE  /\ Ahead(O, ToChoose) => Ahead(O, ToShow)
           /\ Ahead(O, ToShow) => Ahead(O, ToTrade)
           /\ Ahead(O, ToTrade) => Ahead(O, ToList)
           /\ Ahead(O, ToList) => Ahead(O, ToOffer)
           /\ Ahead(O, ToOffer) => Ahead(O, ToValue)
  BY DEF Ahead, ToShow, ToTrade, ToList, ToOffer, ToValue

LEMMA StageOfOneMore ==
    ASSUME NEW O, NEW s, NEW waits
    PROVE  Ahead(O \cup {s}, waits) <=> Ahead(O, waits) \/ s \in waits
  BY DEF Ahead

(* What one flow at s leaves for the others, at O, to have done.           *)
LEMMA ProgressAt ==
    ASSUME NEW pg, NEW O, NEW w
    PROVE  /\ \A s \in ToChoose : Progress(pg, O \cup {s}, w)
           /\ Progress(pg, O \cup {"position"}, w) <=> KeyChosen(pg, O, w)
           /\ Progress(pg, O \cup {"market"}, w) <=>
                 KeyChosen(pg, O, w) /\ AccountShown(pg, O, w)
           /\ Progress(pg, O \cup {"keyring"}, w) <=>
                 /\ KeyChosen(pg, O, w) /\ AccountShown(pg, O, w)
                 /\ MarketShown(pg, O, w)
           /\ Progress(pg, O \cup {"promos"}, w) <=>
                 /\ KeyChosen(pg, O, w) /\ AccountShown(pg, O, w)
                 /\ MarketShown(pg, O, w) /\ KeysListed(pg, O, w)
           /\ Progress(pg, O \cup {"figures"}, w) <=>
                 /\ KeyChosen(pg, O, w) /\ AccountShown(pg, O, w)
                 /\ MarketShown(pg, O, w) /\ KeysListed(pg, O, w)
                 /\ PromosShown(pg, O, w)
           /\ Progress(pg, O \cup {"idle"}, w) <=> Progress(pg, O, w)
<1>1. ASSUME NEW s
      PROVE  /\ KeyChosen(pg, O \cup {s}, w) <=> s \in ToChoose \/ KeyChosen(pg, O, w)
             /\ AccountShown(pg, O \cup {s}, w) <=> s \in ToShow \/ AccountShown(pg, O, w)
             /\ MarketShown(pg, O \cup {s}, w) <=> s \in ToTrade \/ MarketShown(pg, O, w)
             /\ KeysListed(pg, O \cup {s}, w) <=> s \in ToList \/ KeysListed(pg, O, w)
             /\ PromosShown(pg, O \cup {s}, w) <=> s \in ToOffer \/ PromosShown(pg, O, w)
             /\ FiguresShown(pg, O \cup {s}, w) <=> s \in ToValue \/ FiguresShown(pg, O, w)
  BY StageOfOneMore
  DEF KeyChosen, AccountShown, MarketShown, KeysListed, PromosShown, FiguresShown
<1>2. /\ \A s \in ToChoose : /\ s \in ToShow /\ s \in ToTrade /\ s \in ToList
                             /\ s \in ToOffer /\ s \in ToValue
      /\ /\ "position" \notin ToChoose /\ "position" \in ToShow /\ "position" \in ToTrade
         /\ "position" \in ToList /\ "position" \in ToOffer /\ "position" \in ToValue
      /\ /\ "market" \notin ToShow /\ "market" \in ToTrade /\ "market" \notin ToChoose
         /\ "market" \in ToList /\ "market" \in ToOffer /\ "market" \in ToValue
      /\ /\ "keyring" \notin ToTrade /\ "keyring" \notin ToShow /\ "keyring" \notin ToChoose
         /\ "keyring" \in ToList /\ "keyring" \in ToOffer /\ "keyring" \in ToValue
      /\ /\ "promos" \notin ToList /\ "promos" \notin ToTrade /\ "promos" \notin ToShow
         /\ "promos" \notin ToChoose /\ "promos" \in ToOffer /\ "promos" \in ToValue
      /\ /\ "figures" \notin ToOffer /\ "figures" \notin ToList /\ "figures" \notin ToTrade
         /\ "figures" \notin ToShow /\ "figures" \notin ToChoose /\ "figures" \in ToValue
      /\ /\ "idle" \notin ToOffer /\ "idle" \notin ToList /\ "idle" \notin ToTrade
         /\ "idle" \notin ToShow /\ "idle" \notin ToChoose /\ "idle" \notin ToValue
  BY DEF ToChoose, ToShow, ToTrade, ToList, ToOffer, ToValue
<1> QED
  BY <1>1, <1>2 DEF Progress

(* While the account has yet to be shown, what comes later has so too.     *)
LEMMA LaterIsAhead ==
    ASSUME NEW O, Ahead(O, ToShow), NEW pg, NEW w
    PROVE  /\ AccountShown(pg, O, w) /\ MarketShown(pg, O, w) /\ KeysListed(pg, O, w)
           /\ PromosShown(pg, O, w) /\ FiguresShown(pg, O, w)
  BY StagesInOrder DEF AccountShown, MarketShown, KeysListed, PromosShown, FiguresShown

LEMMA FoundTypes ==
    ASSUME NEW w, FoundBy(w) # {}
    PROVE  /\ FoundBy(w) \in SUBSET Assets /\ ChosenBy(w) \in FoundBy(w)
           /\ Holder[ChosenBy(w)] = w
           /\ ShownTo(w) \in Positions /\ ShownTo(w) # None
<1>1. FoundBy(w) \in SUBSET Assets
  BY HeldTypes DEF FoundBy, AdminsOf
<1>2. ChosenBy(w) \in FoundBy(w)
  BY <1>1, BestIsOne DEF ChosenBy
<1>3. \A a \in FoundBy(w) : Holder[a] = w
  BY DEF FoundBy, AdminsOf, Held
<1> QED
  BY <1>1, <1>2, <1>3, ConstantTypes DEF ShownTo

-----------------------------------------------------------------------------
(* A refresh of w on its course: r is where one flow has come, the others  *)
(* are at O.                                                               *)
OnCourse(r, O, w) ==
    /\ Progress(r.page, O \cup {r.flow.at}, w)
    /\ r.flow = Idle \/ RefreshFlow(r.flow, w)
    /\ r.page.position \in {None, ShownTo(w)}

LEMMA ToFiguresOnCourse ==
    ASSUME NEW w, FoundBy(w) # {}, NEW O, NEW pg, NEW f, GoodPage(pg), GoodFlow(f),
           f.wallet = w, pg.position \in {None, ShownTo(w)},
           Progress(pg, O \cup {"figures"}, w)
    PROVE  OnCourse(ToFigures(pg, f), O, w)
<1> DEFINE cleared == [pg EXCEPT !.figures = None]
<1>1. /\ cleared.positionPda = pg.positionPda /\ cleared.key = pg.key
      /\ cleared.position = pg.position /\ cleared.market = pg.market
      /\ cleared.keyring = pg.keyring /\ cleared.found = pg.found
      /\ cleared.selected = pg.selected /\ cleared.promos = pg.promos
  BY DEF GoodPage, Page
<1>2. CASE pg.initialized
  <2> DEFINE next == [f EXCEPT !.at = "figures", !.about = pg.position,
                         !.market = IF pg.market = None THEN DefaultMarket ELSE pg.market]
  <2>1. ToFigures(pg, f) = [page |-> cleared, flow |-> next]
    BY <1>2 DEF ToFigures
  <2>2. next.at = "figures" /\ next.wallet = w /\ next.about = ShownTo(w)
    BY <1>2 DEF GoodPage, GoodFlow, FlowRecord
  <2> HIDE DEF cleared, next
  <2>3. /\ KeyChosen(cleared, O, w) /\ AccountShown(cleared, O, w)
        /\ MarketShown(cleared, O, w) /\ KeysListed(cleared, O, w)
        /\ PromosShown(cleared, O, w)
    <3>1. /\ KeyChosen(pg, O, w) /\ AccountShown(pg, O, w) /\ MarketShown(pg, O, w)
          /\ KeysListed(pg, O, w) /\ PromosShown(pg, O, w)
      BY ProgressAt
    <3> QED
      BY <1>1, <3>1 DEF KeyChosen, AccountShown, MarketShown, KeysListed, PromosShown
  <2>4. Progress(cleared, O \cup {"figures"}, w)
    BY <2>3, ProgressAt
  <2> QED
    BY <1>1, <2>1, <2>2, <2>4 DEF OnCourse, RefreshFlow
<1>3. CASE ~pg.initialized
  <2>1. ToFigures(pg, f) = [page |-> cleared, flow |-> Idle]
    BY <1>3 DEF ToFigures
  <2> HIDE DEF cleared
  <2>2. pg.position = None /\ ShownTo(w) # None
    BY <1>3, FoundTypes DEF GoodPage
  <2>3. KeyChosen(pg, O, w) /\ Ahead(O, ToShow)
    BY <2>2, ProgressAt DEF AccountShown
  <2>4. Progress(cleared, O, w)
    BY <1>1, <2>3, LaterIsAhead DEF Progress, KeyChosen
  <2>5. Progress(cleared, O \cup {Idle.at}, w)
    BY <2>4, ProgressAt DEF Idle
  <2> QED
    BY <1>1, <2>1, <2>5 DEF OnCourse
<1> QED
  BY <1>2, <1>3

LEMMA ToPromosOnCourse ==
    ASSUME NEW w, FoundBy(w) # {}, NEW O, NEW pg, NEW f, GoodPage(pg), GoodFlow(f),
           f.wallet = w, pg.position \in {None, ShownTo(w)},
           Progress(pg, O \cup {"promos"}, w)
    PROVE  OnCourse(ToPromos(pg, f), O, w)
<1>1. CASE pg.position = None
  <2> DEFINE none == [pg EXCEPT !.promos = None]
  <2>1. /\ none.positionPda = pg.positionPda /\ none.key = pg.key
        /\ none.position = pg.position /\ none.market = pg.market
        /\ none.keyring = pg.keyring /\ none.found = pg.found
        /\ none.selected = pg.selected /\ none.figures = pg.figures
        /\ GoodPage(none)
    BY DEF GoodPage, Page, OrNone
  <2> HIDE DEF none
  <2>2. KeyChosen(pg, O, w) /\ Ahead(O, ToShow)
    BY <1>1, FoundTypes, ProgressAt DEF AccountShown
  <2>3. /\ KeyChosen(none, O, w) /\ AccountShown(none, O, w)
        /\ MarketShown(none, O, w) /\ KeysListed(none, O, w) /\ PromosShown(none, O, w)
    BY <2>1, <2>2, LaterIsAhead DEF KeyChosen
  <2>4. Progress(none, O \cup {"figures"}, w)
    BY <2>3, ProgressAt
  <2>5. OnCourse(ToFigures(none, f), O, w)
    BY <2>1, <2>4, ToFiguresOnCourse
  <2> QED
    BY <1>1, <2>5 DEF ToPromos, none
<1>2. CASE pg.position # None
  <2> DEFINE next == [f EXCEPT !.at = "promos", !.about = pg.position]
  <2>1. ToPromos(pg, f) = [page |-> pg, flow |-> next]
    BY <1>2 DEF ToPromos
  <2>2. next.at = "promos" /\ next.wallet = w /\ next.about = ShownTo(w)
    BY <1>2 DEF GoodFlow, FlowRecord
  <2> HIDE DEF next
  <2> QED
    BY <2>1, <2>2 DEF OnCourse, RefreshFlow
<1> QED
  BY <1>1, <1>2

LEMMA KeyringKnownOnCourse ==
    ASSUME NEW w, FoundBy(w) # {}, NEW O, NEW pg, NEW f, GoodPage(pg), GoodFlow(f),
           f.wallet = w, f.best = ChosenBy(w), f.found = FoundBy(w),
           pg.position \in {None, ShownTo(w)},
           NEW keys \in SUBSET Assets,
           pg.position # None => keys = KeyringOf(ShownTo(w)),
           Progress(pg, O \cup {"keyring"}, w)
    PROVE  OnCourse(KeyringKnown(pg, f, keys), O, w)
<1> DEFINE entry == EntryFor(f.found, f.best)
           next == [pg EXCEPT !.keyring = keys, !.found = f.found, !.selected = entry]
<1>1. f.best \in f.found /\ f.found \in SUBSET Assets
  BY FoundTypes
<1>2. entry \in f.found
  BY <1>1 DEF EntryFor
<1> HIDE DEF entry
<1>3. GoodPage(next)
  BY <1>1, <1>2 DEF GoodPage, Page, OrNone
<1>4. /\ next.positionPda = pg.positionPda /\ next.key = pg.key
      /\ next.position = pg.position /\ next.market = pg.market
      /\ next.keyring = keys /\ next.selected \in next.found
  BY <1>2 DEF GoodPage, Page
<1> HIDE DEF next
<1>5. KeyChosen(pg, O, w) /\ AccountShown(pg, O, w) /\ MarketShown(pg, O, w)
  BY ProgressAt
<1>6. KeysListed(next, O, w)
  <2>1. CASE pg.position = None
    BY <1>5, <2>1, FoundTypes, LaterIsAhead DEF AccountShown
  <2>2. CASE pg.position # None
    BY <1>4, <2>2 DEF KeysListed
  <2> QED
    BY <2>1, <2>2
<1>7. Progress(next, O \cup {"promos"}, w)
  <2>1. KeyChosen(next, O, w) /\ AccountShown(next, O, w) /\ MarketShown(next, O, w)
    BY <1>4, <1>5 DEF KeyChosen, AccountShown, MarketShown
  <2> QED
    BY <1>6, <2>1, ProgressAt
<1>8. OnCourse(ToPromos(next, f), O, w)
  BY <1>3, <1>4, <1>7, ToPromosOnCourse
<1> QED
  BY <1>8 DEF KeyringKnown, next, entry

LEMMA ToKeyringOnCourse ==
    ASSUME NEW w, FoundBy(w) # {}, NEW O, NEW pg, NEW f, GoodPage(pg), GoodFlow(f),
           f.wallet = w, f.best = ChosenBy(w), f.found = FoundBy(w),
           pg.position \in {None, ShownTo(w)},
           Progress(pg, O \cup {"keyring"}, w)
    PROVE  OnCourse(ToKeyring(pg, f), O, w)
<1>1. CASE pg.position = None
  <2>1. OnCourse(KeyringKnown(pg, f, {}), O, w)
    BY <1>1, KeyringKnownOnCourse
  <2> QED
    BY <1>1, <2>1 DEF ToKeyring
<1>2. CASE pg.position # None /\ DelegatesOf(pg.position) = {}
  <2>1. /\ {Seed[pg.position]} = KeyringOf(ShownTo(w))
        /\ {Seed[pg.position]} \in SUBSET Assets
    BY <1>2, FoundTypes, ConstantTypes DEF KeyringOf
  <2>2. OnCourse(KeyringKnown(pg, f, {Seed[pg.position]}), O, w)
    BY <2>1, KeyringKnownOnCourse
  <2> QED
    BY <1>2, <2>2 DEF ToKeyring
<1>3. CASE pg.position # None /\ DelegatesOf(pg.position) # {}
  <2> DEFINE next == [f EXCEPT !.at = "keyring", !.about = pg.position]
  <2>1. ToKeyring(pg, f) = [page |-> pg, flow |-> next]
    BY <1>3 DEF ToKeyring
  <2>2. /\ next.at = "keyring" /\ next.wallet = w /\ next.about = ShownTo(w)
        /\ next.best = ChosenBy(w) /\ next.found = FoundBy(w)
    BY <1>3 DEF GoodFlow, FlowRecord
  <2> HIDE DEF next
  <2> QED
    BY <2>1, <2>2 DEF OnCourse, RefreshFlow
<1> QED
  BY <1>1, <1>2, <1>3

LEMMA ToPositionOnCourse ==
    ASSUME NEW w, FoundBy(w) # {}, NEW O, NEW pg, NEW f, GoodPage(pg), GoodFlow(f),
           f.wallet = w, pg.position \in {None, ShownTo(w)}
    PROVE  OnCourse(ToPosition(pg, f, FoundBy(w)), O, w)
<1> DEFINE shown == [pg EXCEPT !.positionPda = ShownTo(w), !.key = ChosenBy(w)]
           next == [f EXCEPT !.at = "position", !.best = ChosenBy(w), !.found = FoundBy(w)]
<1>1. ToPosition(pg, f, FoundBy(w)) = [page |-> shown, flow |-> next]
  BY DEF ToPosition, ShownTo, ChosenBy
<1>2. /\ shown.positionPda = ShownTo(w) /\ shown.key = ChosenBy(w)
      /\ shown.position = pg.position
  BY DEF GoodPage, Page
<1>3. /\ next.at = "position" /\ next.wallet = w
      /\ next.best = ChosenBy(w) /\ next.found = FoundBy(w)
  BY DEF GoodFlow, FlowRecord
<1> HIDE DEF shown, next
<1>4. Progress(shown, O \cup {"position"}, w)
  BY <1>2, ProgressAt DEF KeyChosen
<1> QED
  BY <1>1, <1>2, <1>3, <1>4 DEF OnCourse, RefreshFlow

-----------------------------------------------------------------------------
(* Where the right answer takes flow f from the signals pg.                *)
Answered(f, pg, r) ==
    \/ f.at = "protocol" /\ r = [page |-> Blank, flow |-> [f EXCEPT !.at = "accounts"]]
    \/ f.at = "accounts" /\ r = [page |-> pg, flow |-> [f EXCEPT !.at = "admins"]]
    \/ /\ f.at = "admins" /\ AdminsOf(f.wallet) = {} /\ Delegated # {}
       /\ r = [page |-> pg, flow |-> [f EXCEPT !.at = "delegates"]]
    \/ /\ f.at = "admins" /\ (AdminsOf(f.wallet) # {} \/ Delegated = {})
       /\ r = ToPosition(pg, f, AdminsOf(f.wallet))
    \/ f.at = "delegates" /\ r = ToPosition(pg, f, Held(Delegated, f.wallet))
    \/ /\ f.at = "position"
       /\ r = [page |-> [pg EXCEPT !.position = PositionOf[f.best], !.initialized = TRUE],
               flow |-> [f EXCEPT !.at = "market"]]
    \/ /\ f.at = "market"
       /\ r = ToKeyring([pg EXCEPT !.market = MarketOf[PositionOf[f.best]]], f)
    \/ f.at = "keyring" /\ r = KeyringKnown(pg, f, KeyringOf(f.about))
    \/ f.at = "selected" /\ r = ToPromos(SelectedShown(pg, f.best), f)
    \/ f.at = "promos" /\ r = ToFigures([pg EXCEPT !.promos = f.about], f)
    \/ /\ f.at = "figures"
       /\ r = [page |-> [pg EXCEPT !.figures = <<f.about, f.market>>], flow |-> Idle]

Moved(i, r) ==
    /\ page' = r.page
    /\ flows' = [flows EXCEPT ![i] = r.flow]

(* An answer spoils the history unless it is the right one.                *)
LEMMA RightOrSpoilt ==
    ASSUME SessionInv, NEW i \in FlowIds, Answer(i)
    PROVE  /\ flows[i].at # "idle"
           /\ \/ story' = Spoilt
              \/ story' = story /\ \E r : Moved(i, r) /\ Answered(flows[i], page, r)
<1> DEFINE f == flows[i]
           to(pg, g) == [page |-> pg, flow |-> g]
           Goal == /\ f.at # "idle"
                   /\ \/ story' = Spoilt
                      \/ story' = story /\ \E r : Moved(i, r) /\ Answered(f, page, r)
<1>1. f \in FlowRecord /\ flows \in [FlowIds -> FlowRecord]
  BY DEF SessionInv
<1>2. \A at : [flows EXCEPT ![i].at = at] = [flows EXCEPT ![i] = [f EXCEPT !.at = at]]
  BY <1>1
<1>3. ASSUME NEW r, Moved(i, r), Answered(f, page, r), story' = story, f.at # "idle"
      PROVE  Goal
  BY <1>3
<1>4. ASSUME NEW r, RunTo(i, r)
      PROVE  Moved(i, r)
  BY <1>4 DEF RunTo, Moved
<1>5. ASSUME GivesUp(i) \/ (\E r : Survives(i, r)), f.at # "idle"
      PROVE  Goal
  BY <1>5 DEF GivesUp, Survives
<1>6. CASE ProtocolArrives(i)
  <2> DEFINE r == to(Blank, [f EXCEPT !.at = "accounts"])
  <2>1. f.at = "protocol" /\ (story' = story \/ story' = Spoilt) /\ Moved(i, r)
    BY <1>2, <1>6 DEF ProtocolArrives, Moved
  <2>2. Answered(f, page, r)
    BY <2>1 DEF Answered
  <2> HIDE DEF r
  <2> QED
    BY <2>1, <2>2
<1>7. CASE AccountsArrive(i)
  <2>1. f.at = "accounts"
    BY <1>7 DEF AccountsArrive
  <2>2. CASE ~GivesUp(i)
    <3> DEFINE r == to(page, [f EXCEPT !.at = "admins"])
    <3>1. story' = story /\ Moved(i, r)
      BY <1>2, <1>7, <2>2 DEF AccountsArrive, Moved
    <3>2. Answered(f, page, r)
      BY <2>1 DEF Answered
    <3> HIDE DEF r
    <3> QED
      BY <2>1, <3>1, <3>2
  <2> QED
    BY <1>5, <2>1, <2>2
<1>8. CASE AdminsArrive(i)
  <2>1. f.at = "admins"
    BY <1>8 DEF AdminsArrive
  <2>2. CASE ~GivesUp(i) /\ AdminsOf(f.wallet) = {} /\ Delegated # {}
    <3> DEFINE r == to(page, [f EXCEPT !.at = "delegates"])
    <3>1. story' = story /\ Moved(i, r)
      BY <1>2, <1>8, <2>2 DEF AdminsArrive, Moved, AdminsOf
    <3>2. Answered(f, page, r)
      BY <2>1, <2>2 DEF Answered
    <3> HIDE DEF r
    <3> QED
      BY <2>1, <3>1, <3>2
  <2>3. CASE ~GivesUp(i) /\ ~(AdminsOf(f.wallet) = {} /\ Delegated # {})
    <3> DEFINE r == ToPosition(page, f, AdminsOf(f.wallet))
    <3>1. story' = story /\ Moved(i, r)
      BY <1>4, <1>8, <2>3 DEF AdminsArrive, AdminsOf
    <3>2. Answered(f, page, r)
      BY <2>1, <2>3 DEF Answered
    <3> HIDE DEF r
    <3> QED
      BY <2>1, <3>1, <3>2
  <2> QED
    BY <1>5, <2>1, <2>2, <2>3
<1>9. CASE DelegatesArrive(i)
  <2> DEFINE r == ToPosition(page, f, Held(Delegated, f.wallet))
  <2>1. f.at = "delegates" /\ Answered(f, page, r)
    BY <1>9 DEF DelegatesArrive, Answered
  <2>2. GivesUp(i) \/ (RunTo(i, r) /\ story' = story)
    BY <1>9 DEF DelegatesArrive
  <2> HIDE DEF r
  <2> QED
    BY <1>3, <1>4, <1>5, <2>1, <2>2
<1>10. CASE PositionArrives(i)
  <2> DEFINE r == to([page EXCEPT !.position = PositionOf[f.best], !.initialized = TRUE],
                     [f EXCEPT !.at = "market"])
  <2>1. f.at = "position" /\ Answered(f, page, r)
    BY <1>10 DEF PositionArrives, Answered
  <2>2. Survives(i, ToKeyring(page, f)) \/ (Moved(i, r) /\ story' = story)
    BY <1>2, <1>10 DEF PositionArrives, Moved
  <2> HIDE DEF r
  <2> QED
    BY <1>3, <1>5, <2>1, <2>2
<1>11. CASE MarketArrives(i)
  <2> DEFINE r == ToKeyring([page EXCEPT !.market = MarketOf[PositionOf[f.best]]], f)
  <2>1. f.at = "market" /\ Answered(f, page, r)
    BY <1>11 DEF MarketArrives, Answered
  <2>2. Survives(i, ToKeyring(page, f)) \/ (RunTo(i, r) /\ story' = story)
    BY <1>11 DEF MarketArrives
  <2> HIDE DEF r
  <2> QED
    BY <1>3, <1>4, <1>5, <2>1, <2>2
<1>12. CASE KeyringArrives(i)
  <2> DEFINE r == KeyringKnown(page, f, KeyringOf(f.about))
  <2>1. f.at = "keyring" /\ Answered(f, page, r)
    BY <1>12 DEF KeyringArrives, Answered
  <2>2. GivesUp(i) \/ (RunTo(i, r) /\ story' = story)
    BY <1>12 DEF KeyringArrives
  <2> HIDE DEF r
  <2> QED
    BY <1>3, <1>4, <1>5, <2>1, <2>2
<1>13. CASE SelectedArrives(i)
  <2> DEFINE r == ToPromos(SelectedShown(page, f.best), f)
  <2>1. f.at = "selected" /\ Answered(f, page, r)
    BY <1>13 DEF SelectedArrives, Answered
  <2>2. GivesUp(i) \/ (RunTo(i, r) /\ story' = story)
    BY <1>13 DEF SelectedArrives
  <2> HIDE DEF r
  <2> QED
    BY <1>3, <1>4, <1>5, <2>1, <2>2
<1>14. CASE PromosArrive(i)
  <2> DEFINE r == ToFigures([page EXCEPT !.promos = f.about], f)
  <2>1. f.at = "promos" /\ Answered(f, page, r)
    BY <1>14 DEF PromosArrive, Answered
  <2>2. \/ Survives(i, ToFigures([page EXCEPT !.promos = None], f))
        \/ RunTo(i, r) /\ story' = story
    BY <1>14 DEF PromosArrive
  <2> HIDE DEF r
  <2> QED
    BY <1>3, <1>4, <1>5, <2>1, <2>2
<1>15. CASE FiguresArrive(i)
  <2> DEFINE r == to([page EXCEPT !.figures = <<f.about, f.market>>], Idle)
  <2>1. f.at = "figures" /\ Answered(f, page, r)
    BY <1>15 DEF FiguresArrive, Answered
  <2>2. GivesUp(i) \/ (RunTo(i, r) /\ story' = story)
    BY <1>15 DEF FiguresArrive
  <2> HIDE DEF r
  <2> QED
    BY <1>3, <1>4, <1>5, <2>1, <2>2
<1> QED
  BY <1>6, <1>7, <1>8, <1>9, <1>10, <1>11, <1>12, <1>13, <1>14, <1>15 DEF Answer

(* A refresh that is answered stays on its course.                         *)
LEMMA RefreshAnswered ==
    ASSUME NEW w, FoundBy(w) # {}, NEW O, NEW pg, NEW f, NEW r, GoodPage(pg), GoodFlow(f),
           RefreshFlow(f, w), Progress(pg, O \cup {f.at}, w),
           f.at = "protocol" \/ pg.position \in {None, ShownTo(w)},
           Answered(f, pg, r)
    PROVE  OnCourse(r, O, w)
<1>1. /\ f.wallet = w /\ f.at # "selected" /\ ShownTo(w) \in Positions
      /\ f \in FlowRecord
  BY FoundTypes DEF RefreshFlow, GoodFlow
<1>2. ASSUME NEW at \in ToChoose, NEW pg2, NEW g, g.at = at, RefreshFlow(g, w),
             pg2.position \in {None, ShownTo(w)}
      PROVE  OnCourse([page |-> pg2, flow |-> g], O, w)
  BY <1>2, ProgressAt DEF OnCourse
<1>3. CASE f.at = "protocol"
  <2> DEFINE g == [f EXCEPT !.at = "accounts"]
  <2>1. g.at = "accounts" /\ RefreshFlow(g, w) /\ "accounts" \in ToChoose
    BY <1>1 DEF RefreshFlow, FlowRecord, ToChoose
  <2>2. r = [page |-> Blank, flow |-> g] /\ Blank.position = None
    BY <1>3 DEF Answered, Blank
  <2> HIDE DEF g
  <2> QED
    BY <1>2, <2>1, <2>2
<1>4. CASE f.at = "accounts"
  <2> DEFINE g == [f EXCEPT !.at = "admins"]
  <2>1. g.at = "admins" /\ RefreshFlow(g, w) /\ "admins" \in ToChoose
    BY <1>1 DEF RefreshFlow, FlowRecord, ToChoose
  <2>2. r = [page |-> pg, flow |-> g]
    BY <1>4 DEF Answered
  <2> HIDE DEF g
  <2> QED
    BY <1>2, <1>4, <2>1, <2>2
<1>5. CASE f.at = "admins" /\ AdminsOf(w) = {} /\ Delegated # {}
  <2> DEFINE g == [f EXCEPT !.at = "delegates"]
  <2>1. g.at = "delegates" /\ RefreshFlow(g, w) /\ "delegates" \in ToChoose
    BY <1>1, <1>5 DEF RefreshFlow, FlowRecord, ToChoose
  <2>2. r = [page |-> pg, flow |-> g]
    BY <1>1, <1>5 DEF Answered
  <2> HIDE DEF g
  <2> QED
    BY <1>2, <1>5, <2>1, <2>2
<1>6. CASE f.at = "admins" /\ ~(AdminsOf(w) = {} /\ Delegated # {})
  <2>1. r = ToPosition(pg, f, AdminsOf(w))
    BY <1>1, <1>6 DEF Answered
  <2>2. AdminsOf(w) = FoundBy(w)
    BY <1>6 DEF FoundBy, Held
  <2> QED
    BY <1>1, <1>6, <2>1, <2>2, ToPositionOnCourse
<1>7. CASE f.at = "delegates"
  <2>1. r = ToPosition(pg, f, Held(Delegated, w))
    BY <1>1, <1>7 DEF Answered
  <2>2. Held(Delegated, w) = FoundBy(w)
    BY <1>7 DEF FoundBy, RefreshFlow
  <2> QED
    BY <1>1, <1>7, <2>1, <2>2, ToPositionOnCourse
<1>8. CASE f.at = "position"
  <2> DEFINE pg2 == [pg EXCEPT !.position = PositionOf[f.best], !.initialized = TRUE]
             g == [f EXCEPT !.at = "market"]
  <2>1. f.best = ChosenBy(w) /\ f.found = FoundBy(w)
    BY <1>8 DEF RefreshFlow
  <2>2. g.at = "market" /\ RefreshFlow(g, w)
    BY <1>1, <1>8 DEF RefreshFlow, FlowRecord
  <2>3. /\ pg2.position = ShownTo(w) /\ pg2.positionPda = pg.positionPda
        /\ pg2.key = pg.key
    BY <2>1 DEF GoodPage, Page, ShownTo
  <2>4. r = [page |-> pg2, flow |-> g]
    BY <1>8 DEF Answered
  <2> HIDE DEF pg2, g
  <2>5. KeyChosen(pg, O, w)
    BY <1>8, ProgressAt
  <2>6. KeyChosen(pg2, O, w) /\ AccountShown(pg2, O, w)
    BY <2>3, <2>5 DEF KeyChosen, AccountShown
  <2>7. Progress(pg2, O \cup {"market"}, w)
    BY <2>6, ProgressAt
  <2> QED
    BY <2>2, <2>3, <2>4, <2>7 DEF OnCourse
<1>9. CASE f.at = "market"
  <2> DEFINE pg2 == [pg EXCEPT !.market = MarketOf[PositionOf[f.best]]]
  <2>1. f.best = ChosenBy(w) /\ f.found = FoundBy(w)
    BY <1>9 DEF RefreshFlow
  <2>2. /\ pg2.position = pg.position /\ pg2.positionPda = pg.positionPda
        /\ pg2.key = pg.key /\ pg2.market = MarketOf[ShownTo(w)]
        /\ GoodPage(pg2)
    BY <1>1, <2>1, ConstantTypes DEF GoodPage, Page, ShownTo, OrNone
  <2>3. r = ToKeyring(pg2, f)
    BY <1>9 DEF Answered
  <2> HIDE DEF pg2
  <2>4. KeyChosen(pg, O, w) /\ AccountShown(pg, O, w)
    BY <1>9, ProgressAt
  <2>5. KeyChosen(pg2, O, w) /\ AccountShown(pg2, O, w) /\ MarketShown(pg2, O, w)
    BY <2>2, <2>4 DEF KeyChosen, AccountShown, MarketShown
  <2>6. Progress(pg2, O \cup {"keyring"}, w)
    BY <2>5, ProgressAt
  <2> QED
    BY <1>1, <1>9, <2>1, <2>2, <2>3, <2>6, ToKeyringOnCourse
<1>10. CASE f.at = "keyring"
  <2>1. f.best = ChosenBy(w) /\ f.found = FoundBy(w) /\ f.about = ShownTo(w)
    BY <1>10 DEF RefreshFlow
  <2>2. r = KeyringKnown(pg, f, KeyringOf(ShownTo(w)))
    BY <1>10, <2>1 DEF Answered
  <2>3. KeyringOf(ShownTo(w)) \in SUBSET Assets
    BY <1>1, KeyringTypes
  <2> QED
    BY <1>1, <1>10, <2>1, <2>2, <2>3, KeyringKnownOnCourse
<1>11. CASE f.at = "promos"
  <2> DEFINE pg2 == [pg EXCEPT !.promos = f.about]
  <2>1. f.about = ShownTo(w)
    BY <1>11 DEF RefreshFlow
  <2>2. /\ pg2.position = pg.position /\ pg2.positionPda = pg.positionPda
        /\ pg2.key = pg.key /\ pg2.market = pg.market /\ pg2.keyring = pg.keyring
        /\ pg2.selected = pg.selected /\ pg2.found = pg.found
        /\ pg2.promos = ShownTo(w) /\ GoodPage(pg2)
    BY <1>1, <2>1 DEF GoodPage, Page, OrNone
  <2>3. r = ToFigures(pg2, f)
    BY <1>11 DEF Answered
  <2> HIDE DEF pg2
  <2>4. /\ KeyChosen(pg, O, w) /\ AccountShown(pg, O, w) /\ MarketShown(pg, O, w)
        /\ KeysListed(pg, O, w)
    BY <1>11, ProgressAt
  <2>5. /\ KeyChosen(pg2, O, w) /\ AccountShown(pg2, O, w) /\ MarketShown(pg2, O, w)
        /\ KeysListed(pg2, O, w) /\ PromosShown(pg2, O, w)
    BY <2>2, <2>4 DEF KeyChosen, AccountShown, MarketShown, KeysListed, PromosShown
  <2>6. Progress(pg2, O \cup {"figures"}, w)
    BY <2>5, ProgressAt
  <2> QED
    BY <1>1, <1>11, <2>2, <2>3, <2>6, ToFiguresOnCourse
<1>12. CASE f.at = "figures"
  <2> DEFINE pg2 == [pg EXCEPT !.figures = <<f.about, f.market>>]
  <2>1. f.about = ShownTo(w)
    BY <1>12 DEF RefreshFlow
  <2>2. /\ pg2.position = pg.position /\ pg2.positionPda = pg.positionPda
        /\ pg2.key = pg.key /\ pg2.market = pg.market /\ pg2.keyring = pg.keyring
        /\ pg2.selected = pg.selected /\ pg2.found = pg.found
        /\ pg2.promos = pg.promos /\ pg2.figures[1] = ShownTo(w)
    BY <1>1, <2>1 DEF GoodPage, Page
  <2>3. pg2.figures # None
    <3>1. pg2.figures = <<f.about, f.market>> /\ f.about \in Positions /\ f.market \in Markets
      BY <1>12 DEF GoodPage, Page, GoodFlow
    <3> QED
      BY <3>1, NoneIsNoFigures
  <2>4. r = [page |-> pg2, flow |-> Idle]
    BY <1>12 DEF Answered
  <2> HIDE DEF pg2
  <2>5. /\ KeyChosen(pg, O, w) /\ AccountShown(pg, O, w) /\ MarketShown(pg, O, w)
        /\ KeysListed(pg, O, w) /\ PromosShown(pg, O, w)
    BY <1>12, ProgressAt
  <2>6. Progress(pg2, O, w)
    BY <2>2, <2>3, <2>5
    DEF Progress, KeyChosen, AccountShown, MarketShown, KeysListed, PromosShown, FiguresShown
  <2>7. Progress(pg2, O \cup {Idle.at}, w)
    BY <2>6, ProgressAt DEF Idle
  <2> QED
    BY <1>12, <2>2, <2>4, <2>7 DEF OnCourse
<1> QED
  BY <1>1, <1>3, <1>4, <1>5, <1>6, <1>7, <1>8, <1>9, <1>10, <1>11, <1>12 DEF Answered

(* A refresh that finds no key leaves the page blank.                      *)
LEMMA NothingFound ==
    ASSUME NEW w, FoundBy(w) = {}, NEW pg, NEW f, NEW r, GoodFlow(f), f.at # "idle",
           RefreshFlow(f, w), pg = Blank \/ f.at = "protocol",
           Answered(f, pg, r)
    PROVE  r.page = Blank /\ (r.flow = Idle \/ RefreshFlow(r.flow, w))
<1>1. /\ f.wallet = w /\ f.at \in ToChoose /\ f \in FlowRecord
      /\ AdminsOf(w) = {} /\ Held(Delegated, w) = {}
  BY DEF RefreshFlow, GoodFlow, FlowRecord, Waits, ToChoose, FoundBy
<1>2. ToPosition(Blank, f, {}) = [page |-> Blank, flow |-> Idle]
  BY DEF ToPosition, ToFigures, Blank
<1>3. CASE f.at = "protocol"
  <2> DEFINE g == [f EXCEPT !.at = "accounts"]
  <2>1. RefreshFlow(g, w) /\ r = [page |-> Blank, flow |-> g]
    BY <1>1, <1>3 DEF RefreshFlow, FlowRecord, Answered
  <2> HIDE DEF g
  <2> QED
    BY <2>1
<1>4. CASE f.at = "accounts"
  <2> DEFINE g == [f EXCEPT !.at = "admins"]
  <2>1. RefreshFlow(g, w) /\ r = [page |-> Blank, flow |-> g]
    BY <1>1, <1>4 DEF RefreshFlow, FlowRecord, Answered
  <2> HIDE DEF g
  <2> QED
    BY <2>1
<1>5. CASE f.at = "admins" /\ Delegated # {}
  <2> DEFINE g == [f EXCEPT !.at = "delegates"]
  <2>1. RefreshFlow(g, w)
    BY <1>1, <1>5 DEF RefreshFlow, FlowRecord
  <2>2. r = [page |-> Blank, flow |-> g]
    BY <1>1, <1>5 DEF Answered
  <2> HIDE DEF g
  <2> QED
    BY <2>1, <2>2
<1>6. CASE (f.at = "admins" /\ Delegated = {}) \/ f.at = "delegates"
  <2>1. r = ToPosition(Blank, f, {})
    BY <1>1, <1>6 DEF Answered
  <2> QED
    BY <1>2, <2>1
<1> QED
  BY <1>1, <1>3, <1>4, <1>5, <1>6 DEF ToChoose

Others(i) == {flows[j].at : j \in FlowIds \ {i}}

(* The flows after one has moved.                                          *)
LEMMA MovedFlows ==
    ASSUME flows \in [FlowIds -> FlowRecord], NEW i \in FlowIds, NEW r, Moved(i, r),
           flows[i].at # "idle"
    PROVE  /\ flows'[i] = r.flow
           /\ \A j \in FlowIds \ {i} : flows'[j] = flows[j]
           /\ i \in InFlight /\ InFlight' \subseteq InFlight
           /\ i \in InFlight' <=> r.flow.at # "idle"
           /\ StagesNow = Others(i) \cup {flows[i].at}
           /\ StagesNow' = Others(i) \cup {r.flow.at}
<1>1. flows'[i] = r.flow /\ \A j \in FlowIds \ {i} : flows'[j] = flows[j]
  BY DEF Moved
<1>2. /\ i \in InFlight /\ InFlight' \subseteq InFlight
      /\ i \in InFlight' <=> r.flow.at # "idle"
  BY <1>1 DEF InFlight
<1>3. StagesNow = Others(i) \cup {flows[i].at}
  BY DEF StagesNow, Others
<1>4. StagesNow' = {flows'[j].at : j \in FlowIds \ {i}} \cup {flows'[i].at}
  BY DEF StagesNow
<1>5. {flows'[j].at : j \in FlowIds \ {i}} = Others(i)
  BY <1>1 DEF Others
<1> QED
  BY <1>1, <1>2, <1>3, <1>4, <1>5

LEMMA RefreshGoesOn ==
    ASSUME SessionInv, NEW w, RefreshState(w), NEW i \in FlowIds, flows[i].at # "idle",
           NEW r, Moved(i, r), Answered(flows[i], page, r)
    PROVE  RefreshState(w)'
<1>1. /\ GoodPage(page) /\ GoodFlow(flows[i]) /\ flows \in [FlowIds -> FlowRecord]
      /\ page' = r.page
  BY DEF SessionInv, Moved
<1>2. /\ flows'[i] = r.flow
      /\ \A j \in FlowIds \ {i} : flows'[j] = flows[j]
      /\ i \in InFlight /\ InFlight' \subseteq InFlight
      /\ i \in InFlight' <=> r.flow.at # "idle"
      /\ StagesNow = Others(i) \cup {flows[i].at}
      /\ StagesNow' = Others(i) \cup {r.flow.at}
  BY <1>1, MovedFlows
<1>3. RefreshFlow(flows[i], w) /\ \A j \in InFlight : RefreshFlow(flows[j], w)
  BY <1>2 DEF RefreshState
<1>4. ASSUME r.flow = Idle \/ RefreshFlow(r.flow, w)
      PROVE  \A j \in InFlight' : RefreshFlow(flows'[j], w)
  <2>1. r.flow.at # "idle" => r.flow # Idle
    BY DEF Idle
  <2>2. InFlight' \subseteq FlowIds
    BY DEF InFlight
  <2> QED
    BY <1>2, <1>3, <1>4, <2>1, <2>2
<1>5. Untouched => flows[i].at = "protocol"
  BY <1>2 DEF InFlight, Untouched
<1>6. CASE FoundBy(w) = {}
  <2>1. page = Blank \/ flows[i].at = "protocol"
    BY <1>5, <1>6 DEF RefreshState
  <2>2. r.page = Blank /\ (r.flow = Idle \/ RefreshFlow(r.flow, w))
    BY <1>1, <1>3, <1>6, <2>1, NothingFound
  <2>3. \A j \in InFlight' : RefreshFlow(flows'[j], w)
    BY <1>4, <2>2
  <2> QED
    BY <1>1, <1>6, <2>2, <2>3 DEF RefreshState, RefreshFlow
<1>7. CASE FoundBy(w) # {}
  <2>1. /\ Progress(page, Others(i) \cup {flows[i].at}, w)
        /\ flows[i].at = "protocol" \/ page.position \in {None, ShownTo(w)}
    BY <1>2, <1>5, <1>7 DEF RefreshState
  <2>2. OnCourse(r, Others(i), w)
    BY <1>1, <1>3, <1>7, <2>1, RefreshAnswered
  <2>3. /\ r.flow = Idle \/ RefreshFlow(r.flow, w)
        /\ Progress(page', StagesNow', w)
        /\ page'.position \in {None, ShownTo(w)}
    BY <1>1, <1>2, <2>2 DEF OnCourse
  <2>4. \A j \in InFlight' : RefreshFlow(flows'[j], w)
    BY <1>4, <2>3
  <2> QED
    BY <1>7, <2>3, <2>4
    DEF RefreshState, RefreshFlow, Progress, KeyChosen, AccountShown, MarketShown,
        KeysListed, PromosShown, FiguresShown
<1> QED
  BY <1>6, <1>7

-----------------------------------------------------------------------------
(* One flow alone: the figures are asked for, and come, of the market in   *)
(* the signals.                                                            *)
PricedAt(r) ==
    /\ r.flow.at = "figures" => r.flow.market = MarketFor(r.page)
    /\ r.flow.at = "idle" /\ r.page.figures # None => r.page.figures[2] = MarketFor(r.page)

LEMMA ToFiguresPriced ==
    ASSUME NEW pg, NEW f, GoodPage(pg), GoodFlow(f)
    PROVE  PricedAt(ToFigures(pg, f))
<1> DEFINE cleared == [pg EXCEPT !.figures = None]
           next == [f EXCEPT !.at = "figures", !.about = pg.position,
                       !.market = IF pg.market = None THEN DefaultMarket ELSE pg.market]
<1>1. cleared.figures = None /\ cleared.market = pg.market
  BY DEF GoodPage, Page
<1>2. next.at = "figures" /\ next.market = MarketFor(pg)
  BY DEF GoodFlow, FlowRecord, MarketFor
<1>3. \/ ToFigures(pg, f) = [page |-> cleared, flow |-> next]
      \/ ToFigures(pg, f) = [page |-> cleared, flow |-> Idle]
  BY DEF ToFigures
<1> HIDE DEF cleared, next
<1> QED
  BY <1>1, <1>2, <1>3 DEF PricedAt, MarketFor, Idle

LEMMA ToPromosPriced ==
    ASSUME NEW pg, NEW f, GoodPage(pg), GoodFlow(f)
    PROVE  PricedAt(ToPromos(pg, f))
<1>1. CASE pg.position = None
  <2>1. GoodPage([pg EXCEPT !.promos = None])
    BY DEF GoodPage, Page, OrNone
  <2> QED
    BY <1>1, <2>1, ToFiguresPriced DEF ToPromos
<1>2. CASE pg.position # None
  <2> DEFINE next == [f EXCEPT !.at = "promos", !.about = pg.position]
  <2>1. next.at = "promos" /\ ToPromos(pg, f) = [page |-> pg, flow |-> next]
    BY <1>2 DEF GoodFlow, FlowRecord, ToPromos
  <2> HIDE DEF next
  <2> QED
    BY <2>1 DEF PricedAt
<1> QED
  BY <1>1, <1>2

LEMMA KeyringKnownPriced ==
    ASSUME NEW pg, NEW f, GoodPage(pg), GoodFlow(f), f.best \in f.found,
           NEW keys \in SUBSET Assets
    PROVE  PricedAt(KeyringKnown(pg, f, keys))
<1> DEFINE entry == EntryFor(f.found, f.best)
           next == [pg EXCEPT !.keyring = keys, !.found = f.found, !.selected = entry]
<1>1. entry \in f.found
  BY DEF EntryFor
<1>2. f.found \in SUBSET Assets /\ entry \in Assets
  BY <1>1 DEF GoodFlow, FlowRecord
<1> HIDE DEF entry
<1>3. GoodPage(next)
  BY <1>2 DEF GoodPage, Page, OrNone
<1> QED
  BY <1>3, ToPromosPriced DEF KeyringKnown, entry

LEMMA ToKeyringPriced ==
    ASSUME NEW pg, NEW f, GoodPage(pg), GoodFlow(f), f.best \in f.found
    PROVE  PricedAt(ToKeyring(pg, f))
<1>1. CASE pg.position = None
  BY <1>1, KeyringKnownPriced DEF ToKeyring
<1>2. CASE pg.position # None /\ DelegatesOf(pg.position) = {}
  <2>1. {Seed[pg.position]} \in SUBSET Assets
    BY <1>2, KeyringTypes DEF GoodPage, Page, OrNone
  <2>2. PricedAt(KeyringKnown(pg, f, {Seed[pg.position]}))
    BY <2>1, KeyringKnownPriced
  <2> QED
    BY <1>2, <2>2 DEF ToKeyring
<1>3. CASE pg.position # None /\ DelegatesOf(pg.position) # {}
  <2> DEFINE next == [f EXCEPT !.at = "keyring", !.about = pg.position]
  <2>1. next.at = "keyring" /\ ToKeyring(pg, f) = [page |-> pg, flow |-> next]
    BY <1>3 DEF GoodFlow, FlowRecord, ToKeyring
  <2> HIDE DEF next
  <2> QED
    BY <2>1 DEF PricedAt
<1> QED
  BY <1>1, <1>2, <1>3

LEMMA ToPositionPriced ==
    ASSUME NEW pg, NEW f, GoodPage(pg), GoodFlow(f), NEW keys
    PROVE  PricedAt(ToPosition(pg, f, keys))
<1>1. CASE keys = {}
  BY <1>1, ToFiguresPriced DEF ToPosition
<1>2. CASE keys # {}
  <2> DEFINE shown == [pg EXCEPT !.positionPda = PositionOf[Best(keys)], !.key = Best(keys)]
             next == [f EXCEPT !.at = "position", !.best = Best(keys), !.found = keys]
  <2>1. next.at = "position" /\ ToPosition(pg, f, keys) = [page |-> shown, flow |-> next]
    BY <1>2 DEF GoodFlow, FlowRecord, ToPosition
  <2> HIDE DEF shown, next
  <2> QED
    BY <2>1 DEF PricedAt
<1> QED
  BY <1>1, <1>2

LEMMA AnsweredPriced ==
    ASSUME NEW pg, NEW f, NEW r, GoodPage(pg), GoodFlow(f),
           f.at = "figures" => f.market = MarketFor(pg),
           Answered(f, pg, r)
    PROVE  PricedAt(r)
<1>1. f \in FlowRecord /\ pg \in Page
  BY DEF GoodFlow, GoodPage
<1>2. ASSUME NEW at \in {"accounts", "admins", "delegates", "market"}, NEW pg2
      PROVE  PricedAt([page |-> pg2, flow |-> [f EXCEPT !.at = at]])
  BY <1>1, <1>2 DEF PricedAt, FlowRecord
<1>3. CASE f.at \in {"protocol", "accounts", "position"}
  BY <1>2, <1>3 DEF Answered
<1>4. CASE f.at = "admins"
  BY <1>2, <1>4, ToPositionPriced DEF Answered
<1>5. CASE f.at = "delegates"
  BY <1>5, ToPositionPriced DEF Answered
<1>6. CASE f.at = "market"
  <2> DEFINE pg2 == [pg EXCEPT !.market = MarketOf[PositionOf[f.best]]]
  <2>1. f.best \in f.found /\ f.best \in Assets
    BY <1>1, <1>6 DEF GoodFlow, FlowRecord
  <2>2. GoodPage(pg2)
    BY <2>1, ConstantTypes DEF GoodPage, Page, OrNone
  <2>3. r = ToKeyring(pg2, f)
    BY <1>6 DEF Answered
  <2> HIDE DEF pg2
  <2> QED
    BY <2>1, <2>2, <2>3, ToKeyringPriced
<1>7. CASE f.at = "keyring"
  <2>1. f.best \in f.found /\ KeyringOf(f.about) \in SUBSET Assets
    BY <1>7, KeyringTypes DEF GoodFlow
  <2> QED
    BY <1>7, <2>1, KeyringKnownPriced DEF Answered
<1>8. CASE f.at = "selected"
  <2>1. GoodPage(SelectedShown(pg, f.best))
    BY <1>8, ConstantTypes DEF SelectedShown, GoodPage, Page, OrNone, GoodFlow
  <2> QED
    BY <1>8, <2>1, ToPromosPriced DEF Answered
<1>9. CASE f.at = "promos"
  <2>1. GoodPage([pg EXCEPT !.promos = f.about])
    BY <1>9 DEF GoodPage, Page, OrNone, GoodFlow
  <2> QED
    BY <1>9, <2>1, ToFiguresPriced DEF Answered
<1>10. CASE f.at = "figures"
  <2> DEFINE pg2 == [pg EXCEPT !.figures = <<f.about, f.market>>]
  <2>1. pg2.market = pg.market /\ pg2.figures[2] = f.market
    BY <1>1 DEF Page
  <2>2. r = [page |-> pg2, flow |-> Idle]
    BY <1>10 DEF Answered
  <2> HIDE DEF pg2
  <2> QED
    BY <1>10, <2>1, <2>2 DEF PricedAt, MarketFor, Idle
<1> QED
  BY <1>1, <1>3, <1>4, <1>5, <1>6, <1>7, <1>8, <1>9, <1>10 DEF Answered

LEMMA AloneGoesOn ==
    ASSUME SessionInv, \A i, j \in InFlight : i = j, Priced,
           NEW i \in FlowIds, flows[i].at # "idle",
           NEW r, Moved(i, r), Answered(flows[i], page, r)
    PROVE  (\A k, j \in InFlight : k = j)' /\ Priced'
<1>1. /\ GoodPage(page) /\ GoodFlow(flows[i]) /\ flows \in [FlowIds -> FlowRecord]
      /\ page' = r.page
  BY DEF SessionInv, Moved
<1>2. /\ flows'[i] = r.flow
      /\ i \in InFlight /\ InFlight' \subseteq InFlight
      /\ i \in InFlight' <=> r.flow.at # "idle"
  BY <1>1, MovedFlows
<1>3. InFlight' \subseteq {i}
  BY <1>2
<1>4. flows[i].at = "figures" => flows[i].market = MarketFor(page)
  BY <1>2 DEF Priced
<1>5. PricedAt(r)
  BY <1>1, <1>4, AnsweredPriced
<1>6. /\ \A j \in InFlight' : flows'[j].at = "figures" => flows'[j].market = MarketFor(page')
      /\ InFlight' = {} /\ page'.figures # None => page'.figures[2] = MarketFor(page')
  BY <1>1, <1>2, <1>3, <1>5 DEF PricedAt
<1> QED
  BY <1>2, <1>6 DEF Priced, MarketFor

-----------------------------------------------------------------------------
(* A switch alone.                                                         *)

LEMMA SwitchAnswered ==
    ASSUME NEW pg, NEW f, NEW r, GoodPage(pg), GoodFlow(f), pg.positionPda \in Positions,
           SwitchFlow(f, pg), Answered(f, pg, r)
    PROVE  /\ r.page.positionPda \in Positions
           /\ \/ r.flow.at # "idle" /\ SwitchFlow(r.flow, r.page)
              \/ r.flow.at = "idle" /\ Switched(r.page)
<1>1. f \in FlowRecord /\ pg \in Page
  BY DEF GoodFlow, GoodPage
<1>2. CASE f.at = "selected"
  <2> DEFINE pg2 == SelectedShown(pg, f.best)
             g == [f EXCEPT !.at = "promos", !.about = pg2.position]
  <2>1. /\ pg2.position = pg.positionPda /\ pg2.positionPda = pg.positionPda
        /\ pg2.position # None
    BY <1>1, <1>2, ConstantTypes DEF SwitchFlow, SelectedShown, Page
  <2>2. g.at = "promos" /\ g.about = pg2.position
    BY <1>1 DEF FlowRecord
  <2>3. r = [page |-> pg2, flow |-> g]
    BY <1>2, <2>1 DEF Answered, ToPromos
  <2> HIDE DEF pg2, g
  <2> QED
    BY <2>1, <2>2, <2>3 DEF SwitchFlow
<1>3. CASE f.at = "promos"
  <2> DEFINE pg2 == [pg EXCEPT !.promos = f.about]
             pg3 == [pg2 EXCEPT !.figures = None]
             g == [f EXCEPT !.at = "figures", !.about = pg2.position,
                      !.market = IF pg2.market = None THEN DefaultMarket ELSE pg2.market]
  <2>1. pg.position = pg.positionPda /\ f.about = pg.positionPda /\ pg.initialized
    BY <1>3, ConstantTypes DEF SwitchFlow, GoodPage
  <2>2. pg2.initialized /\ pg2.position = pg.position
    BY <1>1, <2>1 DEF Page
  <2>3. /\ pg3.position = pg.position /\ pg3.positionPda = pg.positionPda
        /\ pg3.promos = f.about
    BY <1>1 DEF Page
  <2>4. g.at = "figures" /\ g.about = pg2.position
    BY <1>1 DEF FlowRecord
  <2>5. r = [page |-> pg3, flow |-> g]
    BY <1>3, <2>2 DEF Answered, ToFigures
  <2> HIDE DEF pg2, pg3, g
  <2> QED
    BY <2>1, <2>2, <2>3, <2>4, <2>5 DEF SwitchFlow
<1>4. CASE f.at = "figures"
  <2> DEFINE pg2 == [pg EXCEPT !.figures = <<f.about, f.market>>]
  <2>1. /\ pg2.figures = <<f.about, f.market>> /\ pg2.position = pg.position
        /\ pg2.positionPda = pg.positionPda /\ pg2.promos = pg.promos
    BY <1>1 DEF Page
  <2>2. f.about \in Positions /\ f.market \in Markets
    BY <1>4 DEF GoodFlow
  <2>3. pg2.figures # None /\ pg2.figures[1] = f.about
    BY <2>1, <2>2, NoneIsNoFigures
  <2>4. r = [page |-> pg2, flow |-> Idle]
    BY <1>4 DEF Answered
  <2> HIDE DEF pg2
  <2> QED
    BY <1>4, <2>1, <2>3, <2>4 DEF SwitchFlow, Switched, Idle
<1> QED
  BY <1>2, <1>3, <1>4 DEF SwitchFlow

LEMMA SwitchGoesOn ==
    ASSUME SessionInv, \A i, j \in InFlight : i = j, SwitchState,
           NEW i \in FlowIds, flows[i].at # "idle",
           NEW r, Moved(i, r), Answered(flows[i], page, r)
    PROVE  SwitchState'
<1>1. /\ GoodPage(page) /\ GoodFlow(flows[i]) /\ flows \in [FlowIds -> FlowRecord]
      /\ page' = r.page
  BY DEF SessionInv, Moved
<1>2. /\ flows'[i] = r.flow
      /\ i \in InFlight /\ InFlight' \subseteq InFlight
      /\ i \in InFlight' <=> r.flow.at # "idle"
  BY <1>1, MovedFlows
<1>3. InFlight' \subseteq {i}
  BY <1>2
<1>4. page.positionPda \in Positions /\ SwitchFlow(flows[i], page)
  BY <1>2 DEF SwitchState
<1>5. /\ page'.positionPda \in Positions
      /\ \/ r.flow.at # "idle" /\ SwitchFlow(r.flow, page')
         \/ r.flow.at = "idle" /\ Switched(page')
  BY <1>1, <1>4, SwitchAnswered
<1>6. /\ \A j \in InFlight' : SwitchFlow(flows'[j], page')
      /\ InFlight' = {} => Switched(page')
  BY <1>2, <1>3, <1>5
<1> QED
  BY <1>5, <1>6 DEF SwitchState, SwitchFlow, Switched

-----------------------------------------------------------------------------
(* The histories go on.                                                    *)

LEMMA HistoryStart == SessionInit => HistoryInv
<1> SUFFICES ASSUME SessionInit PROVE HistoryInv
  OBVIOUS
<1>1. InFlight = {}
  BY DEF SessionInit, InFlight, Idle
<1>2. /\ story = [wallets |-> {}, kinds |-> {}, failed |-> FALSE, overlapped |-> FALSE]
      /\ page.figures = None
  BY DEF SessionInit, Blank
<1> QED
  BY <1>1, <1>2 DEF HistoryInv, Undisturbed, Priced

LEMMA HistorySpoilt == story' = Spoilt => HistoryInv'
  BY DEF Spoilt, HistoryInv, Undisturbed, Alone

LEMMA HistoryAnswered ==
    ASSUME SessionInv, HistoryInv, NEW i \in FlowIds, Answer(i)
    PROVE  HistoryInv'
<1>1. CASE story' = Spoilt
  BY <1>1, HistorySpoilt
<1>2. CASE story' # Spoilt
  <2>1. /\ flows[i].at # "idle" /\ story' = story
        /\ \E r : Moved(i, r) /\ Answered(flows[i], page, r)
    BY <1>2, RightOrSpoilt
  <2>2. PICK r : Moved(i, r) /\ Answered(flows[i], page, r)
    BY <2>1
  <2>3. InFlight' \subseteq InFlight
    BY <2>1, <2>2, MovedFlows DEF SessionInv
  <2>4. /\ story' \in [wallets : SUBSET OrNone(Wallets), kinds : SUBSET {"refresh", "switch"},
                       failed : BOOLEAN, overlapped : BOOLEAN]
        /\ ~story'.failed /\ InFlight' # {} => story'.kinds # {} /\ story'.wallets # {}
    BY <2>1, <2>3 DEF HistoryInv
  <2>5. ASSUME Alone
        PROVE  (\A k, j \in InFlight : k = j)' /\ Priced'
    <3>1. (\A k, j \in InFlight : k = j) /\ Priced
      BY <2>5 DEF HistoryInv
    <3> QED
      BY <2>1, <2>2, <3>1, AloneGoesOn
  <2>6. ASSUME NEW w \in OrNone(Wallets), Undisturbed(w)
        PROVE  RefreshState(w)'
    <3>1. RefreshState(w)
      BY <2>6 DEF HistoryInv
    <3> QED
      BY <2>1, <2>2, <3>1, RefreshGoesOn
  <2>7. ASSUME Alone, story.kinds = {"switch"}
        PROVE  SwitchState'
    <3>1. (\A k, j \in InFlight : k = j) /\ SwitchState
      BY <2>7 DEF HistoryInv
    <3> QED
      BY <2>1, <2>2, <3>1, SwitchGoesOn
  <2>8. (Alone' <=> Alone) /\ \A w : Undisturbed(w)' <=> Undisturbed(w)
    BY <2>1 DEF Alone, Undisturbed
  <2>9. \A w \in OrNone(Wallets) : Undisturbed(w)' => RefreshState(w)'
    BY <2>6, <2>8
  <2>10. Alone' => (\A k, j \in InFlight : k = j)' /\ Priced'
    BY <2>5, <2>8
  <2>11. Alone' /\ story'.kinds = {"switch"} => SwitchState'
    BY <2>1, <2>7, <2>8
  <2> QED
    BY <2>4, <2>9, <2>10, <2>11 DEF HistoryInv
<1> QED
  BY <1>1, <1>2

(* What has begun is told: alone if nothing else is under way, with all    *)
(* that is otherwise.                                                      *)
LEMMA BegunTold ==
    ASSUME HistoryInv, NEW kind \in {"refresh", "switch"}, NEW v \in OrNone(Wallets),
           NEW many \in BOOLEAN, story' = Begun(kind, v, many)
    PROVE  /\ story' \in [wallets : SUBSET OrNone(Wallets), kinds : SUBSET {"refresh", "switch"},
                          failed : BOOLEAN, overlapped : BOOLEAN]
           /\ ~story'.failed => story'.kinds # {} /\ story'.wallets # {}
           /\ Alone' => InFlight = {} /\ ~many /\ story'.kinds = {kind}
           /\ \A w : Undisturbed(w)' =>
                 w = v /\ kind = "refresh" /\ (InFlight = {} \/ Undisturbed(w))
<1>1. /\ story \in [wallets : SUBSET OrNone(Wallets), kinds : SUBSET {"refresh", "switch"},
                    failed : BOOLEAN, overlapped : BOOLEAN]
      /\ ~story.failed /\ InFlight # {} => story.kinds # {} /\ story.wallets # {}
  BY DEF HistoryInv
<1>2. CASE InFlight = {}
  <2>1. story' = [wallets |-> {v}, kinds |-> {kind}, failed |-> FALSE, overlapped |-> many]
    BY <1>2 DEF Begun
  <2>2. /\ {v} \in SUBSET OrNone(Wallets) /\ {kind} \in SUBSET {"refresh", "switch"}
        /\ {v} # {} /\ {kind} # {}
    OBVIOUS
  <2>3. \A w : {v} = {w} => w = v
    OBVIOUS
  <2>4. {kind} = {"refresh"} => kind = "refresh"
    OBVIOUS
  <2> QED
    BY <1>2, <2>1, <2>2, <2>3, <2>4 DEF Alone, Undisturbed
<1>3. CASE InFlight # {} /\ story.failed
  <2>1. story' = story
    BY <1>3 DEF Begun
  <2> QED
    BY <1>1, <1>3, <2>1 DEF Alone, Undisturbed
<1>4. CASE InFlight # {} /\ ~story.failed
  <2> DEFINE wallets == story.wallets \cup {v}
             kinds == story.kinds \cup {kind}
  <2>1. story' = [story EXCEPT !.wallets = wallets, !.kinds = kinds, !.overlapped = TRUE]
    BY <1>4 DEF Begun
  <2>2. /\ wallets \in SUBSET OrNone(Wallets) /\ kinds \in SUBSET {"refresh", "switch"}
        /\ wallets # {} /\ kinds # {}
    BY <1>1
  <2>3. \A w : wallets = {w} => w = v /\ story.wallets = {w}
    BY <1>1, <1>4
  <2>4. kinds = {"refresh"} => kind = "refresh" /\ story.kinds = {"refresh"}
    BY <1>1, <1>4
  <2> HIDE DEF wallets, kinds
  <2>5. /\ story' \in [wallets : SUBSET OrNone(Wallets), kinds : SUBSET {"refresh", "switch"},
                       failed : BOOLEAN, overlapped : BOOLEAN]
        /\ story'.wallets = wallets /\ story'.kinds = kinds /\ story'.overlapped
        /\ story'.failed = story.failed
    BY <1>1, <2>1, <2>2
  <2> QED
    BY <1>4, <2>2, <2>3, <2>4, <2>5 DEF Alone, Undisturbed
<1> QED
  BY <1>2, <1>3, <1>4

(* A refresh of v begins, in one flow or in more; the page is as it was, or *)
(* blank.                                                                  *)
LEMMA RefreshBegins ==
    ASSUME SessionInv, HistoryInv, NEW v \in OrNone(Wallets), NEW begun \in SUBSET FlowIds,
           begun # {}, \A j \in begun : flows'[j] = Flow("protocol", v),
           \A j \in FlowIds \ begun : flows'[j] = flows[j],
           page' = page \/ page' = Blank,
           NEW w \in OrNone(Wallets),
           w = v, InFlight = {} \/ Undisturbed(w)
    PROVE  RefreshState(w)'
<1>1. \A j \in begun : flows'[j].at = "protocol" /\ flows'[j].wallet = w
  BY DEF Flow, Idle
<1>2. InFlight' \subseteq begun \cup InFlight /\ InFlight' # {} /\ InFlight \subseteq FlowIds
  BY <1>1 DEF InFlight
<1>3. InFlight # {} => RefreshState(w)
  BY DEF HistoryInv
<1>4. \A j \in InFlight' : RefreshFlow(flows'[j], w)
  <2> SUFFICES ASSUME NEW j \in InFlight' PROVE RefreshFlow(flows'[j], w)
    OBVIOUS
  <2>1. CASE j \in begun
    BY <1>1, <2>1 DEF RefreshFlow
  <2>2. CASE j \notin begun
    <3>1. j \in InFlight /\ flows'[j] = flows[j]
      BY <1>2, <2>2
    <3> QED
      BY <1>3, <3>1 DEF RefreshState
  <2> QED
    BY <2>1, <2>2
<1>5. Untouched => Untouched'
  BY <1>1, <1>2 DEF Untouched
<1>6. InFlight = {} => Untouched
  BY DEF Untouched
<1>7. CASE FoundBy(w) = {}
  <2>1. page = Blank \/ Untouched
    BY <1>3, <1>6, <1>7 DEF RefreshState
  <2>2. page' = Blank \/ (InFlight' # {} /\ Untouched')
    BY <1>2, <1>5, <2>1
  <2> QED
    BY <1>4, <1>7, <2>2 DEF RefreshState, RefreshFlow
<1>8. CASE FoundBy(w) # {}
  <2>1. "protocol" \in StagesNow' /\ "protocol" \in ToChoose
    BY <1>1 DEF StagesNow, ToChoose
  <2>2. StagesNow' = StagesNow' \cup {"protocol"}
    BY <2>1
  <2>3. Progress(page', StagesNow' \cup {"protocol"}, w)
    BY <2>1, ProgressAt
  <2>4. Progress(page', StagesNow', w)
    BY <2>2, <2>3
  <2>5. Untouched \/ page.position \in {None, ShownTo(w)}
    BY <1>3, <1>6, <1>8 DEF RefreshState
  <2>6. Untouched' \/ page'.position \in {None, ShownTo(w)}
    BY <1>5, <2>5 DEF Blank
  <2> QED
    BY <1>4, <1>8, <2>4, <2>6
    DEF RefreshState, RefreshFlow, Progress, KeyChosen, AccountShown, MarketShown,
        KeysListed, PromosShown, FiguresShown
<1> QED
  BY <1>7, <1>8

LEMMA HistoryRefreshed ==
    ASSUME SessionInv, HistoryInv, NEW i \in FlowIds, NEW v \in OrNone(Wallets),
           StartRefresh(i, v), page' = page
    PROVE  HistoryInv'
<1>1. /\ flows' = [flows EXCEPT ![i] = Flow("protocol", v)]
      /\ story' = Begun("refresh", v, FALSE)
      /\ flows \in [FlowIds -> FlowRecord]
  BY DEF StartRefresh, SessionInv
<1>2. /\ story' \in [wallets : SUBSET OrNone(Wallets), kinds : SUBSET {"refresh", "switch"},
                     failed : BOOLEAN, overlapped : BOOLEAN]
      /\ ~story'.failed => story'.kinds # {} /\ story'.wallets # {}
      /\ Alone' => InFlight = {} /\ story'.kinds = {"refresh"}
      /\ \A w : Undisturbed(w)' => w = v /\ (InFlight = {} \/ Undisturbed(w))
  BY <1>1, BegunTold
<1>3. /\ flows'[i] = Flow("protocol", v)
      /\ \A j \in FlowIds \ {i} : flows'[j] = flows[j]
      /\ flows'[i].at = "protocol"
  BY <1>1 DEF Flow, Idle
<1>4. InFlight' = InFlight \cup {i}
  BY <1>3 DEF InFlight
<1>5. Alone' => (\A k, j \in InFlight : k = j)' /\ Priced'
  BY <1>2, <1>3, <1>4 DEF Priced
<1>6. \A w \in OrNone(Wallets) : Undisturbed(w)' => RefreshState(w)'
  <2> DEFINE begun == {i}
  <2>1. /\ begun \in SUBSET FlowIds /\ begun # {}
        /\ \A j \in begun : flows'[j] = Flow("protocol", v)
        /\ \A j \in FlowIds \ begun : flows'[j] = flows[j]
    BY <1>3
  <2> HIDE DEF begun
  <2> QED
    BY <1>2, <2>1, RefreshBegins
<1> QED
  BY <1>2, <1>5, <1>6 DEF HistoryInv

LEMMA HistorySwitched ==
    ASSUME SessionInv, HistoryInv, NEW a \in Assets, SwitchPosition(a)
    PROVE  HistoryInv'
<1>1. PICK i \in FlowIds :
        flows' = [flows EXCEPT ![i] = [Flow("selected", wallet) EXCEPT !.best = a]]
  BY DEF SwitchPosition
<1> DEFINE g == [Flow("selected", wallet) EXCEPT !.best = a]
<1>2. /\ page' = Selected(page, a) /\ story' = Begun("switch", wallet, FALSE)
      /\ wallet \in OrNone(Wallets) /\ flows \in [FlowIds -> FlowRecord] /\ page \in Page
  BY DEF SwitchPosition, SessionInv, GoodPage
<1>3. g.at = "selected" /\ g.best = a
  BY DEF Flow, Idle
<1> HIDE DEF g
<1>4. /\ story' \in [wallets : SUBSET OrNone(Wallets), kinds : SUBSET {"refresh", "switch"},
                     failed : BOOLEAN, overlapped : BOOLEAN]
      /\ ~story'.failed => story'.kinds # {} /\ story'.wallets # {}
      /\ Alone' => InFlight = {}
      /\ \A w : ~Undisturbed(w)'
  BY <1>2, BegunTold
<1>5. flows'[i] = g /\ \A j \in FlowIds \ {i} : flows'[j] = flows[j]
  BY <1>1, <1>2 DEF g
<1>6. InFlight' = InFlight \cup {i}
  BY <1>3, <1>5 DEF InFlight
<1>7. Alone' => (\A k, j \in InFlight : k = j)' /\ Priced'
  BY <1>3, <1>4, <1>5, <1>6 DEF Priced
<1>8. page'.positionPda = PositionOf[a] /\ PositionOf[a] \in Positions
  BY <1>2, ConstantTypes DEF Selected, Page
<1>9. Alone' => SwitchState'
  BY <1>3, <1>4, <1>5, <1>6, <1>8 DEF SwitchState, SwitchFlow
<1> QED
  BY <1>4, <1>7, <1>9 DEF HistoryInv

LEMMA HistoryBrowsed ==
    ASSUME SessionInv, HistoryInv, Browse
    PROVE  HistoryInv'
<1>1. ASSUME NEW w \in Wallets, Connect(w)
      PROVE  HistoryInv'
  BY <1>1, HistoryRefreshed DEF Connect, OrNone
<1>2. CASE Disconnect
  BY <1>2, HistorySpoilt DEF Disconnect
<1>3. CASE ChangeCluster
  <2>1. PICK i \in FlowIds, j \in FlowIds :
          /\ i # j
          /\ flows' = [flows EXCEPT ![i] = Flow("protocol", wallet),
                                    ![j] = Flow("protocol", wallet)]
    BY <1>3 DEF ChangeCluster
  <2>2. /\ page' = Blank /\ story' = Begun("refresh", wallet, TRUE)
        /\ wallet \in OrNone(Wallets) /\ flows \in [FlowIds -> FlowRecord]
    BY <1>3 DEF ChangeCluster, SessionInv
  <2>3. /\ story' \in [wallets : SUBSET OrNone(Wallets), kinds : SUBSET {"refresh", "switch"},
                       failed : BOOLEAN, overlapped : BOOLEAN]
        /\ ~story'.failed => story'.kinds # {} /\ story'.wallets # {}
        /\ ~Alone'
        /\ \A w : Undisturbed(w)' => w = wallet /\ (InFlight = {} \/ Undisturbed(w))
    BY <2>2, BegunTold
  <2> DEFINE begun == {i, j}
  <2>4. /\ begun \in SUBSET FlowIds /\ begun # {}
        /\ \A k \in begun : flows'[k] = Flow("protocol", wallet)
        /\ \A k \in FlowIds \ begun : flows'[k] = flows[k]
    BY <2>1, <2>2
  <2> HIDE DEF begun
  <2>5. \A w \in OrNone(Wallets) : Undisturbed(w)' => RefreshState(w)'
    BY <2>2, <2>3, <2>4, RefreshBegins
  <2> QED
    BY <2>3, <2>5 DEF HistoryInv
<1>4. CASE ClickRefresh
  BY <1>4, HistoryRefreshed DEF ClickRefresh, SessionInv
<1>5. ASSUME NEW a \in Assets, SwitchPosition(a)
      PROVE  HistoryInv'
  BY <1>5, HistorySwitched
<1> QED
  BY <1>1, <1>2, <1>3, <1>4, <1>5 DEF Browse

LEMMA HistoryStill == HistoryInv /\ UNCHANGED sessionVars => HistoryInv'
<1> SUFFICES ASSUME HistoryInv, UNCHANGED sessionVars PROVE HistoryInv'
  OBVIOUS
<1>1. page' = page /\ flows' = flows /\ story' = story
  BY DEF sessionVars
<1>2. InFlight' = InFlight /\ StagesNow' = StagesNow /\ (Untouched' <=> Untouched)
  BY <1>1 DEF InFlight, StagesNow, Untouched
<1>3. ASSUME NEW w PROVE RefreshState(w)' <=> RefreshState(w)
  BY <1>1, <1>2
  DEF RefreshState, RefreshFlow, Progress, KeyChosen, AccountShown, MarketShown,
      KeysListed, PromosShown, FiguresShown
<1>4. (SwitchState' <=> SwitchState) /\ (Priced' <=> Priced)
  BY <1>1, <1>2 DEF SwitchState, SwitchFlow, Switched, Priced, MarketFor
<1> QED
  BY <1>1, <1>2, <1>3, <1>4 DEF HistoryInv, Alone, Undisturbed

-----------------------------------------------------------------------------
(* The modal.                                                              *)

(* A set of natural numbers has a least one.                               *)
LEMMA LeastIsThere ==
    ASSUME NEW S \in SUBSET Nat, S # {}
    PROVE  Min(S) \in S
<1>1. \E n \in S : \A m \in S : ~(<<m, n>> \in OpToRel(<, Nat))
  BY NatLessThanWellFounded, WFMin
<1>2. \E n \in S : \A m \in S : ~(m < n)
  BY <1>1 DEF OpToRel
<1>3. \E n \in S : \A m \in S : n <= m
  BY <1>2
<1> QED
  BY <1>3 DEF Min

(* The form lists keys, all of those of the keyring but one at most.       *)
LEMMA RevocableTypes ==
    ASSUME NEW rows \in Seq(Assets), NEW shown
    PROVE  /\ Revocable(shown, rows) \in Seq(Assets)
           /\ Len(Revocable(shown, rows)) >= Len(rows) - 1
<1> DEFINE at == {i \in 1 .. Len(rows) : rows[i] = Seed[shown]}
<1>1. CASE shown = None \/ at = {}
  <2>1. Revocable(shown, rows) = rows
    BY <1>1 DEF Revocable, RemoveFirst
  <2> QED
    BY <2>1
<1>2. CASE shown # None /\ at # {}
  <2> DEFINE i == Min(at)
  <2>1. Revocable(shown, rows) = SubSeq(rows, 1, i - 1) \o SubSeq(rows, i + 1, Len(rows))
    BY <1>2 DEF Revocable, RemoveFirst, RemoveAt, SelectInSeq
  <2>2. i \in 1 .. Len(rows)
    <3>1. at \in SUBSET Nat /\ at # {}
      BY <1>2
    <3> HIDE DEF at
    <3>2. i \in at
      BY <3>1, LeastIsThere
    <3> QED
      BY <3>2 DEF at
  <2> HIDE DEF i
  <2> DEFINE before == SubSeq(rows, 1, i - 1)
             after == SubSeq(rows, i + 1, Len(rows))
  <2>3. before \in Seq(Assets) /\ Len(before) = i - 1
    BY <2>2
  <2>4. after \in Seq(Assets) /\ Len(after) = Len(rows) - i
    BY <2>2
  <2> HIDE DEF before, after
  <2>5. before \o after \in Seq(Assets) /\ Len(before \o after) = Len(rows) - 1
    BY <2>2, <2>3, <2>4
  <2> QED
    BY <2>1, <2>5 DEF before, after
<1> QED
  BY <1>1, <1>2

LEMMA ListingTypes ==
    ASSUME NEW pg, GoodPage(pg), NEW rows \in Listings(pg)
    PROVE  rows \in Seq(Assets) /\ Len(rows) = Cardinality(pg.keyring)
<1>1. pg.keyring \in SUBSET Assets /\ IsFiniteSet(pg.keyring)
  BY FS_Subset, WebSessionAssumption DEF GoodPage, Page
<1>2. Cardinality(pg.keyring) \in Nat
  BY <1>1, FS_CardinalityType
<1>3. rows \in [1 .. Cardinality(pg.keyring) -> pg.keyring]
  BY DEF Listings, SetToSeqs
<1> QED
  BY <1>1, <1>2, <1>3

ModalTypes ==
    /\ modal.at \in {"closed", "form", "confirm", "sending"}
    /\ modal.kind \in {"none", "trade", "create", "revoke"}
    /\ modal.row \in 0 .. Cardinality(Assets)
    /\ modal.rows \in Seq(Assets)
    /\ {modal.ticked, modal.target} \subseteq OrNone(Assets)
    /\ modal.signer \in OrNone(Wallets)
    /\ modal.at = "sending" <=> modal.by # None
    /\ modal.at = "closed" => modal = Closed

LEMMA ClosedTypes ==
    ASSUME modal = Closed
    PROVE  ModalTypes
<1>1. Cardinality(Assets) \in Nat
  BY FS_CardinalityType, WebSessionAssumption
<1> QED
  BY <1>1 DEF ModalTypes, Closed, OrNone

(* What has landed once is spent, and a spent transaction does not land.   *)
ModalInv ==
    /\ modal = [at |-> modal.at, kind |-> modal.kind, rows |-> modal.rows,
                row |-> modal.row, ticked |-> modal.ticked, reread |-> modal.reread,
                target |-> modal.target, signer |-> modal.signer, good |-> modal.good,
                by |-> modal.by, spent |-> modal.spent, landings |-> modal.landings]
    /\ modal.by \in OrNone(Wallets)
    /\ sending \in OrNone(Wallets)
    /\ modal.landings \in {0, 1}
    /\ modal.landings = 1 => modal.spent

(* The row chosen holds the key it held when it was chosen, unless the list *)
(* was read anew.                                                          *)
ChosenInv ==
    /\ /\ modal.kind = "revoke" /\ modal.at = "form" /\ ~modal.reread
       => modal.ticked = Target(page, modal.rows, modal.row)
    /\ RevokesTheChosen

WebInv == SessionInv /\ HistoryInv /\ ModalInv /\ ModalTypes /\ ChosenInv

LEMMA WebStart == Init => WebInv
<1> SUFFICES ASSUME Init PROVE WebInv
  OBVIOUS
<1>1. /\ wallet = None /\ page = Blank /\ protocolExists = FALSE /\ refreshing = FALSE
      /\ flows = [i \in FlowIds |-> Idle]
  BY DEF Init, SessionInit
<1>2. Idle \in FlowRecord
  BY IdleIsGood DEF GoodFlow
<1>3. SessionInv
  BY <1>1, <1>2, IdleIsGood, BlankIsGood DEF SessionInv, Busy, OrNone
<1>4. ModalInv
  BY DEF Init, Closed, ModalInv, OrNone
<1>5. ChosenInv
  BY DEF Init, Closed, ChosenInv, RevokesTheChosen
<1>6. ModalTypes
  BY ClosedTypes DEF Init
<1> QED
  BY <1>3, <1>4, <1>5, <1>6, HistoryStart DEF WebInv, Init

LEMMA SessionStill ==
    ASSUME SessionInv, UNCHANGED sessionVars
    PROVE  SessionInv'
<1>1. GoodPage(page)' /\ (\A i \in FlowIds : GoodFlow(flows[i])')
  BY DEF SessionInv, sessionVars, GoodPage, GoodFlow
<1> QED
  BY <1>1 DEF SessionInv, sessionVars, Busy

(* Of the steps of the modal only a confirmation lost counts a landing.    *)
LEMMA ModalKeeps == WebInv /\ Modal => WebInv'
<1> SUFFICES ASSUME WebInv, Modal PROVE WebInv'
  OBVIOUS
<1>1. /\ SessionInv /\ HistoryInv /\ ModalInv /\ None \in OrNone(Wallets)
      /\ wallet \in OrNone(Wallets) /\ ModalTypes /\ ChosenInv
      /\ Cardinality(Assets) \in Nat /\ GoodPage(page)
  BY FS_CardinalityType, WebSessionAssumption DEF WebInv, SessionInv, OrNone
<1> DEFINE Kept == ModalInv' /\ ModalTypes' /\ ChosenInv'
<1>2. ASSUME UNCHANGED sessionVars, Kept
      PROVE  WebInv'
  BY <1>1, <1>2, SessionStill, HistoryStill DEF WebInv
<1>3. ASSUME modal' = Closed, sending' \in OrNone(Wallets)
      PROVE  Kept
  <2>1. ModalInv' /\ ChosenInv'
    BY <1>1, <1>3 DEF Closed, ModalInv, ChosenInv, RevokesTheChosen
  <2>2. ModalTypes'
    BY <1>1, <1>3 DEF Closed, ModalTypes, OrNone
  <2> QED
    BY <2>1, <2>2
<1> HIDE DEF Kept
<1>4. ASSUME OpenTrade \/ OpenCreate
      PROVE  WebInv'
  <2>1. UNCHANGED sessionVars /\ ModalInv'
    BY <1>1, <1>4 DEF OpenTrade, OpenCreate, Closed, ModalInv
  <2>2. ChosenInv'
    BY <1>4 DEF OpenTrade, OpenCreate, Closed, ChosenInv, RevokesTheChosen
  <2>3. ModalTypes'
    <3>1. /\ modal'.at = "form" /\ modal'.kind \in {"trade", "create"} /\ modal'.row = 0
          /\ modal'.rows = <<>> /\ modal'.ticked = None /\ modal'.target = None
          /\ modal'.signer = None /\ modal'.by = None
      BY <1>4 DEF OpenTrade, OpenCreate, Closed
    <3> QED
      BY <1>1, <3>1 DEF ModalTypes, OrNone
  <2> QED
    BY <1>2, <2>1, <2>2, <2>3 DEF Kept
<1>5. CASE OpenRevoke
  <2>1. PICK rows \in Listings(page) :
                      modal' = [Closed EXCEPT !.at = "form", !.kind = "revoke", !.rows = rows,
                                !.row = 1, !.ticked = Revocable(page.position, rows)[1]]
    BY <1>5 DEF OpenRevoke
  <2>2. UNCHANGED <<sessionVars, sending>>
    BY <1>5 DEF OpenRevoke
  <2>3. ModalInv'
    <3>1. /\ modal'.by = None /\ modal'.landings = 0
          /\ modal' = [at |-> "form", kind |-> "revoke", rows |-> rows, row |-> 1,
                       ticked |-> Revocable(page.position, rows)[1], reread |-> FALSE,
                       target |-> None, signer |-> None, good |-> FALSE, by |-> None,
                       spent |-> FALSE, landings |-> 0]
      BY <2>1 DEF Closed
    <3> QED
      BY <1>1, <2>2, <3>1 DEF ModalInv
  <2>4. /\ page' = page /\ modal'.rows = rows /\ modal'.row = 1 /\ modal'.at = "form"
        /\ modal'.ticked = Revocable(page.position, rows)[1]
    BY <2>1, <2>2 DEF Closed, sessionVars
  <2>5. ChosenInv'
    BY <2>4 DEF ChosenInv, RevokesTheChosen, Target
  <2>6. ModalTypes'
    <3> DEFINE ticked == Revocable(page.position, rows)[1]
    <3>1. rows \in Seq(Assets) /\ Len(rows) > 1
      BY <1>1, <1>5, ListingTypes DEF OpenRevoke
    <3>2. ticked \in Assets
      BY <3>1, RevocableTypes
    <3>3. Cardinality(Assets) # 0
      <4>1. Assets # {}
        BY <3>2
      <4> QED
        BY <4>1, FS_EmptySet, WebSessionAssumption
    <3> HIDE DEF ticked
    <3>4. modal' = [Closed EXCEPT !.at = "form", !.kind = "revoke", !.rows = rows,
                       !.row = 1, !.ticked = ticked]
      BY <2>1 DEF ticked
    <3> QED
      BY <1>1, <3>1, <3>2, <3>3, <3>4 DEF Closed, ModalTypes, OrNone
  <2> QED
    BY <1>2, <2>2, <2>3, <2>5, <2>6 DEF Kept
<1>6. ASSUME NEW row \in 1 .. Cardinality(Assets), Choose(row)
      PROVE  WebInv'
  <2>1. /\ UNCHANGED <<sessionVars, sending>>
        /\ modal' = [modal EXCEPT !.row = row, !.reread = FALSE,
                                  !.ticked = Revocable(page.position, modal.rows)[row]]
        /\ modal.at = "form"
    BY <1>6 DEF Choose
  <2>2. ModalInv'
    BY <1>1, <2>1 DEF ModalInv
  <2>3. /\ page' = page /\ modal'.rows = modal.rows /\ modal'.row = row
        /\ modal'.ticked = Revocable(page.position, modal.rows)[row] /\ modal'.at = "form"
    BY <1>1, <2>1 DEF ModalInv, sessionVars
  <2>4. ChosenInv'
    BY <2>3 DEF ChosenInv, RevokesTheChosen, Target
  <2>5. ModalTypes'
    <3> DEFINE ticked == Revocable(page.position, modal.rows)[row]
    <3>1. modal.rows \in Seq(Assets) /\ row \in DOMAIN Revocable(page.position, modal.rows)
      BY <1>1, <1>6 DEF ModalTypes, Choose
    <3>2. ticked \in Assets
      BY <3>1, RevocableTypes
    <3> HIDE DEF ticked
    <3>3. modal' = [modal EXCEPT !.row = row, !.reread = FALSE, !.ticked = ticked]
      BY <2>1 DEF ticked
    <3> QED
      <4>1. /\ modal'.at = modal.at /\ modal'.kind = modal.kind /\ modal'.row = row
            /\ modal'.rows = modal.rows /\ modal'.ticked = ticked
            /\ modal'.target = modal.target /\ modal'.signer = modal.signer
            /\ modal'.by = modal.by
        BY <1>1, <3>3 DEF ModalInv
      <4> QED
        BY <1>1, <1>6, <2>1, <3>2, <4>1 DEF ModalTypes, OrNone
  <2> QED
    BY <1>2, <2>1, <2>2, <2>4, <2>5 DEF Kept
<1>7. ASSUME (\E kind : SubmitTrade(kind)) \/ SubmitCreate
      PROVE  WebInv'
  <2>1. /\ UNCHANGED <<sessionVars, sending>> /\ modal.kind # "revoke"
        /\ \E good : modal' = Pending(good)
    BY <1>7 DEF SubmitTrade, SubmitCreate
  <2>2. ModalInv' /\ modal'.kind = modal.kind
    BY <1>1, <2>1 DEF Pending, ModalInv
  <2>3. ChosenInv'
    BY <2>1, <2>2 DEF ChosenInv, RevokesTheChosen
  <2>4. ModalTypes'
    <3>1. PICK good : modal' = Pending(good)
      BY <2>1
    <3>2. modal.at = "form"
      BY <1>7 DEF SubmitTrade, SubmitCreate
    <3> QED
      BY <1>1, <3>1, <3>2 DEF Pending, ModalInv, ModalTypes, OrNone
  <2> QED
    BY <1>2, <2>1, <2>2, <2>3, <2>4 DEF Kept
<1>8. CASE SubmitRevoke
  <2> DEFINE target == Target(page, modal.rows, modal.row)
             good == RevocationAccepted(page.key, wallet, page.positionPda, target)
             ticked == IF modal.reread THEN None ELSE modal.ticked
  <2>1. /\ UNCHANGED <<sessionVars, sending>>
        /\ modal.at = "form" /\ modal.kind = "revoke"
        /\ modal' = [Pending(good) EXCEPT !.target = target, !.reread = FALSE,
                        !.ticked = IF modal.reread THEN None ELSE @]
    BY <1>8 DEF SubmitRevoke
  <2>2. good => target \in Delegated
    BY DEF RevocationAccepted
  <2>3. ticked # None => ticked = target
    BY <1>1, <2>1 DEF ChosenInv
  <2>7. target \in Assets /\ ticked \in OrNone(Assets)
    <3>1. /\ modal.rows \in Seq(Assets) /\ modal.ticked \in OrNone(Assets)
          /\ modal.row \in DOMAIN Revocable(page.position, modal.rows)
      BY <1>1, <1>8 DEF ModalTypes, SubmitRevoke
    <3>2. Target(page, modal.rows, modal.row) \in Assets
      BY <3>1, RevocableTypes DEF Target
    <3> QED
      BY <3>1, <3>2 DEF OrNone
  <2> HIDE DEF target, good
  <2>4. ModalInv'
    BY <1>1, <2>1 DEF Pending, ModalInv
  <2>5. /\ modal'.at = "confirm" /\ modal'.target = target /\ modal'.good = good
        /\ modal'.ticked = ticked
        /\ modal'.kind = "revoke" /\ modal'.rows = <<>> /\ modal'.row = 0
        /\ modal'.signer = wallet /\ modal'.by = modal.by
    BY <1>1, <2>1 DEF Pending, ModalInv
  <2> HIDE DEF ticked
  <2>8. ModalTypes'
    <3>1. modal.by = None /\ <<>> \in Seq(Assets) /\ 0 \in 0 .. Cardinality(Assets)
      BY <1>1, <2>1 DEF ModalTypes
    <3> QED
      BY <1>1, <2>5, <2>7, <3>1 DEF ModalTypes, OrNone
  <2>6. ChosenInv'
    BY <2>2, <2>3, <2>5 DEF ChosenInv, RevokesTheChosen
  <2> QED
    BY <1>2, <2>1, <2>4, <2>6, <2>8 DEF Kept
<1>9. CASE Confirm
  <2>1. /\ UNCHANGED <<sessionVars, sending>>
        /\ modal' = [modal EXCEPT !.at = "sending", !.by = wallet]
        /\ modal.at = "confirm"
    BY <1>9 DEF Confirm, ConfirmedAsBuilt
  <2>2. ModalInv'
    BY <1>1, <2>1 DEF ModalInv
  <2>3. /\ modal'.at = "sending" /\ modal'.kind = modal.kind /\ modal'.good = modal.good
        /\ modal'.ticked = modal.ticked /\ modal'.target = modal.target
    BY <1>1, <2>1 DEF ModalInv
  <2>4. ChosenInv'
    BY <1>1, <2>1, <2>3 DEF ChosenInv, RevokesTheChosen
  <2>5. wallet # None
    BY <1>9 DEF Confirm
  <2>6. ModalTypes'
    BY <1>1, <2>1, <2>5 DEF ModalInv, ModalTypes
  <2> QED
    BY <1>2, <2>1, <2>2, <2>4, <2>6 DEF Kept
<1>10. CASE Confirmed
  <2>1. PICK i \in FlowIds : StartRefresh(i, modal.by)
    BY <1>10 DEF Confirmed
  <2>2. /\ UNCHANGED <<wallet, page, protocolExists, sending>> /\ modal' = Closed
        /\ modal.by \in OrNone(Wallets) /\ sending \in OrNone(Wallets)
    BY <1>1, <1>10 DEF Confirmed, ModalInv
  <2>3. SessionInv' /\ HistoryInv'
    BY <1>1, <2>1, <2>2, StartKeeps, HistoryRefreshed
  <2> QED
    BY <1>3, <2>2, <2>3 DEF WebInv, Kept
<1>11. CASE ConfirmationLost
  <2>1. ~modal.spent /\ modal.landings = 0
    BY <1>1, <1>11 DEF ConfirmationLost, CanLand, ModalInv
  <2> DEFINE n == IF Once THEN modal.landings + 1 ELSE 0
             once == Once
  <2>2. n \in {0, 1} /\ (n = 1 => once)
    BY <2>1
  <2>3. modal' = [modal EXCEPT !.at = "confirm", !.by = None, !.spent = once, !.landings = n]
    BY <1>11 DEF ConfirmationLost
  <2>4. UNCHANGED <<sessionVars, sending>>
    BY <1>11 DEF ConfirmationLost
  <2> HIDE DEF n, once
  <2>5. ModalInv'
    BY <1>1, <2>2, <2>3, <2>4 DEF ModalInv
  <2>6. /\ modal'.at = "confirm" /\ modal'.kind = modal.kind /\ modal'.good = modal.good
        /\ modal'.ticked = modal.ticked /\ modal'.target = modal.target
        /\ modal.at = "sending"
    BY <1>1, <1>11, <2>3 DEF ModalInv, ConfirmationLost
  <2>7. ChosenInv'
    BY <1>1, <2>6 DEF ChosenInv, RevokesTheChosen
  <2>8. ModalTypes'
    BY <1>1, <2>3 DEF ModalInv, ModalTypes
  <2> QED
    BY <1>2, <2>4, <2>5, <2>7, <2>8 DEF Kept
<1>12. CASE Failed
  <2>1. /\ UNCHANGED <<sessionVars, sending>>
        /\ modal' = [modal EXCEPT !.at = "confirm", !.by = None]
        /\ modal.at = "sending"
    BY <1>12 DEF Failed
  <2>2. ModalInv'
    BY <1>1, <2>1 DEF ModalInv
  <2>3. /\ modal'.at = "confirm" /\ modal'.kind = modal.kind /\ modal'.good = modal.good
        /\ modal'.ticked = modal.ticked /\ modal'.target = modal.target
    BY <1>1, <2>1 DEF ModalInv
  <2>4. ChosenInv'
    BY <1>1, <2>1, <2>3 DEF ChosenInv, RevokesTheChosen
  <2>5. ModalTypes'
    BY <1>1, <2>1 DEF ModalInv, ModalTypes
  <2> QED
    BY <1>2, <2>1, <2>2, <2>4, <2>5 DEF Kept
<1>13. CASE Close
  <2>1. sending' \in OrNone(Wallets)
    BY <1>1, <1>13 DEF Close, ModalInv
  <2> QED
    BY <1>2, <1>3, <1>13, <2>1 DEF Close
<1>14. CASE DetachedConfirmed
  <2>1. PICK i \in FlowIds : StartRefresh(i, sending)
    BY <1>14 DEF DetachedConfirmed
  <2>2. UNCHANGED <<wallet, page, protocolExists, modal>> /\ sending' = None
    BY <1>14 DEF DetachedConfirmed
  <2>3. SessionInv' /\ HistoryInv'
    BY <1>1, <2>1, <2>2, StartKeeps, HistoryRefreshed DEF ModalInv
  <2>4. ModalInv' /\ ModalTypes' /\ ChosenInv'
    BY <1>1, <2>2 DEF ModalInv, ModalTypes, ChosenInv, RevokesTheChosen, Target
  <2> QED
    BY <2>3, <2>4 DEF WebInv
<1>15. CASE DetachedFailed
  <2>1. UNCHANGED <<sessionVars, modal>> /\ page' = page /\ sending' = None
    BY <1>15 DEF DetachedFailed, sessionVars
  <2>2. ModalInv' /\ ModalTypes' /\ ChosenInv'
    BY <1>1, <2>1 DEF ModalInv, ModalTypes, ChosenInv, RevokesTheChosen, Target
  <2> QED
    BY <1>2, <2>1, <2>2 DEF Kept
<1> QED
  BY <1>4, <1>5, <1>6, <1>7, <1>8, <1>9, <1>10, <1>11, <1>12, <1>13, <1>14, <1>15
  DEF Modal

LEMMA WebStep == WebInv /\ [Next]_vars => WebInv'
<1> SUFFICES ASSUME WebInv, [Next]_vars PROVE WebInv'
  OBVIOUS
<1>1. SessionInv /\ HistoryInv /\ ModalInv /\ ModalTypes /\ ChosenInv
  BY DEF WebInv
<1>2. CASE Browse /\ BrowseUnderTheForm /\ UNCHANGED sending
  <2>1. ModalInv'
    BY <1>1, <1>2 DEF BrowseUnderTheForm, ModalInv
  <2>4. ModalTypes'
    <3>1. modal' = [modal EXCEPT !.rows = <<>>, !.reread = TRUE] \/ modal' = modal
      BY <1>2 DEF BrowseUnderTheForm
    <3>2. (modal' # modal) => modal.at = "form"
      BY <1>2 DEF BrowseUnderTheForm
    <3>3. CASE modal' = [modal EXCEPT !.rows = <<>>, !.reread = TRUE] /\ modal.at = "form"
      <4>1. /\ modal'.at = modal.at /\ modal'.kind = modal.kind /\ modal'.row = modal.row
            /\ modal'.rows = <<>> /\ modal'.ticked = modal.ticked
            /\ modal'.target = modal.target /\ modal'.signer = modal.signer
            /\ modal'.by = modal.by
        BY <1>1, <3>3 DEF ModalInv
      <4>2. <<>> \in Seq(Assets)
        OBVIOUS
      <4> QED
        BY <1>1, <3>3, <4>1, <4>2 DEF ModalTypes
    <3>4. CASE modal' = modal
      BY <1>1, <3>4 DEF ModalTypes
    <3> QED
      BY <3>1, <3>2, <3>3, <3>4
  <2>2. CASE modal' = [modal EXCEPT !.rows = <<>>, !.reread = TRUE] /\ modal.at = "form"
    <3>1. modal'.at = "form" /\ modal'.reread
      BY <1>1, <2>2 DEF ModalInv
    <3> QED
      BY <1>1, <1>2, <2>1, <2>4, <3>1, BrowseKeeps, HistoryBrowsed
      DEF WebInv, ChosenInv, RevokesTheChosen
  <2>3. CASE ~(modal' = [modal EXCEPT !.rows = <<>>, !.reread = TRUE] /\ modal.at = "form")
    <3>1. /\ modal' = modal
          /\ modal.at = "form" /\ modal.kind = "revoke" => page'.position = page.position
      BY <1>2, <2>3 DEF BrowseUnderTheForm
    <3>2. ChosenInv'
      BY <1>1, <3>1 DEF ChosenInv, RevokesTheChosen, Target
    <3> QED
      BY <1>1, <1>2, <2>1, <2>4, <3>2, BrowseKeeps, HistoryBrowsed DEF WebInv
  <2> QED
    BY <2>2, <2>3
<1>3. ASSUME NEW i \in FlowIds, Answer(i), UnderTheForm(i), UNCHANGED sending
      PROVE  WebInv'
  <2>1. ModalInv' /\ ModalTypes' /\ ChosenInv'
    <3>1. CASE modal' = modal /\ ~(modal.at = "form" /\ modal.kind = "revoke")
      BY <1>1, <1>3, <3>1 DEF ModalInv, ModalTypes, ChosenInv, RevokesTheChosen
    <3>2. CASE modal.at = "form" /\ modal.kind = "revoke"
      <4> DEFINE again == modal.reread \/ ReadAnew(i)
      <4>1. \E rows \in RowsAfter(i) : modal' = [modal EXCEPT !.rows = rows, !.reread = again]
        BY <1>3, <3>2 DEF UnderTheForm
      <4> HIDE DEF again
      <4>2. PICK rows \in RowsAfter(i) :
                modal' = [modal EXCEPT !.rows = rows, !.reread = again]
        BY <4>1
      <4>3. ModalInv'
        BY <1>1, <1>3, <4>2 DEF ModalInv
      <4>4. /\ modal'.at = "form" /\ modal'.rows = rows /\ modal'.reread = again
            /\ modal'.row = modal.row /\ modal'.ticked = modal.ticked
        BY <1>1, <3>2, <4>2 DEF ModalInv
      <4>5. ~again => /\ ~modal.reread /\ rows = modal.rows
                      /\ page'.position = page.position
        BY DEF again, ReadAnew, RowsAfter
      <4>6. ChosenInv'
        BY <1>1, <3>2, <4>4, <4>5 DEF ChosenInv, RevokesTheChosen, Target
      <4>7. rows \in Seq(Assets)
        BY <1>1, <1>3, AnswerKeeps, ListingTypes DEF RowsAfter, ModalTypes, SessionInv
      <4>8. ModalTypes'
        BY <1>1, <3>2, <4>2, <4>7 DEF ModalInv, ModalTypes
      <4> QED
        BY <4>3, <4>6, <4>8
    <3> QED
      BY <1>3, <3>1, <3>2 DEF UnderTheForm
  <2> QED
    BY <1>1, <1>3, <2>1, AnswerKeeps, HistoryAnswered DEF WebInv
<1>4. CASE UNCHANGED vars
  <2>1. UNCHANGED sessionVars /\ modal' = modal /\ sending' = sending /\ page' = page
    BY <1>4 DEF vars, sessionVars
  <2>2. ModalInv' /\ ModalTypes' /\ ChosenInv'
    BY <1>1, <2>1 DEF ModalInv, ModalTypes, ChosenInv, RevokesTheChosen, Target
  <2> QED
    BY <1>1, <2>1, <2>2, SessionStill, HistoryStill DEF WebInv
<1> QED
  BY <1>2, <1>3, <1>4, ModalKeeps DEF Next

LEMMA WebAlways == Spec => []WebInv
<1> QED
  BY WebStart, WebStep, PTL DEF Spec

-----------------------------------------------------------------------------
(* The theorems.                                                           *)

(* However many flows overlap and whichever answers are lost, the key that *)
(* signs is a key of the position the transaction names.                   *)
THEOREM KeyFits == Spec => []KeyFitsPosition
<1>1. WebInv => KeyFitsPosition
  BY DEF WebInv, SessionInv, GoodPage, KeyFitsPosition
<1> QED
  BY <1>1, WebAlways, PTL

(* The Refresh button is never left disabled with nothing under way.       *)
THEOREM ButtonReleased == Spec => []ButtonIsReleased
<1>1. WebInv => ButtonIsReleased
  BY DEF WebInv, SessionInv, Busy, ButtonIsReleased, AtRest, InFlight
<1> QED
  BY <1>1, WebAlways, PTL

(* However often a lost confirmation makes the user confirm again, what is *)
(* created or burnt once is created or burnt once.                         *)
THEOREM MadeOnce == Spec => []NothingMadeTwice
<1>1. WebInv => NothingMadeTwice
  BY DEF WebInv, ModalInv, NothingMadeTwice
<1> QED
  BY <1>1, WebAlways, PTL

(* However refreshes of one wallet overlap, when the last is done and none *)
(* has failed the page is about one position the wallet has a key of, with *)
(* its keys, its market and its figures, or it is blank; and a switch that *)
(* met no other flow shows the account, the promos and the figures of the  *)
(* position chosen.                                                        *)
LEMMA AtRestAgrees == WebInv => UndisturbedFlowsAgree
<1> SUFFICES ASSUME WebInv PROVE UndisturbedFlowsAgree
  OBVIOUS
<1>1. SessionInv /\ HistoryInv
  BY DEF WebInv
<1>2. ASSUME RefreshedUndisturbed
      PROVE  IF page.positionPda = None
             THEN page = Blank
             ELSE /\ ShowsAllOf(page.positionPda)
                  /\ Holder[page.key] = wallet
                  /\ page.figures # None
                  /\ page.figures[1] = page.positionPda
  <2>1. RefreshState(wallet) /\ InFlight = {}
    BY <1>1, <1>2 DEF RefreshedUndisturbed, AtRest, HistoryInv, Undisturbed, SessionInv
  <2>2. CASE FoundBy(wallet) = {}
    <3>1. page = Blank
      BY <2>1, <2>2 DEF RefreshState
    <3> QED
      BY <3>1 DEF Blank
  <2>3. CASE FoundBy(wallet) # {}
    <3>1. Progress(page, StagesNow, wallet)
      BY <2>1, <2>3 DEF RefreshState
    <3>2. \A s \in StagesNow : s = "idle"
      BY <2>1 DEF StagesNow, InFlight
    <3>3. ~Ahead(StagesNow, ToValue)
      BY <3>2 DEF Ahead, ToValue, ToOffer, ToList, ToTrade, ToShow, ToChoose
    <3>4. /\ ~Ahead(StagesNow, ToChoose) /\ ~Ahead(StagesNow, ToShow)
          /\ ~Ahead(StagesNow, ToTrade) /\ ~Ahead(StagesNow, ToList)
          /\ ~Ahead(StagesNow, ToOffer)
      BY <3>3, StagesInOrder
    <3>5. /\ page.positionPda = ShownTo(wallet) /\ page.key = ChosenBy(wallet)
          /\ page.position = ShownTo(wallet) /\ page.market = MarketOf[ShownTo(wallet)]
          /\ page.keyring = KeyringOf(ShownTo(wallet)) /\ page.selected \in page.found
          /\ page.promos = ShownTo(wallet)
          /\ page.figures # None /\ page.figures[1] = ShownTo(wallet)
      BY <3>1, <3>3, <3>4
      DEF Progress, KeyChosen, AccountShown, MarketShown, KeysListed, PromosShown, FiguresShown
    <3> QED
      BY <2>3, <3>5, FoundTypes DEF ShowsAllOf, ShowsAccountOf
  <2> QED
    BY <2>2, <2>3
<1>3. ASSUME SwitchedUndisturbed
      PROVE  Switched(page)
  BY <1>1, <1>3 DEF SwitchedUndisturbed, AtRest, HistoryInv, Alone, SwitchState
<1> QED
  BY <1>2, <1>3 DEF UndisturbedFlowsAgree, Switched, ShowsAccountOf

THEOREM FlowsAgree == Spec => []UndisturbedFlowsAgree
  BY AtRestAgrees, WebAlways, PTL

(* Whatever mixture of signals a trade is built from, if it is accepted it *)
(* is of the position whose account is shown: the builders name the        *)
(* authority of that account, and the program compares.                    *)
THEOREM AcceptedTradeIsShown == Spec => []TradeIsOfTheShown
<1>1. WebInv => TradeIsOfTheShown
  BY DEF TradeIsOfTheShown, Trade, Accepts, AuthorityOfTheShown
<1> QED
  BY <1>1, WebAlways, PTL

(* After a refresh alone, or a switch alone, a trade that is accepted has  *)
(* its minimum output from its own position and market: either the figures *)
(* were read in the market in the signals, or the program refuses.         *)
THEOREM MinOutBelongs == Spec => []MinOutIsOfTheTrade
<1>1. WebInv => MinOutIsOfTheTrade
  <2> SUFFICES ASSUME WebInv,
                      (RefreshedUndisturbed /\ ~story.overlapped) \/ SwitchedUndisturbed,
                      NEW kind \in Trades,
                      Buildable(kind, page), Accepts(Trade(kind, page, wallet))
               PROVE  MinOut(page) = <<page.positionPda, MarketOf[page.positionPda]>>
    BY DEF MinOutIsOfTheTrade, Trade
  <2>1. page.market # None /\ page.market = MarketOf[page.positionPda] /\ page.initialized
    BY DEF Buildable, Offered, Accepts, Trade
  <2>2. AtRest /\ Alone
    BY DEF RefreshedUndisturbed, SwitchedUndisturbed, Alone
  <2>3. page.figures # None => page.figures[2] = page.market
    BY <2>1, <2>2 DEF WebInv, HistoryInv, Priced, MarketFor, AtRest
  <2>4. page.figures # None /\ page.figures[1] = page.positionPda
    BY <2>1, AtRestAgrees DEF UndisturbedFlowsAgree, Switched, Blank
  <2>5. page.figures \in Positions \X Markets
    BY <2>4 DEF WebInv, SessionInv, GoodPage, Page, OrNone
  <2> QED
    BY <2>1, <2>3, <2>4, <2>5 DEF MinOut
<1> QED
  BY <1>1, WebAlways, PTL

(* The key to be revoked is the one seen in the row chosen, unless the     *)
(* list was read anew since, and the program takes no admin key for it.    *)
THEOREM RevokedIsChosen == Spec => []RevokesTheChosen
<1>1. WebInv => RevokesTheChosen
  BY DEF WebInv, ChosenInv
<1> QED
  BY <1>1, WebAlways, PTL

(* The signals, the flows and the modal keep their types.                  *)
THEOREM TypeCorrect == Spec => []TypeOK
<1>1. WebInv => SessionTypeOK
  BY DEF WebInv, SessionInv, GoodPage, Page, GoodFlow, FlowRecord, Waits, SessionTypeOK
<1>2. WebInv => TypeOK
  <2> SUFFICES ASSUME WebInv PROVE TypeOK
    OBVIOUS
  <2>1. ModalInv /\ ModalTypes
    BY DEF WebInv
  <2>2. Range(modal.rows) \subseteq Assets
    BY <2>1 DEF ModalTypes, Range
  <2> QED
    BY <1>1, <2>1, <2>2 DEF ModalInv, ModalTypes, TypeOK
<1> QED
  BY <1>2, WebAlways, PTL
=============================================================================
