------------------------------- MODULE TuiProofs -------------------------------
(***************************************************************************)
(* The terminal client with any positions, keys and markets, whichever of  *)
(* its requests fail.                                                      *)
(***************************************************************************)
EXTENDS TuiCommand, FiniteSetTheorems, TLAPS

-----------------------------------------------------------------------------
(* What the client knows of its position hangs together: the key in use is *)
(* a key of it, and what was derived for it was derived for it.            *)

App ==
    [screen : Screens, protocol : ProtocolReads, position : OrNone(Positions),
     key : OrNone(Keys), market : OrNone(Markets), initialized : BOOLEAN,
     addresses : OrNone(Positions \X Markets), figures : OrNone(Positions \X Markets),
     listed : SUBSET Keys, promos : OrNone(Positions), select : OrNone(Positions),
     pending : OrNone(Transactions)]

(* The key in use and the addresses are of the position shown.  The market *)
(* may be unknown, but is not another's.                                   *)
Coherent(a) ==
    a.position # None =>
        /\ a.key \in Keys /\ PositionOf[a.key] = a.position
        /\ a.market \in {None, MarketOf[a.position]}
        /\ a.addresses = <<a.position, OrDefault(a.market)>>

Sound(a) ==
    /\ a \in App
    /\ Coherent(a)
    /\ a.initialized => a.addresses \in Positions \X Markets

(* The figures are of what was selected when they were read.               *)
Fresh(a) == a.figures \in {None, <<a.addresses[1], OrDefault(a.market)>>}

LEMMA ConstantTypes ==
    /\ None \notin Positions /\ None \notin Keys /\ None \notin Transactions
    /\ \A k \in Keys : PositionOf[k] \in Positions
    /\ \A k \in Keys : Role[k] \in {"admin", "delegate", "recovery"}
    /\ \A p \in Positions : MarketOf[p] \in Markets
    /\ \A m \in OrNone(Markets) : OrDefault(m) \in Markets
    /\ FirstPositions \subseteq Positions
  BY TuiSessionAssumption, NoneIsNoTransaction DEF Markets, OrDefault, OrNone

LEMMA NewAppSound == Sound(NewApp) /\ Fresh(NewApp)
  BY DEF NewApp, Sound, Fresh, Coherent, App, OrNone, Screens, ProtocolReads

(* Among the keys seen of a position one is preferred.                     *)
LEMMA SomeKeyOutranks ==
    ASSUME NEW seen \in SUBSET Keys, NEW p \in PositionsOf(seen)
    PROVE  \E k \in seen : /\ PositionOf[k] = p
                           /\ \A j \in seen : PositionOf[j] = p => Outranks(k, j)
<1> DEFINE of == {k \in seen : PositionOf[k] = p}
<1>1. PICK k0 \in seen : PositionOf[k0] = p
  BY DEF PositionsOf
<1>2. \A k \in of : Role[k] \in {"admin", "delegate", "recovery"}
  BY ConstantTypes
<1>3. CASE \E k \in of : Role[k] = "admin"
  BY <1>3 DEF Outranks
<1>4. CASE (\A k \in of : Role[k] # "admin") /\ \E k \in of : Role[k] = "delegate"
  BY <1>2, <1>4 DEF Outranks
<1>5. CASE \A k \in of : Role[k] = "recovery"
  BY <1>1, <1>5 DEF Outranks
<1> QED
  BY <1>2, <1>3, <1>4, <1>5

(* Each position is listed by one of its keys, and no position but those   *)
(* seen.                                                                   *)
LEMMA ListedKeys ==
    ASSUME NEW seen \in SUBSET Keys
    PROVE  /\ Listed(seen) \subseteq seen
           /\ \A k, j \in Listed(seen) : PositionOf[k] = PositionOf[j] => k = j
<1> DEFINE Pick(p) == CHOOSE k \in seen :
                         /\ PositionOf[k] = p
                         /\ \A j \in seen : PositionOf[j] = p => Outranks(k, j)
<1>1. \A p \in PositionsOf(seen) : Pick(p) \in seen /\ PositionOf[Pick(p)] = p
  BY SomeKeyOutranks
<1>2. Listed(seen) = {Pick(p) : p \in PositionsOf(seen)}
  BY DEF Listed
<1> HIDE DEF Pick
<1> QED
  BY <1>1, <1>2

LEMMA OneListed ==
    ASSUME NEW keys \in SUBSET Keys, Cardinality(keys) = 1
    PROVE  \E k \in Keys : keys = {k}
<1>1. IsFiniteSet(keys)
  BY TuiSessionAssumption, FS_Subset
<1> QED
  BY <1>1, FS_Singleton

-----------------------------------------------------------------------------
(* The calls of a refresh.                                                 *)

LEMMA SelectedSound ==
    ASSUME NEW a, Sound(a), NEW k \in Keys, NEW mr \in BOOLEAN
    PROVE  LET b == Selected(a, k, mr)
           IN /\ Sound(b)
              /\ b.position = PositionOf[k] /\ b.key = k /\ b.screen = "Dashboard"
              /\ b.listed = a.listed /\ b.pending = a.pending /\ b.figures = a.figures
              /\ b.promos = a.promos /\ b.select = a.select
<1> DEFINE p == PositionOf[k]
           m == IF mr THEN MarketOf[p] ELSE None
           b == [a EXCEPT !.position = p, !.key = k, !.initialized = TRUE,
                          !.market = m, !.addresses = <<p, OrDefault(m)>>,
                          !.screen = "Dashboard"]
<1>1. /\ p \in Positions /\ m \in OrNone(Markets) /\ m \in {None, MarketOf[p]}
      /\ OrDefault(m) \in Markets
  BY ConstantTypes DEF OrNone
<1>2. Selected(a, k, mr) = b
  BY DEF Selected
<1>3. PositionOf[k] = p
  OBVIOUS
<1> HIDE DEF p, m
<1>4. "Dashboard" \in Screens
  BY DEF Screens
<1>5. b \in App
  BY <1>1, <1>4 DEF Sound, App, OrNone
<1>6. Coherent(b) /\ b.addresses \in Positions \X Markets
  BY <1>1, <1>3, <1>5 DEF App, Coherent, Sound
<1>7. /\ b.position = p /\ b.key = k /\ b.screen = "Dashboard"
      /\ b.listed = a.listed /\ b.pending = a.pending /\ b.figures = a.figures
      /\ b.promos = a.promos /\ b.select = a.select
  BY DEF Sound, App
<1> QED
  BY <1>2, <1>3, <1>5, <1>6, <1>7 DEF Sound

LEMMA ReselectedSound ==
    ASSUME NEW a, Sound(a), NEW k \in Keys, NEW ar \in BOOLEAN, NEW mr \in BOOLEAN
    PROVE  LET b == Reselected(a, k, ar, mr)
           IN /\ Sound(b)
              /\ \/ b.position = PositionOf[k] /\ b.key = k /\ b.screen = "Dashboard"
                 \/ b = a
              /\ b.listed = a.listed /\ b.pending = a.pending /\ b.figures = a.figures
              /\ b.promos = a.promos /\ b.select = a.select
  BY SelectedSound DEF Reselected

(* What is found alone is selected; otherwise nothing is.                  *)
AloneOrNone(a) ==
    IF Cardinality(a.listed) = 1
    THEN a.listed = {a.key} /\ a.position = PositionOf[a.key]
    ELSE a.position = None

LEMMA DiscoveredSound ==
    ASSUME NEW a, Sound(a), NEW seen \in SUBSET Keys, NEW mr \in BOOLEAN
    PROVE  LET b == Discovered(a, seen, mr)
           IN /\ Sound(b)
              /\ b.listed = Listed(seen)
              /\ AloneOrNone(b)
              /\ b.screen \in {a.screen, "Dashboard"}
              /\ b.pending = a.pending /\ b.figures = a.figures
              /\ b.promos = a.promos /\ b.select = a.select
<1> DEFINE keys == Listed(seen)
           found == [Cleared(a) EXCEPT !.listed = keys]
<1>1. keys \in SUBSET Keys
  BY ListedKeys
<1>2. Discovered(a, seen, mr) =
        IF Cardinality(keys) = 1
        THEN Selected(found, CHOOSE k \in keys : TRUE, mr) ELSE found
  BY DEF Discovered
<1> HIDE DEF keys
<1>3. /\ found \in App /\ found.position = None /\ found.listed = keys
      /\ found.screen = a.screen /\ found.initialized = a.initialized
      /\ found.addresses = a.addresses
      /\ found.pending = a.pending /\ found.figures = a.figures
      /\ found.promos = a.promos /\ found.select = a.select
  BY <1>1 DEF Cleared, Sound, App, OrNone
<1>4. Sound(found)
  BY <1>3 DEF Sound, Coherent
<1> HIDE DEF found
<1>5. CASE Cardinality(keys) = 1
  <2>1. PICK k \in Keys : keys = {k}
    BY <1>1, <1>5, OneListed
  <2>2. (CHOOSE j \in keys : TRUE) = k
    BY <2>1
  <2>3. Discovered(a, seen, mr) = Selected(found, k, mr)
    BY <1>2, <1>5, <2>2
  <2> DEFINE b == Discovered(a, seen, mr)
  <2>4. /\ Sound(b)
        /\ b.position = PositionOf[k] /\ b.key = k /\ b.screen = "Dashboard"
        /\ b.listed = keys /\ b.pending = a.pending /\ b.figures = a.figures
        /\ b.promos = a.promos /\ b.select = a.select
    BY <1>3, <1>4, <2>3, SelectedSound
  <2> HIDE DEF b
  <2>5. AloneOrNone(b)
    BY <1>5, <2>1, <2>4 DEF AloneOrNone
  <2> QED
    BY <2>4, <2>5 DEF keys, b
<1>6. CASE Cardinality(keys) # 1
  BY <1>2, <1>3, <1>4, <1>6 DEF keys, AloneOrNone
<1> QED
  BY <1>5, <1>6

(* A refresh ends at the position before it, if that is still listed, or   *)
(* at none; unless another is to be selected.                              *)
LEMMA RoutedSound ==
    ASSUME NEW a, Sound(a), NEW prev \in OrNone(Positions), NEW select \in OrNone(Positions),
           NEW ar \in BOOLEAN, NEW mr \in BOOLEAN, AloneOrNone(a)
    PROVE  LET b == Routed(a, prev, select, ar, mr)
           IN /\ Sound(b)
              /\ b.listed = a.listed /\ b.pending = a.pending /\ b.figures = a.figures
              /\ b.promos = a.promos /\ b.select = a.select
              /\ b.screen \in {a.screen, "Dashboard", "PositionList"}
              /\ select = None /\ prev \in PositionsOf(b.listed) =>
                    b.position \in {prev, None}
              /\ select = None /\ prev = None /\ b.position # None =>
                    b.listed = {b.key}
<1> DEFINE wanted == IF select # None THEN select ELSE prev
           keys == {k \in a.listed : PositionOf[k] = wanted}
           n == Cardinality(a.listed)
           b == Routed(a, prev, select, ar, mr)
<1>1. /\ a.listed \in SUBSET Keys /\ a \in App
      /\ {"Dashboard", "PositionList"} \subseteq Screens
  BY DEF Sound, App, Screens
<1>2. ASSUME NEW s \in {"Dashboard", "PositionList"}, b = [a EXCEPT !.screen = s]
      PROVE  /\ Sound(b) /\ b.position = a.position /\ b.key = a.key
             /\ b.listed = a.listed /\ b.pending = a.pending /\ b.figures = a.figures
             /\ b.promos = a.promos /\ b.select = a.select /\ b.screen = s
  <2>1. [a EXCEPT !.screen = s] \in App
    BY <1>1 DEF App
  <2> QED
    BY <1>1, <1>2, <2>1 DEF Sound, Coherent, App
<1>3. ASSUME b.listed = a.listed, n = 1, b.position = a.position, b.key = a.key
      PROVE  /\ prev \in PositionsOf(b.listed) => b.position = prev
             /\ b.listed = {b.key}
  BY <1>3 DEF PositionsOf, AloneOrNone
<1>4. CASE n = 0
  <2>1. b = [a EXCEPT !.screen = "Dashboard"]
    BY <1>4 DEF Routed
  <2>2. a.position = None
    BY <1>4 DEF AloneOrNone
  <2> QED
    BY <1>2, <2>1, <2>2
<1>5. CASE n # 0 /\ keys # {} /\ (select # None \/ n > 1)
  <2>1. PICK k \in keys : b = Reselected(a, k, ar, mr)
    BY <1>5 DEF Routed
  <2>2. k \in Keys /\ PositionOf[k] = wanted
    BY <1>1
  <2>3. /\ Sound(b)
        /\ \/ b.position = PositionOf[k] /\ b.key = k /\ b.screen = "Dashboard"
           \/ b = a
        /\ b.listed = a.listed /\ b.pending = a.pending /\ b.figures = a.figures
        /\ b.promos = a.promos /\ b.select = a.select
    BY <2>1, <2>2, ReselectedSound
  <2>4. select = None => a.position = None
    BY <1>5 DEF AloneOrNone
  <2>5. select = None => wanted = prev
      OBVIOUS
  <2> HIDE DEF b, n, keys, wanted
  <2>6. select = None => b.position \in {prev, None}
    BY <2>2, <2>3, <2>4, <2>5
  <2> QED
    BY <2>3, <2>6 DEF b
<1>6. CASE n # 0 /\ ~(keys # {} /\ (select # None \/ n > 1)) /\ n = 1
  <2>1. b = a
    BY <1>6 DEF Routed
  <2> QED
    BY <1>3, <1>6, <2>1
<1>7. CASE n # 0 /\ ~(keys # {} /\ (select # None \/ n > 1)) /\ n # 1
  <2>1. b = [a EXCEPT !.screen = "PositionList"]
    BY <1>7 DEF Routed
  <2>2. a.position = None
    BY <1>7 DEF AloneOrNone
  <2> QED
    BY <1>2, <2>1, <2>2
<1> QED
  BY <1>4, <1>5, <1>6, <1>7

LEMMA WithFiguresSound ==
    ASSUME NEW a, Sound(a), NEW answered \in BOOLEAN
    PROVE  LET b == WithFigures(a, answered)
           IN /\ Sound(b) /\ Fresh(b)
              /\ b.position = a.position /\ b.key = a.key /\ b.listed = a.listed
              /\ b.pending = a.pending /\ b.promos = a.promos /\ b.select = a.select
              /\ b.screen = a.screen
<1> DEFINE fig == IF a.initialized /\ answered
                  THEN <<a.addresses[1], OrDefault(a.market)>> ELSE None
           b == [a EXCEPT !.figures = fig]
<1>1. /\ fig \in {None, <<a.addresses[1], OrDefault(a.market)>>}
      /\ fig # None => a.initialized
  OBVIOUS
<1>2. a.market \in OrNone(Markets) /\ a \in App
  BY DEF Sound, App
<1>3. fig \in OrNone(Positions \X Markets)
  <2>1. CASE fig = None
    BY <2>1 DEF OrNone
  <2>2. CASE fig # None
    <3>1. a.addresses \in Positions \X Markets
      BY <1>1, <2>2 DEF Sound
    <3>2. OrDefault(a.market) \in Markets
      BY <1>2, ConstantTypes
    <3> QED
      BY <1>1, <2>2, <3>1, <3>2 DEF OrNone
  <2> QED
    BY <2>1, <2>2
<1> HIDE DEF fig
<1>4. b \in App
  BY <1>2, <1>3 DEF App
<1>5. /\ b.position = a.position /\ b.key = a.key /\ b.listed = a.listed
      /\ b.pending = a.pending /\ b.promos = a.promos /\ b.select = a.select
      /\ b.screen = a.screen /\ b.market = a.market /\ b.addresses = a.addresses
      /\ b.initialized = a.initialized /\ b.figures = fig
  BY <1>2 DEF App
<1> HIDE DEF b
<1>6. Sound(b) /\ Fresh(b)
  BY <1>1, <1>4, <1>5 DEF Sound, Coherent, Fresh
<1> QED
  BY <1>5, <1>6 DEF b, fig, WithFigures

(* A refresh as a whole, and the start of the client, where there was no   *)
(* position before.                                                        *)
LEMMA RefreshedSound ==
    ASSUME NEW a, Sound(a), NEW keys \in SUBSET Keys, NEW b \in Refreshed(a, keys)
    PROVE  /\ Sound(b) /\ Fresh(b)
           /\ b.pending = a.pending /\ b.promos = a.promos /\ b.select = None
           /\ b.screen \in {a.screen, "Dashboard", "PositionList"}
           /\ a.select = None /\ a.position \in PositionsOf(b.listed) =>
                 b.position \in {a.position, None}
           /\ a.select = None /\ a.position = None /\ b.position # None =>
                 b.listed = {b.key}
<1> DEFINE found == {Discovered(Begun(a, ok), seen, mr)
                        : seen \in SUBSET keys, ok \in ProtocolReads, mr \in BOOLEAN}
           routed == {Routed(d, a.position, a.select, ar, mr)
                        : d \in found, ar \in BOOLEAN, mr \in BOOLEAN}
<1>a. PICK r \in routed, fr \in BOOLEAN : b = WithFigures(r, fr)
  BY DEF Refreshed
<1>b. PICK d \in found, ar \in BOOLEAN, mr2 \in BOOLEAN :
        r = Routed(d, a.position, a.select, ar, mr2)
  OBVIOUS
<1>c. PICK seen \in SUBSET keys, ok \in ProtocolReads, mr \in BOOLEAN :
        d = Discovered(Begun(a, ok), seen, mr)
  OBVIOUS
<1> DEFINE first == Begun(a, ok)
<1>1. d = Discovered(first, seen, mr)
  BY <1>c
<1> HIDE DEF found, routed
<1>2. /\ a.position \in OrNone(Positions) /\ a.select \in OrNone(Positions)
      /\ a \in App /\ seen \in SUBSET Keys
  BY DEF Sound, App
<1>3. /\ Sound(first) /\ first.screen = a.screen /\ first.pending = a.pending
      /\ first.promos = a.promos /\ first.select = None
  <2>1. first \in App
    BY <1>2 DEF Begun, App, OrNone
  <2> QED
    BY <1>2, <2>1 DEF Sound, Coherent, App, Begun
<1> HIDE DEF first
<1>4. /\ Sound(d) /\ d.pending = a.pending /\ d.promos = a.promos /\ d.select = None
      /\ d.screen \in {a.screen, "Dashboard"}
      /\ AloneOrNone(d)
  BY <1>1, <1>2, <1>3, DiscoveredSound
<1>5. /\ Sound(r) /\ r.pending = a.pending /\ r.promos = a.promos /\ r.select = None
      /\ r.screen \in {a.screen, "Dashboard", "PositionList"}
      /\ a.select = None /\ a.position \in PositionsOf(r.listed) =>
            r.position \in {a.position, None}
      /\ a.select = None /\ a.position = None /\ r.position # None =>
            r.listed = {r.key}
  <2>1. /\ Sound(r)
        /\ r.listed = d.listed /\ r.pending = d.pending /\ r.figures = d.figures
        /\ r.promos = d.promos /\ r.select = d.select
        /\ r.screen \in {d.screen, "Dashboard", "PositionList"}
        /\ a.select = None /\ a.position \in PositionsOf(r.listed) =>
              r.position \in {a.position, None}
        /\ a.select = None /\ a.position = None /\ r.position # None =>
              r.listed = {r.key}
    <3>1. a.position \in OrNone(Positions) /\ a.select \in OrNone(Positions)
          /\ Sound(d) /\ AloneOrNone(d)
      BY <1>2, <1>4
    <3> QED
      BY <3>1, <1>b, RoutedSound
  <2> QED
    BY <1>4, <2>1
<1> QED
  BY <1>5, <1>a, WithFiguresSound

-----------------------------------------------------------------------------
(* The invariant.                                                          *)

(* The promos are those of the position, wherever one of them can be       *)
(* picked.                                                                 *)
PromosFit(a) ==
    /\ a.screen \in {"PromoList", "createPromo"} => a.promos \in {a.position, None}
    /\ a.screen \in {"viewPromo", "maxClaims"} => a.promos = a.position

PendingFits(t) ==
    t # None => /\ OfOnePosition(t)
                /\ t.kind = "create" => t.position \in Positions

InSession ==
    command.at = "session" =>
        /\ app.pending # None <=> app.screen = "Confirm"
        /\ PromosFit(app)

(* What a process run for one command knows at each stage: with nothing    *)
(* chosen yet it shows a position only if there is one to show.            *)
InCommand ==
    /\ command.at # "session" => (app.pending # None <=> command.at = "built")
    /\ command.at = "ended" => app = NewApp
    /\ command.at \in {"started", "selected"} => Fresh(app)
    /\ command.at = "started" /\ app.position # None => app.listed = {app.key}
    /\ command.at = "selected" /\ command.asked # None =>
          app.position \in {None, command.asked}
    /\ command.at = "built" =>
          /\ command.asked # None /\ app.pending.key # None =>
                app.pending.position = command.asked
          /\ app.pending.floor # None =>
                app.pending.floor = <<app.pending.position, app.pending.market>>

TuiInv ==
    /\ Sound(app)
    /\ existing \subseteq Positions
    /\ command \in [at : Stages, asked : OrNone(Positions)]
    /\ PendingFits(app.pending)
    /\ InSession
    /\ InCommand

LEMMA TuiStart == Init => TuiInv
  BY NewAppSound, ConstantTypes
  DEF Init, TuiInv, NoProcess, Stages, OrNone, InSession, InCommand, NewApp, PendingFits

LEMMA InvTypes == TuiInv => TypeOK
  BY DEF TuiInv, Sound, App, TypeOK, SessionTypeOK, InSession, InCommand

LEMMA InvOnePosition == TuiInv => TransactionIsOfOnePosition
  BY DEF TuiInv, PendingFits, InCommand, TransactionIsOfOnePosition

-----------------------------------------------------------------------------
(* The steps.                                                              *)

(* The two action properties, of one step.                                 *)
KeepsPosition ==
    /\ app.position \in PositionsOf(app'.listed)
    /\ app.select = None
    /\ \A k \in Keys : ~ChooseFromList(k)
    => app'.position \in {app.position, None}

ReadsFigures ==
    /\ app'.figures # None /\ app'.position # None
    /\ app'.figures # app.figures \/ app'.screen = "Result"
    => /\ app'.figures[1] = app'.position
       /\ app'.market # None => app'.figures[2] = MarketOf[app'.position]

Steady ==
    /\ app'.position = app.position
    /\ app'.figures = app.figures
    /\ app'.screen # "Result"

LEMMA SteadyKeeps == Steady => KeepsPosition /\ ReadsFigures
  BY DEF Steady, KeepsPosition, ReadsFigures

LEMMA SessionInvKept ==
    ASSUME TuiInv, command.at = "session", UNCHANGED command,
           existing' \subseteq Positions,
           Sound(app'), PendingFits(app'.pending), PromosFit(app'),
           app'.pending # None <=> app'.screen = "Confirm"
    PROVE  TuiInv'
<1>1. Sound(app)' /\ PendingFits(app.pending)' /\ PromosFit(app)'
  BY DEF Sound, Coherent, PendingFits, OfOnePosition, PromosFit
<1> QED
  BY <1>1 DEF TuiInv, InSession, InCommand

LEMMA ShowKeeps ==
    ASSUME TuiInv, command.at = "session", UNCHANGED command,
           app.screen # "Confirm",
           NEW s \in Screens \ {"Confirm", "Result"}, Show(s),
           PromosFit([app EXCEPT !.screen = s])
    PROVE  TuiInv' /\ Steady
<1> DEFINE b == [app EXCEPT !.screen = s]
<1>1. /\ app \in App /\ app.pending = None /\ app' = b /\ existing' = existing
  BY DEF TuiInv, Sound, InSession, Show
<1>2. /\ b \in App /\ b.position = app.position /\ b.key = app.key /\ b.market = app.market
      /\ b.addresses = app.addresses /\ b.initialized = app.initialized
      /\ b.figures = app.figures /\ b.pending = None /\ b.screen = s
  BY <1>1 DEF App
<1>3. PromosFit(b)
  OBVIOUS
<1> HIDE DEF b
<1>4. Sound(b)
  BY <1>2 DEF TuiInv, Sound, Coherent
<1>5. Steady
  BY <1>1, <1>2 DEF Steady
<1>6. existing' \subseteq Positions /\ PendingFits(app'.pending)
  BY <1>1, <1>2 DEF TuiInv, PendingFits
<1>7. TuiInv'
  BY <1>1, <1>2, <1>3, <1>4, <1>6, SessionInvKept
<1> QED
  BY <1>5, <1>7

(* A builder that has what it needs leaves a transaction about one         *)
(* position to be confirmed.                                               *)
Asks ==
    LET t == app'.pending
    IN /\ Sound(app') /\ UNCHANGED existing
       /\ t # None /\ PendingFits(t)
       /\ app'.screen = "Confirm" /\ Steady
       /\ t.key # None => app.position # None /\ t.position = app.position
       /\ Fresh(app) /\ t.floor # None => t.floor = <<t.position, t.market>>

(* What a transaction must be for that.                                    *)
Fitting(t) ==
    /\ t \in Transactions
    /\ PendingFits(t)
    /\ t.key # None => app.position # None /\ t.position = app.position
    /\ Fresh(app) /\ t.floor # None => t.floor = <<t.position, t.market>>

LEMMA ConfirmAsks ==
    ASSUME Sound(app), NEW t, Fitting(t), NEW s \in OrNone(Positions),
           app' = [app EXCEPT !.pending = t, !.select = s, !.screen = "Confirm"],
           UNCHANGED existing
    PROVE  Asks
<1> DEFINE b == [app EXCEPT !.pending = t, !.select = s, !.screen = "Confirm"]
<1>1. t \in OrNone(Transactions) /\ t # None /\ "Confirm" \in Screens /\ app \in App
  BY ConstantTypes DEF Fitting, OrNone, Screens, Sound
<1>2. /\ b \in App /\ b.position = app.position /\ b.key = app.key /\ b.market = app.market
      /\ b.addresses = app.addresses /\ b.initialized = app.initialized
      /\ b.figures = app.figures /\ b.pending = t /\ b.screen = "Confirm"
  BY <1>1 DEF App
<1>3. app' = b
  OBVIOUS
<1> HIDE DEF b
<1>4. Sound(b)
  BY <1>2 DEF Sound, Coherent
<1> QED
  BY <1>1, <1>2, <1>3, <1>4 DEF Asks, Steady, Fitting

LEMMA GotoConfirmAsks ==
    ASSUME Sound(app), NEW t, Fitting(t), GotoConfirm(t)
    PROVE  Asks
<1>1. /\ app \in App /\ app.select \in OrNone(Positions)
      /\ app' = [app EXCEPT !.pending = t, !.screen = "Confirm"] /\ UNCHANGED existing
  BY DEF Sound, App, GotoConfirm
<1>2. app' = [app EXCEPT !.pending = t, !.select = app.select, !.screen = "Confirm"]
  BY <1>1 DEF App
<1> QED
  BY <1>1, <1>2, ConfirmAsks

(* A transaction that names the position shown and a key of it, or none.   *)
LEMMA ActionFits ==
    ASSUME Sound(app), NEW kind \in Kinds \ {"create", "updatePromo"},
           NEW k \in OrNone(Keys),
           k # None => app.position # None /\ PositionOf[k] = app.position
    PROVE  Fitting(Action(kind, k))
<1>1. /\ app \in App /\ app.position \in OrNone(Positions) /\ None \in OrNone(Markets)
      /\ None \in OrNone(Positions \X Markets) /\ None \in OrNone(Positions)
  BY DEF Sound, App, OrNone
<1> QED
  BY <1>1 DEF Action, Fitting, Transactions, PendingFits, OfOnePosition

LEMMA ProtocolAsks ==
    ASSUME Sound(app), NEW kind \in {"init", "collection", "administer"},
           BuildProtocol(kind)
    PROVE  Asks
<1> DEFINE t == [Action(kind, None) EXCEPT !.position = None]
<1>1. /\ app.position \in OrNone(Positions) /\ None \in OrNone(Markets)
      /\ None \in OrNone(Positions \X Markets) /\ None \in OrNone(Positions)
      /\ None \in OrNone(Keys) /\ kind \in Kinds
  BY DEF Sound, App, OrNone, Kinds
<1>2. Fitting(t)
  BY <1>1 DEF Action, Fitting, Transactions, PendingFits, OfOnePosition
<1>3. GotoConfirm(t)
  BY DEF BuildProtocol
<1> HIDE DEF t
<1> QED
  BY <1>2, <1>3, GotoConfirmAsks

LEMMA CreateAsks ==
    ASSUME Sound(app), NEW p \in Positions, BuildCreate(p)
    PROVE  Asks
<1> DEFINE t == [Action("create", None) EXCEPT !.position = p]
<1>1. /\ app.position \in OrNone(Positions) /\ None \in OrNone(Markets)
      /\ None \in OrNone(Positions \X Markets) /\ None \in OrNone(Positions)
      /\ None \in OrNone(Keys) /\ "create" \in Kinds /\ p \in OrNone(Positions)
  BY DEF Sound, App, OrNone, Kinds
<1>2. Fitting(t)
  BY <1>1 DEF Action, Fitting, Transactions, PendingFits, OfOnePosition
<1>3. /\ app' = [app EXCEPT !.pending = t, !.select = p, !.screen = "Confirm"]
      /\ UNCHANGED existing
  BY DEF BuildCreate
<1> HIDE DEF t
<1> QED
  BY <1>1, <1>2, <1>3, ConfirmAsks

(* The builders that name the key in use.                                  *)
LEMMA KeyFits ==
    ASSUME Sound(app), HasKey
    PROVE  /\ app.position \in Positions /\ app.key \in Keys
           /\ PositionOf[app.key] = app.position
           /\ app.market \in {None, MarketOf[app.position]}
           /\ app.addresses = <<app.position, OrDefault(app.market)>>
  BY DEF Sound, Coherent, HasKey, App, OrNone

LEMMA NamedKeyAsks ==
    ASSUME Sound(app), HasKey, NEW kind \in Kinds \ {"create", "updatePromo"},
           GotoConfirm(Action(kind, app.key))
    PROVE  Asks
<1>1. app.key \in OrNone(Keys) /\ app.position # None /\ PositionOf[app.key] = app.position
  BY KeyFits, ConstantTypes DEF OrNone
<1> QED
  BY <1>1, ActionFits, GotoConfirmAsks

LEMMA RecoveryAsks ==
    ASSUME Sound(app), NEW r \in Keys, BuildExecuteRecovery(r)
    PROVE  Asks
<1>1. /\ r \in OrNone(Keys) /\ app.position # None /\ PositionOf[r] = app.position
      /\ "recover" \in Kinds \ {"create", "updatePromo"}
      /\ GotoConfirm(Action("recover", r))
  BY DEF BuildExecuteRecovery, OrNone, Kinds
<1> QED
  BY <1>1, ActionFits, GotoConfirmAsks

LEMMA TradeAsks ==
    ASSUME Sound(app), NEW kind \in TradeForms \cup {"reinvest"}, BuildTrade(kind)
    PROVE  Asks
<1> DEFINE t == Trade(kind)
           floor == IF kind = "sell" THEN app.figures ELSE None
<1>1. /\ app \in App /\ HasKey /\ app.market # None /\ GotoConfirm(t)
      /\ kind \in Kinds /\ kind \notin {"create", "updatePromo"}
  BY DEF BuildTrade, Sound, Kinds, TradeForms
<1>2. /\ app.position \in Positions /\ app.key \in Keys
      /\ PositionOf[app.key] = app.position
      /\ app.market = MarketOf[app.position]
      /\ app.addresses = <<app.position, app.market>>
  BY <1>1, KeyFits DEF OrDefault
<1>3. t = [kind |-> kind, position |-> app.position, key |-> app.key,
           market |-> app.market, addresses |-> app.addresses, floor |-> floor,
           promosOf |-> None]
  <2> DEFINE base == Action(kind, app.key)
  <2>1. t = [base EXCEPT !.market = app.market, !.addresses = app.addresses,
                         !.floor = floor]
    BY DEF Trade
  <2>2. base = [kind |-> kind, position |-> app.position, key |-> app.key, market |-> None,
                addresses |-> None, floor |-> None, promosOf |-> None]
    BY DEF Action
  <2> HIDE DEF t, floor, base
  <2> QED
    BY <2>1, <2>2
<1>4. /\ app.market \in OrNone(Markets) /\ app.position \in OrNone(Positions)
      /\ app.key \in OrNone(Keys) /\ None \in OrNone(Positions)
      /\ app.addresses \in OrNone(Positions \X Markets)
      /\ floor \in OrNone(Positions \X Markets)
  BY <1>1, <1>2 DEF App, OrNone
<1>5. Fresh(app) /\ floor # None => floor = <<app.position, app.market>>
  BY <1>1, <1>2 DEF Fresh, OrDefault
<1> HIDE DEF t, floor
<1>6. t \in Transactions
  BY <1>1, <1>3, <1>4 DEF Transactions
<1>7. OfOnePosition(t)
  BY <1>1, <1>2, <1>3 DEF OfOnePosition
<1>8. Fitting(t)
  BY <1>1, <1>2, <1>3, <1>5, <1>6, <1>7, ConstantTypes DEF Fitting, PendingFits
<1> QED
  BY <1>1, <1>8, GotoConfirmAsks

LEMMA UpdatePromoAsks ==
    ASSUME Sound(app), app.promos = app.position, BuildUpdatePromo
    PROVE  Asks
<1> DEFINE t == [Action("updatePromo", app.key) EXCEPT !.promosOf = app.promos]
<1>1. /\ app.promos \in OrNone(Positions) /\ None \in OrNone(Markets)
      /\ None \in OrNone(Positions \X Markets) /\ "updatePromo" \in Kinds
      /\ HasKey /\ GotoConfirm(t)
  BY DEF Sound, App, OrNone, Kinds, BuildUpdatePromo
<1>2. /\ app.position \in OrNone(Positions) /\ app.key \in OrNone(Keys)
      /\ app.position # None /\ PositionOf[app.key] = app.position
  BY <1>1, KeyFits, ConstantTypes DEF OrNone
<1>3. Fitting(t)
  BY <1>1, <1>2 DEF Action, Fitting, Transactions, PendingFits, OfOnePosition
<1> HIDE DEF t
<1> QED
  BY <1>1, <1>3, GotoConfirmAsks

-----------------------------------------------------------------------------
(* A session.                                                              *)

LEMMA AskedInSession ==
    ASSUME TuiInv, command.at = "session", UNCHANGED command, Asks
    PROVE  TuiInv' /\ Steady
<1>1. /\ Sound(app') /\ existing' \subseteq Positions /\ PendingFits(app'.pending)
      /\ app'.pending # None /\ app'.screen = "Confirm" /\ Steady
  BY DEF Asks, TuiInv
<1>2. PromosFit(app')
  BY <1>1 DEF PromosFit
<1> QED
  BY <1>1, <1>2, SessionInvKept

(* What a refresh makes of the two action properties.                      *)
LEMMA RefreshedKeeps ==
    ASSUME NEW a, Sound(a), NEW keys \in SUBSET Keys, NEW b \in Refreshed(a, keys),
           a.position = app.position, a.select = app.select,
           app'.position = b.position, app'.listed = b.listed,
           app'.figures = b.figures, app'.market = b.market
    PROVE  KeepsPosition /\ ReadsFigures
<1>1. /\ Sound(b) /\ Fresh(b)
      /\ a.select = None /\ a.position \in PositionsOf(b.listed) =>
            b.position \in {a.position, None}
  BY RefreshedSound
<1>2. KeepsPosition
  BY <1>1 DEF KeepsPosition
<1>3. ASSUME b.figures # None, b.position # None
      PROVE  /\ b.figures[1] = b.position
             /\ b.market # None => b.figures[2] = MarketOf[b.position]
  BY <1>1, <1>3 DEF Sound, Coherent, Fresh, OrDefault
<1> QED
  BY <1>2, <1>3 DEF ReadsFigures

LEMMA KeysAmongTypes == \A positions : KeysAmong(positions) \in SUBSET Keys
  BY DEF KeysAmong

LEMMA RefreshPressed ==
    ASSUME TuiInv, command.at = "session", UNCHANGED command, PressRefresh
    PROVE  TuiInv' /\ KeepsPosition /\ ReadsFigures
<1>1. /\ Sound(app) /\ app.screen \in {"PositionList", "Dashboard"} /\ app.pending = None
      /\ app' \in Refreshed(app, KeysAmong(existing)) /\ existing' = existing
      /\ existing \subseteq Positions
  BY DEF TuiInv, InSession, PressRefresh, On
<1>2. KeysAmong(existing) \in SUBSET Keys
  BY KeysAmongTypes
<1>3. /\ Sound(app') /\ app'.pending = None
      /\ app'.screen \in {"PositionList", "Dashboard"}
  BY <1>1, <1>2, RefreshedSound
<1>4. PendingFits(app'.pending) /\ PromosFit(app')
  BY <1>3 DEF PendingFits, PromosFit
<1>5. TuiInv'
  BY <1>1, <1>3, <1>4, SessionInvKept
<1> QED
  BY <1>1, <1>2, <1>5, RefreshedKeeps

LEMMA ChosenFromList ==
    ASSUME TuiInv, command.at = "session", UNCHANGED command,
           NEW k \in Keys, ChooseFromList(k)
    PROVE  TuiInv' /\ KeepsPosition /\ ReadsFigures
<1>1. PICK ar \in BOOLEAN, mr \in BOOLEAN : app' = Reselected(app, k, ar, mr)
  BY DEF ChooseFromList
<1>2. /\ Sound(app) /\ app.screen = "PositionList" /\ app.pending = None
      /\ existing' \subseteq Positions
  BY DEF TuiInv, InSession, ChooseFromList, On
<1>3. /\ Sound(app') /\ app'.pending = None /\ app'.figures = app.figures
      /\ app'.screen \in {"PositionList", "Dashboard"}
  BY <1>1, <1>2, ReselectedSound
<1>4. PendingFits(app'.pending) /\ PromosFit(app')
  BY <1>3 DEF PendingFits, PromosFit
<1>5. TuiInv'
  BY <1>2, <1>3, <1>4, SessionInvKept
<1>6. KeepsPosition
  BY DEF KeepsPosition
<1>7. ReadsFigures
  BY <1>3 DEF ReadsFigures
<1> QED
  BY <1>5, <1>6, <1>7

LEMMA LandsTypes ==
    ASSUME existing \subseteq Positions, NEW t, PendingFits(t), t # None,
           Lands(t) \/ UNCHANGED existing
    PROVE  existing' \subseteq Positions
  BY DEF PendingFits, Lands

LEMMA SentInSession ==
    ASSUME TuiInv, command.at = "session", UNCHANGED command, ConfirmSent
    PROVE  TuiInv' /\ KeepsPosition /\ ReadsFigures
<1> DEFINE a == [app EXCEPT !.pending = None]
<1>1. PICK after \in Refreshed(a, KeysAmong(existing')) :
        app' = [after EXCEPT !.screen = "Result"]
  BY DEF ConfirmSent
<1>2. /\ app \in App /\ Sound(app) /\ app.pending # None /\ PendingFits(app.pending)
      /\ existing \subseteq Positions /\ Lands(app.pending)
  BY DEF TuiInv, Sound, InSession, ConfirmSent, On
<1>3. /\ a \in App /\ a.pending = None /\ a.position = app.position /\ a.select = app.select
      /\ a.key = app.key /\ a.market = app.market /\ a.addresses = app.addresses
      /\ a.initialized = app.initialized
  BY <1>2 DEF App, OrNone
<1> HIDE DEF a
<1>4. Sound(a)
  BY <1>2, <1>3 DEF Sound, Coherent
<1>5. KeysAmong(existing') \in SUBSET Keys
  BY KeysAmongTypes
<1>6. Sound(after) /\ after.pending = None
  BY <1>1, <1>3, <1>4, <1>5, RefreshedSound
<1> DEFINE b == [after EXCEPT !.screen = "Result"]
<1>7. /\ b \in App /\ b.pending = None /\ b.position = after.position /\ b.key = after.key
      /\ b.market = after.market /\ b.addresses = after.addresses
      /\ b.initialized = after.initialized /\ b.listed = after.listed
      /\ b.figures = after.figures /\ b.screen = "Result"
  BY <1>6 DEF Sound, App, Screens
<1>8. app' = b
  BY <1>1
<1> HIDE DEF b
<1>9. Sound(b) /\ PendingFits(b.pending) /\ PromosFit(b)
  BY <1>6, <1>7 DEF Sound, Coherent, PendingFits, PromosFit
<1>10. TuiInv'
  BY <1>2, <1>7, <1>8, <1>9, LandsTypes, SessionInvKept
<1> QED
  BY <1>1, <1>3, <1>4, <1>5, <1>7, <1>8, <1>10, RefreshedKeeps

(* A transaction given up, by an error or by the user.                     *)
LEMMA GivenUp ==
    ASSUME TuiInv, command.at = "session", UNCHANGED command,
           NEW s \in OrNone(Positions),
           app' = [app EXCEPT !.pending = None, !.select = s, !.screen = "Dashboard"],
           existing' \subseteq Positions
    PROVE  TuiInv' /\ Steady
<1> DEFINE b == [app EXCEPT !.pending = None, !.select = s, !.screen = "Dashboard"]
<1>1. app \in App /\ Sound(app) /\ "Dashboard" \in Screens
  BY DEF TuiInv, Sound, Screens
<1>2. /\ b \in App /\ b.pending = None /\ b.position = app.position /\ b.key = app.key
      /\ b.market = app.market /\ b.addresses = app.addresses
      /\ b.initialized = app.initialized /\ b.figures = app.figures
      /\ b.screen = "Dashboard"
  BY <1>1 DEF App, OrNone
<1>3. app' = b
  OBVIOUS
<1> HIDE DEF b
<1>4. Sound(b) /\ PendingFits(b.pending) /\ PromosFit(b)
  BY <1>1, <1>2 DEF Sound, Coherent, PendingFits, PromosFit
<1> QED
  BY <1>2, <1>3, <1>4, SessionInvKept DEF Steady

LEMMA ScreensTypes ==
    /\ Forms \subseteq Screens /\ TradeForms \subseteq Forms /\ PromoForms \subseteq Forms
    /\ {"PositionList", "Dashboard", "MarketPicker", "PromoList", "Confirm", "Result"}
         \subseteq Screens
    /\ Forms \cap {"PositionList", "Dashboard", "MarketPicker", "PromoList",
                   "Confirm", "Result"} = {}
    /\ PromoForms = {"createPromo", "viewPromo", "maxClaims"}
    /\ TradeForms \cap PromoForms = {}
    /\ {"create", "authorize", "revoke", "recovery", "settings", "sealed"}
         \subseteq Forms \ PromoForms
  BY DEF Screens, Forms, TradeForms, PromoForms

(* A screen of its own, with no promo on it.                               *)
LEMMA PlainScreen ==
    ASSUME TuiInv, command.at = "session", UNCHANGED command,
           app.screen # "Confirm", NEW s, Show(s),
           s \in {"PositionList", "Dashboard", "MarketPicker"} \cup (Forms \ PromoForms)
    PROVE  TuiInv' /\ Steady
<1>1. s \in Screens \ {"Confirm", "Result"} /\ s \notin PromoForms /\ s # "PromoList"
  BY ScreensTypes
<1>2. [app EXCEPT !.screen = s].screen = s
  BY DEF TuiInv, Sound, App
<1>3. PromosFit([app EXCEPT !.screen = s])
  BY <1>1, <1>2, ScreensTypes DEF PromosFit
<1> QED
  BY <1>1, <1>3, ShowKeeps

(* A screen of the promos.                                                 *)
LEMMA PromoScreen ==
    ASSUME TuiInv, command.at = "session", UNCHANGED command,
           app.screen # "Confirm", NEW s, Show(s),
           \/ s \in {"PromoList", "createPromo"} /\ app.promos \in {app.position, None}
           \/ s \in {"viewPromo", "maxClaims"} /\ app.promos = app.position
    PROVE  TuiInv' /\ Steady
<1>1. s \in Screens \ {"Confirm", "Result"}
  BY ScreensTypes
<1> DEFINE b == [app EXCEPT !.screen = s]
<1>2. b.screen = s /\ b.promos = app.promos /\ b.position = app.position
  BY DEF TuiInv, Sound, App
<1> HIDE DEF b
<1>3. PromosFit(b)
  BY <1>2 DEF PromosFit
<1> QED
  BY <1>1, <1>3, ShowKeeps DEF b

LEMMA PromosListed ==
    ASSUME TuiInv, command.at = "session", UNCHANGED command, ListPromos
    PROVE  TuiInv' /\ Steady
<1>1. PICK q \in {app.position, None} : app' = [app EXCEPT !.promos = q, !.screen = "PromoList"]
  BY DEF ListPromos
<1>2. /\ app \in App /\ Sound(app) /\ "PromoList" \in Screens /\ q \in OrNone(Positions)
      /\ existing' \subseteq Positions /\ app.pending = None
  BY <1>1 DEF TuiInv, Sound, App, Screens, OrNone, ListPromos, On, InSession
<1> DEFINE b == [app EXCEPT !.promos = q, !.screen = "PromoList"]
<1>3. /\ b \in App /\ b.pending = None /\ b.position = app.position /\ b.key = app.key
      /\ b.market = app.market /\ b.addresses = app.addresses
      /\ b.initialized = app.initialized /\ b.figures = app.figures
      /\ b.screen = "PromoList" /\ b.promos = q
  BY <1>2 DEF App
<1>4. app' = b
  BY <1>1
<1> HIDE DEF b
<1>5. Sound(b) /\ PendingFits(b.pending) /\ PromosFit(b)
  BY <1>1, <1>2, <1>3 DEF Sound, Coherent, PendingFits, PromosFit
<1> QED
  BY <1>2, <1>3, <1>4, <1>5, SessionInvKept DEF Steady

LEMMA FormSubmitted ==
    ASSUME Sound(app), PromosFit(app), SubmitForm
    PROVE  Asks
<1>1. ASSUME NEW kind \in {"authorize", "revoke", "configure"}, BuildKeyChange(kind)
      PROVE  Asks
  <2>1. HasKey /\ kind \in Kinds \ {"create", "updatePromo"}
        /\ GotoConfirm(Action(kind, app.key))
    BY <1>1 DEF BuildKeyChange, Kinds
  <2> QED
    BY <2>1, NamedKeyAsks
<1>2. ASSUME BuildCreatePromo PROVE Asks
  <2>1. HasKey /\ "createPromo" \in Kinds \ {"create", "updatePromo"}
        /\ GotoConfirm(Action("createPromo", app.key))
    BY <1>2 DEF BuildCreatePromo, Kinds
  <2> QED
    BY <2>1, NamedKeyAsks
<1>3. ASSUME On("viewPromo") \/ On("maxClaims"), BuildUpdatePromo PROVE Asks
  <2>1. app.promos = app.position
    BY <1>3 DEF On, PromosFit
  <2> QED
    BY <1>3, <2>1, UpdatePromoAsks
<1> QED
  BY <1>1, <1>2, <1>3, CreateAsks, TradeAsks DEF SubmitForm

LEMMA HeartbeatAsks ==
    ASSUME Sound(app), BuildHeartbeat
    PROVE  Asks
<1>1. HasKey /\ "heartbeat" \in Kinds \ {"create", "updatePromo"}
      /\ GotoConfirm(Action("heartbeat", app.key))
  BY DEF BuildHeartbeat, Kinds
<1> QED
  BY <1>1, NamedKeyAsks

LEMMA SessionKeeps ==
    ASSUME TuiInv, Session
    PROVE  TuiInv' /\ KeepsPosition /\ ReadsFigures
<1>1. /\ command.at = "session" /\ UNCHANGED command /\ PressKey
      /\ Sound(app) /\ PromosFit(app)
  BY DEF Session, TuiInv, InSession
<1>2. CASE PressRefresh \/ ConfirmSent \/ \E k \in Keys : ChooseFromList(k)
  BY <1>1, <1>2, RefreshPressed, SentInSession, ChosenFromList
<1>3. CASE SubmitForm \/ PressAction
  <2>1. Asks
    BY <1>1, <1>3, FormSubmitted, ProtocolAsks, HeartbeatAsks, RecoveryAsks, TradeAsks
    DEF PressAction
  <2> QED
    BY <1>1, <2>1, AskedInSession, SteadyKeeps
<1>4. CASE BackToList \/ BeginCreate \/ PickMarket \/ OpenKeyForm \/ UnlockSettings
           \/ OpenTradeForm \/ CloseResult
  <2>1. app.screen # "Confirm"
    BY <1>4 DEF BackToList, BeginCreate, PickMarket, OpenKeyForm, UnlockSettings,
                OpenTradeForm, CloseResult, On
  <2>2. \E s \in {"PositionList", "Dashboard", "MarketPicker"} \cup (Forms \ PromoForms) :
           Show(s)
    BY <1>4, ScreensTypes
    DEF BackToList, BeginCreate, PickMarket, OpenKeyForm, UnlockSettings,
        OpenTradeForm, CloseResult
  <2> QED
    BY <1>1, <2>1, <2>2, PlainScreen, SteadyKeeps
<1>5. CASE ListPromos
  BY <1>1, <1>5, PromosListed, SteadyKeeps
<1>6. CASE WithinPromoList
  <2>1. app.screen = "PromoList" /\ app.promos \in {app.position, None}
    BY <1>1, <1>6 DEF WithinPromoList, On, PromosFit
  <2>2. \/ Show("Dashboard") \/ Show("createPromo")
        \/ Show("viewPromo") /\ app.promos = app.position
    BY <1>6, <2>1 DEF WithinPromoList
  <2> QED
    BY <1>1, <2>1, <2>2, PlainScreen, PromoScreen, SteadyKeeps
<1>7. CASE EditMaxClaims
  <2>1. app.screen = "viewPromo" /\ app.promos = app.position /\ Show("maxClaims")
    BY <1>1, <1>7 DEF EditMaxClaims, On, PromosFit
  <2> QED
    BY <1>1, <2>1, PromoScreen, SteadyKeeps
<1>8. CASE LeaveForm
  <2>1. /\ app.screen # "Confirm"
        /\ \/ app.screen \in PromoForms /\ Show("PromoList")
           \/ Show("Dashboard")
    BY <1>8, ScreensTypes DEF LeaveForm
  <2>2. app.screen \in PromoForms => app.promos \in {app.position, None}
    BY <1>1, ScreensTypes DEF PromosFit
  <2> QED
    BY <1>1, <2>1, <2>2, PlainScreen, PromoScreen, SteadyKeeps
<1>9. CASE ConfirmFailed \/ Cancel
  <2>1. /\ app \in App /\ app.select \in OrNone(Positions) /\ None \in OrNone(Positions)
        /\ app.pending # None /\ PendingFits(app.pending) /\ existing \subseteq Positions
    BY <1>1, <1>9 DEF TuiInv, Sound, App, OrNone, InSession, ConfirmFailed, Cancel, On
  <2>2. existing' \subseteq Positions
    BY <1>9, <2>1, LandsTypes DEF ConfirmFailed, Cancel
  <2>3. \E s \in OrNone(Positions) :
          app' = [app EXCEPT !.pending = None, !.select = s, !.screen = "Dashboard"]
    <3>1. CASE ConfirmFailed
      <4>1. app' = [app EXCEPT !.pending = None, !.select = app.select,
                               !.screen = "Dashboard"]
        BY <2>1, <3>1 DEF ConfirmFailed, App
      <4> QED
        BY <2>1, <4>1
    <3>2. CASE Cancel
      BY <2>1, <3>2 DEF Cancel, Cancelled
    <3> QED
      BY <1>9, <3>1, <3>2
  <2> QED
    BY <1>1, <2>2, <2>3, GivenUp, SteadyKeeps
<1> QED
  BY <1>1, <1>2, <1>3, <1>4, <1>5, <1>6, <1>7, <1>8, <1>9 DEF PressKey

-----------------------------------------------------------------------------
(* A process run for one command, and the start and end of any.            *)

LEMMA CommandInvKept ==
    ASSUME TuiInv, NEW at \in Stages \ {"session"}, NEW asked \in OrNone(Positions),
           command' = [at |-> at, asked |-> asked],
           existing' \subseteq Positions, Sound(app'), PendingFits(app'.pending),
           app'.pending # None <=> at = "built",
           at = "ended" => app' = NewApp,
           at \in {"started", "selected"} => Fresh(app'),
           at = "started" /\ app'.position # None => app'.listed = {app'.key},
           at = "selected" /\ asked # None => app'.position \in {None, asked},
           at = "built" =>
              /\ asked # None /\ app'.pending.key # None => app'.pending.position = asked
              /\ app'.pending.floor # None =>
                    app'.pending.floor = <<app'.pending.position, app'.pending.market>>
    PROVE  TuiInv'
<1>1. Sound(app)' /\ PendingFits(app.pending)'
  BY DEF Sound, Coherent, PendingFits, OfOnePosition
<1>2. command'.at = at /\ command'.asked = asked
      /\ command' \in [at : Stages, asked : OrNone(Positions)]
  OBVIOUS
<1>3. (at \in {"started", "selected"} => Fresh(app)') /\ (NewApp)' = NewApp
  BY DEF Fresh, NewApp
<1>4. InSession'
  BY <1>2 DEF InSession
<1>5. InCommand'
  BY <1>2, <1>3 DEF InCommand
<1> QED
  BY <1>1, <1>2, <1>4, <1>5 DEF TuiInv

LEMMA EndsKeeps ==
    ASSUME TuiInv, Ends, existing' \subseteq Positions
    PROVE  TuiInv' /\ KeepsPosition /\ ReadsFigures
<1>1. /\ app' = NewApp /\ command' = [at |-> "ended", asked |-> None]
      /\ NewApp.pending = None /\ NewApp.listed = {} /\ NewApp.figures = None
      /\ Sound(NewApp) /\ "ended" \in Stages \ {"session"} /\ None \in OrNone(Positions)
  BY NewAppSound DEF Ends, NoProcess, NewApp, Stages, OrNone
<1>2. PendingFits(app'.pending)
  BY <1>1 DEF PendingFits
<1>3. TuiInv'
  BY <1>1, <1>2, CommandInvKept
<1>4. PositionsOf(app'.listed) = {}
  BY <1>1 DEF PositionsOf
<1> QED
  BY <1>1, <1>3, <1>4 DEF KeepsPosition, ReadsFigures

LEMMA Started ==
    ASSUME TuiInv, Run
    PROVE  TuiInv' /\ KeepsPosition /\ ReadsFigures
<1>1. /\ app = NewApp /\ existing' = existing /\ existing \subseteq Positions
      /\ app' \in Refreshed(NewApp, KeysAmong(existing))
      /\ command.at = "ended" /\ command \in [at : Stages, asked : OrNone(Positions)]
  BY DEF Run, StartApp, TuiInv, InCommand
<1>2. /\ NewApp.position = None /\ NewApp.select = None /\ NewApp.pending = None
      /\ NewApp.screen = "Dashboard" /\ Sound(NewApp)
      /\ KeysAmong(existing) \in SUBSET Keys
  BY NewAppSound, KeysAmongTypes DEF NewApp
<1>3. /\ Sound(app') /\ Fresh(app') /\ app'.pending = None
      /\ app'.screen \in {"Dashboard", "PositionList"}
      /\ app'.position # None => app'.listed = {app'.key}
  BY <1>1, <1>2, RefreshedSound
<1>4. PendingFits(app'.pending) /\ PromosFit(app')
  BY <1>3 DEF PendingFits, PromosFit
<1>5. KeepsPosition /\ ReadsFigures
  BY <1>1, <1>2, RefreshedKeeps
<1>6. CASE command' = [command EXCEPT !.at = "session"]
  <2>1. /\ command'.at = "session"
        /\ command' \in [at : Stages, asked : OrNone(Positions)]
    BY <1>1, <1>6 DEF Stages
  <2>2. Sound(app)' /\ PendingFits(app.pending)' /\ PromosFit(app)'
    BY <1>3, <1>4 DEF Sound, Coherent, PendingFits, OfOnePosition, PromosFit
  <2>3. InSession' /\ InCommand'
    BY <1>3, <2>1, <2>2 DEF InSession, InCommand
  <2> QED
    BY <1>1, <1>5, <2>1, <2>2, <2>3 DEF TuiInv
<1>7. ASSUME NEW p \in OrNone(Positions), command' = [at |-> "started", asked |-> p]
      PROVE  TuiInv'
  <2>1. "started" \in Stages \ {"session"} /\ existing' \subseteq Positions
    BY <1>1 DEF Stages
  <2> QED
    BY <1>3, <1>4, <1>7, <2>1, CommandInvKept
<1> QED
  BY <1>5, <1>6, <1>7 DEF Run, Reaches

LEMMA TargetSelected ==
    ASSUME TuiInv, SelectTarget
    PROVE  TuiInv' /\ KeepsPosition /\ ReadsFigures
<1>1. PICK k \in Targets, ar \in BOOLEAN, mr \in BOOLEAN, fr \in BOOLEAN :
        app' = WithFigures(Reselected(app, k, ar, mr), fr)
  BY DEF SelectTarget
<1> DEFINE s == Reselected(app, k, ar, mr)
<1>2. /\ app \in App /\ Sound(app) /\ command.at = "started" /\ app.pending = None
      /\ command \in [at : Stages, asked : OrNone(Positions)]
      /\ app.position # None => app.listed = {app.key}
      /\ existing' = existing /\ existing \subseteq Positions
      /\ command' = [command EXCEPT !.at = "selected"]
  BY DEF TuiInv, Sound, InCommand, SelectTarget, Reaches
<1>3. /\ k \in app.listed /\ k \in Keys
      /\ command.asked # None => PositionOf[k] = command.asked
      /\ command.asked = None => app.position = None
  BY <1>1, <1>2 DEF Targets, App
<1>4. /\ Sound(s) /\ s.listed = app.listed /\ s.pending = app.pending
      /\ s.position = PositionOf[k] \/ s.position = app.position
  BY <1>2, <1>3, ReselectedSound
<1> HIDE DEF s
<1>5. /\ Sound(app') /\ Fresh(app') /\ app'.position = s.position
      /\ app'.listed = app.listed /\ app'.pending = None
  BY <1>1, <1>2, <1>4, WithFiguresSound DEF s
<1>6. app.position # None => app.position = PositionOf[k]
  BY <1>2, <1>3 DEF Sound, Coherent
<1>7. app'.position \in {None, PositionOf[k]}
  BY <1>4, <1>5, <1>6
<1>8. KeepsPosition
  <2>1. None \notin PositionsOf(app'.listed)
    BY <1>2, <1>5, ConstantTypes DEF PositionsOf, App
  <2> QED
    BY <1>6, <1>7, <2>1 DEF KeepsPosition
<1>9. ReadsFigures
  BY <1>5 DEF ReadsFigures, Sound, Coherent, Fresh, OrDefault
<1>10. PendingFits(app'.pending)
  BY <1>5 DEF PendingFits
<1>11. command.asked # None => app'.position \in {None, command.asked}
  BY <1>3, <1>7
<1>12. /\ command' = [at |-> "selected", asked |-> command.asked]
       /\ command.asked \in OrNone(Positions) /\ "selected" \in Stages \ {"session"}
  BY <1>2 DEF Stages
<1>13. TuiInv'
  BY <1>2, <1>5, <1>10, <1>11, <1>12, CommandInvKept
<1> QED
  BY <1>8, <1>9, <1>13

LEMMA SelectionKept ==
    ASSUME TuiInv, KeepSelection
    PROVE  TuiInv' /\ KeepsPosition /\ ReadsFigures
<1>1. /\ Sound(app) /\ Fresh(app) /\ PendingFits(app.pending) /\ app.pending = None
      /\ existing \subseteq Positions /\ command.asked = None
      /\ app' = app /\ existing' = existing
      /\ command' = [command EXCEPT !.at = "selected"]
      /\ command \in [at : Stages, asked : OrNone(Positions)]
  BY DEF KeepSelection, TuiInv, InCommand, Reaches, sessionVars
<1>2. /\ command' = [at |-> "selected", asked |-> None]
      /\ None \in OrNone(Positions) /\ "selected" \in Stages \ {"session"}
  BY <1>1 DEF Stages, OrNone
<1>3. TuiInv'
  BY <1>1, <1>2, CommandInvKept
<1>4. KeepsPosition
  BY <1>1 DEF KeepsPosition
<1>5. ReadsFigures
  BY <1>1 DEF ReadsFigures, Sound, Coherent, Fresh, OrDefault
<1> QED
  BY <1>3, <1>4, <1>5

LEMMA CommandBuilt ==
    ASSUME TuiInv, BuildCommand
    PROVE  TuiInv' /\ KeepsPosition /\ ReadsFigures
<1>1. /\ Sound(app) /\ Fresh(app) /\ existing \subseteq Positions
      /\ command.asked # None => app.position \in {None, command.asked}
      /\ command' = [command EXCEPT !.at = "built"]
      /\ command \in [at : Stages, asked : OrNone(Positions)]
  BY DEF BuildCommand, TuiInv, InCommand, Reaches
<1>2. ASSUME NEW kind \in {"authorize", "revoke", "configure"}, BuildKeyChange(kind)
      PROVE  Asks
  <2>1. HasKey /\ kind \in Kinds \ {"create", "updatePromo"}
        /\ GotoConfirm(Action(kind, app.key))
    BY <1>2 DEF BuildKeyChange, Kinds
  <2> QED
    BY <1>1, <2>1, NamedKeyAsks
<1>3. Asks
  BY <1>1, <1>2, ProtocolAsks, CreateAsks, RecoveryAsks, HeartbeatAsks, TradeAsks
  DEF BuildCommand
<1> DEFINE t == app'.pending
<1>4. /\ Sound(app') /\ existing' = existing /\ t # None /\ PendingFits(t) /\ Steady
      /\ t.key # None => app.position # None /\ t.position = app.position
      /\ t.floor # None => t.floor = <<t.position, t.market>>
  BY <1>1, <1>3 DEF Asks
<1> HIDE DEF t
<1>5. command.asked # None /\ t.key # None => t.position = command.asked
  BY <1>1, <1>4
<1>6. /\ command' = [at |-> "built", asked |-> command.asked]
      /\ command.asked \in OrNone(Positions) /\ "built" \in Stages \ {"session"}
  BY <1>1 DEF Stages
<1>7. TuiInv'
  BY <1>1, <1>4, <1>5, <1>6, CommandInvKept DEF t
<1> QED
  BY <1>4, <1>7, SteadyKeeps

LEMMA SentByCommand ==
    ASSUME TuiInv, CommandSent
    PROVE  TuiInv' /\ KeepsPosition /\ ReadsFigures
<1> DEFINE a == [app EXCEPT !.pending = None]
<1>1. /\ app \in App /\ Sound(app) /\ app.pending # None /\ PendingFits(app.pending)
      /\ existing \subseteq Positions /\ Lands(app.pending)
      /\ app' \in Refreshed(a, KeysAmong(existing'))
      /\ command' = [command EXCEPT !.at = "sent"]
      /\ command \in [at : Stages, asked : OrNone(Positions)]
  BY DEF TuiInv, Sound, InCommand, CommandSent, Reaches
<1>2. /\ a \in App /\ a.pending = None /\ a.position = app.position /\ a.select = app.select
      /\ a.key = app.key /\ a.market = app.market /\ a.addresses = app.addresses
      /\ a.initialized = app.initialized
  BY <1>1 DEF App, OrNone
<1> HIDE DEF a
<1>3. Sound(a) /\ KeysAmong(existing') \in SUBSET Keys
  BY <1>1, <1>2, KeysAmongTypes DEF Sound, Coherent
<1>4. Sound(app') /\ app'.pending = None
  BY <1>1, <1>2, <1>3, RefreshedSound
<1>5. PendingFits(app'.pending) /\ existing' \subseteq Positions
  BY <1>1, <1>4, LandsTypes DEF PendingFits
<1>6. /\ command' = [at |-> "sent", asked |-> command.asked]
      /\ command.asked \in OrNone(Positions) /\ "sent" \in Stages \ {"session"}
  BY <1>1 DEF Stages
<1>7. TuiInv'
  BY <1>4, <1>5, <1>6, CommandInvKept
<1> QED
  BY <1>1, <1>2, <1>3, <1>7, RefreshedKeeps

LEMMA TuiStep == TuiInv /\ Next => TuiInv' /\ KeepsPosition /\ ReadsFigures
<1> SUFFICES ASSUME TuiInv, Next PROVE TuiInv' /\ KeepsPosition /\ ReadsFigures
  OBVIOUS
<1>1. CASE Quit \/ NotFound \/ NothingToSend \/ CommandFailed \/ ResultPrinted
  <2>1. /\ Ends /\ existing \subseteq Positions /\ PendingFits(app.pending)
        /\ command.at = "built" => app.pending # None
        /\ \/ UNCHANGED existing
           \/ command.at = "built" /\ Lands(app.pending)
    BY <1>1 DEF Quit, NotFound, NothingToSend, CommandFailed, ResultPrinted, TuiInv, InCommand
  <2>2. existing' \subseteq Positions
    BY <2>1, LandsTypes
  <2> QED
    BY <2>1, <2>2, EndsKeeps
<1> QED
  BY <1>1, Started, SessionKeeps, TargetSelected, SelectionKept, CommandBuilt,
     SentByCommand DEF Next

LEMMA TuiStutter == TuiInv /\ UNCHANGED vars => TuiInv'
<1> SUFFICES ASSUME TuiInv, UNCHANGED vars PROVE TuiInv'
  OBVIOUS
<1>1. app' = app /\ existing' = existing /\ command' = command
  BY DEF vars, sessionVars
<1>2. /\ Sound(app)' /\ PendingFits(app.pending)' /\ (NewApp)' = NewApp
      /\ PromosFit(app) => PromosFit(app)'
      /\ Fresh(app) => Fresh(app)'
  <2>1. Sound(app) /\ PendingFits(app.pending)
    BY DEF TuiInv
  <2> QED
    BY <1>1, <2>1 DEF Sound, Coherent, PendingFits, OfOnePosition, PromosFit, Fresh, NewApp
<1> QED
  BY <1>1, <1>2 DEF TuiInv, InSession, InCommand

LEMMA TuiAlways == Spec => []TuiInv
<1> QED
  BY TuiStart, TuiStep, TuiStutter, PTL DEF Spec

-----------------------------------------------------------------------------
(* The theorems.                                                           *)

(* The types, and that a transaction waits exactly while it is to be       *)
(* confirmed or is about to be sent.                                       *)
THEOREM TypeCorrect == Spec => []TypeOK
<1> QED
  BY TuiAlways, InvTypes, PTL

(* The key, the market, the addresses and the promo of a transaction are   *)
(* those of the position it names, whatever could not be read before; and  *)
(* a command is about the position asked for.                              *)
THEOREM OnePositionEach == Spec => []TransactionIsOfOnePosition
<1> QED
  BY TuiAlways, InvOnePosition, PTL

(* A refresh returns to the position it left.                              *)
THEOREM RefreshReturns == Spec => RefreshKeepsThePosition
<1>1. TuiInv /\ [Next]_vars =>
        [(/\ app.position \in PositionsOf(app'.listed)
          /\ app.select = None
          /\ \A k \in Keys : ~ChooseFromList(k))
         => app'.position \in {app.position, None}]_sessionVars
  BY TuiStep DEF KeepsPosition, vars
<1> QED
  BY <1>1, TuiAlways, PTL DEF Spec, RefreshKeepsThePosition

(* The figures that come with a refresh are of the position it ends at.    *)
THEOREM FiguresBelong == Spec => RefreshReadsItsFigures
<1>1. TuiInv /\ [Next]_vars =>
        [(/\ app'.figures # None /\ app'.position # None
          /\ app'.figures # app.figures \/ app'.screen = "Result")
         => /\ app'.figures[1] = app'.position
            /\ app'.market # None => app'.figures[2] = MarketOf[app'.position]]_sessionVars
  BY TuiStep DEF ReadsFigures, vars
<1> QED
  BY <1>1, TuiAlways, PTL DEF Spec, RefreshReadsItsFigures
=============================================================================
