SPECIFICATION Spec
CONSTANTS
    alice = alice
    bob = bob
    carol = carol
    p1 = p1
    p2 = p2
    p3 = p3
    a1 = a1
    a2 = a2
    a3 = a3
    d1 = d1
    d2 = d2
    d3 = d3
    navSOL = navSOL
    navJUP = navJUP
    Wallets = {alice, bob, carol}
    None = None
    Positions = {p1, p2, p3}
    Assets = {a1, a2, a3, d1, d2, d3}
    Delegated = {d1, d2, d3}
    Seed <- MCSeed
    PositionOf <- MCPositionOf
    Holder <- MCHolder
    Weight <- MCWeight
    MarketOf <- MCMarketOf
    Permits <- MCPermits
    DefaultMarket = navSOL
    f1 = f1
    f2 = f2
    FlowIds = {f1, f2}
SYMMETRY Symmetry
CONSTRAINT FewUnderTheModal
INVARIANTS
    TypeOK
    KeyFitsPosition
    ButtonIsReleased
    
    
    MinOutIsOfTheTrade
    RevokesTheChosen
    
