SPECIFICATION Spec
CONSTANTS
    p1 = p1
    p2 = p2
    p3 = p3
    a2 = a2
    d1 = d1
    r2 = r2
    a3 = a3
    navSOL = navSOL
    navJUP = navJUP
    Positions = {p1, p2, p3}
    FirstPositions = {p1, p2}
    Keys = {d1, a2, r2, a3}
    PositionOf <- MCPositionOf
    Role <- MCRole
    MarketOf <- MCMarketOf
    DefaultMarket = navSOL
    LoadedMarkets = {navSOL, navJUP}
    None = None
INVARIANT SaleFloorIsOfItsMarket
