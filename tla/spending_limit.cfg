SPECIFICATION Spec
CONSTANTS
    MaxU64 = 5
    Capacities <- MCCapacities
    Periods <- MCPeriods
    FillLevels <- MCFillLevels
    TotalLimits <- MCTotalLimits
    MaxSlot = 6
INVARIANTS
    TypeOK
    WindowBound
    LifetimeCap
    QuoteExact
    
