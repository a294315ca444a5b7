SPECIFICATION Spec
CONSTANTS
    admin = admin
    spender = spender
    keeper = keeper
    Keys <- MCKeys
    AdminKey = admin
    NoKeyState = NoKeyState
    Granted <- MCGranted
    SellTerms <- MCSellTerms
    BorrowTerms <- MCBorrowTerms
    Floors <- MCFloors
    Spreads <- MCSpreads
    Scale = 2
    MaxFee = 1
    MaxU64 = 2
    MaxSlot = 1
INVARIANTS
    TypeOK
    LedgerMirrors
    LimitedKeysStayWithinTerms
    
PROPERTIES
    ReinvestWithinFloor
