SPECIFICATION PromoSpec
CONSTANTS
    Wallets = {alice, bob}
    Assets = {k1, k2, k3}
    NoKey = NoKey
    PermissionMasks <- MCMasks
    Lockouts <- MCLockouts
    MaxLockout = 1
    MaxTime = 1
    Names <- MCNames
    ClaimLimits <- MCClaimLimits
    Deposits = {0, 1}
    MaxU32 = 2
SYMMETRY Symmetry
INVARIANTS
    PromoTypeOK
    ClaimsWithinLimit
    ClaimedKeysAreDelegated
CHECK_DEADLOCK FALSE
