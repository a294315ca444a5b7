SPECIFICATION Spec
CONSTANTS
    Wallets = {alice, bob}
    Assets = {k1, k2, k3, k4}
    NoKey = NoKey
    PermissionMasks <- MCMasks
    Lockouts <- MCLockouts
    MaxLockout = 2
    MaxTime = 2
SYMMETRY Symmetry
INVARIANTS
    TypeOK
    SoleAdmin
    OneRolePerKey
    NoDangling
PROPERTIES
    SuccessionIsEarned
    SealHolds
    Isolation
    ImplementsCustody
CHECK_DEADLOCK FALSE
