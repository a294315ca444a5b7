SPECIFICATION LiveSpec
CONSTANTS
    Wallets = {alice, bob}
    Assets = {k1, k2, k3}
    NoKey = NoKey
    PermissionMasks <- MCMasks
    Lockouts <- MCLockouts
    MaxLockout = 2
    MaxTime = 3
PROPERTIES
    RecoverableUnlessBothLost
CHECK_DEADLOCK FALSE
