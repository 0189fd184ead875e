SPECIFICATION Spec
CONSTANTS
    PoolSize = 144
    HeaderSize = 16
    KB = 1024
    Limits <- MCLimits
    Sizes = {0, 8, 24, 56}
CHECK_DEADLOCK FALSE
INVARIANTS
    TypeOK
    Tiled
    WithinPool
PROPERTIES
    GrantsApart
    FailsOnlyWhenFull
    SearchEnds
