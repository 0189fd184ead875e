SPECIFICATION Spec
CONSTANTS
    PoolSize = 144
    HeaderSize = 16
    KB = 1024
    Limits <- MCLimits
    Sizes = {8, 24}
CHECK_DEADLOCK FALSE
PROPERTIES
    KeepsPromise
