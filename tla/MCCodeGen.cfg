SPECIFICATION Spec
CONSTANTS
    NSymbols = 5
    Fns = {2, 4}
    Params = {5}
    Owner <- MCOwner
    Types = {"int32", "char", "void"}
    Offsets <- MCOffsets
    TypesOf <- MCTypesOf
    Literals = {5}
    Ops = {"ADD"}
    NTmp = 2
    MaxArgs = 2
    MaxPending = 3
    MaxCode = 5
CHECK_DEADLOCK FALSE
INVARIANTS
    TypeOK
    TempsAccounted
    PendingIntact
    CallsResolve
    StartSkipsFunctions
