SPECIFICATION ToolSpec
CONSTANTS
    NSymbols = 2
    Fns = {2}
    Params = {}
    Owner <- MCOwner
    Types = {"int32", "void"}
    Offsets <- MCOffsets
    TypesOf <- MCTypesOf
    Literals = {3}
    Ops = {"ADD"}
    NTmp = 1
    MaxArgs = 0
    MaxPending = 1
    MaxCode = 6
    Base = 2
    WordBytes = 4
    ImmBytes = 2
    HeapSize = 12
    HeaderSize = 4
    StackSize = 4
    StackAddress = 8
    Programs = {}
    HeapContents <- MCHeapContents
    Inputs <- MCInputs
    Modulus = 4
    TwoImmediates = {}
    ImmediateLeft = {}
    CallResults = {"functions"}
CHECK_DEADLOCK FALSE
PROPERTIES
    Completes
