SPECIFICATION ToolSpec
CONSTANTS
    NSymbols = 5
    Fns = {1, 3}
    Params = {}
    Owner <- MCOwner
    Types = {"int32", "void"}
    Offsets <- MCOffsets
    TypesOf <- MCTypesOf
    Literals = {3}
    Ops = {"ADD"}
    NTmp = 1
    MaxArgs = 0
    MaxPending = 2
    MaxCode = 6
    Base = 2
    WordBytes = 4
    ImmBytes = 2
    HeapSize = 10
    HeaderSize = 4
    StackSize = 4
    StackAddress = 8
    Programs = {}
    HeapContents <- MCHeapContents
    Inputs <- MCInputs
    Modulus = 4
    TwoImmediates = {"functions"}
    ImmediateLeft = {}
    CallResults = {}
CHECK_DEADLOCK FALSE
PROPERTIES
    Meaning
