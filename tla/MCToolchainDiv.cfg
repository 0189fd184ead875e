SPECIFICATION ToolSpec
CONSTANTS
    NSymbols = 2
    Fns = {}
    Params = {}
    Owner <- MCOwner
    Types = {"int32", "void"}
    Offsets <- MCOffsets
    TypesOf <- MCTypesOf
    Literals = {3}
    Ops = {"DIV"}
    NTmp = 2
    MaxArgs = 0
    MaxPending = 2
    MaxCode = 7
    Base = 2
    WordBytes = 4
    ImmBytes = 2
    HeapSize = 12
    HeaderSize = 4
    StackSize = 4
    StackAddress = 8
    Programs = {}
    HeapContents <- MCHeapContents
    Inputs <- MCInputs
    Modulus = 4
    TwoImmediates = {}
    ImmediateLeft = {}
    CallResults = {}
CHECK_DEADLOCK FALSE
PROPERTIES
    Meaning
