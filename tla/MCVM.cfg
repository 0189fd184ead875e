SPECIFICATION VMSpec
CONSTANTS
    Base = 2
    WordBytes = 4
    ImmBytes = 2
    HeapSize = 13
    HeaderSize = 4
    StackSize = 6
    StackAddress = 8
    Programs <- MCPrograms
    HeapContents <- MCHeapContents
    Inputs <- MCInputs
CHECK_DEADLOCK FALSE
INVARIANTS
    VMTypeOK
    HeaderIntact
PROPERTIES
    Terminates
