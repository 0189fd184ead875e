SPECIFICATION Spec
CONSTANTS
    Base = 2
    WordBytes = 4
    ImmBytes = 2
    HeapSize = 13
    HeaderSize = 4
    StackSize = 6
    StackAddress = 8
    Programs <- MCInitialised
    HeapContents <- MCHeapContents
    Inputs <- MCInputs
CHECK_DEADLOCK FALSE
INVARIANTS
    Deterministic
PROPERTIES
    DifferencesShrink
