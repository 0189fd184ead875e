SPECIFICATION Spec
CONSTANTS
    Outputs <- MCOutputs
    MaxRead = 7
CHECK_DEADLOCK FALSE
INVARIANTS
    FileTypeOK
    LoadsWritten
    LoadsBeginning
PROPERTIES
    ReaderEnds
    CompleteFileLoads
