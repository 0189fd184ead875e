SPECIFICATION Spec
CONSTANTS
    Names = {x, y, uPutChar}
    Types = {"void", "char", "int32"}
    TypeSize <- MCTypeSize
    Builtins = {uPutChar}
    ExcludeBuiltin = FALSE
    FirstOffset = 16
    FirstId = 16
    MaxScopes = 3
    MaxSymbols = 4
CHECK_DEADLOCK FALSE
INVARIANTS
    TypeOK
    StorageDisjoint
    IdLookupAgrees
PROPERTIES
    BindingsStable
