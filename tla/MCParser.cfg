SPECIFICATION ParserSpec
CONSTANTS
    Names = {"f", "x"}
    Types = {"int32"}
    TypeSize <- MCTypeSize
    Builtins = {}
    ExcludeBuiltin = FALSE
    FirstOffset = 16
    FirstId = 16
    MaxScopes = 2
    MaxSymbols = 2
    Numbers = {"1"}
    Operators = {"Plus", "Mul"}
    MaxTokens = 8
CHECK_DEADLOCK FALSE
INVARIANTS
    ParserTypeOK
    ExpressionTree
    TreesAsCompiled
    MentionsOpenScopes
PROPERTIES
    EndOfFileStays
    ReadsOn
