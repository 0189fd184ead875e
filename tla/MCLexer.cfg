SPECIFICATION LexerSpec
CONSTANTS
    Letters = {"f", "n"}
    Digits = {"1"}
    Blanks = {" "}
    NewLine = "newline"
    Quote = "'"
    Underscore = "_"
    Marks = {"+"}
    MarkType <- MCMarkType
    Unknown = {"?"}
    Words <- MCWords
    WordType <- MCWordType
    MaxSource = 5
CHECK_DEADLOCK FALSE
INVARIANTS
    LexerTypeOK
    Located
    NothingLost
    RefusedForCause
PROPERTIES
    ScanEnds
