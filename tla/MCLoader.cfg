SPECIFICATION LSpec
CONSTANTS
    WordBits = 8
    WordSize = 256
    HalfBits = 4
    ByteBits = 2
    RegionBits = 1
    Page = 8
    Files <- MCFiles
    Starts = {0, 8, 51, 129, 176, 240}
    StackStart = 192
    StackWords = 8
    StackTop = 220
CHECK_DEADLOCK FALSE
INVARIANTS
    LTypeOK
    ImageLinked
    OthersInPlace
PROPERTIES
    RelocatesInPlace
