SPECIFICATION CSpec
CONSTANTS
    WordBits = 4
    WordSize = 16
    HalfBits = 2
    ByteBits = 1
    RegionBits = 1
    Gpr <- MCGpr
    Program <- MCProgram
    Contexts <- MCContexts
    Names <- MCNames
    Numerals <- MCNumerals
CONSTRAINT Bounded
VIEW CView
\* A division can end the process.
CHECK_DEADLOCK FALSE
INVARIANTS
    CTypeOK
PROPERTIES
    MipsButForDepartures
    OverflowRefused
    ListingTellsAll
    NamesAgree
