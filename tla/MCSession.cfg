SPECIFICATION SFairSpec
CONSTANTS
    Regs <- MCRegs
    WordSize = 64
    Programs <- MCPrograms
    NoElf = NoElf
    Overread <- MCOverread
    Tokens <- MCTokens
    MaxTokens = 1
    SetValues <- MCSetValues
    RaInit = 60
    MaxLines = 3
INVARIANTS
    STypeOK
    StatusTellsWhy
PROPERTIES
    ScriptEnds
