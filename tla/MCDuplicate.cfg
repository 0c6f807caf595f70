SPECIFICATION Spec
CONSTANTS
    Regs <- MCRegs
    WordSize = 64
    Programs <- SimplePrograms
    NoElf = NoElf
    Overread <- MCOverread
    Tokens <- MCTokens
    MaxTokens = 1
    SetValues <- MCSetValues
    RaInit = 60
INVARIANTS
    NoDuplicateBreakpoint
