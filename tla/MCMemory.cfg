SPECIFICATION MSpec
CONSTANTS
    AddrSpace = 128
    Page = 8
    ByteRange = 2
    NbSections = 2
    Contents <- MCContents
    MaxContent = 8
    LoadAddresses <- MCLoadAddresses
    StackStart = 104
    StackSize = 4
    Addresses <- MCAddresses
    Words <- MCWords
    ByteArgs <- MCByteArgs
    Increments <- MCIncrements
\* An access astray can end the process.
CHECK_DEADLOCK FALSE
VIEW MCView
INVARIANTS
    MTypeOK
    SegmentsApart
    ViewsAgree
    TextSeen
PROPERTIES
    ImplementsByteStore
