CONSTANTS
    NoCause = 0
    WPB = 2
    PageBytes = 16
    MaxBeats = 2
    StripMax = 16
    Words = 8
    TcmWords = 3
    Accesses <- HostAccesses
    ReadJob <- Read
    WriteJob <- Write
SPECIFICATION Spec
INVARIANTS
    TypeOK
    BurstsUncut
    WordsInPlace
PROPERTIES
    EvidenceKept
    AccessEnds
    HardResetEnds
