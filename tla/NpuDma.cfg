CONSTANTS
    WPB = 2
    PageBytes = 32
    MaxBeats = 2
    StripMax = 48
    Descs <- WideDescs
    StripCmds <- WideStrips
SPECIFICATION Spec
INVARIANTS
    TypeOK
    BurstLegal
    ReadLandsInPlace
    WriteTakesInPlace
    StripInPlace
    DoneMeansWhole
    StripDoneMeansWhole
    OneBurstAfterAbort
PROPERTIES
    AddressHolds
    ImplementsContract
    TransferEnds
    StripEnds
