CONSTANTS
    WPB = 2
    PageBytes = 32
    MaxBeats = 2
    StripMax = 64
    Rows = 2
    RowWords = 2
    Banks <- Banks0
    BadParams <- NoBad
    Reps = 2
    SubTiles = 2
    StoreLen = 4
    BlobBase = 0
    JobStride = 64
    ActSrc = 0
    DstBase = 0
    DstStride = 16
    NoCause = 0
    Program = "cq"
    Jobs <- WideJobs
    FetchDesc <- WideFetch
    BatchN = 8
    TcmWords = 16
    ResultBeats <- WideBeats
    MaxErrs = 0
    MaxSoft = 1
    MaxAcks = 0
    Lag <- AllLag
SPECIFICATION Spec
INVARIANTS
    ResultsStored
    OnlyRightResults
PROPERTIES
    JobEnds
