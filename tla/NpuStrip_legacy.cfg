CONSTANTS
    WPB = 1
    PageBytes = 16
    MaxBeats = 2
    StripMax = 32
    Rows = 1
    RowWords = 2
    Banks <- Banks0
    BadParams <- NoBad
    Reps = 2
    SubTiles = 2
    StoreLen = 2
    BlobBase = 300
    JobStride = 64
    ActSrc = 200
    DstBase = 0
    DstStride = 8
    NoCause = 0
    Program = "job"
    Jobs <- LegacyJobs
    FetchDesc <- Fetch
    BatchN = 8
    TcmWords = 8
    ResultBeats <- Beats
    MaxErrs = 1
    MaxSoft = 0
    MaxAcks = 2
    Lag <- AllLag
SPECIFICATION Spec
INVARIANTS
    ResultsStored
    OnlyRightResults
