CONSTANTS
    WPB = 1
    PageBytes = 16
    MaxBeats = 2
    StripMax = 32
    Rows = 1
    RowWords = 2
    Banks <- Banks0
    BadParams <- NoBad
    Reps = 2
    SubTiles = 2
    StoreLen = 2
    BlobBase = 0
    JobStride = 64
    ActSrc = 0
    DstBase = 0
    DstStride = 8
    NoCause = 0
    Program = "cq"
    Jobs <- EvenStrips
    FetchDesc <- Fetch
    BatchN = 8
    TcmWords = 8
    ResultBeats <- Beats
    MaxErrs = 0
    MaxSoft = 0
    MaxAcks = 0
    Lag <- NoLag
SPECIFICATION Spec
INVARIANTS
    SwapOnlyAtRendezvous
