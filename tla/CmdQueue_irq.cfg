CONSTANTS
    NoCause = 0
    Ids <- Npu
    Size = 4
    BatchN = 2
    Lists <- IrqOnly
    MaxFaults = 0
    Ahead = 2
SPECIFICATION Spec
INVARIANTS
    InterruptMeansDone
