SPECIFICATION BtcvmSpec
CONSTANTS
    Sources <- Single
    Cycles = 2
    VdfTicks = 2
    Tracing = TRUE
    Broadcast = FALSE
    MaxHeight = 3
    MaxForks = 1
    MaxRuns = 2
INVARIANTS
    EntriesReplay
    VerifyAccepts
    ChainsAreBlocks
    TraceRootChecked
CHECK_DEADLOCK FALSE
