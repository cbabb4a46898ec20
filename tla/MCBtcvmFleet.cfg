SPECIFICATION BtcvmFairSpec
CONSTANTS
    Sources <- Two
    Cycles = 1
    VdfTicks = 0
    Tracing = FALSE
    Broadcast = TRUE
    MaxHeight = 6
    MaxForks = 1
    MaxRuns = 1
INVARIANTS
    EntriesReplay
    VerifyAccepts
PROPERTIES
    RunsToHalt
CHECK_DEADLOCK FALSE
