SPECIFICATION ChainSpec
CONSTANTS
    Sessions = {s1}
    Blocks <- ThreeBlocks
    Synthetic <- OneSynthetic
    Commitments <- CommitmentsOfRoot
    root = root
    None = None
    Crashes = TRUE
    TornWrites = FALSE
    MaxRows = 3
    MaxTxs = 2
INVARIANTS
    TxCarriesCommitment
    MadeBetweenBlocks
PROPERTIES
    BroadcastRecorded
