CONSTANTS
    x = x
    y = y
    Digests = {x, y}
    FileNames = {"images", "anchors", "manifest", "ledger"}
    Torn = {"part"}
    MaxTime = 1
    MaxRows = 2
    MaxCrashes = 2
    Late = FALSE
SPECIFICATION MigrateSpec
INVARIANTS
    LossBounded
PROPERTIES
    MigrateKeepsRoot
    CommittedKept
CHECK_DEADLOCK FALSE
