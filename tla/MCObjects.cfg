SPECIFICATION ObjectSpec
CONSTANTS
    Sessions = {s1}
    Files = {f1}
    Remote = {"s3", "gcs"}
    Buckets = {b1}
    None = None
    Edits = {"replace"}
    StagedEdits = FALSE
    Races = FALSE
    Losses = {"local", "cache"}
    Outages = TRUE
    Failures = FALSE
    Crashes = FALSE
INVARIANTS
    RaidWellFormed
    BackendIsCurrent
    CacheBacked
    KeyMatchesContent
PROPERTIES
    BackfillTruthful
    ReadHeals
    ReadFinds
