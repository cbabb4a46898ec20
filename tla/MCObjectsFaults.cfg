SPECIFICATION ObjectSpec
CONSTANTS
    Sessions = {s1}
    Files = {f1}
    Remote = {"s3"}
    Buckets = {b1, b2}
    None = None
    Edits = {"replace", "inplace"}
    StagedEdits = TRUE
    Races = TRUE
    Losses = {"local", "bucket", "cache"}
    Outages = TRUE
    Failures = TRUE
    Crashes = TRUE
PROPERTIES
    WholeCopiesKept
