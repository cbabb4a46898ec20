SPECIFICATION FairSpec
CONSTANTS
    Files = {f1, f2}
    Commits = {c1, c2}
    Repos = {r1}
    Sessions = {s1}
    Patterns = {{f1}, {f2}, {f1, c1}}
    None = None
    Crashes = FALSE
    TornWrites = FALSE
    MaxTime = 1
    MaxLedger = 2
INVARIANTS
    OneEntryPerRepo
PROPERTIES
    TagsKept
    CommitLands
