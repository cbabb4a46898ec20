SPECIFICATION Spec
CONSTANTS
    Files = {f1, f2}
    Commits = {}
    Repos = {}
    Sessions = {s1, s2}
    Patterns = {}
    None = None
    Crashes = FALSE
    TornWrites = FALSE
    MaxTime = 1
    MaxLedger = 1
PROPERTIES
    AddDropsNothing
