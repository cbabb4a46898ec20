SPECIFICATION Spec
CONSTANTS
    Files = {f1, f2}
    Commits = {}
    Repos = {}
    Sessions = {s1}
    Patterns = {{f1}, {f2}, {f1, f2}}
    None = None
    Crashes = TRUE
    TornWrites = FALSE
    MaxTime = 2
    MaxLedger = 2
INVARIANTS
    TypeOK
    CommittedFilesPermanent
    NeverCommittedFile
PROPERTIES
    NothingLostWithoutRm
    KeepsPromise
