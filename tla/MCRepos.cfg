CONSTANTS
    a = a
    b = b
    d1 = d1
    d2 = d2
    r1 = r1
    r2 = r2
    t1 = t1
    Revisions = {r1, r2}
    Histories = {a, b}
    Paths <- ThreePaths
    Commits <- FourCommits
    Tags = {t1}
    None = None
    MaxTime = 1
    MaxLedger = 1
SPECIFICATION RepoSpec
SYMMETRY Symmetry
INVARIANTS
    CommittedRepoKept
PROPERTIES
    RepoKeptUntilRm
    UpdateAllSettles
