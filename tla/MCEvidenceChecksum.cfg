\* A second job for a package that the first one completes.
SPECIFICATION Spec
CONSTANTS
    Package = {1}
    Caller = {c1}
    Worker = {w1, w2}
    Sweeper = {s1}
    Task = {t1, t2}
    None = None
    MaxRetries = 0
    TaskLimit = 1
    StaleAfter = 2
    MaxBuilds = 4
    MaxCrashes = 0
INVARIANTS
    CompletedMatchesChecksum
