\* Two packages that two runs of the expiry may want at once.
SPECIFICATION FairSpec
CONSTANTS
    Package = {1, 2}
    Caller = {c1}
    Worker = {w1}
    Sweeper = {s1, s2}
    Task = {t1}
    None = None
    MaxRetries = 0
    TaskLimit = 0
    StaleAfter = 1
    MaxBuilds = 4
    MaxCrashes = 0
INVARIANTS
    PendingIsBacked
    NobodyWaitsInACircle
PROPERTY
    EventuallySettles
