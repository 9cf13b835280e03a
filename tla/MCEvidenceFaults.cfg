\* Two jobs for one package, each with one retry of its own, a run of the expiry, and
\* one process that may die anywhere.
SPECIFICATION Spec
CONSTANTS
    Package = {1}
    Caller = {c1}
    Worker = {w1, w2}
    Sweeper = {s1}
    Task = {t1, t2}
    None = None
    MaxRetries = 1
    TaskLimit = 0
    StaleAfter = 1
    MaxBuilds = 2
    MaxCrashes = 1
SYMMETRY Symmetry
INVARIANTS
    TypeOK
    NoOlderDocument
    CertifiedUntilRebuilt
    PendingIsBacked
PROPERTIES
    StoreSpec
