\* One slow job and the expiry.
SPECIFICATION Spec
CONSTANTS
    Package = {1}
    Caller = {c1}
    Worker = {w1}
    Sweeper = {s1}
    Task = {t1}
    None = None
    MaxRetries = 1
    TaskLimit = 1
    StaleAfter = 2
    MaxBuilds = 4
    MaxCrashes = 0
PROPERTIES
    ExpiryFailsNoCompleted
