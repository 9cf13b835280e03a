\* One system, two writers, one computation of the aggregate; two writes.
SPECIFICATION FairSpec
CONSTANTS
    System = {s1}
    Code = {eu}
    Baseline = global
    Session = {r1, r2}
    Reader = {q1}
    None = None
    Ttl = 1
    MaxWrites = 2
INVARIANTS
    TypeOK
    StampIsTrue
    ScopeComesWithChecks
PROPERTIES
    EventuallyFresh
