\* Two systems, one writer.
SPECIFICATION Spec
CONSTANTS
    System = {s1, s2}
    Code = {eu}
    Baseline = global
    Session = {r1}
    Reader = {}
    None = None
    Ttl = 1
    MaxWrites = 4
INVARIANTS
    RateIsAFraction
CHECK_DEADLOCK FALSE
