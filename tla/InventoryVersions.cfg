\* Three requests on one system.
SPECIFICATION FairSpec
CONSTANTS
    System = {s1}
    Request = {r1, r2, r3}
    Value = {a, b}
    None = None
    MaxVersion = 3
INVARIANTS
    TypeOK
    HistoryIsComplete
    HeadIsCurrent
    DiffsChain
PROPERTIES
    RecordSpec
    EveryRequestEnds
\* MaxVersion ends every behaviour: no request starts once it is reached.
CHECK_DEADLOCK FALSE
