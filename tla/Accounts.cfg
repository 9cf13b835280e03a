\* Two requests at a time, two containers that start together, one change of the settings
\* or one restart.
SPECIFICATION FairSpec
CONSTANTS
    Id = {1, 2, 3, 4}
    Email = {"admin", "admin@aigov.local", "system"}
    Password = {"good"}
    SYSTEM_USER_EMAIL = "system"
    Renamed <- RenamedDef
    USERS <- USERSDef
    Drafts <- DraftsDef
    Patches <- PatchesDef
    Founders <- FoundersDef
    Request = {r1, r2}
    Container = {c1, c2}
    None = None
    MaxRequests = 2
    MaxLogins = 1
    MaxRestarts = 1
INVARIANTS
    TypeOK
    TruthfulTrail
    AuthorityIsCurrent
    SeedHeals
PROPERTIES
    NoLostUpdate
    EventuallySeeded
CHECK_DEADLOCK FALSE
