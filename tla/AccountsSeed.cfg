\* Two containers that start together, and no request.
SPECIFICATION Spec
CONSTANTS
    Id = {1, 2, 3, 4}
    Email = {"admin", "admin@aigov.local", "system"}
    Password = {"good"}
    SYSTEM_USER_EMAIL = "system"
    Renamed <- RenamedDef
    USERS <- USERSDef
    Drafts <- DraftsDef
    Patches <- PatchesDef
    Founders <- FoundersDef
    Request = {r1, r2}
    Container = {c1, c2}
    None = None
    MaxRequests = 0
    MaxLogins = 0
    MaxRestarts = 0
INVARIANT
    DemoAccountsLive
CHECK_DEADLOCK FALSE
