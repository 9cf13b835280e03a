\* Two administrators, two policies, a synchronisation, a restart of OPA, one run.
SPECIFICATION Spec
CONSTANTS
    Id = {1, 2}
    Key = {"k1", "k2"}
    Version = {1, 2}
    Code = {"EU"}
    Tier = {"limited", "high"}
    Package = {"p", "q"}
    Library = {"common", "base"}
    POLICY_LIBRARY_FILES <- LibraryFilesDef
    Imports <- ImportsDef
    Rego <- RegoDef
    Mounted <- MountedDef
    MountedLibraries = {}
    Field = {"oversight"}
    None = None
    Request = {r1, r2}
    Drafts <- DraftsDef
    Patches <- PatchesDef
    POLICIES <- PoliciesDef
    Scopes <- ScopesDef
    MaxEdits = 3
    MaxSyncs = 1
    MaxRestarts = 1
SYMMETRY Symmetry
INVARIANTS
    TypeOK
    SyncHeals
    NeverSilent
    FindingsDecide
    HealedRunsAreCurrent
CHECK_DEADLOCK FALSE
