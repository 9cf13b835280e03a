CONSTANTS
    EU_MEMBER_STATES <- MembersDef
    EEA_ONLY_STATES <- EEAOnlyDef
    CANADA_SUBDIVISIONS <- ProvincesDef
    Code = {"BR", "CA", "CN", "EU", "GLOBAL", "IN"}
    Alphabetical <- AlphabeticalDef
    Spelling <- SpellingDef
    UseCase <- UseCaseDef
    NoUseCase = NoUseCase
    None = None
    DEFAULT_CONSEQUENTIAL_USE_CASES = {"credit_scoring"}
    HIGH_RISK_USE_CASES = {"credit_scoring"}
    PROHIBITED_USE_CASES = {"social_scoring"}
    Asked <- AskedDef
    Administered = {"BR", "EU"}
    Request = {r1}
    Territories <- TerritoriesDef
    Taxonomies <- TaxonomiesDef
    Overlays <- OverlaysDef
    Declared <- DeclaredDef
    MaxEdits = 2
SPECIFICATION Spec
INVARIANTS TypeOK VerdictsAreRight RegimesFollowTheMap StaleRowsStayOn OverlaysEscalate RecordedAsAsked StrictestFirst
PROPERTIES NoRegimeForgotten DeclaringMoreIsNoSafer
CHECK_DEADLOCK FALSE
