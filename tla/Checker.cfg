SPECIFICATION Spec
CONSTANTS
    SymbolOrder <- ModuleWords
    PreludeTypes = {"i32", "Vec"}
    PreludeValues = {"some"}
    StdMemNames = {"Vec"}
    StdModules = {"io", "fs", "mem"}
    DeclSigs <- PatternSigs
    Consts <- PatternConsts
    MATCH_STEP_FACTOR = 5
    MAX_FRAMES = 3
    NORMALISE_DEPTH_MAX = 3
    LIN_DEPTH_MAX = 64
    HOLDS_DEPTH_MAX = 64
    SHARED_DEPTH_MAX = 16
    COMPONENTS_MAX = 4096
INVARIANTS
    MatchesCover
    NamesResolveRight
    MinimisedRight
    DeclarationsSound
    AuthorityHolds
    ComptimeTransparent
PROPERTIES
    ReductionEnds
CHECK_DEADLOCK FALSE
