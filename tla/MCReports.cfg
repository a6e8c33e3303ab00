SPECIFICATION Spec
CONSTANTS
    Lower <- MCLower
    MaxDepth = 3
    MaxStringBytes = 3
    MaxNesting = 4
    BeginsWithH = {"h1", "h2", "h3", "handler", "honeybadger"}
    InternalModules <- MCModules
    InternalSymbols <- MCSymbols
    Canonical <- MCCanonical
    LinesOf <- MCLinesOf
    MaxFrames = 3
    SourceRadius = 1
    Missing = Missing
    NoName = NoName
    NoFile = NoFile
    NoLine = NoLine
    NoSource = NoSource
    Filters <- MCFilters
    Rates = {0, 1, 2, 5}
    Roots <- MCRoots
    IgnoreClasses = {"Ignored"}
    Attached <- MCAttached
    NoticeHooks = 2
    EventHooks = 2
    MaxCauses = 3
    MaxPayloadBytes = 12
    MaxEventBytes = 12
    Cycle = 3
    Hash <- MCHash
    Seeds = {2}
    Errors <- MCErrors
    Links = {"e1", "e2", "e3", "e4", "e5"}
    SourceOf <- MCSourceOf
    Scopes <- MCScopes
    Slots <- MCSlots
    Trails <- MCTrails
    NoticeEdits <- MCNoticeEdits
    EventEdits <- MCEventEdits
    Types <- MCTypes
    Payloads <- MCPayloads
    NoEdit = NoEdit
    NoId = NoId
    NoType = NoType
    NoCause = NoCause
    Panics = Panics
    Idle = Idle
    MaxDraws = 4
INVARIANTS
    ReportClean
    CausesFollowChain
    FramesAreOwn
    TypeHeld
    OneFate
    ExactShare
