SPECIFICATION Spec
CONSTANTS
    Tasks = {t1, t2}
    Clients = {c1, c2}
    Recording = {c1}
    Keys = {k1}
    Capacity = 1
    MaxScopes = 2
    Plain = {c1}
    MaxWrites = 2
SYMMETRY Permuted
CONSTRAINTS
    OneReport
    TwoScopesOneWrite
    EnteredOnce
INVARIANTS
    ReportIsOwn
    StandingIsReported
PROPERTIES
    ClearLeavesNothing
    ScopeInherits
CHECK_DEADLOCK FALSE
