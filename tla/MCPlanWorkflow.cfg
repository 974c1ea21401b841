\* Two concurrent requests on one plan that may be submitted twice.
SPECIFICATION Spec
CONSTANTS
    None = None
    author = author
    planner = planner
    sales = sales
    User = {author, planner}
    Plan = {p1}
    Instance = {i1, i2}
    Request = {r1, r2}
    Audited = {"reject"}
    Definition <- MCDefinition
    PrincipalOf <- MCPrincipalOf
    ResourceOf <- MCResourceOf
INVARIANTS
    TypeOK
    OneOpenReview
    HistoryTellsStatus
    UndisturbedReviewIsComplete
    DeadlockNeedsClosedTask
    AuditRowsAreTrue
PROPERTIES
    DecisionsAreFinal
    ImplementsLifecycle
SYMMETRY Symmetry
