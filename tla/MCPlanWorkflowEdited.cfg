\* An administrator replaces the steps while a review is open.
SPECIFICATION Spec
CONSTANTS
    None = None
    author = author
    planner = planner
    sales = sales
    User = {author, planner}
    Plan = {p1}
    Instance = {i1, i2}
    Request = {r1, r2}
    Audited = {}
    Definition <- EditedDefinition
    PrincipalOf <- MCPrincipalOf
    ResourceOf <- MCResourceOf
INVARIANT
    ConfiguredStepsApply
