\* Every request ends, whatever the other request locks.
SPECIFICATION FairSpec
CONSTANTS
    None = None
    author = author
    planner = planner
    sales = sales
    User = {planner}
    Plan = {p1}
    Instance = {i1, i2}
    Request = {r1, r2}
    Audited = {}
    Definition <- OneStepDefinition
    PrincipalOf <- MCPrincipalOf
    ResourceOf <- PlannersResourceOf
PROPERTIES
    EveryRequestEnds
