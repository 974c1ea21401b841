\* A configuration change whose audit row is lost.
SPECIFICATION Spec
CONSTANTS
    None = None
    author = author
    planner = planner
    sales = sales
    User = {author, planner}
    Plan = {p1}
    Instance = {i1, i2}
    Request = {r1, r2}
    Audited = {"create", "submit", "approve", "reject", "configure"}
    Definition <- MCDefinition
    PrincipalOf <- MCPrincipalOf
    ResourceOf <- MCResourceOf
INVARIANT
    ConfigurationChangesAudited
