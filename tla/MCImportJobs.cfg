\* Two concurrent requests on two jobs, and one KPI that is created by hand.
SPECIFICATION FairSpec
CONSTANTS
    None = None
    planner = planner
    executive = executive
    a = a
    A = A
    b = b
    User = {planner, executive}
    Code = {a, A, b}
    Lower <- MCLower
    Job = {j1, j2}
    Manual = {m1}
    Request = {r1, r2}
    File <- MCFile
    MaxRows = 2
    PrincipalOf <- MCPrincipalOf
INVARIANTS
    TypeOK
    ImportsAreWhole
    ParentsExist
PROPERTIES
    ImplementsLifecycle
    EveryRequestEnds
