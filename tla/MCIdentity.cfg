SPECIFICATION Spec
CONSTANTS
    Server = {s1, s2}
    Subject = {kim}
    Root = admin
    Claim <- MCClaim
    Mapped <- MCMapped
    Assigned <- MCAssigned
    Admin = adm
    General = gen
    Request = {q1, q2}
    None = None
    admin = admin
    kim = kim
    adm = adm
    gen = gen
INVARIANTS
    TypeOK
    RefusalNeedsDemotion
    AdministratorsRemain
    GivenRolesAreHeld
SYMMETRY Symmetry
CHECK_DEADLOCK FALSE
