\* Two organizations, two moves, an export and a restore at a time.
SPECIFICATION Spec
CONSTANTS
    None = None
    o1 = o1
    o2 = o2
    Org = {o1, o2}
    User = {u1}
    Mover = {r1, r2}
    Backup = {b1, b2}
    CodeRank <- MCCodeRank
    MaxFiles = 2
    MaxActive = 2
INVARIANTS
    TypeOK
    CyclesNeedRaces
    UndisturbedArchivesAreComplete
    UndisturbedArchivesRestore
SYMMETRY Symmetry
