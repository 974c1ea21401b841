\* Two administrators move two organizations below each other; then one exports.
SPECIFICATION Spec
CONSTANTS
    None = None
    o1 = o1
    o2 = o2
    Org = {o1, o2}
    User = {u1}
    Mover = {r1, r2}
    Backup = {b1}
    CodeRank <- MCCodeRank
    MaxFiles = 2
    MaxActive = 2
INVARIANT
    ArchivesAreComplete
