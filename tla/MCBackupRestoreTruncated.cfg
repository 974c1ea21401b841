\* An export and a restore at the same time; the organizations stay where they are.
SPECIFICATION Spec
CONSTANTS
    None = None
    o1 = o1
    o2 = o2
    Org = {o1, o2}
    User = {u1}
    Mover = {}
    Backup = {b1, b2}
    CodeRank <- MCCodeRank
    MaxFiles = 2
    MaxActive = 2
INVARIANT
    ArchivesAreComplete
