SPECIFICATION KeysSpec
CONSTANTS
    MaxKeys = 2
    Lifetime = {2}
    Overlap = {1}
    Keeper = {u1}
    NoKey = NoKey
INVARIANT RotationShortensOldKey
CHECK_DEADLOCK FALSE
