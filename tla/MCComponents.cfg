SPECIFICATION Spec
CONSTANTS
    Caller = {s1, s2}
    Limit = {1}
    DefaultLimit = 2
    MaxPending = 1
    NoSetting = NoSetting
    NoReader = NoReader
    Attempt = {s1, s2}
    FailureLimit = 3
    Question = {s1, s2}
    DailyLimit = 4
    PromptTokens = 2
    ResponseTokens = {1, 3}
    Save = {s1, s2}
    Entry = {model, client}
    Needed = {client}
    Secret = {old, new}
    Mask = Mask
    NoSecret = NoSecret
    MaxKeys = 3
    Lifetime = {2}
    Overlap = {0, 1}
    Keeper = {s1, s2}
    NoKey = NoKey
    None = None
    User = User
    Other = Other
    Organization = {o1}
    Role = {"system_admin", "planning_manager", "department_manager", "executive"}
    Classification = {"internal", "executive", "restricted"}
    Scope <- MCScope
SYMMETRY Symmetry
INVARIANTS
    TypeOK
    FewWindowsPerMinute
    PolicyIsCurrent
    FewFailures
    DailyTokensBounded
    ReplacementsAreOwn
    RotationsKeepPromises
    ChannelsAgree
    KeysShowNoMore
    CountsAreReadable
    CreatorsRead
PROPERTIES
    SecretsSurvive
    KeysStayDead
CHECK_DEADLOCK FALSE
