SPECIFICATION FairSpec
CONSTANTS
    ka = ka
    kb = kb
    kc = kc
    kd = kd
    zero = zero
    NULL = NULL
    Key = {ka, kc}
    Value = {x}
    ZeroKey = zero
    F_HASH <- MCFHash
    S_HASH <- MCSHash
    ASSOC_NUM = 1
    CACHE_SIZE = 5
    THREADS = 2
    START_LEVEL = 3
    LoadPercent = 25
    Kinds = {"SEARCH", "INSERT", "END"}
    MaxLevel = 4
    MaxSize = 6
    MaxItems = 20
    MaxFailures = 0
INVARIANTS Addressed CleanLosesNothing MoveSourceResident
PROPERTIES ExpandKeepsTop
CHECK_DEADLOCK FALSE
