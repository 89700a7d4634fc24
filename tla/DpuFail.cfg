SPECIFICATION FairSpec
CONSTANTS
    ka = ka
    kb = kb
    kc = kc
    kd = kd
    zero = zero
    NULL = NULL
    Key = {ka}
    Value = {x}
    ZeroKey = zero
    F_HASH <- MCFHash
    S_HASH <- MCSHash
    ASSOC_NUM = 1
    CACHE_SIZE = 4
    THREADS = 2
    START_LEVEL = 3
    LoadPercent = 25
    Kinds = {"SEARCH", "INSERT", "DELETE", "END"}
    MaxLevel = 4
    MaxSize = 5
    MaxItems = 20
    MaxFailures = 2
INVARIANTS TableSound FramesAccounted
PROPERTIES RequestsComplete
CHECK_DEADLOCK FALSE
