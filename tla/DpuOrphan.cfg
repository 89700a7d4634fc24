SPECIFICATION FairSpec
CONSTANTS
    ka = ka
    kb = kb
    kc = kc
    kd = kd
    zero = zero
    NULL = NULL
    Key = {ka, kb}
    Value = {x}
    ZeroKey = zero
    F_HASH <- MCFHash
    S_HASH <- MCSHash
    ASSOC_NUM = 1
    CACHE_SIZE = 4
    THREADS = 4
    START_LEVEL = 3
    LoadPercent = 95
    Kinds = {"SEARCH", "INSERT", "DELETE"}
    MaxLevel = 3
    MaxSize = 4
    MaxItems = 20
    MaxFailures = 0
INVARIANT FetchUncached
CHECK_DEADLOCK FALSE
