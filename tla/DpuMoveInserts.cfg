SPECIFICATION FairSpec
CONSTANTS
    ka = ka
    kb = kb
    kc = kc
    kd = kd
    zero = zero
    NULL = NULL
    Key = {ka, kc}
    Value = {x}
    ZeroKey = zero
    F_HASH <- MCFHash
    S_HASH <- MCSHash
    ASSOC_NUM = 1
    CACHE_SIZE = 6
    THREADS = 4
    START_LEVEL = 3
    LoadPercent = 95
    Kinds = {"SEARCH", "INSERT"}
    MaxLevel = 3
    MaxSize = 6
    MaxItems = 20
    MaxFailures = 0
PROPERTY MoveInserts
CHECK_DEADLOCK FALSE
