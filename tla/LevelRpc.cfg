SPECIFICATION RpcSpec
CONSTANTS
    a = a
    b = b
    junk = junk
    NULL = NULL
    Key = {a, b}
    Value = {x}
    JunkKeys = {junk}
    F_HASH <- MCFHash
    S_HASH <- MCSHash
    ASSOC_NUM = 2
    LEVEL_START = 2
    JunkTokens = {}
    MaxJunk = 1
    WORD = 256
    MinLevel = 2
    MaxLevel = 4
    MaxItems = 10
PROPERTIES ReadYourInserts OnlyInserted CallsAnswered
CHECK_DEADLOCK FALSE
