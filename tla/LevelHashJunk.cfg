SPECIFICATION FairSpec
CONSTANTS
    a = a
    b = b
    c = c
    d = d
    junk = junk
    NULL = NULL
    Key = {a}
    Value = {x}
    JunkKeys = {junk}
    F_HASH <- MCFHash
    S_HASH <- MCSHash
    ASSOC_NUM = 1
    LEVEL_START = 2
    JunkTokens = {1, 2}
    MaxJunk = 1
    WORD = 256
    MinLevel = 2
    MaxLevel = 3
    MaxItems = 4
PROPERTIES ImplementsStore
CHECK_DEADLOCK FALSE
