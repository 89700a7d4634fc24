SPECIFICATION FairSpec
CONSTANTS
    a = a
    b = b
    c = c
    d = d
    junk = junk
    NULL = NULL
    Key = {a, b, c}
    Value = {x}
    JunkKeys = {junk}
    F_HASH <- MCFHash
    S_HASH <- MCSHash
    ASSOC_NUM = 1
    LEVEL_START = 2
    JunkTokens = {}
    MaxJunk = 1
    WORD = 256
    MinLevel = 2
    MaxLevel = 4
    MaxItems = 5
INVARIANTS TypeOK Placed Findable ItemCounts
PROPERTIES ImplementsStore CallsReturn
CHECK_DEADLOCK FALSE
