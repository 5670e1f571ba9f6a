CONSTANTS
    Sources = {0, 33}
    Contents <- MCContents
    SeqMax = 3
    MaxSends = 2
    MaxLost = 4
    MaxTwice = 3
    MaxCalls = 1
SPECIFICATION Spec
INVARIANTS NoSplice OncePerSession IntactDelivered ResultAsSent
CHECK_DEADLOCK FALSE
