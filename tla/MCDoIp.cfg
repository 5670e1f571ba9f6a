CONSTANTS
    Tester = 3584
    Entities = {4097, 4098}
    Gateway = 4097
    MaxEvents = 3
    MaxCalls = 3
    MaxExtra = 1
    MaxDrops = 1
    Partial = {0, 5}
SPECIFICATION Spec
INVARIANTS StreamAligned AnswersTheRequest ActivationReal
PROPERTIES OnlySilenceBlocks
CHECK_DEADLOCK FALSE
