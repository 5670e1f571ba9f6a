CONSTANTS
    Registry <- MCRegistry
    Protocol = "Can"
    Can = TRUE
    Ecus = {1, 2}
    Codes <- MCCodes
    Universal = {}
    Operations <- MCOperations
    Meanings <- MCMeanings
    Capacity = 2
    MaxCalls = 1
    MaxFails = 0
    MaxChanges = 0
SPECIFICATION Spec
INVARIANT OnlyRealCodes
CHECK_DEADLOCK FALSE
