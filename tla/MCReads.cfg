CONSTANTS
    Registry <- MCRegistry
    Protocol = "Vpw"
    Can = FALSE
    Ecus = {1, 2}
    Codes <- MCCodes
    Universal = {}
    Operations <- MCOperations
    Meanings <- MCMeanings
    Capacity = 2
    MaxCalls = 2
    MaxFails = 1
    MaxChanges = 1
SPECIFICATION Spec
INVARIANTS OnlyRealCodes ScanComplete ReadAsMeant AlertsExact
PROPERTIES PollCycleEnds
CHECK_DEADLOCK FALSE
