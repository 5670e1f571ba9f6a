SPECIFICATION FairSpec
CONSTANTS
    Headers <- MCHeaders
    Services <- MCServices
    ProbeOrder <- MCOrder
    FaultModels <- MCFaults
    Buses <- MCBuses
INVARIANTS
    TypeOK
    RequestReachesTarget
    AnswerFromTarget
    SelectedProtocolIsVehicles
PROPERTIES
    InitializeOnce
    CallReturns
