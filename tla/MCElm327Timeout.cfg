SPECIFICATION Spec
CONSTANTS
    Headers <- MCHeaders
    Services <- MCServices
    ProbeOrder <- MCOrder
    FaultModels <- MCTimeout
    Buses <- MCBuses
INVARIANT AnswerAlwaysFromTarget
