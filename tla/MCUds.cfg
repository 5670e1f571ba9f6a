CONSTANTS
    Transports = {"raw", "stripped", "elm"}
    Calls <- MCCalls
    Records <- MCRecords
    Codes = {49, 148}
    Others <- Neighbours
    MaxCalls = 2
SPECIFICATION Spec
INVARIANTS EchoProtects RecordExact OutcomeFaithful
CHECK_DEADLOCK FALSE
