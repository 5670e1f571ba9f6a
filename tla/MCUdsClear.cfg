CONSTANTS
    Transports = {"elm"}
    Calls <- MCCalls
    Records <- MCRecords
    Codes = {49}
    Others = {"none"}
    MaxCalls = 2
SPECIFICATION Spec
INVARIANT ClearSucceeds
CHECK_DEADLOCK FALSE
