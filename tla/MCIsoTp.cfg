SPECIFICATION Spec
CONSTANTS
    SfCap = 2
    FfCap = 1
    CfCap = 2
    SeqMod = 2
    BlockSize = 2
    MaxPayload = 7
    MaxWait = 1
    MaxUnrelated = 1
    MaxForeign = 1
    MaxPending = 1
    Sids <- MCSids
    ReqLens <- MCReqLens
    RespLens <- MCRespLens
    EcuBlocks <- MCBlocks
    Faults <- MCFaults
    MaxCalls = 2
    MaxFaults = 1
    MaxQueue = 2
INVARIANTS
    TypeOK
    WholeResponse
    WithinBlock
PROPERTIES
    NotBrokenWithoutFault
    ImplementsExchange
    ExchangeReturns
CHECK_DEADLOCK FALSE
