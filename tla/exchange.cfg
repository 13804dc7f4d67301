SPECIFICATION FairExchangeSpec
CONSTANTS
    r1 = r1
    r2 = r2
    k1 = k1
    k2 = k2
    p1 = p1
    p2 = p2
    AnyKey = AnyKey
    NoRecord = NoRecord
    NoRequest = NoRequest
    OtherPayload = OtherPayload
    Request <- Requests
    Key <- Keys
    Payload <- Payloads
    WorkerLimits <- Limits
    ServerFault = {"noThread"}
    Workload <- Workloads
    Headers <- HeaderSet
    Instants <- InstantSet
    Ordinals <- OrdinalSet
    BaseDelay = 1
    MaxCap = 3
    MaxServerDelay = 2000
    IntDigits = 2
INVARIANTS
    ExchangeTypeOK
    SameKeySerialized
    PermitsAccounted
    EvidenceIsTrue
    DelayKeepsServer
PROPERTIES
    ImplementsService
    ShutdownEnds
    RequestsEnd
CHECK_DEADLOCK FALSE
