SPECIFICATION FairWorkSpec
CONSTANTS
    k1 = k1
    t1 = t1
    t2 = t2
    t3 = t3
    p1 = p1
    p2 = p2
    NoToken = NoToken
    NoPayload = NoPayload
    ForeignPayload = ForeignPayload
    Key <- OneKey
    Payload <- OnePayload
    Token <- TwoTokens
    MaxSubmissionAttempts = 2
    LeaseLength = 2
    Delay = {2}
    LateReport <- LateReports
    ClockStep <- Steps
    MaxClock = 40
    MaxGeneration = 9
    MaxObservations = 20
    Quarantine = 1
    Ceiling = 2
    Cadence = 1
    MaxReconciliations = 2
    Fault <- CrashFault
    LastTick = 2
PROPERTIES
    InvocationEnds
    WorkflowUsesStore
    WaitsFitCeiling
CHECK_DEADLOCK FALSE
