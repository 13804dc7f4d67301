SPECIFICATION WorkSpec
CONSTANTS
    k1 = k1
    t1 = t1
    t2 = t2
    t3 = t3
    p1 = p1
    p2 = p2
    NoToken = NoToken
    NoPayload = NoPayload
    ForeignPayload = ForeignPayload
    Key <- OneKey
    Payload <- OnePayload
    Token <- TwoTokens
    MaxSubmissionAttempts = 2
    LeaseLength = 1
    Delay <- Delays
    LateReport <- LateReports
    ClockStep <- Steps
    MaxClock = 40
    MaxGeneration = 9
    MaxObservations = 20
    Quarantine = 1
    Ceiling = 1
    Cadence = 1
    MaxReconciliations = 1
    Fault <- NoFaults
    LastTick = 2
SYMMETRY Symmetry
INVARIANTS
    NotFoundUsedEvidence
CHECK_DEADLOCK FALSE
