SPECIFICATION WorkSpec
CONSTANTS
    k1 = k1
    t1 = t1
    t2 = t2
    t3 = t3
    p1 = p1
    p2 = p2
    NoToken = NoToken
    NoPayload = NoPayload
    ForeignPayload = ForeignPayload
    Key <- OneKey
    Payload <- OnePayload
    Token <- TwoTokens
    MaxSubmissionAttempts = 2
    LeaseLength = 6
    Delay <- FullDelays
    LateReport <- LateReports
    ClockStep <- LongSteps
    MaxClock = 40
    MaxGeneration = 9
    MaxObservations = 20
    Quarantine = 1
    Ceiling = 3
    Cadence = 2
    MaxReconciliations = 1
    Fault <- NoFaults
    LastTick = 10
SYMMETRY Symmetry
INVARIANTS
    SleepsWithinCeiling
CHECK_DEADLOCK FALSE
