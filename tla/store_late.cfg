SPECIFICATION Spec
CONSTANTS
    k1 = k1
    k2 = k2
    t1 = t1
    t2 = t2
    p1 = p1
    p2 = p2
    NoToken = NoToken
    NoPayload = NoPayload
    Key <- OneKey
    Payload <- Payloads
    Token <- Tokens
    MaxSubmissionAttempts = 2
    LeaseLength = 1
    Delay <- Delays
    LateReport <- LateReports
    ClockStep <- AnyWay
    MaxClock = 2
    MaxGeneration = 2
    MaxObservations = 2
SYMMETRY Symmetry
INVARIANTS
    ConsumedEvidenceDecides
    JobMatchesAttempts
    RetryDelayHonoured
PROPERTIES
    OutcomesAreFinal
    TakeoverIsFenced
CHECK_DEADLOCK FALSE
