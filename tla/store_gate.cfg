SPECIFICATION Spec
CONSTANTS
    k1 = k1
    k2 = k2
    t1 = t1
    t2 = t2
    p1 = p1
    p2 = p2
    NoToken = NoToken
    NoPayload = NoPayload
    Key <- TwoKeys
    Payload <- Payloads
    Token <- Tokens
    MaxSubmissionAttempts = 2
    LeaseLength = 1
    Delay <- GateDelays
    LateReport <- LateReports
    ClockStep <- Forward
    MaxClock = 3
    MaxGeneration = 1
    MaxObservations = 0
SYMMETRY Symmetry
INVARIANTS
    RateLimitWindowQuiet
CHECK_DEADLOCK FALSE
