SPECIFICATION Spec
CONSTANTS
    k1 = k1
    k2 = k2
    t1 = t1
    t2 = t2
    p1 = p1
    p2 = p2
    NoToken = NoToken
    NoPayload = NoPayload
    Key <- OneKey
    Payload <- Payloads
    Token <- Tokens
    MaxSubmissionAttempts = 3
    LeaseLength = 1
    Delay <- Delays
    LateReport <- LateReports
    ClockStep <- Forward
    MaxClock = 4
    MaxGeneration = 2
    MaxObservations = 1
SYMMETRY Symmetry
INVARIANTS
    TypeOK
    JobMatchesAttempts
    BudgetHeld
    RetryDelayHonoured
PROPERTIES
    OutcomesAreFinal
    TakeoverIsFenced
    OwnershipNeverRegained
    ImplementsLifecycle
CHECK_DEADLOCK FALSE
