SPECIFICATION Spec
CONSTANTS
    a = a
    b = b
    NoProcess = NoProcess
    Process <- Two
    InitialSchema <- CurrentFile
    Cancel = {"renew"}
    Fault = {}
INVARIANTS
    CancelCompletesAttempt
CHECK_DEADLOCK FALSE
