SPECIFICATION FairSpec
CONSTANTS
    a = a
    b = b
    NoProcess = NoProcess
    Process <- Two
    InitialSchema <- Files
    Cancel = {"authorize", "renew"}
    Fault = {"crash", "busy", "error", "check"}
INVARIANTS
    ConnectionTypeOK
    WholeMigrationOrNone
    ReadyMeansMigrated
    TransactionsAreWhole
PROPERTIES
    ProcessesEnd
CHECK_DEADLOCK FALSE
