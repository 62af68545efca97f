CONSTANTS
    Cluster = 1
    Order <- CrossThenIntra
    InitialBalance = 10
    Torn = Torn
    LastListed <- TheirFile
    Overlap = FALSE
    MaxEntries = 2
    MaxCrashes = 2
SPECIFICATION Spec
INVARIANT TypeOK AppliedMeansDone TransferIsWhole LogFileCurrent
PROPERTY ImplementsLedger
CHECK_DEADLOCK FALSE
