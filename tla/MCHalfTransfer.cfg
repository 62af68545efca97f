CONSTANTS
    Cluster = 1
    Order <- ToLastAccount
    InitialBalance = 10
    Torn = Torn
    LastListed <- TheirFile
    Overlap = FALSE
    MaxEntries = 2
    MaxCrashes = 0
SPECIFICATION Spec
INVARIANT TransferIsWhole
CHECK_DEADLOCK FALSE
