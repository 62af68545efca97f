CONSTANTS
    Cluster = 1
    Order <- CrossAndIntra
    InitialBalance = 10
    Torn = Torn
    LastListed <- TheirFile
    Overlap = TRUE
    MaxEntries = 1
    MaxCrashes = 0
SPECIFICATION Spec
INVARIANT AppliedOnce
CHECK_DEADLOCK FALSE
