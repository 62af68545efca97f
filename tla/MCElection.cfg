CONSTANTS
    s1 = s1
    s2 = s2
    s3 = s3
    NoServer = NoServer
    Server = {s1, s2, s3}
    Stamp <- MCStamp
    MaxTerm = 2
SYMMETRY Symmetry
SPECIFICATION Spec
INVARIANT TypeOK ElectionSafety
PROPERTY VoteOutlivesTerm LeaderOnlyDeposedByHigherTerm
CHECK_DEADLOCK FALSE
