CONSTANTS
    s1 = s1
    s2 = s2
    s3 = s3
    r1 = r1
    c1 = c1
    c2 = c2
    ann = ann
    bob = bob
    zoe = zoe
    NoServer = NoServer
    Server <- MCServer
    Remote <- MCRemote
    ClusterOf <- MCClusterOf
    Contact <- MCContact
    ShardOf <- MCShardOf
    TxList <- TwoIntra
    InitialBalance = 10
    ConfigLast = s1
    MayStand <- FirstOnly
    MayBeat = {}
    MayRestart = {s1}
    RemoteVotes = {}
SPECIFICATION SpecInOffice
INVARIANT TypeOK LogMatching LedgersAgree OneIndex
CHECK_DEADLOCK FALSE
