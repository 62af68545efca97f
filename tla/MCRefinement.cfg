CONSTANTS
    Cluster = c1
    LastTerm = 2
    s1 = s1
    s2 = s2
    s3 = s3
    r1 = r1
    c1 = c1
    c2 = c2
    ann = ann
    bob = bob
    zoe = zoe
    NoServer = NoServer
    Server <- MCServer
    Remote <- MCRemote
    ClusterOf <- MCClusterOf
    Contact <- MCContact
    ShardOf <- MCShardOf
    TxList <- OneIntra
    InitialBalance = 10
    ConfigLast = s1
    MayStand <- ThenS2
    MayBeat = {s2}
    MayRestart = {}
    RemoteVotes = {}
SPECIFICATION HistorySpec
PROPERTY ImplementsElection
CHECK_DEADLOCK FALSE
