CONSTANTS
    s1 = s1
    s2 = s2
    s3 = s3
    r1 = r1
    c1 = c1
    c2 = c2
    ann = ann
    bob = bob
    zoe = zoe
    NoServer = NoServer
    Server <- MCServer
    Remote <- MCRemote
    ClusterOf <- MCClusterOf
    Contact <- MCContact
    ShardOf <- MCShardOf
    TxList <- OneCross
    InitialBalance = 10
    ConfigLast = s1
    MayStand <- FirstOnly
    MayBeat = {s1}
    MayRestart = {}
    RemoteVotes = {"yes"}
SPECIFICATION Spec
INVARIANT CommitIsExecuted
CHECK_DEADLOCK FALSE
