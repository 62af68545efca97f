----------------------------- MODULE Transfers -----------------------------
(***************************************************************************)
(* What clients and servers share: the clusters and the shards they hold,  *)
(* the transfers of transactions.csv, and the UDP datagrams in flight.     *)
(*                                                                         *)
(* net is the set of datagrams sent and not yet received.  A datagram that *)
(* stays in the set is lost or late; the set has no order; two equal       *)
(* datagrams in flight count as one, which is the loss of the second.      *)
(***************************************************************************)
EXTENDS Integers, Sequences, FiniteSets

CONSTANTS
    Server,     \* the servers that are modelled in full
    Remote,     \* servers of other clusters, of which only votes are modelled
    ClusterOf,  \* the cluster of each server of Server and Remote
    Contact,    \* for each cluster, the server the client writes to
    ShardOf,    \* the cluster that holds an account
    TxList,     \* the transfers the client issues, in order
    NoServer    \* Python's None where a server is expected

VARIABLE net

Tx == DOMAIN TxList
Account == DOMAIN ShardOf
Payer(x) == TxList[x].payer
Payee(x) == TxList[x].payee
Amount(x) == TxList[x].amount

\* A transfer between two shards takes the two-phase commit path.
Cross(x) == ShardOf[Payer(x)] # ShardOf[Payee(x)]

ClustersOfTx(x) == {ShardOf[Payer(x)], ShardOf[Payee(x)]}
Members(c) == {s \in Server \cup Remote : ClusterOf[s] = c}
Peers == [s \in Server |-> Members(ClusterOf[s]) \ {s}]

\* total_servers counts the peers only, which still makes two of three.
Majority(s) == (Cardinality(Peers[s]) \div 2) + 1

\* is_account_in_cluster: the accounts a transfer touches in the shard of s.
Touched(s, x) == {a \in {Payer(x), Payee(x)} : ShardOf[a] = ClusterOf[s]}

\* config.json: clusters of three, each modelled in full or not at all; the
\* client writes to a server of the cluster it means.
ASSUME ThreeServers ==
    IsFiniteSet(Server) /\ \A s \in Server : Cardinality(Peers[s]) = 2
ASSUME ClustersAndShards ==
    /\ Server \cap Remote = {} /\ NoServer \notin Server \cup Remote
    /\ \A s \in Server, r \in Remote : ClusterOf[s] # ClusterOf[r]
    /\ \A a \in Account : Contact[ShardOf[a]] \in Members(ShardOf[a])
ASSUME TxListType ==
    TxList \in Seq([payer : Account, payee : Account, amount : Nat])

-----------------------------------------------------------------------------
\* The datagrams between servers and the client.
ClientRequest(s, x) == [type |-> "CLIENT_REQUEST", to |-> s, tx |-> x]
Prepare(s, x) == [type |-> "PREPARE", to |-> s, tx |-> x]
Decision(d, s, x) == [type |-> d, to |-> s, tx |-> x]
ClientResponse(x, ok) ==
    [type |-> "CLIENT_RESPONSE", to |-> "client", tx |-> x, success |-> ok]
Vote(s, x, v) ==
    [type |-> "VOTE", to |-> "client", from |-> s, tx |-> x, vote |-> v]
Ack(s, x) == [type |-> "ACK", to |-> "client", from |-> s, tx |-> x]
=============================================================================
