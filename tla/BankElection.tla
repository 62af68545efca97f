---------------------------- MODULE BankElection ----------------------------
(***************************************************************************)
(* The servers of one cluster, whatever else they do, elect their leaders  *)
(* as module Election says: Bank implements Election.                      *)
(*                                                                         *)
(* Election keeps every datagram ever sent, Bank only those in flight, so  *)
(* a history variable collects what elections see of them.                 *)
(***************************************************************************)
EXTENDS Bank

CONSTANTS
    Cluster,  \* the cluster whose elections are looked at
    LastTerm  \* the highest term of an election in MayStand

\* The cluster is one that is modelled in full.
ASSUME ClusterInFull == Members(Cluster) \subseteq Server
ASSUME LastTermIsLast ==
    LastTerm \in Nat /\ \A e \in MayStand : e[2] <= LastTerm

VARIABLE sent

Voters == Members(Cluster)

\* What module Election sees of the cluster's datagrams.
Ballots(out) ==
    {m \in out : m.type \in {"REQUEST_VOTE", "VOTE_RESPONSE"} /\ m.from \in Voters}
    \cup {[type |-> m.type, term |-> m.term, from |-> m.from, to |-> m.to] :
             m \in {n \in out : n.type = "APPEND_ENTRIES" /\ n.from \in Voters}}

HistoryInit == Init /\ sent = {}
HistoryNext == Next /\ sent' = sent \cup Ballots(net')
HistorySpec == HistoryInit /\ [][HistoryNext]_<<vars, sent>>

Restricted(f) == [s \in Voters |-> f[s]]

Elections == INSTANCE Election WITH
    Server <- Voters,
    Stamp <- [term : 0..LastTerm, index : 0..Len(TxList)],
    MaxTerm <- LastTerm,
    role <- Restricted(role),
    currentTerm <- Restricted(currentTerm),
    votedFor <- Restricted(votedFor),
    lastLog <- [s \in Voters |-> LastLog(s)],
    net <- sent,
    elected <- {e \in elected : e[2] \in Voters}

\* Every step of the servers is a step of Election or leaves its state alone.
ImplementsElection == Elections!Spec
=============================================================================
