-------------------------------- MODULE Bank --------------------------------
(***************************************************************************)
(* The whole system: the client of client.py and the servers of server.py, *)
(* joined by UDP.  Clusters in Server are modelled in full; a cluster with *)
(* members in Remote takes part in two-phase commit only with its votes.   *)
(***************************************************************************)
EXTENDS Server, Client

CONSTANT RemoteVotes  \* what a remote cluster may vote; {} is one that failed

ASSUME RemoteVotesType == RemoteVotes \subseteq {"yes", "no"}

vars == <<net, serverVars, clientVars>>

Init ==
    /\ net = {}
    /\ ServerInit
    /\ ClientInit

\* A cluster that is not modelled answers PREPARE with a vote, or never.
RemoteVote ==
    \E m \in net, v \in RemoteVotes :
        /\ m.type = "PREPARE" /\ m.to \in Remote
        /\ net' = (net \ {m}) \cup {Vote(m.to, m.tx, v)}
        /\ UNCHANGED <<serverVars, clientVars>>

Next ==
    \/ ServerNext /\ UNCHANGED clientVars
    \/ ClientNext /\ UNCHANGED serverVars
    \/ RemoteVote

Spec == Init /\ [][Next]_vars

\* The worker thread always runs on: its waits end by timeout
\* (server.py:509-515, 566-568).
WorkerFairness ==
    \A s \in Server : WF_vars(UNCHANGED clientVars /\ Worker(s))

-----------------------------------------------------------------------------
(* Typing. *)

Entry == [term : Nat, tx : Tx, committed : BOOLEAN,
          body : {"object", "dict", "none"}]

TypeOK ==
    /\ role \in [Server -> {"follower", "candidate", "leader"}]
    /\ currentTerm \in [Server -> Nat]
    /\ votedFor \in [Server -> Server \cup {NoServer}]
    /\ currentLeader \in [Server -> Server \cup {NoServer}]
    /\ \A s \in Server :
          /\ \A i \in DOMAIN log[s] : log[s][i] \in Entry
          /\ commitIndex[s] \in Nat
          /\ nextIndex[s] \in [Peers[s] -> Nat \cup {MissingKey}]
          /\ matchIndex[s] \in [Peers[s] -> Nat \cup {MissingKey}]
          /\ \A a \in DOMAIN shard[s].balance : shard[s].balance[a] \in Nat
          /\ shard[s].locks \subseteq DOMAIN shard[s].balance
          /\ shard[s].pending \subseteq {x \in Tx : Cross(x)}
          /\ worker[s].pc \in {"idle", "wait", "append", "repl", "dead"}
          /\ (worker[s].pc = "idle") = (worker[s].tx = NoTx)
    /\ halted \subseteq Server
    /\ open \subseteq {x \in Tx : Cross(x)}

-----------------------------------------------------------------------------
(* Replication. *)

Replicas(s) == {p \in Server : ClusterOf[p] = ClusterOf[s]}
Holds(s, x) == \E i \in DOMAIN log[s] : log[s][i].tx = x
HasExecuted(s, x) == \E i \in DOMAIN shard[s].ledger : shard[s].ledger[i] = x
Prefix(f, g) == Len(f) <= Len(g) /\ \A i \in DOMAIN f : f[i] = g[i]

\* Entries of one index and term are the same transfer, and so is all before
\* them (server.py:290-303).
LogMatching ==
    \A s \in Server : \A p \in Replicas(s) :
        \A i \in DOMAIN log[s] \cap DOMAIN log[p] :
            log[s][i].term = log[p][i].term =>
                \A j \in 1..i : log[s][j].tx = log[p][j].tx

\* Replicas that applied equally much of the log executed the same transfers
\* in the same order, and one that applied less executed a prefix of them
\* (apply_committed_entries), although each decides on its own, from its own
\* balances and commit index, which transfers to skip.
LedgersAgree ==
    \A s \in Server : \A p \in Replicas(s) :
        shard[s].lastApplied <= shard[p].lastApplied =>
            Prefix(shard[s].ledger, shard[p].ledger)

\* A transfer has one place in the log of a cluster: no replica holds it twice,
\* and no two hold it at different indices (server.py:306-365, 533-538),
\* although a follower is sent the same entries in several requests, which come
\* late and in any order.  The indices that count as applied rest on it.
OneIndex ==
    \A s \in Server : \A p \in Replicas(s) :
        \A i \in DOMAIN log[s], j \in DOMAIN log[p] :
            log[s][i].tx = log[p][j].tx => i = j

\* Under one leader that does not restart no datagram ends a listener thread,
\* whatever acks of earlier rounds reach the repair of a follower
\* (server.py:935-936, 999-1000: a KeyError or an IndexError would).
ListenersSurvive == halted = {}

\* The client has been told how an intra-shard transfer ended, or will read it.
Answered(x) ==
    (\E ok \in BOOLEAN : ClientResponse(x, ok) \in net) \/ TimeKey(x) \notin timing

Queued(s, x) == \E i \in DOMAIN txQueue[s] : txQueue[s][i] = x

\* A request in a leader's queue is answered, one way or the other
\* (server.py:466-641), unless a worker thread ended in an exception: here
\* although a cross-shard transfer, never decided, keeps the account locked.
QueuedIsAnswered ==
    \A x \in Tx :
        ~Cross(x) /\ (\E s \in Server : Queued(s, x))
            ~> Answered(x) \/ \E s \in Server : worker[s].pc = "dead"

-----------------------------------------------------------------------------
(* Two-phase commit. *)

Announced(d, x) == d \in decided[x]
VotedYes(c, x) == \E p \in Members(c) \cap DOMAIN votes[x] : votes[x][p] = "yes"
Unanimous(x) == \A c \in ClustersOfTx(x) : VotedYes(c, x)

\* The coordinator never sends both decisions (client.py:39-44).
OneDecision ==
    \A x \in Tx : ~(Announced("COMMIT", x) /\ Announced("ABORT", x))

\* A server executes its part of a cross-shard transfer only if the coordinator
\* decided COMMIT (server.py:768-789), however the entry and its committed_2PC
\* flag reached it, and whoever led when it was voted on.
ExecutedOnlyIfDecided ==
    \A s \in Server, x \in Tx :
        Cross(x) /\ HasExecuted(s, x) => Announced("COMMIT", x)

\* The client counts a transfer as completed at most once, however many acks
\* and answers arrive for it (client.py:53-60, 74-81).
CountedOnce == completed + Cardinality(timing) <= nextTx - 1

-----------------------------------------------------------------------------
(* What the comments and the documentation say and the code does not do.   *)
(* Each of these is violated, in a run of its own.                         *)

\* server.py:306-309, "check for conflicts and truncate if needed [...] Delete
\* conflicting entries": under one leader no entries conflict, so an executed
\* transfer stays in the log, below the commit index.
ExecutedIsCommitted ==
    \A s \in Server, x \in Tx :
        HasExecuted(s, x) =>
            \E i \in DOMAIN log[s] : log[s][i].tx = x /\ i <= commitIndex[s]

\* README.md:74-75, "If all clusters vote "yes", a commit message is
\* broadcasted.  If any cluster votes "no" or fails, an abort message is sent":
\* COMMIT is sent only if each of the two clusters voted yes.
CommitNeedsBothClusters ==
    \A x \in Tx : Announced("COMMIT", x) => Unanimous(x)

\* README.md:66, "On consensus, the transaction is committed and the client is
\* notified": a transfer reported as done is in the log of the newest leader.
ReportedIsKept ==
    \A x \in Tx, s \in Server :
        /\ ClientResponse(x, TRUE) \in net
        /\ role[s] = "leader"
        /\ \A p \in Server : role[p] = "leader" => currentTerm[p] <= currentTerm[s]
        => Holds(s, x)

\* README.md:28, "Manages cross-shard transactions for atomicity": an entry
\* that was decided COMMIT and is applied was executed.
CommitIsExecuted ==
    \A s \in Server : \A i \in DOMAIN log[s] \cap shard[s].applied :
        log[s][i].committed => HasExecuted(s, log[s][i].tx)
=============================================================================
