---------------------------- MODULE SteadyProofs ----------------------------
(***************************************************************************)
(* A cluster that keeps one leader: what the comments of server.py take    *)
(* for granted of the log, the commit index, the threads, the votes and    *)
(* the ledgers holds then, for any number of clusters and transfers and    *)
(* any loss.                                                               *)
(***************************************************************************)
EXTENDS ReplicationProofs

\* The servers that won an election.
Led == {s \in Server : \E e \in elected : e[2] = s}

\* No second server of a cluster ever wins an election.
OneLeader == \A s, p \in Led : ClusterOf[s] = ClusterOf[p] => s = p

IntraOnly == \A x \in Tx : ~Cross(x)

Acked(s) == \E m \in net : m.type = "APPEND_ACK" /\ m.to = s

\* s does what only a leader should do, or will.
Active(s) ==
    \/ role[s] = "leader" \/ worker[s].pc # "idle" \/ txQueue[s] # <<>>
    \/ Acked(s) \/ counting[s] # {}

LedInv ==
    /\ \A s \in Server : Active(s) => s \in Led
    /\ \A m \in net : m.type = "APPEND_ENTRIES" => m.from \in Led

\* e is a copy of entry i of the log of s.
CopyOf(e, s, i) ==
    i \in DOMAIN log[s] /\ e.term = log[s][i].term /\ e.tx = log[s][i].tx

CopyInv ==
    /\ \A s \in Server : \A i \in DOMAIN log[s] :
          \E l \in Led : ClusterOf[l] = ClusterOf[s] /\ CopyOf(log[s][i], l, i)
    /\ \A m \in net : m.type = "APPEND_ENTRIES" =>
          \A k \in DOMAIN m.entries : CopyOf(m.entries[k], m.from, m.prev + k)

BodyInv ==
    /\ \A s \in Server : \A i \in DOMAIN log[s] :
          /\ log[s][i].body # "none"
          /\ s \in Led => log[s][i].body = "object"
    /\ \A m \in net : m.type = "APPEND_ENTRIES" =>
          \A k \in DOMAIN m.entries : m.entries[k].body # "none"

NextOK(s) == \A p \in Peers[s] : nextIndex[s][p] \in 0..Len(log[s])

CommitInv ==
    /\ \A s \in Led : NextOK(s) /\ commitIndex[s] <= Len(log[s])
    /\ \A s \in Server :
          commitIndex[s] > 0 => \E l \in Led : ClusterOf[l] = ClusterOf[s]
    /\ \A m \in net : m.type = "APPEND_ENTRIES" =>
          m.commit <= m.prev + Len(m.entries)

HasVoted(v, x) ==
    \/ \E m \in net : m.type = "VOTE" /\ m.from = v /\ m.tx = x
    \/ x \in Tx /\ v \in DOMAIN votes[x]

\* Who has voted on a transfer will not vote on it again.
VotedInv ==
    \A x \in Tx, v \in Node : HasVoted(v, x) =>
        /\ x < nextTx
        /\ \A k, w : Placed(k, w, x, ClusterOf[v]) =>
              v \in Server /\ k = "log" /\ w <= commitIndex[v]

VotesInv ==
    /\ \A m, n \in net : m.type = "VOTE" /\ n.type = "VOTE"
                         /\ m.from = n.from /\ m.tx = n.tx => m = n
    /\ \A m \in net : m.type = "VOTE" => m.from \notin DOMAIN votes[m.tx]
    /\ \A x \in Tx : IsFiniteSet(DOMAIN votes[x])
    /\ \A x \in Tx : decided[x] # {} => Cardinality(DOMAIN votes[x]) >= 2
    /\ OneDecision


-----------------------------------------------------------------------------
(* What a step may do to the log, the commit index, next_index and the       *)
(* threads.                                                                  *)

\* The entries of t keep their terms and transfers.
Marked(t) ==
    /\ DOMAIN log'[t] = DOMAIN log[t] /\ Len(log'[t]) = Len(log[t])
    /\ \A i \in DOMAIN log[t] :
          /\ log'[t][i].term = log[t][i].term /\ log'[t][i].tx = log[t][i].tx
          /\ log'[t][i].body \in {log[t][i].body, "object"}

LogStep(t) ==
    \/ Marked(t) /\ (commitIndex'[t] = commitIndex[t] \/ t \in MayRestart)
    \/ Marked(t) /\ Active(t) /\ commitIndex'[t] \in commitIndex[t]..Len(log[t])
    \/ /\ Active(t) /\ commitIndex'[t] = commitIndex[t]
       /\ \E x \in Tx : log'[t] = Append(log[t], NewEntry(t, x))
    \/ \E m \in net : /\ m \in AppendT /\ m.to = t /\ Consistent(t, m)
                      /\ log'[t] = Merged(t, m) /\ commitIndex'[t] = CommitAfter(t, m)

LedStep ==
    /\ Led \subseteq Led'
    /\ \A s \in Led' \ Led :
          NextOK(s)' /\ log'[s] = log[s] /\ commitIndex'[s] = commitIndex[s]
    /\ \A s \in Server :
          /\ role'[s] = "leader" => role[s] = "leader" \/ s \in Led'
          /\ worker'[s].pc # "idle" \/ txQueue'[s] # <<>> \/ counting'[s] # {}
             => Active(s)

\* s sends its log as it is after the step, from entry k on.
Sent(n) ==
    \E s \in Server :
        /\ Active(s) /\ commitIndex'[s] = commitIndex[s]
        /\ \E p \in Peers[s] : \E k \in 0..Len(log'[s]) :
              n = AppendEntries(s, p, log'[s], k)

NetStep ==
    \A n \in net' :
        /\ n.type = "APPEND_ENTRIES" => n \in net \/ Sent(n)
        /\ n.type = "APPEND_ACK" =>
              n \in net \/ \E m \in net : m.type = "APPEND_ENTRIES" /\ m.from = n.to

NextStep ==
    \A t \in Server : t \notin MayRestart /\ NextOK(t) /\ Len(log[t]) <= Len(log'[t])
                      => NextOK(t)'

\* A thread ends in an exception only over an entry without a transfer, or a
\* next_index that is absent or beyond the log.
HaltStep ==
    \A s \in Server : s \in halted' \/ worker'[s].pc = "dead" =>
        \/ s \in halted \/ worker[s].pc = "dead"
        \/ \E i \in DOMAIN log'[s] : log'[s][i].body = "none"
        \/ Active(s) /\ ~NextOK(s)

SteadyStep ==
    (\A t \in Server : LogStep(t)) /\ LedStep /\ NetStep /\ NextStep /\ HaltStep

LEMMA LedKept ==
    ASSUME elected' = elected, worker' = worker, txQueue' = txQueue,
           \A s \in Server : counting'[s] # {} => counting[s] # {} \/ Acked(s),
           \A s \in Server : role'[s] = "leader" => role[s] = "leader"
    PROVE  LedStep
BY DEF LedStep, Led, Active

LEMMA NetKept ==
    ASSUME \A n \in net' : n \in net \/ n.type \notin {"APPEND_ENTRIES", "APPEND_ACK"}
    PROVE  NetStep
BY DEF NetStep

LEMMA LogsKept ==
    ASSUME TypeInv, log' = log, commitIndex' = commitIndex
    PROVE  \A t \in Server : LogStep(t)
BY DEF LogStep, Marked

LEMMA IndexKept ==
    ASSUME TypeInv, nextIndex' = nextIndex
    PROVE  NextStep
<1> SUFFICES ASSUME NEW t \in Server, NextOK(t), Len(log[t]) <= Len(log'[t]),
                    NEW p \in Peers[t]
             PROVE  nextIndex[t][p] \in 0..Len(log'[t])
  BY DEF NextStep, NextOK
<1>1. nextIndex[t][p] \in 0..Len(log[t]) /\ Len(log[t]) \in Nat
  BY CurrentTyped DEF NextOK
<1> QED
  BY <1>1

LEMMA HaltKept ==
    ASSUME halted' \subseteq halted,
           \A s \in Server : worker'[s].pc = "dead" => worker[s].pc = "dead"
    PROVE  HaltStep
BY DEF HaltStep

LEMMA QuietStep ==
    ASSUME TypeInv, log' = log, commitIndex' = commitIndex, nextIndex' = nextIndex,
           halted' = halted, \A s \in Server : worker'[s].pc = "dead" => worker[s].pc = "dead",
           LedStep, NetStep
    PROVE  SteadyStep
BY LogsKept, IndexKept, HaltKept DEF SteadyStep

-----------------------------------------------------------------------------
(* The steps that touch neither log nor commit index nor next_index. *)

LEMMA StartElectionSteady ==
    ASSUME TypeInv, NEW s \in Server, StartElection(s)
    PROVE  SteadyStep
<1>1. LedStep
  BY LedKept DEF StartElection, threadVars, electionVars, TypeInv, ElectionInv
<1>2. NetStep
  <2>1. \A p : RequestVote(s, currentTerm[s] + 1, p).type = "REQUEST_VOTE"
    BY DEF RequestVote
  <2> QED
    BY <2>1, NetKept DEF StartElection, Send
<1> QED
  BY <1>1, <1>2, QuietStep DEF StartElection, logVars, leaderVars, threadVars

LEMMA AbandonElectionSteady ==
    ASSUME TypeInv, NEW s \in Server, NEW m \in net, m.to = s, AbandonElection(s, m)
    PROVE  SteadyStep
<1>1. LedStep
  BY LedKept DEF AbandonElection, threadVars, electionVars, TypeInv, ElectionInv
<1>2. NetStep
  BY NetKept DEF AbandonElection, Reply, Send
<1> QED
  BY <1>1, <1>2, QuietStep DEF AbandonElection, logVars, leaderVars, threadVars

LEMMA DropSteady ==
    ASSUME TypeInv, NEW s \in Server, NEW m \in net, m.to = s, Drop(s, m)
    PROVE  SteadyStep
<1>1. LedStep
  BY LedKept DEF Drop, serverVars, threadVars, electionVars
<1>2. NetStep
  BY NetKept DEF Drop, Reply, Send
<1> QED
  BY <1>1, <1>2, QuietStep DEF Drop, logVars, leaderVars, threadVars, serverVars

LEMMA HandleVoteRequestSteady ==
    ASSUME TypeInv, NEW s \in Server, NEW m \in net, m.to = s, HandleVoteRequest(s, m)
    PROVE  SteadyStep
<1>1. LedStep
  BY LedKept DEF HandleVoteRequest, RoleAt, threadVars, TypeInv, ElectionInv
<1>2. NetStep
  <2>1. VoteResponse(s, TermOf(s, m.term), m.from).type = "VOTE_RESPONSE"
    BY DEF VoteResponse
  <2> QED
    BY <2>1, NetKept DEF HandleVoteRequest, Reply
<1> QED
  BY <1>1, <1>2, QuietStep DEF HandleVoteRequest, logVars, leaderVars, threadVars

LEMMA StaleAppendSteady ==
    ASSUME TypeInv, NEW s \in Server, NEW m \in net, m.to = s, StaleAppend(s, m)
    PROVE  SteadyStep
<1>1. LedStep
  BY LedKept DEF StaleAppend, threadVars, electionVars, TypeInv, ElectionInv
<1>2. NetStep
  <2>1. /\ AppendAck(s, m.from, FALSE).type = "APPEND_ACK"
        /\ AppendAck(s, m.from, FALSE).to = m.from
    BY DEF AppendAck
  <2> QED
    BY <2>1 DEF StaleAppend, SeeLeader, Reply, NetStep
<1> QED
  BY <1>1, <1>2, QuietStep DEF StaleAppend, logVars, leaderVars, threadVars

LEMMA RefuseAppendSteady ==
    ASSUME TypeInv, NEW s \in Server, NEW m \in net, m.to = s, RefuseAppend(s, m)
    PROVE  SteadyStep
<1>1. LedStep
  BY LedKept DEF RefuseAppend, SeeLeader, RoleAt, threadVars, TypeInv, ElectionInv
<1>2. NetStep
  <2>1. /\ AppendAck(s, m.from, FALSE).type = "APPEND_ACK"
        /\ AppendAck(s, m.from, FALSE).to = m.from
    BY DEF AppendAck
  <2> QED
    BY <2>1 DEF RefuseAppend, SeeLeader, Reply, NetStep
<1> QED
  BY <1>1, <1>2, QuietStep DEF RefuseAppend, logVars, leaderVars, threadVars

LEMMA QueueAckSteady ==
    ASSUME TypeInv, NEW s \in Server, NEW m \in net, m.to = s, QueueAck(s, m)
    PROVE  SteadyStep
<1>1. LedStep
  BY LedKept DEF QueueAck, threadVars, electionVars, TypeInv, ElectionInv
<1>2. NetStep
  BY NetKept DEF QueueAck, Reply, Send
<1> QED
  BY <1>1, <1>2, QuietStep DEF QueueAck, logVars, leaderVars, threadVars

LEMMA IgnoreDecisionSteady ==
    ASSUME TypeInv, NEW s \in Server, NEW m \in net, m.to = s, IgnoreDecision(s, m)
    PROVE  SteadyStep
<1>1. LedStep
  BY LedKept DEF IgnoreDecision, threadVars, electionVars, TypeInv, ElectionInv
<1>2. NetStep
  BY NetKept DEF IgnoreDecision, Reply, Send
<1> QED
  BY <1>1, <1>2, QuietStep DEF IgnoreDecision, logVars, leaderVars, threadVars

LEMMA TakeRequestSteady ==
    ASSUME TypeInv, NEW s \in Server, NEW m \in net, m.to = s, TakeRequest(s, m)
    PROVE  SteadyStep
<1>1. LedStep
  <2>1. /\ elected' = elected /\ worker' = worker /\ role' = role
        /\ counting' = counting
        /\ \A t \in Server : txQueue'[t] # <<>> => txQueue[t] # <<>> \/ role[t] = "leader"
    BY DEF TakeRequest, electionVars, TypeInv, QueueInv
  <2> QED
    BY <2>1 DEF LedStep, Led, Active
<1>2. NetStep
  <2>1. [m EXCEPT !.to = currentLeader[s]].type = m.type
    BY MessageFacts DEF TakeRequest, RequestT
  <2> QED
    BY <2>1, NetKept DEF TakeRequest, Reply
<1> QED
  BY <1>1, <1>2, QuietStep DEF TakeRequest, logVars, leaderVars, threadVars

LEMMA RejectTransferSteady ==
    ASSUME TypeInv, NEW s \in Server, RejectTransfer(s)
    PROVE  SteadyStep
<1>1. LedStep
  <2>1. /\ elected' = elected /\ worker' = worker /\ role' = role
        /\ counting' = counting /\ txQueue[s] # <<>> /\ \A t \in Server : t # s => txQueue'[t] = txQueue[t]
    BY DEF RejectTransfer, NextInQueue, Taken, electionVars, TypeInv, QueueInv
  <2> QED
    BY <2>1 DEF LedStep, Led, Active
<1>2. NetStep
  <2>1. \A x : Vote(s, x, "no").type = "VOTE" /\ ClientResponse(x, FALSE).type = "CLIENT_RESPONSE"
    BY DEF Vote, ClientResponse
  <2> QED
    BY <2>1, NetKept DEF RejectTransfer, Send
<1> QED
  BY <1>1, <1>2, QuietStep DEF RejectTransfer, logVars, leaderVars, threadVars

LEMMA AwaitLocksSteady ==
    ASSUME TypeInv, NEW s \in Server, AwaitLocks(s)
    PROVE  SteadyStep
<1>1. LedStep
  <2>1. /\ elected' = elected /\ role' = role /\ txQueue[s] # <<>>
        /\ counting' = counting
        /\ \A t \in Server : t # s => txQueue'[t] = txQueue[t] /\ worker'[t] = worker[t]
    BY DEF AwaitLocks, NextInQueue, Taken, electionVars, TypeInv, QueueInv, WorkerInv
  <2> QED
    BY <2>1 DEF LedStep, Led, Active
<1>2. NetStep
  BY NetKept DEF AwaitLocks, Reply, Send
<1> QED
  BY <1>1, <1>2, QuietStep DEF AwaitLocks, logVars, leaderVars, threadVars, Idle, TypeInv, WorkerInv

LEMMA LockTimeoutSteady ==
    ASSUME TypeInv, NEW s \in Server, LockTimeout(s)
    PROVE  SteadyStep
<1>1. LedStep
  <2>1. /\ elected' = elected /\ role' = role /\ txQueue' = txQueue
        /\ counting' = counting
        /\ worker[s].pc # "idle" /\ \A t \in Server : t # s => worker'[t] = worker[t]
    BY DEF LockTimeout, electionVars, TypeInv, WorkerInv
  <2> QED
    BY <2>1 DEF LedStep, Led, Active
<1>2. NetStep
  <2>1. \A x : ClientResponse(x, FALSE).type = "CLIENT_RESPONSE"
    BY DEF ClientResponse
  <2> QED
    BY <2>1, NetKept DEF LockTimeout, Send
<1> QED
  BY <1>1, <1>2, QuietStep DEF LockTimeout, logVars, leaderVars, threadVars, Idle, TypeInv, WorkerInv

LEMMA GiveUpSteady ==
    ASSUME TypeInv, NEW s \in Server, GiveUp(s)
    PROVE  SteadyStep
<1>1. LedStep
  <2>1. /\ elected' = elected /\ role' = role /\ txQueue' = txQueue
        /\ counting' = counting
        /\ worker[s].pc # "idle" /\ \A t \in Server : t # s => worker'[t] = worker[t]
    BY DEF GiveUp, electionVars, TypeInv, WorkerInv
  <2> QED
    BY <2>1 DEF LedStep, Led, Active
<1>2. NetStep
  <2>1. \A x : ClientResponse(x, FALSE).type = "CLIENT_RESPONSE"
    BY DEF ClientResponse
  <2> QED
    BY <2>1, NetKept DEF GiveUp, Send
<1> QED
  BY <1>1, <1>2, QuietStep DEF GiveUp, logVars, leaderVars, threadVars, Idle, TypeInv, WorkerInv

LEMMA SendHeartbeatsSteady ==
    ASSUME TypeInv, NEW s \in Server, SendHeartbeats(s)
    PROVE  SteadyStep
<1>1. LedStep
  BY LedKept DEF SendHeartbeats, threadVars, electionVars, TypeInv, ElectionInv
<1>2. NetStep
  <2>1. ASSUME NEW n \in net', n \notin net PROVE Sent(n)
    <3>1. PICK p \in Peers[s] : n = AppendEntries(s, p, log[s], Len(log[s]))
      BY <2>1 DEF SendHeartbeats, Send
    <3>2. Active(s) /\ log' = log /\ commitIndex' = commitIndex /\ Len(log[s]) \in 0..Len(log[s])
      BY CurrentTyped DEF SendHeartbeats, Active, logVars
    <3> QED
      BY <3>1, <3>2 DEF Sent
  <2>2. \A p : AppendEntries(s, p, log[s], Len(log[s])).type = "APPEND_ENTRIES"
    BY DEF AppendEntries
  <2>3. \A n \in net' : n \in net \/ n.type = "APPEND_ENTRIES"
    BY <2>2 DEF SendHeartbeats, Send
  <2> QED
    BY <2>1, <2>3 DEF NetStep
<1> QED
  BY <1>1, <1>2, QuietStep DEF SendHeartbeats, logVars, leaderVars, threadVars

LEMMA CheckPendingSteady ==
    ASSUME TypeInv, NEW s \in Server, NEW x, CheckPending(s, x)
    PROVE  SteadyStep
<1>1. LedStep
  BY LedKept DEF CheckPending, threadVars, electionVars, TypeInv, ElectionInv
<1>2. NetStep
  <2>1. Ack(s, x).type = "ACK"
    BY DEF Ack
  <2> QED
    BY <2>1, NetKept DEF CheckPending, Send
<1> QED
  BY <1>1, <1>2, QuietStep DEF CheckPending, logVars, leaderVars, threadVars

LEMMA ClientSteady ==
    ASSUME TypeInv, UNCHANGED serverVars,
           \A n \in net' : n \in net \/ n.type \notin {"APPEND_ENTRIES", "APPEND_ACK"}
    PROVE  SteadyStep
<1>1. /\ log' = log /\ commitIndex' = commitIndex /\ nextIndex' = nextIndex
      /\ halted' = halted /\ worker' = worker /\ txQueue' = txQueue /\ role' = role
      /\ elected' = elected /\ counting' = counting
  BY DEF serverVars, logVars, leaderVars, threadVars, electionVars
<1> QED
  BY <1>1, LedKept, NetKept, QuietStep


-----------------------------------------------------------------------------
(* The other steps of a server. *)

LEMMA BecomeLeaderSteady ==
    ASSUME TypeInv, NEW s \in Server, NEW m \in net, m.to = s, BecomeLeader(s, m)
    PROVE  SteadyStep
<1>1. /\ log' = log /\ commitIndex' = commitIndex /\ halted' = halted
      /\ worker' = worker /\ txQueue' = txQueue /\ counting' = counting
      /\ nextIndex' = [nextIndex EXCEPT ![s] = NextAtEnd(s)]
      /\ elected' = elected \cup {<<currentTerm[s], s>>}
      /\ role' = [role EXCEPT ![s] = "leader"]
  BY DEF BecomeLeader, logVars, threadVars
<1>2. nextIndex'[s] = NextAtEnd(s) /\ \A t \in Server : t # s => nextIndex'[t] = nextIndex[t]
  BY <1>1 DEF TypeInv, LeaderInv
<1>3. NextOK(s)'
  <2>1. Len(log[s]) \in 0..Len(log[s])
    BY CurrentTyped
  <2> QED
    BY <1>1, <1>2, <2>1 DEF NextOK, NextAtEnd
<1>4. Led' = Led \cup {s}
  <2>1. <<currentTerm[s], s>>[2] = s
    OBVIOUS
  <2> QED
    BY <1>1, <2>1 DEF Led
<1>5. LedStep
  BY <1>1, <1>3, <1>4 DEF LedStep, Active, TypeInv, ElectionInv
<1>6. NextStep
  <2>1. ASSUME NEW t \in Server, t # s, NextOK(t) PROVE NextOK(t)'
    BY <1>1, <1>2, <2>1 DEF NextOK
  <2> QED
    BY <1>3, <2>1 DEF NextStep
<1>7. NetStep
  BY NetKept DEF BecomeLeader, Reply
<1> QED
  BY <1>1, <1>5, <1>6, <1>7, LogsKept, HaltKept DEF SteadyStep

\* The loop of apply_committed_entries fails over an entry without a transfer only.
LEMMA FailedOverNone ==
    ASSUME NEW s, NEW sh \in ShardT(s), NEW lg \in Seq(Entry), NEW ci \in Nat, NEW b,
           ApplyCommitted(s, sh, lg, ci, b).failed
    PROVE  \E i \in DOMAIN lg : lg[i].body = "none"
<1> DEFINE Bad == \E i \in DOMAIN lg : lg[i].body = "none"
           T == {m \in LoopT(s) : m.failed = TRUE => Bad}
           turns == Max({0, ci - sh.lastApplied})
           end == ApplyTurns(s, sh, lg, ci, b)[turns]
<1>0. sh.lastApplied \in Nat
  BY DEF ShardT
<1>1. turns \in Nat
  <2> DEFINE S == {0, ci - sh.lastApplied}
  <2>1. \E k \in S : \A l \in S : k >= l
    BY <1>0
  <2>2. turns \in S /\ \A l \in S : turns >= l
    BY <2>1 DEF Max
  <2> QED
    BY <1>0, <2>2
<1>2. LoopStart(sh) \in T
  BY <1>0 DEF LoopStart, LoopT
<1>3. ASSUME NEW m \in T, NEW n \in Nat
      PROVE  ApplyEntry(s, lg, ci, b, m, sh.lastApplied + (n + 1)) \in T
  <2> DEFINE i == sh.lastApplied + (n + 1)
             r == ApplyEntry(s, lg, ci, b, m, i)
  <2>1. i \in Nat \ {0} /\ m \in LoopT(s)
    BY <1>0
  <2> HIDE DEF i
  <2>2. r \in LoopT(s)
    BY <2>1, ApplyEntryTyped DEF Turned
  <2>3. r.failed = TRUE => Bad
    <3>1. CASE m.failed \/ i > Len(lg) \/ i \in m.sh.applied
      <4>1. r.failed = m.failed
        BY <2>1, <3>1 DEF ApplyEntry, Passed, LoopT
      <4> QED
        BY <1>3, <4>1
    <3>2. CASE ~(m.failed \/ i > Len(lg) \/ i \in m.sh.applied)
      <4>1. r = ApplyNew(s, lg[i], ci, b, m, i)
        BY <3>2 DEF ApplyEntry
      <4>2. i \in DOMAIN lg /\ m.failed = FALSE
        <5>1. m.failed = FALSE
          BY <2>1, <3>2 DEF LoopT
        <5> QED
          BY <2>1, <3>2, <5>1, LenProperties
      <4>3. lg[i] \in Entry
        BY <4>2, LenProperties, ElementOfSeq
      <4>4. lg[i].body # "none" => r.failed = FALSE
        <5> DEFINE e == lg[i]
        <5>1. e \in Entry /\ r = ApplyNew(s, e, ci, b, m, i)
          BY <4>1, <4>3
        <5> HIDE DEF e, r
        <5>2. e.body # "none" => r.failed = FALSE
          BY <2>1, <4>2, <5>1 DEF ApplyNew, Passed, LoopT, Entry
        <5> QED
          BY <5>2 DEF e
      <4> QED
        BY <4>2, <4>4
    <3> QED
      BY <3>1, <3>2
  <2> QED
    BY <2>2, <2>3 DEF i
<1>4. end \in T
  <2> HIDE DEF T, turns
  <2> QED
    BY <1>1, <1>2, <1>3, LoopStays
<1>5. ApplyCommitted(s, sh, lg, ci, b).failed = end.failed
  BY DEF ApplyCommitted
<1> HIDE DEF end
<1>6. end.failed = TRUE
  BY <1>4, <1>5 DEF LoopT
<1> QED
  BY <1>4, <1>6

\* update_commit_index moves the commit index within the log, or not at all.
LEMMA UpdateBounds ==
    ASSUME TypeInv, NEW s \in Server, NEW mi, NEW r,
           \/ r = UpdateCommitIndex(s, shard[s], mi)
           \/ r = NothingDone(s, shard[s])
    PROVE  /\ r.ci = commitIndex[s] \/ r.ci \in commitIndex[s]..Len(log[s])
           /\ r.failed => \E i \in DOMAIN log[s] : log[s][i].body = "none"
<1>0. /\ shard[s] \in ShardT(s) /\ log[s] \in Seq(Entry) /\ commitIndex[s] \in Nat
      /\ Len(log[s]) \in Nat
  BY CurrentTyped
<1>1. CASE r = NothingDone(s, shard[s])
  BY <1>1 DEF NothingDone
<1>2. CASE r = UpdateCommitIndex(s, shard[s], mi)
  <2>1. /\ r.ci \in Nat /\ r.ci >= commitIndex[s]
        /\ r.ci = commitIndex[s] \/ r.ci \in DOMAIN log[s]
        /\ \/ r = NothingDone(s, shard[s])
           \/ Voted(s, shard[s], r)
           \/ r = ApplyCommitted(s, shard[s], log[s], r.ci, role[s] = "leader")
    BY <1>0, <1>2, UpdateCommitCases
  <2>2. r.ci = commitIndex[s] \/ r.ci \in commitIndex[s]..Len(log[s])
    BY <1>0, <2>1, LenProperties
  <2>3. r = NothingDone(s, shard[s]) => r.failed = FALSE
    BY DEF NothingDone
  <2>4. Voted(s, shard[s], r) => r.failed = FALSE
    BY DEF Voted
  <2>5. ASSUME r = ApplyCommitted(s, shard[s], log[s], r.ci, role[s] = "leader"),
               r.failed
        PROVE  \E i \in DOMAIN log[s] : log[s][i].body = "none"
    <3>1. ApplyCommitted(s, shard[s], log[s], r.ci, role[s] = "leader").failed
      BY <2>5
    <3> QED
      BY <1>0, <2>1, <3>1, FailedOverNone
  <2> QED
    BY <2>1, <2>2, <2>3, <2>4, <2>5
<1> QED
  BY <1>1, <1>2

\* It sends votes and answers only.
LEMMA UpdateOut ==
    ASSUME TypeInv, NEW s \in Server, NEW mi, NEW r,
           \/ r = UpdateCommitIndex(s, shard[s], mi)
           \/ r = NothingDone(s, shard[s])
    PROVE  \A n \in r.out : n.type \in {"VOTE", "CLIENT_RESPONSE"}
<1>0. shard[s] \in ShardT(s) /\ log[s] \in Seq(Entry)
  BY CurrentTyped
<1>1. CASE r = NothingDone(s, shard[s])
  BY <1>1, NothingTyped
<1>2. CASE r = UpdateCommitIndex(s, shard[s], mi)
  <2>1. /\ r.ci \in Nat
        /\ \/ r = NothingDone(s, shard[s])
           \/ Voted(s, shard[s], r)
           \/ r = ApplyCommitted(s, shard[s], log[s], r.ci, role[s] = "leader")
    BY <1>0, <1>2, UpdateCommitCases
  <2>2. CASE Voted(s, shard[s], r)
    <3>1. \A x, v : Vote(s, x, v).type = "VOTE"
      BY DEF Vote
    <3> QED
      BY <2>2, <3>1 DEF Voted
  <2>3. CASE r = ApplyCommitted(s, shard[s], log[s], r.ci, role[s] = "leader")
    <3>1. r.out \subseteq ResponseT
      BY <1>0, <2>1, <2>3, ApplyCommittedTyped
    <3> QED
      BY <3>1 DEF ResponseT
  <2> QED
    BY <1>1, <2>1, <2>2, <2>3
<1> QED
  BY <1>1, <1>2

LEMMA TakeAckSteady ==
    ASSUME TypeInv, NEW s \in Server, NEW m \in net, m.to = s, TakeAck(s, m)
    PROVE  SteadyStep
<1>1. LedStep
  <2>1. Acked(s) /\ \A t \in Server : t # s => counting'[t] = counting[t]
    BY DEF TakeAck, Acked, TypeInv, QueueInv
  <2> QED
    BY <2>1, LedKept DEF TakeAck, electionVars
<1>2. NetStep
  BY NetKept DEF TakeAck, Reply
<1> QED
  BY <1>1, <1>2, QuietStep DEF TakeAck, logVars, leaderVars

LEMMA CountAckSteady ==
    ASSUME TypeInv, NEW s \in Server, NEW m \in counting[s], CountAck(s, m)
    PROVE  SteadyStep
<1> DEFINE mi == [matchIndex[s] EXCEPT ![m.from] = Len(log[s])]
           some == {p \in Peers[s] : mi[p] >= commitIndex[s]}
           r == IF Cardinality(some) > Cardinality(Peers[s]) \div 2
                THEN UpdateCommitIndex(s, shard[s], mi)
                ELSE NothingDone(s, shard[s])
<1>a. /\ shard' = [shard EXCEPT ![s] = r.sh] /\ log' = log
      /\ commitIndex' = [commitIndex EXCEPT ![s] = r.ci]
      /\ nextIndex' = [nextIndex EXCEPT ![s][m.from] = Len(log[s])]
      /\ halted' = IF r.failed THEN halted \cup {s} ELSE halted
      /\ Send(r.out)
  BY DEF CountAck, Counted
<1>b. r = UpdateCommitIndex(s, shard[s], mi) \/ r = NothingDone(s, shard[s])
  OBVIOUS
<1>c. /\ elected' = elected /\ worker' = worker /\ txQueue' = txQueue /\ role' = role
      /\ counting' = [counting EXCEPT ![s] = {}]
  BY DEF CountAck, Counted, electionVars
<1> HIDE DEF r, mi
<1>d. /\ r.ci = commitIndex[s] \/ r.ci \in commitIndex[s]..Len(log[s])
      /\ r.failed => \E i \in DOMAIN log[s] : log[s][i].body = "none"
  BY <1>b, UpdateBounds
<1>e. Active(s)
  BY DEF Active
<1>1. ASSUME NEW t \in Server PROVE LogStep(t)
  <2>0. Marked(t)
    BY <1>a DEF Marked
  <2>1. commitIndex'[t] = IF t = s THEN r.ci ELSE commitIndex[t]
    BY <1>a DEF TypeInv, LogInv
  <2> QED
    BY <1>d, <1>e, <2>0, <2>1 DEF LogStep
<1>2. LedStep
  BY <1>c, LedKept DEF TypeInv, QueueInv
<1>3. NetStep
  <2>1. \A n \in r.out : n.type \in {"VOTE", "CLIENT_RESPONSE"}
    BY <1>b, UpdateOut
  <2> QED
    BY <1>a, <2>1, NetKept DEF Send
<1>4. NextStep
  <2>1. ASSUME NEW t \in Server, NextOK(t) PROVE NextOK(t)'
    <3>1. Len(log[t]) \in 0..Len(log[t])
      BY CurrentTyped
    <3>2. \A p \in Peers[t] : nextIndex'[t][p] = nextIndex[t][p] \/ nextIndex'[t][p] = Len(log[t])
      BY <1>a DEF TypeInv, LeaderInv
    <3> QED
      BY <1>a, <2>1, <3>1, <3>2 DEF NextOK
  <2> QED
    BY <2>1 DEF NextStep
<1>5. HaltStep
  BY <1>a, <1>c, <1>d DEF HaltStep
<1> QED
  BY <1>1, <1>2, <1>3, <1>4, <1>5 DEF SteadyStep

\* A thread that was about to send sends its own log.
LEMMA SentLog ==
    ASSUME NEW s \in Server, NEW p \in Peers[s], Active(s), commitIndex'[s] = commitIndex[s],
           NEW lg, lg = log'[s], NEW k \in 0..Len(lg)
    PROVE  Sent(AppendEntries(s, p, lg, k))
BY DEF Sent

LEMMA SteppedBackIn ==
    ASSUME TypeInv, NEW s \in Server, NEW p \in Peers[s]
    PROVE  /\ SteppedBack(nextIndex[s][p]) \in Nat /\ Len(log[s]) \in Nat
           /\ CanSend(log[s], SteppedBack(nextIndex[s][p])) =>
                 SteppedBack(nextIndex[s][p]) \in 0..Len(log[s])
           /\ nextIndex[s][p] \in 0..Len(log[s]) =>
                 /\ CanSend(log[s], SteppedBack(nextIndex[s][p]))
                 /\ SteppedBack(nextIndex[s][p]) \in 0..Len(log[s])
<1>1. nextIndex[s][p] \in Index /\ Len(log[s]) \in Nat
  BY CurrentTyped
<1> QED
  BY <1>1 DEF SteppedBack, CanSend, Index, MissingKey

LEMMA RepairFollowerSteady ==
    ASSUME TypeInv, NEW s \in Server, NEW m \in counting[s], RepairFollower(s, m)
    PROVE  SteadyStep
<1> DEFINE q == m.from
           known == nextIndex[s][q] # MissingKey
           next == SteppedBack(nextIndex[s][q])
<1>a. /\ log' = log /\ commitIndex' = commitIndex /\ worker' = worker
      /\ txQueue' = txQueue /\ role' = role /\ elected' = elected
      /\ counting' = [counting EXCEPT ![s] = {}]
      /\ nextIndex' = IF known THEN [nextIndex EXCEPT ![s][q] = next] ELSE nextIndex
      /\ IF known /\ CanSend(log[s], next)
         THEN /\ Send({AppendEntries(s, q, log[s], next)})
              /\ halted' = halted
         ELSE Send({}) /\ halted' = halted \cup {s}
  BY DEF RepairFollower, Counted, electionVars
<1>b. q \in Peers[s]
  BY CurrentTyped DEF AckT
<1>c. Active(s)
  BY DEF Active
<1>d. /\ next \in Nat
      /\ CanSend(log[s], next) => next \in 0..Len(log[s])
      /\ nextIndex[s][q] \in 0..Len(log[s]) =>
            CanSend(log[s], next) /\ next \in 0..Len(log[s])
  BY <1>b, SteppedBackIn
<1>e. known \in BOOLEAN /\ (~known => nextIndex[s][q] = -1)
  BY DEF MissingKey
<1> HIDE DEF next, known, q
<1>1. LedStep
  BY <1>a, LedKept DEF TypeInv, QueueInv
<1>2. NetStep
  <2>1. CASE known /\ CanSend(log[s], next)
    <3>1. Sent(AppendEntries(s, q, log[s], next))
      BY <1>a, <1>b, <1>c, <1>d, <2>1, SentLog
    <3>2. AppendEntries(s, q, log[s], next).type = "APPEND_ENTRIES"
      BY DEF AppendEntries
    <3> QED
      BY <1>a, <2>1, <3>1, <3>2 DEF NetStep, Send
  <2>2. CASE ~(known /\ CanSend(log[s], next))
    BY <1>a, <2>2, NetKept DEF Send
  <2> QED
    BY <2>1, <2>2
<1>4. NextStep
  <2>1. ASSUME NEW t \in Server, NextOK(t), NEW p \in Peers[t]
        PROVE  nextIndex'[t][p] \in 0..Len(log[t])
    <3>1. \/ nextIndex'[t][p] = nextIndex[t][p]
          \/ t = s /\ p = q /\ nextIndex'[t][p] = next
      BY <1>a, <1>b DEF TypeInv, LeaderInv
    <3> QED
      BY <1>d, <2>1, <3>1 DEF NextOK
  <2> QED
    BY <1>a, <2>1 DEF NextStep, NextOK
<1>5. HaltStep
  <2>1. NextOK(s) => known /\ CanSend(log[s], next)
    <3>1. NextOK(s) => nextIndex[s][q] \in 0..Len(log[s])
      BY <1>b DEF NextOK
    <3>2. nextIndex[s][q] \in 0..Len(log[s]) => nextIndex[s][q] # -1
      OBVIOUS
    <3> QED
      BY <1>d, <1>e, <3>1, <3>2
  <2> QED
    BY <1>a, <1>c, <2>1 DEF HaltStep
<1> QED
  BY <1>1, <1>2, <1>4, <1>5, <1>a, LogsKept DEF SteadyStep

LEMMA RetryFollowerSteady ==
    ASSUME TypeInv, NEW s \in Server, NEW a, ackQueue[s] # <<>>, a = Head(ackQueue[s]),
           RetryFollower(s, a)
    PROVE  SteadyStep
<1> DEFINE q == a.from
           next == SteppedBack(nextIndex[s][q])
<1>a. /\ log' = log /\ commitIndex' = commitIndex /\ halted' = halted
      /\ txQueue' = txQueue /\ role' = role /\ elected' = elected /\ counting' = counting
      /\ worker[s].pc = "repl"
      /\ nextIndex' = [nextIndex EXCEPT ![s][q] = next]
      /\ IF CanSend(log[s], next)
         THEN /\ Send({AppendEntries(s, q, log[s], next)})
              /\ worker' = worker
         ELSE /\ Send({})
              /\ worker' = [worker EXCEPT ![s].pc = "dead"]
  BY DEF RetryFollower, PoppedAck, electionVars
<1>b. q \in Peers[s]
  BY AckHeadTyped DEF AckT
<1>c. Active(s)
  BY <1>a DEF Active
<1>d. /\ next \in Nat
      /\ CanSend(log[s], next) => next \in 0..Len(log[s])
      /\ nextIndex[s][q] \in 0..Len(log[s]) =>
            CanSend(log[s], next) /\ next \in 0..Len(log[s])
  BY <1>b, SteppedBackIn
<1> HIDE DEF next, q
<1>e. /\ \A t \in Server : t # s => worker'[t] = worker[t]
      /\ worker'[s].pc \in {"repl", "dead"}
  BY <1>a DEF TypeInv, WorkerInv
<1>1. LedStep
  <2>1. \A t \in Server : worker'[t].pc # "idle" \/ txQueue'[t] # <<>>
                        \/ counting'[t] # {} => Active(t)
    BY <1>a, <1>c, <1>e DEF Active
  <2> QED
    BY <1>a, <2>1 DEF LedStep, Led
<1>2. NetStep
  <2>1. CASE CanSend(log[s], next)
    <3>1. Sent(AppendEntries(s, q, log[s], next))
      BY <1>a, <1>b, <1>c, <1>d, <2>1, SentLog
    <3>2. AppendEntries(s, q, log[s], next).type = "APPEND_ENTRIES"
      BY DEF AppendEntries
    <3> QED
      BY <1>a, <2>1, <3>1, <3>2 DEF NetStep, Send
  <2>2. CASE ~CanSend(log[s], next)
    BY <1>a, <2>2, NetKept DEF Send
  <2> QED
    BY <2>1, <2>2
<1>4. NextStep
  <2>1. ASSUME NEW t \in Server, NextOK(t), NEW p \in Peers[t]
        PROVE  nextIndex'[t][p] \in 0..Len(log[t])
    <3>1. \/ nextIndex'[t][p] = nextIndex[t][p]
          \/ t = s /\ p = q /\ nextIndex'[t][p] = next
      BY <1>a, <1>b DEF TypeInv, LeaderInv
    <3> QED
      BY <1>d, <2>1, <3>1 DEF NextOK
  <2> QED
    BY <1>a, <2>1 DEF NextStep, NextOK
<1>5. HaltStep
  <2>1. NextOK(s) => CanSend(log[s], next)
    BY <1>b, <1>d DEF NextOK
  <2>2. \A t \in Server : worker'[t].pc = "dead" =>
           worker[t].pc = "dead" \/ (t = s /\ ~CanSend(log[s], next))
    <3>1. CanSend(log[s], next) => worker' = worker
      BY <1>a
    <3> QED
      BY <1>e, <3>1
  <2> QED
    BY <1>a, <1>c, <2>1, <2>2 DEF HaltStep
<1> QED
  BY <1>1, <1>2, <1>4, <1>5, <1>a, LogsKept DEF SteadyStep

LEMMA CountWorkerAckSteady ==
    ASSUME TypeInv, NEW s \in Server, NEW a, ackQueue[s] # <<>>, a = Head(ackQueue[s]),
           CountWorkerAck(s, a)
    PROVE  SteadyStep
<1> DEFINE mi == [matchIndex[s] EXCEPT ![a.from] = Len(log[s])]
           r == UpdateCommitIndex(s, shard[s], mi)
<1>a. /\ shard' = [shard EXCEPT ![s] = r.sh] /\ log' = log /\ halted' = halted
      /\ commitIndex' = [commitIndex EXCEPT ![s] = r.ci]
      /\ nextIndex' = [nextIndex EXCEPT ![s][a.from] = Len(log[s])]
      /\ worker' = [worker EXCEPT ![s] = IF r.failed THEN [@ EXCEPT !.pc = "dead"] ELSE Idle]
      /\ Send(r.out)
      /\ elected' = elected /\ txQueue' = txQueue /\ role' = role
      /\ counting' = counting
      /\ worker[s].pc = "repl"
  BY DEF CountWorkerAck, PoppedAck, electionVars
<1>b. r = UpdateCommitIndex(s, shard[s], mi) \/ r = NothingDone(s, shard[s])
  OBVIOUS
<1> HIDE DEF r, mi
<1>d. /\ r.ci = commitIndex[s] \/ r.ci \in commitIndex[s]..Len(log[s])
      /\ r.failed => \E i \in DOMAIN log[s] : log[s][i].body = "none"
  BY <1>b, UpdateBounds
<1>e. Active(s)
  BY <1>a DEF Active
<1>f. /\ \A t \in Server : t # s => worker'[t] = worker[t]
      /\ worker'[s].pc \in {"idle", "dead"}
      /\ worker'[s].pc = "dead" => r.failed
  BY <1>a DEF TypeInv, WorkerInv, Idle
<1>1. ASSUME NEW t \in Server PROVE LogStep(t)
  <2>0. Marked(t)
    BY <1>a DEF Marked
  <2>1. commitIndex'[t] = IF t = s THEN r.ci ELSE commitIndex[t]
    BY <1>a DEF TypeInv, LogInv
  <2> QED
    BY <1>d, <1>e, <2>0, <2>1 DEF LogStep
<1>2. LedStep
  <2>1. \A t \in Server : worker'[t].pc # "idle" \/ txQueue'[t] # <<>>
                        \/ counting'[t] # {} => Active(t)
    BY <1>a, <1>e, <1>f DEF Active
  <2> QED
    BY <1>a, <2>1 DEF LedStep, Led
<1>3. NetStep
  <2>1. \A n \in r.out : n.type \in {"VOTE", "CLIENT_RESPONSE"}
    BY <1>b, UpdateOut
  <2> QED
    BY <1>a, <2>1, NetKept DEF Send
<1>4. NextStep
  <2>1. ASSUME NEW t \in Server, NextOK(t) PROVE NextOK(t)'
    <3>1. Len(log[t]) \in 0..Len(log[t])
      BY CurrentTyped
    <3>2. \A p \in Peers[t] : nextIndex'[t][p] = nextIndex[t][p] \/ nextIndex'[t][p] = Len(log[t])
      BY <1>a DEF TypeInv, LeaderInv
    <3> QED
      BY <1>a, <2>1, <3>1, <3>2 DEF NextOK
  <2> QED
    BY <2>1 DEF NextStep
<1>5. HaltStep
  BY <1>a, <1>d, <1>f DEF HaltStep
<1> QED
  BY <1>1, <1>2, <1>3, <1>4, <1>5 DEF SteadyStep

LEMMA HandleDecisionSteady ==
    ASSUME TypeInv, NEW s \in Server, NEW m \in net, m.to = s, HandleDecision(s, m)
    PROVE  SteadyStep
<1> DEFINE lg == DecidedLog(s, m)
           sh == IF Decidable(s, m.tx) = {} THEN shard[s] ELSE LogSaved(shard[s])
           sh2 == [sh EXCEPT !.pending = @ \ {m.tx}]
           r == ApplyCommitted(s, sh2, lg, commitIndex[s], role[s] = "leader")
<1>a. /\ m \in DecisionT /\ m.type \in {"COMMIT", "ABORT"}
      /\ lg \in Seq(Entry) /\ r.out \subseteq ResponseT
      /\ r.failed => \E i \in DOMAIN lg : lg[i].body = "none"
      /\ DOMAIN lg = DOMAIN log[s] /\ Len(lg) = Len(log[s])
      /\ \A i \in DOMAIN lg : /\ lg[i].tx = log[s][i].tx /\ lg[i].term = log[s][i].term
                              /\ lg[i].body = log[s][i].body
  <2>1. m \in DecisionT /\ m.type \in {"COMMIT", "ABORT"}
    BY MessageFacts DEF HandleDecision
  <2>2. lg \in Seq(Entry)
    BY <2>1, DecidedTyped
  <2>3. sh2 \in ShardT(s)
    <3>1. shard[s] \in ShardT(s)
      BY CurrentTyped
    <3>2. sh \in ShardT(s)
      BY <3>1 DEF LogSaved, ShardT
    <3> HIDE DEF sh
    <3> QED
      BY <3>2 DEF ShardT
  <2>4. commitIndex[s] \in Nat
    BY CurrentTyped
  <2>5. /\ r.out \subseteq ResponseT
        /\ r.failed => \E i \in DOMAIN lg : lg[i].body = "none"
    <3> HIDE DEF sh2, lg
    <3> QED
      BY <2>2, <2>3, <2>4, ApplyCommittedTyped, FailedOverNone
  <2>6. /\ DOMAIN lg = DOMAIN log[s] /\ Len(lg) = Len(log[s])
        /\ \A i \in DOMAIN lg : /\ lg[i].tx = log[s][i].tx /\ lg[i].term = log[s][i].term
                                /\ lg[i].body = log[s][i].body
    BY <2>1, DecidedTyped
  <2> QED
    BY <2>1, <2>2, <2>5, <2>6
<1>b. /\ shard' = [shard EXCEPT ![s] = r.sh]
      /\ log' = [log EXCEPT ![s] = lg]
      /\ halted' = IF r.failed THEN halted \cup {s} ELSE halted
      /\ Reply(m, r.out \cup IF r.failed THEN {} ELSE {Ack(s, m.tx)})
  BY DEF HandleDecision, DecidedLog
<1>c. /\ commitIndex' = commitIndex /\ worker' = worker /\ nextIndex' = nextIndex
      /\ txQueue' = txQueue /\ role' = role /\ elected' = elected
      /\ counting' = counting
  BY DEF HandleDecision, electionVars, leaderVars, threadVars
<1> HIDE DEF lg, r, sh2
<1>d. \A t \in Server : log'[t] = IF t = s THEN lg ELSE log[t]
  BY <1>b DEF TypeInv, LogInv
<1>1. ASSUME NEW t \in Server PROVE LogStep(t)
  BY <1>a, <1>c, <1>d DEF LogStep, Marked
<1>2. LedStep
  BY <1>c, LedKept
<1>3. NetStep
  <2>1. Ack(s, m.tx).type = "ACK" /\ \A n \in ResponseT : n.type = "CLIENT_RESPONSE"
    BY DEF Ack, ResponseT
  <2> QED
    BY <1>a, <1>b, <2>1, NetKept DEF Reply
<1>4. NextStep
  BY <1>c, IndexKept
<1>5. HaltStep
  BY <1>a, <1>b, <1>c, <1>d DEF HaltStep
<1> QED
  BY <1>1, <1>2, <1>3, <1>4, <1>5 DEF SteadyStep

LEMMA AcceptAppendSteady ==
    ASSUME TypeInv, NEW s \in Server, NEW m \in net, m.to = s, AcceptAppend(s, m)
    PROVE  SteadyStep
<1> DEFINE ci == CommitAfter(s, m)
           lg == Merged(s, m)
           r == IF ci > commitIndex[s]
                THEN ApplyCommitted(s, Received(s, m), lg, ci,
                                    RoleAt(s, m.term) = "leader")
                ELSE NothingDone(s, Received(s, m))
<1>a. /\ m \in AppendT /\ Consistent(s, m) /\ m.type = "APPEND_ENTRIES" /\ SeeLeader(s, m)
  BY SeeLeaderTyped DEF AcceptAppend, SeeLeader
<1>b. /\ log' = [log EXCEPT ![s] = lg] /\ commitIndex' = [commitIndex EXCEPT ![s] = ci]
      /\ shard' = [shard EXCEPT ![s] = r.sh]
      /\ halted' = IF r.failed THEN halted \cup {s} ELSE halted
      /\ Reply(m, r.out \cup IF r.failed THEN {} ELSE {AppendAck(s, m.from, TRUE)})
      /\ worker' = worker /\ nextIndex' = nextIndex /\ txQueue' = txQueue
      /\ elected' = elected /\ counting' = counting
  BY DEF AcceptAppend, leaderVars, threadVars
<1>c. /\ r.out \subseteq ResponseT
      /\ r.failed => \E i \in DOMAIN lg : lg[i].body = "none"
  <2>1. lg \in Seq(Entry) /\ ci \in Nat /\ Received(s, m) \in ShardT(s)
    BY <1>a, MergedTyped, ReceivedTyped, CommitAfterTyped
  <2>2. CASE ci > commitIndex[s]
    <3>1. r = ApplyCommitted(s, Received(s, m), lg, ci, RoleAt(s, m.term) = "leader")
      BY <2>2
    <3> HIDE DEF lg, ci, r
    <3>2. r.out \subseteq ResponseT
      BY <2>1, <3>1, ApplyCommittedTyped
    <3> QED
      BY <2>1, <3>1, <3>2, FailedOverNone
  <2>3. CASE ~(ci > commitIndex[s])
    BY <2>3 DEF NothingDone
  <2> QED
    BY <2>2, <2>3
<1> HIDE DEF lg, ci, r
<1>d. \A t \in Server : /\ log'[t] = IF t = s THEN lg ELSE log[t]
                        /\ commitIndex'[t] = IF t = s THEN ci ELSE commitIndex[t]
  BY <1>b DEF TypeInv, LogInv
<1>1. ASSUME NEW t \in Server PROVE LogStep(t)
  <2>1. CASE t = s
    BY <1>a, <1>d, <2>1 DEF LogStep, lg, ci
  <2>2. CASE t # s
    BY <1>d, <2>2 DEF LogStep, Marked
  <2> QED
    BY <2>1, <2>2
<1>2. LedStep
  <2>1. \A t \in Server : role'[t] = "leader" => role[t] = "leader"
    BY <1>a DEF SeeLeader, RoleAt, TypeInv, ElectionInv
  <2> QED
    BY <1>b, <2>1, LedKept
<1>3. NetStep
  <2>1. /\ AppendAck(s, m.from, TRUE).type = "APPEND_ACK"
        /\ AppendAck(s, m.from, TRUE).to = m.from
        /\ \A n \in ResponseT : n.type = "CLIENT_RESPONSE"
    BY DEF AppendAck, ResponseT
  <2> QED
    BY <1>a, <1>b, <1>c, <2>1 DEF Reply, NetStep
<1>4. NextStep
  BY <1>b, IndexKept
<1>5. HaltStep
  BY <1>b, <1>c, <1>d DEF HaltStep
<1> QED
  BY <1>1, <1>2, <1>3, <1>4, <1>5 DEF SteadyStep

\* The worker of a leader, or one whose transfer waits, appends it.
LEMMA AppendSteady ==
    ASSUME TypeInv, NEW s \in Server, NEW x \in Tx, AppendTransfer(s, x), Active(s),
           \A t \in Server : txQueue'[t] # <<>> => txQueue[t] # <<>>
    PROVE  SteadyStep
<1> DEFINE lg == Append(log[s], NewEntry(s, x))
<1>a. /\ log' = [log EXCEPT ![s] = lg] /\ commitIndex' = commitIndex /\ net' = net
      /\ role' = role /\ elected' = elected /\ halted' = halted
      /\ counting' = counting /\ nextIndex' = nextIndex
      /\ worker' = [worker EXCEPT ![s] = [pc |-> "append", tx |-> x]]
  BY DEF AppendTransfer, electionVars, leaderVars
<1>b. \A t \in Server : /\ log'[t] = IF t = s THEN lg ELSE log[t]
                        /\ worker'[t] # worker[t] => t = s /\ worker'[t].pc = "append"
  <2> HIDE DEF lg
  <2> QED
    BY <1>a DEF TypeInv, LogInv, WorkerInv
<1>1. ASSUME NEW t \in Server PROVE LogStep(t)
  <2>1. CASE t = s
    BY <1>a, <1>b, <2>1 DEF LogStep
  <2>2. CASE t # s
    BY <1>a, <1>b, <2>2 DEF LogStep, Marked
  <2> QED
    BY <2>1, <2>2
<1>2. LedStep
  <2>1. \A t \in Server : worker'[t].pc # "idle" \/ txQueue'[t] # <<>>
                        \/ counting'[t] # {} => Active(t)
    BY <1>a, <1>b DEF Active
  <2> QED
    BY <1>a, <2>1 DEF LedStep, Led
<1>3. NetStep
  BY <1>a, NetKept
<1>4. NextStep
  BY <1>a, IndexKept
<1>5. HaltStep
  BY <1>a, <1>b, HaltKept
<1> QED
  BY <1>1, <1>2, <1>3, <1>4, <1>5 DEF SteadyStep

\* A worker that appended sends.
LEMMA ReplicateSteady ==
    ASSUME TypeInv, NEW s \in Server, Replicate(s)
    PROVE  SteadyStep
<1> DEFINE ni == nextIndex'[s]
<1>a. /\ log' = log /\ commitIndex' = commitIndex /\ txQueue' = txQueue
      /\ role' = role /\ elected' = elected /\ halted' = halted
      /\ counting' = counting /\ Active(s)
  BY DEF Replicate, electionVars, logVars, Active
<1>b. /\ nextIndex' = [nextIndex EXCEPT ![s] = ni]
      /\ ni \in [Peers[s] -> Nat]
      /\ \E to \in SUBSET {p \in Peers[s] : ni[p] <= Len(log[s])} :
            Send({AppendEntries(s, p, log[s], ni[p]) : p \in to})
  BY ReplicateNet
<1>c. /\ Len(log[s]) \in Nat
      /\ \A p \in Peers[s] : /\ nextIndex[s][p] \in Index
                             /\ ni[p] = IF nextIndex[s][p] = MissingKey
                                        THEN Len(log[s]) ELSE nextIndex[s][p]
  <2>1. nextIndex' = [nextIndex EXCEPT ![s] =
           [p \in Peers[s] |-> IF nextIndex[s][p] = MissingKey
                               THEN Len(log[s]) ELSE nextIndex[s][p]]]
    BY DEF Replicate
  <2> QED
    BY <2>1, CurrentTyped DEF TypeInv, LeaderInv
<1>d. /\ worker'[s].pc = "dead" => \E p \in Peers[s] : ~(ni[p] <= Len(log[s]))
      /\ \A t \in Server : t # s => worker'[t] = worker[t]
  <2> DEFINE next == [p \in Peers[s] |-> IF nextIndex[s][p] = MissingKey
                                         THEN Len(log[s]) ELSE nextIndex[s][p]]
             good == {p \in Peers[s] : CanSend(log[s], next[p])}
  <2>1. worker' = [worker EXCEPT ![s].pc = IF good = Peers[s] THEN "repl" ELSE "dead"]
    BY DEF Replicate
  <2>2. \A p \in Peers[s] : next[p] = ni[p]
    BY <1>c
  <2>3. good # Peers[s] => \E p \in Peers[s] : ~(ni[p] <= Len(log[s]))
    <3> HIDE DEF next, ni
    <3> QED
      BY <2>2 DEF CanSend
  <2> HIDE DEF good, next, ni
  <2> QED
    BY <2>1, <2>3 DEF TypeInv, WorkerInv
<1> HIDE DEF ni
<1>e. NextOK(s) => \A p \in Peers[s] : ni[p] = nextIndex[s][p] /\ ni[p] \in 0..Len(log[s])
  <2> SUFFICES ASSUME NextOK(s), NEW p \in Peers[s]
               PROVE  ni[p] = nextIndex[s][p] /\ ni[p] \in 0..Len(log[s])
    OBVIOUS
  <2>1. nextIndex[s][p] \in 0..Len(log[s])
    BY DEF NextOK
  <2> QED
    BY <1>c, <2>1 DEF MissingKey
<1>1. LedStep
  <2>1. \A t \in Server : worker'[t].pc # "idle" \/ txQueue'[t] # <<>>
                        \/ counting'[t] # {} => Active(t)
    BY <1>a, <1>d DEF Active
  <2> QED
    BY <1>a, <2>1 DEF LedStep, Led
<1>2. NetStep
  <2>1. PICK to \in SUBSET {p \in Peers[s] : ni[p] <= Len(log[s])} :
           Send({AppendEntries(s, p, log[s], ni[p]) : p \in to})
    BY <1>b
  <2>2. ASSUME NEW p \in to
        PROVE  /\ Sent(AppendEntries(s, p, log[s], ni[p]))
               /\ AppendEntries(s, p, log[s], ni[p]).type = "APPEND_ENTRIES"
    <3>1. p \in Peers[s] /\ ni[p] \in 0..Len(log[s])
      BY <1>b, <1>c, <2>1
    <3>2. Sent(AppendEntries(s, p, log[s], ni[p]))
      BY <1>a, <3>1, SentLog
    <3> QED
      BY <3>2 DEF AppendEntries
  <2> QED
    BY <2>1, <2>2 DEF NetStep, Send
<1>3. NextStep
  <2>1. ASSUME NEW t \in Server, t # s, NextOK(t) PROVE NextOK(t)'
    <3>1. nextIndex'[t] = nextIndex[t] /\ log'[t] = log[t]
      BY <1>a, <1>b, <2>1 DEF TypeInv, LeaderInv
    <3> QED
      BY <2>1, <3>1 DEF NextOK
  <2>2. NextOK(s) => NextOK(s)'
    BY <1>a, <1>e DEF NextOK, ni
  <2> QED
    BY <2>1, <2>2 DEF NextStep
<1>4. HaltStep
  <2>1. worker'[s].pc = "dead" => ~NextOK(s)
    BY <1>c, <1>d, <1>e
  <2> QED
    BY <1>a, <1>d, <2>1 DEF HaltStep
<1> QED
  BY <1>1, <1>2, <1>3, <1>4, <1>a, LogsKept DEF SteadyStep

LEMMA RestartSteady ==
    ASSUME TypeInv, NEW s \in Server, Restart(s)
    PROVE  SteadyStep
<1> DEFINE lg == [i \in DOMAIN log[s] |->
              [log[s][i] EXCEPT !.body = IF @ = "dict" THEN "object" ELSE @]]
<1>a. /\ s \in MayRestart
      /\ log' = [log EXCEPT ![s] = lg]
      /\ commitIndex' = [commitIndex EXCEPT ![s] = shard[s].savedCommit]
      /\ nextIndex' = [nextIndex EXCEPT ![s] = [p \in Peers[s] |-> MissingKey]]
      /\ role' = [role EXCEPT ![s] = "follower"]
      /\ txQueue' = [txQueue EXCEPT ![s] = <<>>]
      /\ worker' = [worker EXCEPT ![s] = Idle]
      /\ counting' = [counting EXCEPT ![s] = {}]
      /\ halted' = halted \ {s} /\ elected' = elected
      /\ Send({})
  BY DEF Restart
<1>b. \A t \in Server : /\ log'[t] = IF t = s THEN lg ELSE log[t]
                        /\ t # s => /\ commitIndex'[t] = commitIndex[t]
                                    /\ nextIndex'[t] = nextIndex[t]
                                    /\ role'[t] = role[t] /\ txQueue'[t] = txQueue[t]
                                    /\ worker'[t] = worker[t]
                                    /\ counting'[t] = counting[t]
                        /\ t = s => role'[t] = "follower" /\ txQueue'[t] = <<>>
                                    /\ worker'[t].pc = "idle" /\ counting'[t] = {}
  <2> HIDE DEF lg
  <2> QED
    BY <1>a DEF TypeInv, LogInv, LeaderInv, ElectionInv, QueueInv, WorkerInv, Idle
<1>c. /\ DOMAIN lg = DOMAIN log[s] /\ Len(lg) = Len(log[s])
      /\ \A i \in DOMAIN log[s] :
            /\ lg[i].term = log[s][i].term /\ lg[i].tx = log[s][i].tx
            /\ lg[i].body \in {log[s][i].body, "object"}
  <2>1. DOMAIN lg = DOMAIN log[s]
    OBVIOUS
  <2>2. DOMAIN log[s] = 1..Len(log[s]) /\ Len(log[s]) \in Nat
    BY CurrentTyped
  <2>3. Len(lg) = Len(log[s])
    BY <2>1, <2>2 DEF lg
  <2>4. ASSUME NEW i \in DOMAIN log[s]
        PROVE  /\ lg[i].term = log[s][i].term /\ lg[i].tx = log[s][i].tx
               /\ lg[i].body \in {log[s][i].body, "object"}
    <3>1. log[s][i] \in Entry
      BY CurrentTyped
    <3> QED
      BY <3>1 DEF Entry
  <2> QED
    BY <2>1, <2>3, <2>4
<1> HIDE DEF lg
<1>1. ASSUME NEW t \in Server PROVE LogStep(t)
  BY <1>a, <1>b, <1>c DEF LogStep, Marked
<1>2. LedStep
  BY <1>a, <1>b DEF LedStep, Led, Active
<1>3. NetStep
  BY <1>a, NetKept DEF Send
<1>4. NextStep
  <2>1. ASSUME NEW t \in Server, t # s, NextOK(t) PROVE NextOK(t)'
    BY <1>b, <2>1 DEF NextOK
  <2> QED
    BY <1>a, <2>1 DEF NextStep
<1>5. HaltStep
  BY <1>a, <1>b DEF HaltStep
<1> QED
  BY <1>1, <1>2, <1>3, <1>4, <1>5 DEF SteadyStep

-----------------------------------------------------------------------------
(* Every step. *)

LEMMA ListenerSteady ==
    ASSUME TypeInv, NEW s \in Server, Listener(s)
    PROVE  SteadyStep
<1>1. CASE \E m \in counting[s] : CountAck(s, m) \/ RepairFollower(s, m)
  BY <1>1, CountAckSteady, RepairFollowerSteady
<1>2. ASSUME NEW m \in net, m.to = s,
             AbandonElection(s, m) \/ BecomeLeader(s, m) \/ Drop(s, m)
             \/ HandleVoteRequest(s, m)
      PROVE  SteadyStep
  BY <1>2, AbandonElectionSteady, BecomeLeaderSteady, DropSteady,
     HandleVoteRequestSteady
<1>3. ASSUME NEW m \in net, m.to = s,
             \/ StaleAppend(s, m) \/ RefuseAppend(s, m) \/ AcceptAppend(s, m)
             \/ QueueAck(s, m) \/ TakeAck(s, m)
      PROVE  SteadyStep
  BY <1>3, StaleAppendSteady, RefuseAppendSteady, AcceptAppendSteady,
     QueueAckSteady, TakeAckSteady
<1>4. ASSUME NEW m \in net, m.to = s,
             TakeRequest(s, m) \/ IgnoreDecision(s, m) \/ HandleDecision(s, m)
      PROVE  SteadyStep
  BY <1>4, TakeRequestSteady, IgnoreDecisionSteady, HandleDecisionSteady
<1> QED
  BY <1>1, <1>2, <1>3, <1>4 DEF Listener

LEMMA WorkerSteady ==
    ASSUME TypeInv, NEW s \in Server, Worker(s)
    PROVE  SteadyStep
<1>1. CASE AppendIntra(s)
  <2>1. worker[s].tx \in Tx /\ worker[s].pc = "wait" /\ txQueue' = txQueue
        /\ AppendTransfer(s, worker[s].tx)
    BY <1>1 DEF AppendIntra, TypeInv, WorkerInv
  <2>2. Active(s)
    BY <2>1 DEF Active
  <2> QED
    BY <2>1, <2>2, AppendSteady
<1>2. CASE AppendCross(s)
  <2>1. PICK x \in Tx : NextInQueue(s, x) /\ AppendTransfer(s, x) /\ Taken(s)
    BY <1>2 DEF AppendCross
  <2>2. txQueue[s] # <<>> /\ Active(s)
    BY <2>1 DEF NextInQueue, Active
  <2>3. \A t \in Server : txQueue'[t] # <<>> => txQueue[t] # <<>>
    BY <2>1, <2>2 DEF Taken, TypeInv, QueueInv
  <2> QED
    BY <2>1, <2>2, <2>3, AppendSteady
<1>3. CASE \E a : ackQueue[s] # <<>> /\ a = Head(ackQueue[s])
                  /\ (CountWorkerAck(s, a) \/ RetryFollower(s, a))
  BY <1>3, CountWorkerAckSteady, RetryFollowerSteady
<1>4. CASE RejectTransfer(s) \/ AwaitLocks(s) \/ LockTimeout(s) \/ GiveUp(s)
           \/ Replicate(s)
  BY <1>4, ReplicateSteady, RejectTransferSteady, AwaitLocksSteady, LockTimeoutSteady, GiveUpSteady
<1> QED
  BY <1>1, <1>2, <1>3, <1>4 DEF Worker

\* Whatever happens, it is one of the kinds above.
LEMMA SteadyNext ==
    ASSUME TypeInv, [Next]_vars
    PROVE  SteadyStep
<1>1. CASE ServerNext
  <2>1. PICK s \in Server :
           \/ StartElection(s) \/ Listener(s) \/ Worker(s) \/ SendHeartbeats(s)
           \/ \E x \in Tx : CheckPending(s, x)
           \/ Restart(s)
    BY <1>1 DEF ServerNext
  <2> QED
    BY <2>1, StartElectionSteady, ListenerSteady, WorkerSteady,
       SendHeartbeatsSteady, CheckPendingSteady, RestartSteady
<1>2. CASE ClientNext /\ UNCHANGED serverVars
  <2>1. \A c, x : /\ Prepare(c, x).type = "PREPARE"
                  /\ ClientRequest(c, x).type = "CLIENT_REQUEST"
    BY DEF Prepare, ClientRequest
  <2>2. \A now, t, x : Decision(DecisionOn(now), t, x).type \in {"COMMIT", "ABORT"}
    BY DEF Decision, DecisionOn
  <2>3. Issue => \A n \in net' : n \in net \/ n.type \notin {"APPEND_ENTRIES", "APPEND_ACK"}
    BY <2>1 DEF Issue
  <2>4. ASSUME NEW m \in net, HandleVote(m) \/ HandleAck(m) \/ HandleClientResponse(m)
        PROVE  \A n \in net' : n \in net \/ n.type \notin {"APPEND_ENTRIES", "APPEND_ACK"}
    <3>1. HandleVote(m) => \A n \in net' : n \in net \/ n.type \in {"COMMIT", "ABORT"}
      BY <2>2 DEF HandleVote
    <3> QED
      BY <2>4, <3>1 DEF HandleAck, HandleClientResponse
  <2> QED
    BY <1>2, <2>3, <2>4, ClientSteady DEF ClientNext
<1>3. CASE RemoteVote
  <2>1. \A t, x, v : Vote(t, x, v).type = "VOTE"
    BY DEF Vote
  <2>2. \A n \in net' : n \in net \/ n.type \notin {"APPEND_ENTRIES", "APPEND_ACK"}
    BY <1>3, <2>1 DEF RemoteVote
  <2> QED
    BY <1>3, <2>2, ClientSteady DEF RemoteVote
<1>4. CASE UNCHANGED vars
  BY <1>4, ClientSteady DEF vars
<1> QED
  BY <1>1, <1>2, <1>3, <1>4 DEF Next

-----------------------------------------------------------------------------
(* Only a leader acts like one. *)

LEMMA LedStart == Init => LedInv
<1> SUFFICES ASSUME Init PROVE LedInv
  OBVIOUS
<1> QED
  BY DEF Init, ServerInit, NoOffice, NoTransfers, Idle, LedInv, Active, Acked

LEMMA LedNext ==
    ASSUME TypeInv, TypeInv', SteadyStep, LedInv
    PROVE  LedInv'
<1>1. Led \subseteq Led'
  BY DEF SteadyStep, LedStep
<1>2. ASSUME NEW n \in net', n.type = "APPEND_ENTRIES" PROVE n.from \in Led'
  <2>1. CASE n \in net
    BY <1>1, <1>2, <2>1 DEF LedInv
  <2>2. CASE Sent(n)
    <3>1. PICK s \in Server : Active(s) /\ \E p, k : n = AppendEntries(s, p, log'[s], k)
      BY <2>2 DEF Sent
    <3>2. n.from = s
      BY <3>1 DEF AppendEntries
    <3> QED
      BY <1>1, <3>1, <3>2 DEF LedInv
  <2> QED
    BY <1>2, <2>1, <2>2 DEF SteadyStep, NetStep
<1>3. ASSUME NEW s \in Server, Active(s)' PROVE s \in Led'
  <2>1. CASE role'[s] = "leader"
    <3>1. role[s] = "leader" \/ s \in Led'
      BY <2>1 DEF SteadyStep, LedStep
    <3> QED
      BY <1>1, <3>1 DEF LedInv, Active
  <2>2. CASE worker'[s].pc # "idle" \/ txQueue'[s] # <<>> \/ counting'[s] # {}
    <3>1. Active(s)
      BY <2>2 DEF SteadyStep, LedStep
    <3> QED
      BY <1>1, <3>1 DEF LedInv
  <2>3. CASE Acked(s)'
    <3>1. PICK n \in net' : n.type = "APPEND_ACK" /\ n.to = s
      BY <2>3 DEF Acked
    <3>2. n \in net \/ \E m \in net : m.type = "APPEND_ENTRIES" /\ m.from = s
      BY <3>1 DEF SteadyStep, NetStep
    <3> QED
      BY <1>1, <3>1, <3>2 DEF LedInv, Active, Acked
  <2> QED
    BY <1>3, <2>1, <2>2, <2>3 DEF Active
<1> QED
  BY <1>2, <1>3 DEF LedInv

\* With one leader, no request reaches a leader.
LEMMA NoRequestForLeader ==
    ASSUME TypeInv, LedInv, OneLeader, NEW m \in net, m.type = "APPEND_ENTRIES"
    PROVE  /\ m.to \in Server /\ m.from \in Led /\ ClusterOf[m.from] = ClusterOf[m.to]
           /\ m.to \notin Led
<1>1. m.to \in Server /\ m.from \in Peers[m.to]
  BY DEF TypeInv, NetInv, Fits, RaftType
<1>2. m.from \in Led /\ m.from # m.to /\ ClusterOf[m.from] = ClusterOf[m.to]
  BY <1>1, PeerFacts DEF LedInv
<1> QED
  BY <1>1, <1>2 DEF OneLeader

\* The log of a leader only grows, at its end.
LEMMA LeaderKeeps ==
    ASSUME TypeInv, SteadyStep, LedInv, OneLeader, NEW s \in Led
    PROVE  /\ s \in Server /\ s \in Led'
           /\ Len(log[s]) <= Len(log'[s])
           /\ \A i \in DOMAIN log[s] :
                 /\ i \in DOMAIN log'[s]
                 /\ log'[s][i].term = log[s][i].term /\ log'[s][i].tx = log[s][i].tx
           /\ \A i \in DOMAIN log'[s] :
                 \/ i \in DOMAIN log[s] /\ log'[s][i].body \in {log[s][i].body, "object"}
                 \/ log'[s][i].body = "object"
<1>1. s \in Server /\ s \in Led'
  BY DEF Led, SteadyStep, LedStep
<1>2. Marked(s) \/ \E x \in Tx : log'[s] = Append(log[s], NewEntry(s, x))
  <2>1. LogStep(s)
    BY <1>1 DEF SteadyStep
  <2>2. ~(\E m \in net : m \in AppendT /\ m.to = s)
    BY NoRequestForLeader DEF AppendT
  <2> QED
    BY <2>1, <2>2 DEF LogStep
<1>3. log[s] \in Seq(Entry) /\ Len(log[s]) \in Nat /\ DOMAIN log[s] = 1..Len(log[s])
  BY <1>1, CurrentTyped
<1>4. CASE Marked(s)
  BY <1>1, <1>3, <1>4 DEF Marked
<1>5. ASSUME NEW x \in Tx, log'[s] = Append(log[s], NewEntry(s, x))
      PROVE  /\ Len(log'[s]) = Len(log[s]) + 1 /\ DOMAIN log'[s] = 1..(Len(log[s]) + 1)
             /\ \A i \in DOMAIN log[s] : log'[s][i] = log[s][i]
             /\ log'[s][Len(log[s]) + 1].body = "object"
  <2>1. NewEntry(s, x) \in Entry /\ NewEntry(s, x).body = "object"
    BY <1>1, CurrentTyped DEF NewEntry, Entry
  <2> DEFINE lg == Append(log[s], NewEntry(s, x))
  <2>2. /\ lg \in Seq(Entry) /\ Len(lg) = Len(log[s]) + 1
        /\ \A i \in 1..Len(log[s]) : lg[i] = log[s][i]
        /\ lg[Len(log[s]) + 1] = NewEntry(s, x)
    BY <1>3, <2>1, AppendProperties
  <2> HIDE DEF lg
  <2>3. DOMAIN lg = 1..(Len(log[s]) + 1)
    BY <2>2, LenProperties
  <2>4. log'[s] = lg
    BY <1>5 DEF lg
  <2> QED
    BY <1>3, <2>1, <2>2, <2>3, <2>4
<1>6. CASE \E x \in Tx : log'[s] = Append(log[s], NewEntry(s, x))
  <2>1. /\ Len(log'[s]) = Len(log[s]) + 1 /\ DOMAIN log'[s] = 1..(Len(log[s]) + 1)
        /\ \A i \in DOMAIN log[s] : log'[s][i] = log[s][i]
        /\ log'[s][Len(log[s]) + 1].body = "object"
    BY <1>5, <1>6
  <2>2. \A i \in DOMAIN log'[s] : i \in DOMAIN log[s] \/ i = Len(log[s]) + 1
    BY <1>3, <2>1
  <2> QED
    BY <1>1, <1>3, <2>1, <2>2
<1> QED
  BY <1>2, <1>4, <1>6

\* Whoever is elected first finds an empty log.
LEMMA NewLeader ==
    ASSUME TypeInv, SteadyStep, OneLeader', NEW s \in Led', s \notin Led
    PROVE  /\ s \in Server /\ NextOK(s)'
           /\ log'[s] = log[s] /\ commitIndex'[s] = commitIndex[s]
           /\ ~\E l \in Led : ClusterOf[l] = ClusterOf[s]
<1>1. s \in Server /\ Led \subseteq Led' /\ NextOK(s)'
      /\ log'[s] = log[s] /\ commitIndex'[s] = commitIndex[s]
  BY DEF SteadyStep, LedStep, Led
<1> QED
  BY <1>1 DEF OneLeader

-----------------------------------------------------------------------------
(* Every log, and every request, is a piece of the log of the leader. *)

LEMMA CopyStart == Init => CopyInv
<1> SUFFICES ASSUME Init PROVE CopyInv
  OBVIOUS
<1>1. net = {} /\ \A s \in Server : log[s] = <<>>
  BY DEF Init, ServerInit, NoTransfers
<1>2. DOMAIN <<>> = {}
  OBVIOUS
<1> QED
  BY <1>1, <1>2 DEF CopyInv

\* n takes the entries of lg after the first j.
Piece(n, s, lg, j) ==
    /\ n \in AppendT /\ n.from = s /\ n.prev = j /\ Len(n.entries) = Len(lg) - j
    /\ \A i \in 1..(Len(lg) - j) :
          /\ n.entries[i].tx = lg[j + i].tx /\ n.entries[i].term = lg[j + i].term
          /\ lg[j + i].body = "object" => n.entries[i].body # "none"

LEMMA AppendPiece ==
    ASSUME TypeInv, NEW s \in Server, NEW p \in Peers[s], NEW lg \in Seq(Entry),
           NEW j \in 0..Len(lg), NEW n, n = AppendEntries(s, p, lg, j)
    PROVE  Piece(n, s, lg, j)
<1>1. n \in AppendT
  BY FitsAppend
<1>2. n.from = s /\ n.prev = j
  BY FitsAppend
<1>3. Len(n.entries) = Len(lg) - j
  BY FitsAppend
<1>4. \A i \in 1..(Len(lg) - j) :
         n.entries[i].tx = lg[j + i].tx /\ n.entries[i].term = lg[j + i].term
  BY FitsAppend
<1>5. \A i \in 1..(Len(lg) - j) : lg[j + i].body = "object" => n.entries[i].body # "none"
  BY FitsAppend
<1> QED
  BY <1>1, <1>2, <1>3, <1>4, <1>5 DEF Piece

\* A request that is sent is a piece of its sender's log, to its end.
LEMMA SentFacts ==
    ASSUME TypeInv, TypeInv', NEW n, Sent(n)
    PROVE  /\ n.from \in Server /\ Active(n.from)
           /\ commitIndex'[n.from] = commitIndex[n.from]
           /\ n.commit = commitIndex[n.from]
           /\ n.prev + Len(n.entries) = Len(log'[n.from])
           /\ n.prev \in Nat
           /\ \A k \in DOMAIN n.entries :
                 /\ n.prev + k \in DOMAIN log'[n.from]
                 /\ n.entries[k].term = log'[n.from][n.prev + k].term
                 /\ n.entries[k].tx = log'[n.from][n.prev + k].tx
                 /\ log'[n.from][n.prev + k].body = "object" => n.entries[k].body # "none"
<1>0. PICK s \in Server :
         /\ Active(s) /\ commitIndex'[s] = commitIndex[s]
         /\ \E p \in Peers[s] : \E j \in 0..Len(log'[s]) :
               n = AppendEntries(s, p, log'[s], j)
  BY DEF Sent
<1>1. PICK p \in Peers[s] : \E j \in 0..Len(log'[s]) : n = AppendEntries(s, p, log'[s], j)
  BY <1>0
<1>9. PICK j \in 0..Len(log'[s]) : n = AppendEntries(s, p, log'[s], j)
  BY <1>1
<1> DEFINE lg == log'[s]
<1>2. lg \in Seq(Entry) /\ Len(lg) \in Nat /\ DOMAIN lg = 1..Len(lg) /\ j \in 0..Len(lg)
  BY LenProperties DEF TypeInv, LogInv
<1> HIDE DEF lg
<1>3. n = AppendEntries(s, p, lg, j)
  BY <1>9 DEF lg
<1>4. /\ n \in AppendT /\ n.from = s /\ n.prev = j /\ Len(n.entries) = Len(lg) - j
      /\ \A i \in 1..(Len(lg) - j) :
            /\ n.entries[i].tx = lg[j + i].tx /\ n.entries[i].term = lg[j + i].term
            /\ lg[j + i].body = "object" => n.entries[i].body # "none"
  <2>1. Piece(n, s, lg, j)
    BY <1>2, <1>3, AppendPiece
  <2> QED
    BY <2>1 DEF Piece
<1>5. n.commit = commitIndex[s]
  BY <1>3 DEF AppendEntries
<1>6. DOMAIN n.entries = 1..(Len(lg) - j)
  BY <1>4, LenProperties DEF AppendT
<1>7. \A k \in DOMAIN n.entries : j + k \in DOMAIN lg
  BY <1>2, <1>6
<1> QED
  BY <1>0, <1>2, <1>4, <1>5, <1>6, <1>7 DEF lg

LEMMA CopyNext ==
    ASSUME TypeInv, TypeInv', SteadyStep, LedInv, LedInv', OneLeader, CopyInv
    PROVE  CopyInv'
<1>1. ASSUME NEW e, NEW l \in Led, NEW i, CopyOf(e, l, i)
      PROVE  /\ l \in Led' /\ i \in DOMAIN log'[l]
             /\ e.term = log'[l][i].term /\ e.tx = log'[l][i].tx
  BY <1>1, LeaderKeeps DEF CopyOf
<1>2. ASSUME NEW t \in Server, NEW i \in DOMAIN log'[t]
      PROVE  \E l \in Led' : /\ ClusterOf[l] = ClusterOf[t] /\ i \in DOMAIN log'[l]
                             /\ log'[t][i].term = log'[l][i].term
                             /\ log'[t][i].tx = log'[l][i].tx
  <2>0. \/ Marked(t) \/ Active(t)
        \/ \E m \in net : m \in AppendT /\ m.to = t /\ Consistent(t, m) /\ log'[t] = Merged(t, m)
    BY DEF SteadyStep, LogStep
  <2>1. CASE Marked(t)
    <3>1. PICK l \in Led : ClusterOf[l] = ClusterOf[t] /\ CopyOf(log[t][i], l, i)
      BY <2>1 DEF CopyInv, Marked
    <3>2. log'[t][i].term = log[t][i].term /\ log'[t][i].tx = log[t][i].tx
      BY <2>1 DEF Marked
    <3> QED
      BY <1>1, <3>1, <3>2
  <2>2. CASE Active(t)
    BY <2>2, LeaderKeeps DEF LedInv
  <2>3. ASSUME NEW m \in net, m \in AppendT, m.to = t, Consistent(t, m), log'[t] = Merged(t, m)
        PROVE  \E l \in Led : /\ ClusterOf[l] = ClusterOf[t] /\ CopyOf(log'[t][i], l, i)
    <3>1. m.type = "APPEND_ENTRIES" /\ m.from \in Led /\ ClusterOf[m.from] = ClusterOf[t]
      BY <2>3, NoRequestForLeader DEF AppendT
    <3>2. \/ i \in DOMAIN log[t] /\ log'[t][i] = log[t][i]
          \/ i > m.prev /\ i - m.prev \in DOMAIN m.entries
             /\ log'[t][i] = m.entries[i - m.prev]
      <4> DEFINE lg == Merged(t, m)
      <4>1. \A j \in DOMAIN lg : \/ j \in DOMAIN log[t] /\ lg[j] = log[t][j]
                                 \/ j > m.prev /\ j - m.prev \in DOMAIN m.entries
                                    /\ lg[j] = m.entries[j - m.prev]
        BY <2>3, MergedTyped
      <4> HIDE DEF lg
      <4>2. log'[t] = lg
        BY <2>3 DEF lg
      <4> QED
        BY <4>1, <4>2
    <3>3. CASE i \in DOMAIN log[t] /\ log'[t][i] = log[t][i]
      BY <3>3 DEF CopyInv
    <3>4. CASE i > m.prev /\ i - m.prev \in DOMAIN m.entries
               /\ log'[t][i] = m.entries[i - m.prev]
      <4>1. CopyOf(m.entries[i - m.prev], m.from, m.prev + (i - m.prev))
        BY <3>1, <3>4 DEF CopyInv
      <4>2. m.prev \in Nat /\ i \in Nat
        BY <2>3, CurrentTyped DEF AppendT, TypeInv, LogInv
      <4>3. m.prev + (i - m.prev) = i
        BY <4>2
      <4> QED
        BY <3>1, <3>4, <4>1, <4>3
    <3> QED
      BY <3>2, <3>3, <3>4
  <2>4. CASE \E m \in net : m \in AppendT /\ m.to = t /\ Consistent(t, m) /\ log'[t] = Merged(t, m)
    <3>1. PICK l \in Led : ClusterOf[l] = ClusterOf[t] /\ CopyOf(log'[t][i], l, i)
      BY <2>3, <2>4
    <3> QED
      BY <1>1, <3>1
  <2> QED
    BY <2>0, <2>1, <2>2, <2>4
<1>3. ASSUME NEW n \in net', n.type = "APPEND_ENTRIES", NEW k \in DOMAIN n.entries
      PROVE  /\ n.prev + k \in DOMAIN log'[n.from]
             /\ n.entries[k].term = log'[n.from][n.prev + k].term
             /\ n.entries[k].tx = log'[n.from][n.prev + k].tx
  <2>1. CASE n \in net
    <3>1. CopyOf(n.entries[k], n.from, n.prev + k) /\ n.from \in Led
      BY <1>3, <2>1 DEF CopyInv, LedInv
    <3> QED
      BY <1>1, <3>1
  <2>2. CASE Sent(n)
    BY <1>3, <2>2, SentFacts
  <2> QED
    BY <1>3, <2>1, <2>2 DEF SteadyStep, NetStep
<1>4. \A t \in Server : \A i \in DOMAIN log'[t] :
         \E l \in Led' : ClusterOf[l] = ClusterOf[t] /\ CopyOf(log[t][i], l, i)'
  BY <1>2 DEF CopyOf
<1> QED
  BY <1>3, <1>4 DEF CopyInv, CopyOf

\* An entry of a merged log was there or came with the request.
LEMMA MergedFrom ==
    ASSUME TypeInv, NEW t \in Server, NEW m \in AppendT, Consistent(t, m),
           NEW lg, lg = Merged(t, m), NEW i \in DOMAIN lg
    PROVE  \/ i \in DOMAIN log[t] /\ lg[i] = log[t][i]
           \/ i - m.prev \in DOMAIN m.entries /\ lg[i] = m.entries[i - m.prev]
BY MergedTyped

-----------------------------------------------------------------------------
(* No entry is without a transfer. *)

LEMMA BodyStart == Init => BodyInv
<1> SUFFICES ASSUME Init PROVE BodyInv
  OBVIOUS
<1>1. net = {} /\ \A s \in Server : log[s] = <<>>
  BY DEF Init, ServerInit, NoTransfers
<1>2. DOMAIN <<>> = {}
  OBVIOUS
<1> QED
  BY <1>1, <1>2 DEF BodyInv

LEMMA BodyNext ==
    ASSUME TypeInv, TypeInv', SteadyStep, LedInv, LedInv', OneLeader, OneLeader',
           CopyInv, BodyInv
    PROVE  BodyInv'
<1>1. ASSUME NEW t \in Led', NEW i \in DOMAIN log'[t] PROVE log'[t][i].body = "object"
  <2>1. CASE t \in Led
    <3>1. t \in Server
      BY DEF Led
    <3> QED
      BY <1>1, <2>1, <3>1, LeaderKeeps DEF BodyInv
  <2>2. CASE t \notin Led
    <3>1. t \in Server /\ log'[t] = log[t] /\ ~\E l \in Led : ClusterOf[l] = ClusterOf[t]
      BY <1>1, <2>2, NewLeader
    <3> QED
      BY <1>1, <3>1 DEF CopyInv
  <2> QED
    BY <2>1, <2>2
<1>2. ASSUME NEW t \in Server, NEW i \in DOMAIN log'[t] PROVE log'[t][i].body # "none"
  <2>0. \/ Marked(t) \/ Active(t)
        \/ \E m \in net : m \in AppendT /\ m.to = t /\ Consistent(t, m) /\ log'[t] = Merged(t, m)
    BY DEF SteadyStep, LogStep
  <2>1. CASE Marked(t)
    BY <1>2, <2>1 DEF BodyInv, Marked
  <2>2. CASE Active(t)
    BY <1>1, <1>2, <2>2, LeaderKeeps DEF LedInv
  <2>3. CASE \E m \in net : m \in AppendT /\ m.to = t /\ Consistent(t, m) /\ log'[t] = Merged(t, m)
    <3>1. PICK m \in net : m \in AppendT /\ m.to = t /\ Consistent(t, m) /\ log'[t] = Merged(t, m)
      BY <2>3
    <3>2. \/ i \in DOMAIN log[t] /\ log'[t][i] = log[t][i]
          \/ i - m.prev \in DOMAIN m.entries /\ log'[t][i] = m.entries[i - m.prev]
      BY <1>2, <3>1, MergedFrom
    <3>3. m.type = "APPEND_ENTRIES"
      BY <3>1 DEF AppendT
    <3> QED
      BY <3>2, <3>3 DEF BodyInv
  <2> QED
    BY <2>0, <2>1, <2>2, <2>3
<1>3. ASSUME NEW n \in net', n.type = "APPEND_ENTRIES", NEW k \in DOMAIN n.entries
      PROVE  n.entries[k].body # "none"
  <2>1. CASE n \in net
    BY <1>3, <2>1 DEF BodyInv
  <2>2. CASE Sent(n)
    <3>1. /\ n.from \in Server /\ Active(n.from)
          /\ n.prev + k \in DOMAIN log'[n.from]
          /\ log'[n.from][n.prev + k].body = "object" => n.entries[k].body # "none"
      BY <1>3, <2>2, SentFacts
    <3>2. n.from \in Led'
      BY <3>1, LeaderKeeps DEF LedInv
    <3> QED
      BY <1>1, <3>1, <3>2
  <2> QED
    BY <1>3, <2>1, <2>2 DEF SteadyStep, NetStep
<1> QED
  BY <1>1, <1>2, <1>3 DEF BodyInv

-----------------------------------------------------------------------------
(* Without a restart, no commit index passes the end of the leader's log. *)

LEMMA CommitStart == Init => CommitInv
<1> SUFFICES ASSUME Init PROVE CommitInv
  OBVIOUS
<1> QED
  BY DEF Init, ServerInit, NoOffice, NoTransfers, CommitInv, Led

\* The commit index a follower takes over.
LEMMA CommitForward ==
    ASSUME TypeInv, NEW t \in Server, NEW m \in AppendT, Consistent(t, m),
           m.commit <= m.prev + Len(m.entries)
    PROVE  CommitAfter(t, m) \in Nat /\ CommitAfter(t, m) >= commitIndex[t]
<1>1. commitIndex[t] \in Nat /\ m.commit \in Nat /\ m.prev \in Nat /\ Len(log[t]) \in Nat
      /\ m.prev <= Len(log[t])
  BY CurrentTyped DEF AppendT, Consistent
<1>2. m.commit <= Len(Merged(t, m)) /\ Len(Merged(t, m)) \in Nat
  <2>1. Len(Merged(t, m)) = IF m.entries = <<>> THEN Len(log[t]) ELSE m.prev + Len(m.entries)
    BY MergedTyped
  <2>2. m.entries = <<>> => Len(m.entries) = 0
    OBVIOUS
  <2>3. Len(m.entries) \in Nat
    BY LenProperties DEF AppendT
  <2> QED
    BY <1>1, <2>1, <2>2, <2>3
<1> DEFINE S == {m.commit, Len(Merged(t, m))}
<1>3. S \in SUBSET Nat /\ S # {} /\ m.commit \in S /\ \A n \in S : m.commit <= n
  BY <1>1, <1>2
<1>4. CommitAfter(t, m) = IF m.commit > commitIndex[t] THEN Min(S) ELSE commitIndex[t]
  BY DEF CommitAfter
<1> HIDE DEF S
<1>5. Min(S) \in S /\ Min(S) <= m.commit
  BY <1>3, MinMember
<1>6. Min(S) = m.commit
  <2>1. Min(S) \in Nat /\ m.commit <= Min(S)
    BY <1>3, <1>5
  <2> QED
    BY <1>1, <1>5, <2>1
<1> QED
  BY <1>1, <1>4, <1>6

LEMMA CommitSteps ==
    ASSUME TypeInv, TypeInv', SteadyStep, LedInv, OneLeader, CommitInv, MayRestart = {},
           NEW t \in Server
    PROVE  /\ commitIndex'[t] >= commitIndex[t]
           /\ t \in Led => commitIndex'[t] <= Len(log'[t])
           /\ commitIndex'[t] = commitIndex[t] \/ \E l \in Led : ClusterOf[l] = ClusterOf[t]
<1>0. commitIndex[t] \in Nat /\ commitIndex'[t] \in Nat
      /\ Len(log[t]) \in Nat /\ Len(log'[t]) \in Nat
  BY CurrentTyped, LenProperties DEF TypeInv, LogInv
<1>1. \/ commitIndex'[t] = commitIndex[t]
      \/ Active(t) /\ commitIndex'[t] \in commitIndex[t]..Len(log[t])
      \/ \E m \in net : /\ m \in AppendT /\ m.to = t /\ Consistent(t, m)
                        /\ commitIndex'[t] = CommitAfter(t, m)
  BY DEF SteadyStep, LogStep
<1>2. CASE commitIndex'[t] = commitIndex[t]
  <2>1. t \in Led => commitIndex[t] <= Len(log[t]) /\ Len(log[t]) <= Len(log'[t])
    BY LeaderKeeps DEF CommitInv
  <2> QED
    BY <1>0, <1>2, <2>1
<1>3. CASE Active(t) /\ commitIndex'[t] \in commitIndex[t]..Len(log[t])
  <2>1. t \in Led /\ Len(log[t]) <= Len(log'[t])
    BY <1>3, LeaderKeeps DEF LedInv
  <2> QED
    BY <1>0, <1>3, <2>1
<1>4. ASSUME NEW m \in net, m \in AppendT, m.to = t, Consistent(t, m),
             commitIndex'[t] = CommitAfter(t, m)
      PROVE  /\ commitIndex'[t] >= commitIndex[t] /\ t \notin Led
             /\ \E l \in Led : ClusterOf[l] = ClusterOf[t]
  <2>1. m.type = "APPEND_ENTRIES"
    BY <1>4 DEF AppendT
  <2>2. m.commit <= m.prev + Len(m.entries)
    BY <2>1 DEF CommitInv
  <2>3. t \notin Led /\ \E l \in Led : ClusterOf[l] = ClusterOf[t]
    BY <1>4, <2>1, NoRequestForLeader
  <2>4. CommitAfter(t, m) >= commitIndex[t]
    BY <1>4, <2>2, CommitForward
  <2> QED
    BY <1>4, <2>3, <2>4
<1> QED
  BY <1>1, <1>2, <1>3, <1>4

LEMMA CommitNext ==
    ASSUME TypeInv, TypeInv', SteadyStep, LedInv, LedInv', OneLeader, OneLeader',
           CommitInv, MayRestart = {}
    PROVE  CommitInv'
<1>1. ASSUME NEW t \in Led' PROVE NextOK(t)' /\ commitIndex'[t] <= Len(log'[t])
  <2>1. CASE t \in Led
    <3>1. t \in Server /\ NextOK(t) /\ Len(log[t]) <= Len(log'[t])
      BY <2>1, LeaderKeeps DEF CommitInv
    <3>2. NextOK(t)'
      BY <3>1 DEF SteadyStep, NextStep
    <3> QED
      BY <2>1, <3>1, <3>2, CommitSteps
  <2>2. CASE t \notin Led
    <3>1. /\ t \in Server /\ NextOK(t)' /\ log'[t] = log[t]
          /\ commitIndex'[t] = commitIndex[t]
          /\ ~\E l \in Led : ClusterOf[l] = ClusterOf[t]
      BY <1>1, <2>2, NewLeader
    <3>2. commitIndex[t] \in Nat /\ ~(commitIndex[t] > 0) /\ Len(log[t]) \in Nat
      BY <3>1, CurrentTyped DEF CommitInv
    <3> QED
      BY <3>1, <3>2
  <2> QED
    BY <2>1, <2>2
<1>2. ASSUME NEW t \in Server, commitIndex'[t] > 0
      PROVE  \E l \in Led' : ClusterOf[l] = ClusterOf[t]
  <2>1. \E l \in Led : ClusterOf[l] = ClusterOf[t]
    BY <1>2, CommitSteps DEF CommitInv
  <2> QED
    BY <2>1 DEF SteadyStep, LedStep
<1>3. ASSUME NEW n \in net', n.type = "APPEND_ENTRIES"
      PROVE  n.commit <= n.prev + Len(n.entries)
  <2>1. CASE n \in net
    BY <1>3, <2>1 DEF CommitInv
  <2>2. CASE Sent(n)
    <3>1. /\ n.from \in Server /\ Active(n.from)
          /\ commitIndex'[n.from] = commitIndex[n.from] /\ n.commit = commitIndex[n.from]
          /\ n.prev + Len(n.entries) = Len(log'[n.from])
      BY <2>2, SentFacts
    <3>2. n.from \in Led
      BY <3>1 DEF LedInv
    <3> QED
      BY <3>1, <3>2, CommitSteps
  <2> QED
    BY <1>3, <2>1, <2>2 DEF SteadyStep, NetStep
<1> QED
  BY <1>1, <1>2, <1>3 DEF CommitInv

-----------------------------------------------------------------------------
(* No thread ends. *)

AliveInv == halted = {} /\ \A s \in Server : worker[s].pc # "dead"

LEMMA AliveStart == Init => AliveInv
BY DEF Init, ServerInit, NoTransfers, AliveInv, Idle

LEMMA AliveNext ==
    ASSUME TypeInv, TypeInv', SteadyStep, LedInv, CommitInv, BodyInv', AliveInv
    PROVE  AliveInv'
<1>1. ASSUME NEW s \in Server, s \in halted' \/ worker'[s].pc = "dead" PROVE FALSE
  <2>1. \/ \E i \in DOMAIN log'[s] : log'[s][i].body = "none"
        \/ Active(s) /\ ~NextOK(s)
    BY <1>1 DEF SteadyStep, HaltStep, AliveInv
  <2>2. Active(s) => NextOK(s)
    BY DEF LedInv, CommitInv
  <2>3. \A i \in DOMAIN log'[s] : log'[s][i].body # "none"
    BY DEF BodyInv
  <2> QED
    BY <2>1, <2>2, <2>3
<1>2. halted' \subseteq Server
  BY DEF TypeInv, DecisionInv
<1> QED
  BY <1>1, <1>2 DEF AliveInv

-----------------------------------------------------------------------------
(* The theorems. *)

\* In no cluster may a second server stand for election.
OneMayStand ==
    \A e, f \in MayStand : ClusterOf[e[1]] = ClusterOf[f[1]] => e[1] = f[1]

\* Who stands, or won, was allowed to stand.
StoodInv ==
    \A s \in Server : role[s] = "candidate" \/ s \in Led => \E e \in MayStand : e[1] = s

LEMMA StoodNext ==
    ASSUME TypeInv, StoodInv, [Next]_vars
    PROVE  StoodInv'
<1> DEFINE Stood(s) == \E e \in MayStand : e[1] = s
<1>1. ASSUME elected' = elected, \A s \in Server : role'[s] = "candidate" => role[s] = "candidate"
      PROVE  StoodInv'
  BY <1>1 DEF StoodInv, Led
<1>2. ASSUME NEW s \in Server, StartElection(s) PROVE StoodInv'
  <2>1. elected' = elected /\ <<s, currentTerm[s] + 1>> \in MayStand
        /\ \A t \in Server : t # s => role'[t] = role[t]
    BY <1>2 DEF StartElection, TypeInv, ElectionInv
  <2>2. Stood(s)
    BY <2>1
  <2> QED
    BY <2>1, <2>2 DEF StoodInv, Led
<1>3. ASSUME NEW s \in Server, NEW m \in net, BecomeLeader(s, m) PROVE StoodInv'
  <2>1. /\ role[s] = "candidate" /\ elected' = elected \cup {<<currentTerm[s], s>>}
        /\ \A t \in Server : role'[t] = "candidate" => role[t] = "candidate"
    BY <1>3 DEF BecomeLeader, TypeInv, ElectionInv
  <2>2. Led' \subseteq Led \cup {s}
    BY <2>1 DEF Led
  <2> QED
    BY <2>1, <2>2 DEF StoodInv
<1>4. ASSUME NEW s \in Server, NEW m \in net,
             AbandonElection(s, m) \/ Drop(s, m) \/ HandleVoteRequest(s, m)
             \/ StaleAppend(s, m) \/ RefuseAppend(s, m) \/ AcceptAppend(s, m)
      PROVE  StoodInv'
  <2>1. elected' = elected
    BY <1>4 DEF AbandonElection, Drop, HandleVoteRequest, StaleAppend, RefuseAppend,
       AcceptAppend, serverVars
  <2>2. SeeLeader(s, m) => \A t \in Server : role'[t] = "candidate" => role[t] = "candidate"
    BY DEF SeeLeader, RoleAt, TypeInv, ElectionInv
  <2>3. \A t \in Server : role'[t] = "candidate" => role[t] = "candidate"
    BY <1>4, <2>2 DEF AbandonElection, Drop, HandleVoteRequest, StaleAppend, RefuseAppend,
       AcceptAppend, serverVars, electionVars, RoleAt, TypeInv, ElectionInv
  <2> QED
    BY <1>1, <2>1, <2>3
<1>5. ASSUME NEW s \in Server, NEW m,
             QueueAck(s, m) \/ TakeAck(s, m) \/ CountAck(s, m) \/ RepairFollower(s, m)
             \/ TakeRequest(s, m) \/ IgnoreDecision(s, m) \/ HandleDecision(s, m)
      PROVE  StoodInv'
  BY <1>1, <1>5 DEF QueueAck, TakeAck, CountAck, RepairFollower, Counted, TakeRequest,
     IgnoreDecision, HandleDecision, electionVars
<1>6. ASSUME NEW s \in Server, Worker(s) PROVE StoodInv'
  <2>1. \A x : AppendTransfer(s, x) => elected' = elected /\ role' = role
    BY DEF AppendTransfer, electionVars
  <2>2. AppendIntra(s) \/ AppendCross(s) => elected' = elected /\ role' = role
    BY <2>1 DEF AppendIntra, AppendCross
  <2>3. \A a : CountWorkerAck(s, a) \/ RetryFollower(s, a) => elected' = elected /\ role' = role
    BY DEF CountWorkerAck, RetryFollower, PoppedAck, electionVars
  <2>4. RejectTransfer(s) => elected' = elected /\ role' = role
    BY DEF RejectTransfer, electionVars
  <2>5. AwaitLocks(s) => elected' = elected /\ role' = role
    BY DEF AwaitLocks, electionVars
  <2>6. LockTimeout(s) \/ GiveUp(s) => elected' = elected /\ role' = role
    BY DEF LockTimeout, GiveUp, electionVars
  <2>7. Replicate(s) => elected' = elected /\ role' = role
    BY DEF Replicate, electionVars
  <2>8. elected' = elected /\ role' = role
    BY <1>6, <2>2, <2>3, <2>4, <2>5, <2>6, <2>7 DEF Worker
  <2> QED
    BY <1>1, <2>8
<1>7. ASSUME NEW s \in Server,
             SendHeartbeats(s) \/ (\E x \in Tx : CheckPending(s, x)) \/ Restart(s)
      PROVE  StoodInv'
  <2>1. SendHeartbeats(s) => elected' = elected /\ role' = role
    BY DEF SendHeartbeats, electionVars
  <2>2. \A x \in Tx : CheckPending(s, x) => elected' = elected /\ role' = role
    BY DEF CheckPending, electionVars
  <2>3. Restart(s) => /\ elected' = elected
                      /\ \A t \in Server : role'[t] = "candidate" => role[t] = "candidate"
    BY DEF Restart, TypeInv, ElectionInv
  <2> QED
    BY <1>1, <1>7, <2>1, <2>2, <2>3
<1>8. CASE UNCHANGED serverVars
  BY <1>1, <1>8 DEF serverVars, electionVars
<1>9. ASSUME NEW s \in Server, Listener(s) PROVE StoodInv'
  BY <1>3, <1>4, <1>5, <1>9 DEF Listener
<1>10. CASE ServerNext
  BY <1>2, <1>6, <1>7, <1>9, <1>10 DEF ServerNext
<1> QED
  BY <1>8, <1>10 DEF Next, RemoteVote, vars

\* The theorems below speak of the runs in which no cluster ever has a second
\* leader.  All are of that kind where only one server per cluster may stand, as in
\* the configurations of the runs they explain.
THEOREM OneLeaderHolds ==
    ASSUME OneMayStand
    PROVE  Spec => []OneLeader
<1>1. Init => TypeInv /\ StoodInv
  <2>1. Init => StoodInv
    BY DEF Init, ServerInit, NoOffice, StoodInv, Led
  <2> QED
    BY <2>1, TypeInvInit
<1>2. TypeInv /\ StoodInv /\ [Next]_vars => TypeInv' /\ StoodInv'
  BY TypeInvStep, StoodNext
<1>3. StoodInv => OneLeader
  BY DEF StoodInv, OneLeader, OneMayStand, Led
<1> QED
  BY <1>1, <1>2, <1>3, PTL DEF Spec

SteadyInv == TypeInv /\ LedInv /\ CopyInv

LEMMA SteadyStart == Init => SteadyInv
BY TypeInvInit, LedStart, CopyStart DEF SteadyInv

LEMMA SteadyKept ==
    ASSUME SteadyInv, OneLeader, OneLeader', [Next]_vars
    PROVE  SteadyInv' /\ SteadyStep
<1>1. TypeInv' /\ SteadyStep
  BY TypeInvStep, SteadyNext DEF SteadyInv
<1>2. LedInv'
  BY <1>1, LedNext DEF SteadyInv
<1> QED
  BY <1>1, <1>2, CopyNext DEF SteadyInv

\* Entries of one index and term are the same transfer, and so is all before them
\* (server.py:290-303), in every cluster that keeps its first leader, however
\* requests are lost, repeated or late and servers restart: a request that replaces
\* the end of a log by older entries replaces it by entries the leader still has.
THEOREM LogMatchingHolds == Spec /\ []OneLeader => []LogMatching
<1>1. SteadyInv /\ OneLeader /\ OneLeader' /\ [Next]_vars => SteadyInv'
  BY SteadyKept
<1>2. SteadyInv /\ OneLeader => LogMatching
  <2> SUFFICES ASSUME SteadyInv, OneLeader, NEW s \in Server, NEW p \in Replicas(s),
                      NEW i \in DOMAIN log[s] \cap DOMAIN log[p], NEW j \in 1..i
               PROVE  log[s][j].tx = log[p][j].tx
    BY DEF LogMatching
  <2>1. p \in Server /\ ClusterOf[p] = ClusterOf[s]
    BY DEF Replicas
  <2>2. j \in DOMAIN log[s] /\ j \in DOMAIN log[p]
    BY <2>1, CurrentTyped DEF SteadyInv
  <2>3. PICK l \in Led : ClusterOf[l] = ClusterOf[s] /\ CopyOf(log[s][j], l, j)
    BY <2>2 DEF SteadyInv, CopyInv
  <2>4. PICK q \in Led : ClusterOf[q] = ClusterOf[p] /\ CopyOf(log[p][j], q, j)
    BY <2>1, <2>2 DEF SteadyInv, CopyInv
  <2>5. l = q
    BY <2>1, <2>3, <2>4 DEF OneLeader
  <2> QED
    BY <2>3, <2>4, <2>5 DEF CopyOf
<1> QED
  BY SteadyStart, <1>1, <1>2, PTL DEF Spec

CommitIndexMonotone ==
    [][\A s \in Server : commitIndex'[s] >= commitIndex[s]]_vars

\* The commit index of a server never goes back (server.py:369-371), in a cluster
\* that keeps its first leader and without restarts: the leader's commit index never
\* passes the end of a request, so a follower that truncates its log has just been
\* given all that is committed.
THEOREM CommitIndexMonotoneHolds ==
    ASSUME MayRestart = {}
    PROVE  Spec /\ []OneLeader => CommitIndexMonotone
<1> DEFINE Inv == SteadyInv /\ CommitInv
<1>1. Init => Inv
  BY SteadyStart, CommitStart
<1>2. Inv /\ OneLeader /\ OneLeader' /\ [Next]_vars => Inv'
  BY SteadyKept, CommitNext DEF SteadyInv
<1>3. Inv /\ OneLeader /\ OneLeader' /\ [Next]_vars =>
         [\A s \in Server : commitIndex'[s] >= commitIndex[s]]_vars
  BY SteadyKept, CommitSteps DEF SteadyInv
<1> QED
  BY <1>1, <1>2, <1>3, PTL DEF Spec, CommitIndexMonotone

\* No datagram ends a listener thread (server.py:935-936, 999-1000), cross-shard
\* transfers included, in a cluster that keeps its first leader and without
\* restarts: next_index of a leader never passes the end of its log, and no entry
\* is without a transfer.
THEOREM ListenersSurviveHolds ==
    ASSUME MayRestart = {}
    PROVE  Spec /\ []OneLeader => []ListenersSurvive
<1> DEFINE Inv == SteadyInv /\ CommitInv /\ BodyInv /\ AliveInv
<1>1. Init => Inv
  BY SteadyStart, CommitStart, BodyStart, AliveStart
<1>2. Inv /\ OneLeader /\ OneLeader' /\ [Next]_vars => Inv'
  <2> SUFFICES ASSUME Inv, OneLeader, OneLeader', [Next]_vars PROVE Inv'
    OBVIOUS
  <2>1. SteadyInv' /\ SteadyStep
    BY SteadyKept
  <2>2. CommitInv' /\ BodyInv'
    BY <2>1, CommitNext, BodyNext DEF SteadyInv
  <2>3. AliveInv'
    BY <2>1, <2>2, AliveNext DEF SteadyInv
  <2> QED
    BY <2>1, <2>2, <2>3
<1>3. Inv => ListenersSurvive
  BY DEF AliveInv, ListenersSurvive
<1> QED
  BY <1>1, <1>2, <1>3, PTL DEF Spec

-----------------------------------------------------------------------------
(* A server votes once on a transfer, so the client decides once. *)

NoVote == \A n \in net' : n.type = "VOTE" => n \in net

\* The vote n ends the stay of the transfer in a request or a queue, or is on
\* an entry that the commit index reaches only now.
Casts(n) ==
    /\ \A k, w : Placed(k, w, n.tx, ClusterOf[n.from])'
                    => Placed(k, w, n.tx, ClusterOf[n.from])
    /\ \/ \E k, w : /\ k # "log" /\ Placed(k, w, n.tx, ClusterOf[n.from])
                    /\ ~Placed(k, w, n.tx, ClusterOf[n.from])'
       \/ /\ n.from \in Server
          /\ \E i : /\ Placed("log", i, n.tx, ClusterOf[n.from])
                    /\ commitIndex[n.from] < i /\ i <= commitIndex'[n.from]

VoteFlow ==
    \/ NoVote
    \/ \E n \in VoteT : /\ Casts(n)
                        /\ \A q \in net' : q.type = "VOTE" => q \in net \/ q = n

LEMMA OtherTypes ==
    /\ \A s, t, p : RequestVote(s, t, p).type # "VOTE" /\ VoteResponse(s, t, p).type # "VOTE"
    /\ \A s, p, ok : AppendAck(s, p, ok).type # "VOTE"
    /\ \A s, p, lg, k : AppendEntries(s, p, lg, k).type # "VOTE"
    /\ \A x, ok : ClientResponse(x, ok).type # "VOTE"
    /\ \A s, x : /\ Ack(s, x).type # "VOTE" /\ Prepare(s, x).type # "VOTE"
                 /\ ClientRequest(s, x).type # "VOTE"
    /\ \A now, s, x : Decision(DecisionOn(now), s, x).type # "VOTE"
BY DEF RequestVote, VoteResponse, AppendAck, AppendEntries, ClientResponse, Ack,
       Prepare, ClientRequest, Decision, DecisionOn

LEMMA ListenerNoVote ==
    ASSUME TypeInv, NEW s \in Server, NEW m \in net, m.to = s,
           \/ AbandonElection(s, m) \/ BecomeLeader(s, m) \/ Drop(s, m)
           \/ HandleVoteRequest(s, m)
           \/ StaleAppend(s, m) \/ RefuseAppend(s, m) \/ AcceptAppend(s, m)
           \/ QueueAck(s, m) \/ TakeAck(s, m)
           \/ TakeRequest(s, m)
           \/ IgnoreDecision(s, m) \/ HandleDecision(s, m)
    PROVE  NoVote
<1>0. \A n \in ResponseT : n.type # "VOTE"
  BY DEF ResponseT
<1>1. CASE AbandonElection(s, m) \/ BecomeLeader(s, m) \/ Drop(s, m)
  BY <1>1 DEF AbandonElection, BecomeLeader, Drop, Reply, NoVote
<1>2. CASE HandleVoteRequest(s, m)
  BY <1>2, OtherTypes DEF HandleVoteRequest, Reply, NoVote
<1>3. CASE StaleAppend(s, m) \/ RefuseAppend(s, m)
  BY <1>3, OtherTypes DEF StaleAppend, RefuseAppend, Reply, NoVote
<1>4. CASE AcceptAppend(s, m)
  <2> DEFINE ci == CommitAfter(s, m)
             lg == Merged(s, m)
             r == IF ci > commitIndex[s]
                  THEN ApplyCommitted(s, Received(s, m), lg, ci,
                                      RoleAt(s, m.term) = "leader")
                  ELSE NothingDone(s, Received(s, m))
  <2>1. /\ m \in AppendT /\ Consistent(s, m)
        /\ Reply(m, r.out \cup IF r.failed THEN {} ELSE {AppendAck(s, m.from, TRUE)})
    BY <1>4, SeeLeaderTyped DEF AcceptAppend, SeeLeader
  <2>2. lg \in Seq(Entry) /\ ci \in Nat /\ Received(s, m) \in ShardT(s)
    BY <2>1, MergedTyped, ReceivedTyped, CommitAfterTyped
  <2>3. r.out \subseteq ResponseT
    <3> HIDE DEF lg, ci
    <3> QED
      BY <2>2, ApplyCommittedTyped DEF NothingDone
  <2> HIDE DEF r
  <2> QED
    BY <1>0, <2>1, <2>3, OtherTypes DEF Reply, NoVote
<1>5. CASE QueueAck(s, m) \/ TakeAck(s, m) \/ IgnoreDecision(s, m)
  BY <1>5 DEF QueueAck, TakeAck, IgnoreDecision, Reply, NoVote
<1>6. CASE TakeRequest(s, m)
  <2>1. [m EXCEPT !.to = currentLeader[s]].type = m.type
    BY <1>6, MessageFacts DEF TakeRequest, RequestT
  <2> QED
    BY <1>6, <2>1 DEF TakeRequest, Reply, NoVote
<1>7. CASE HandleDecision(s, m)
  <2> DEFINE lg == DecidedLog(s, m)
             sh == IF Decidable(s, m.tx) = {} THEN shard[s] ELSE LogSaved(shard[s])
             sh2 == [sh EXCEPT !.pending = @ \ {m.tx}]
             r == ApplyCommitted(s, sh2, lg, commitIndex[s], role[s] = "leader")
  <2>1. Reply(m, r.out \cup IF r.failed THEN {} ELSE {Ack(s, m.tx)})
    BY <1>7 DEF HandleDecision, DecidedLog
  <2>2. r.out \subseteq ResponseT
    <3>1. lg \in Seq(Entry) /\ commitIndex[s] \in Nat
      BY <1>7, MessageFacts, DecidedTyped, CurrentTyped DEF HandleDecision
    <3>2. sh2 \in ShardT(s)
      <4>1. shard[s] \in ShardT(s)
        BY CurrentTyped
      <4>2. sh \in ShardT(s)
        BY <4>1 DEF LogSaved, ShardT
      <4> HIDE DEF sh
      <4> QED
        BY <4>2 DEF ShardT
    <3> HIDE DEF sh2, lg
    <3> QED
      BY <3>1, <3>2, ApplyCommittedTyped
  <2> HIDE DEF r
  <2> QED
    BY <1>0, <2>1, <2>2, OtherTypes DEF Reply, NoVote
<1> QED
  BY <1>1, <1>2, <1>3, <1>4, <1>5, <1>6, <1>7

LEMMA RepairNoVote ==
    ASSUME NEW s \in Server, NEW m, RepairFollower(s, m)
    PROVE  NoVote
BY OtherTypes DEF RepairFollower, Send, NoVote

LEMMA RestNoVote ==
    ASSUME TypeInv, NEW s \in Server,
           \/ StartElection(s) \/ SendHeartbeats(s) \/ Restart(s)
           \/ \E x \in Tx : CheckPending(s, x)
    PROVE  NoVote
<1>1. CASE StartElection(s)
  BY <1>1, OtherTypes DEF StartElection, Send, NoVote
<1>2. CASE SendHeartbeats(s)
  BY <1>2, OtherTypes DEF SendHeartbeats, Send, NoVote
<1>3. CASE Restart(s)
  BY <1>3 DEF Restart, Send, NoVote
<1>4. CASE \E x \in Tx : CheckPending(s, x)
  <2>1. PICK x \in Tx : CheckPending(s, x)
    BY <1>4
  <2>2. net' = net \cup {} \/ net' = net \cup {Ack(s, x)}
    BY <2>1, Zenon DEF CheckPending, Send
  <2> QED
    BY <2>2, OtherTypes DEF NoVote
<1> QED
  BY <1>1, <1>2, <1>3, <1>4

LEMMA WorkerNoVote ==
    ASSUME TypeInv, NEW s \in Server,
           \/ AwaitLocks(s) \/ AppendIntra(s) \/ AppendCross(s) \/ Replicate(s)
           \/ LockTimeout(s) \/ (\E a : RetryFollower(s, a)) \/ GiveUp(s)
    PROVE  NoVote
<1>1. CASE AwaitLocks(s)
  <2>1. net' = net
    BY <1>1, AwaitLocksFlow
  <2> QED
    BY <2>1 DEF NoVote
<1>2. CASE AppendIntra(s) \/ AppendCross(s)
  <2>1. net' = net
    BY <1>2 DEF AppendIntra, AppendCross, AppendTransfer
  <2> QED
    BY <2>1 DEF NoVote
<1>6. CASE Replicate(s)
  <2> DEFINE next == [p \in Peers[s] |-> IF nextIndex[s][p] = MissingKey
                                         THEN Len(log[s]) ELSE nextIndex[s][p]]
  <2>1. \E to : net' = net \cup {AppendEntries(s, p, log[s], next[p]) : p \in to}
    BY <1>6 DEF Replicate, Send
  <2> HIDE DEF next
  <2> QED
    BY <2>1, OtherTypes DEF NoVote
<1>3. CASE LockTimeout(s)
  BY <1>3, OtherTypes DEF LockTimeout, Send, NoVote
<1>4. CASE \E a : RetryFollower(s, a)
  BY <1>4, OtherTypes DEF RetryFollower, Send, NoVote
<1>5. CASE GiveUp(s)
  <2>1. net' = net \cup {ClientResponse(x, FALSE) : x \in Undone(s)}
    BY <1>5 DEF GiveUp, Send
  <2> QED
    BY <2>1, OtherTypes DEF NoVote
<1> QED
  BY <1>1, <1>2, <1>3, <1>4, <1>5, <1>6

\* The vote of update_commit_index is on the entry that is committed now.
LEMMA CommitVote ==
    ASSUME TypeInv, Still, NEW s \in Server, NEW mi, NEW r,
           \/ r = UpdateCommitIndex(s, shard[s], mi)
           \/ r = NothingDone(s, shard[s]),
           commitIndex'[s] = r.ci, \A n \in net' : n \in net \/ n \in r.out
    PROVE  VoteFlow
<1>0. shard[s] \in ShardT(s) /\ log[s] \in Seq(Entry) /\ commitIndex[s] \in Nat
  BY CurrentTyped
<1>1. CASE r = NothingDone(s, shard[s])
  BY <1>1 DEF NothingDone, VoteFlow, NoVote
<1>2. CASE Voted(s, shard[s], r)
  <2>1. PICK x \in Tx : x = log[s][r.ci].tx /\ r.ci \in Nat
    <3>1. r.ci \in DOMAIN log[s]
      BY <1>2 DEF Voted
    <3>2. log[s][r.ci] \in Entry /\ r.ci \in Nat
      BY <1>0, <3>1, LenProperties, ElementOfSeq
    <3> QED
      BY <3>2 DEF Entry
  <2>2. PICK v \in {"yes", "no"} : r.out = {Vote(s, x, v)}
    BY <1>2, <2>1 DEF Voted
  <2>3. Placed("log", r.ci, x, ClusterOf[s])
    BY <1>2, <2>1 DEF Voted, Placed, Occurs
  <2>4. commitIndex[s] < r.ci /\ r.ci <= commitIndex'[s]
    BY <1>0, <1>2, <2>1 DEF Voted
  <2> DEFINE n == Vote(s, x, v)
  <2>5. n \in VoteT /\ n.from = s /\ n.tx = x
    BY <2>1 DEF Vote, VoteT, Node
  <2>6. \A q \in net' : q.type = "VOTE" => q \in net \/ q = n
    BY <2>2
  <2> HIDE DEF n
  <2>7. Casts(n)
    <3>1. \E i : Placed("log", i, x, ClusterOf[s]) /\ commitIndex[s] < i /\ i <= commitIndex'[s]
      BY <2>3, <2>4
    <3> QED
      BY <2>5, <3>1, StillPlaces DEF Casts
  <2> QED
    BY <2>5, <2>6, <2>7 DEF VoteFlow
<1>3. CASE r = ApplyCommitted(s, shard[s], log[s], r.ci, role[s] = "leader") /\ r.ci \in Nat
  <2>1. r.out \subseteq ResponseT
    BY <1>0, <1>3, ApplyCommittedTyped
  <2> QED
    BY <2>1 DEF VoteFlow, NoVote, ResponseT
<1> QED
  BY <1>0, <1>1, <1>2, <1>3, UpdateCommitCases

LEMMA CountAckVotes ==
    ASSUME TypeInv, NEW s \in Server, NEW m \in counting[s], CountAck(s, m)
    PROVE  VoteFlow
<1> DEFINE mi == [matchIndex[s] EXCEPT ![m.from] = Len(log[s])]
           some == {p \in Peers[s] : mi[p] >= commitIndex[s]}
           r == IF Cardinality(some) > Cardinality(Peers[s]) \div 2
                THEN UpdateCommitIndex(s, shard[s], mi)
                ELSE NothingDone(s, shard[s])
<1>1. commitIndex' = [commitIndex EXCEPT ![s] = r.ci] /\ Send(r.out)
  BY DEF CountAck
<1>2. r = UpdateCommitIndex(s, shard[s], mi) \/ r = NothingDone(s, shard[s])
  OBVIOUS
<1> HIDE DEF r, mi
<1>3. commitIndex'[s] = r.ci
  BY <1>1 DEF TypeInv, LogInv
<1>4. \A n \in net' : n \in net \/ n \in r.out
  BY <1>1 DEF Send
<1>5. Still
  BY CountAckStill
<1> QED
  BY <1>2, <1>3, <1>4, <1>5, CommitVote

LEMMA CountWorkerAckVotes ==
    ASSUME TypeInv, NEW s \in Server, ackQueue[s] # <<>>, NEW a, a = Head(ackQueue[s]),
           CountWorkerAck(s, a)
    PROVE  VoteFlow
<1> DEFINE mi == [matchIndex[s] EXCEPT ![a.from] = Len(log[s])]
           r == UpdateCommitIndex(s, shard[s], mi)
<1>1. commitIndex' = [commitIndex EXCEPT ![s] = r.ci] /\ Send(r.out)
  BY DEF CountWorkerAck
<1>2. r = UpdateCommitIndex(s, shard[s], mi)
  OBVIOUS
<1> HIDE DEF r, mi
<1>3. commitIndex'[s] = r.ci
  BY <1>1 DEF TypeInv, LogInv
<1>4. \A n \in net' : n \in net \/ n \in r.out
  BY <1>1 DEF Send
<1>5. Still
  BY CountWorkerAckStill
<1> QED
  BY <1>2, <1>3, <1>4, <1>5, CommitVote

\* A transfer that is refused leaves the queue.
LEMMA RejectTransferVotes ==
    ASSUME TypeInv, PlaceInv, NEW s \in Server, RejectTransfer(s)
    PROVE  VoteFlow
<1>1. PICK x \in Tx :
         /\ txQueue[s] # <<>> /\ x = Head(txQueue[s])
         /\ txQueue' = [txQueue EXCEPT ![s] = Tail(@)]
         /\ net' = net \cup {IF Cross(x) THEN Vote(s, x, "no")
                             ELSE ClientResponse(x, FALSE)}
  BY DEF RejectTransfer, NextInQueue, Taken, Send
<1> DEFINE n == Vote(s, x, "no")
<1>2. n \in VoteT /\ n.from = s /\ n.tx = x
  BY DEF Vote, VoteT, Node
<1>3. \A q \in net' : q.type = "VOTE" => q \in net \/ q = n
  BY <1>1, OtherTypes
<1> HIDE DEF n
<1>4. In(x, txQueue[s]) /\ ~In(x, txQueue'[s])
  BY <1>1, HeadLeaves DEF PlaceInv
<1>5. Placed("queue", s, x, ClusterOf[s]) /\ ~Placed("queue", s, x, ClusterOf[s])'
  BY <1>4 DEF Placed
<1>6. Still
  BY RejectTransferStill
<1>7. Casts(n)
  BY <1>2, <1>5, <1>6, StillPlaces DEF Casts
<1> QED
  BY <1>2, <1>3, <1>7 DEF VoteFlow

\* A remote cluster votes in answer to PREPARE, and takes it from the network.
LEMMA RemoteClusterVotes ==
    ASSUME TypeInv, RemoteVote
    PROVE  VoteFlow
<1>1. PICK m \in net, v \in RemoteVotes :
         /\ m.type = "PREPARE" /\ m.to \in Remote
         /\ net' = (net \ {m}) \cup {Vote(m.to, m.tx, v)}
         /\ UNCHANGED <<serverVars, clientVars>>
  BY DEF RemoteVote
<1> DEFINE n == Vote(m.to, m.tx, v)
<1>2. m \in RequestT /\ m.to \in Node /\ m.tx \in Tx
  BY <1>1 DEF TypeInv, NetInv, Fits, RequestT
<1>3. n \in VoteT /\ n.from = m.to /\ n.tx = m.tx /\ n.type = "VOTE"
  BY <1>1, <1>2, RemoteVotesType DEF Vote, VoteT
<1>4. net' = (net \ {m}) \cup {n}
  BY <1>1
<1> HIDE DEF n
<1>5. m \notin net'
  BY <1>1, <1>3, <1>4
<1>6. /\ Placed("request", m, m.tx, ClusterOf[m.to])
      /\ ~Placed("request", m, m.tx, ClusterOf[m.to])'
  BY <1>1, <1>2, <1>5 DEF Placed
<1>7. Still
  <2>1. Plain(n)
    BY <1>3 DEF Plain
  <2>2. FlowNet({})
    BY <1>4, <2>1, NetPlain
  <2> QED
    BY <1>1, <2>2, FramesStill DEF clientVars
<1>8. Casts(n)
  BY <1>3, <1>6, <1>7, StillPlaces DEF Casts
<1> QED
  BY <1>3, <1>4, <1>8 DEF VoteFlow


LEMMA VoteNext ==
    ASSUME TypeInv, PlaceInv, [Next]_vars
    PROVE  /\ VoteFlow
           /\ \/ votes' = votes /\ decided' = decided
              \/ \E m \in net : HandleVote(m)
<1>1. CASE ServerNext /\ UNCHANGED clientVars
  <2>1. PICK s \in Server :
           \/ StartElection(s) \/ Listener(s) \/ Worker(s) \/ SendHeartbeats(s)
           \/ (\E x \in Tx : CheckPending(s, x)) \/ Restart(s)
    BY <1>1 DEF ServerNext
  <2>2. ASSUME Listener(s) PROVE VoteFlow
    <3>1. CASE \E m \in counting[s] : CountAck(s, m) \/ RepairFollower(s, m)
      BY <3>1, CountAckVotes, RepairNoVote DEF VoteFlow
    <3>2. CASE \E m \in net : /\ m.to = s
            /\ \/ AbandonElection(s, m) \/ BecomeLeader(s, m) \/ Drop(s, m)
               \/ HandleVoteRequest(s, m)
               \/ StaleAppend(s, m) \/ RefuseAppend(s, m) \/ AcceptAppend(s, m)
               \/ QueueAck(s, m) \/ TakeAck(s, m)
               \/ TakeRequest(s, m)
               \/ IgnoreDecision(s, m) \/ HandleDecision(s, m)
      BY <3>2, ListenerNoVote DEF VoteFlow
    <3> QED
      BY <2>2, <3>1, <3>2 DEF Listener
  <2>3. ASSUME Worker(s) PROVE VoteFlow
    BY <2>3, RejectTransferVotes, CountWorkerAckVotes, WorkerNoVote DEF Worker, VoteFlow
  <2>4. VoteFlow
    BY <2>1, <2>2, <2>3, RestNoVote DEF VoteFlow
  <2> QED
    BY <1>1, <2>4 DEF clientVars
<1>2. CASE ClientNext /\ UNCHANGED serverVars
  <2>1. NoVote
    <3>1. CASE Issue
      BY <3>1, OtherTypes DEF Issue, NoVote
    <3>2. CASE \E m \in net : HandleVote(m)
      <4>1. PICK m \in net : HandleVote(m)
        BY <3>2
      <4>2. PICK now, to :
               \/ net' = net \ {m}
               \/ net' = (net \ {m}) \cup {Decision(DecisionOn(now), s, m.tx) : s \in to}
        BY <4>1 DEF HandleVote
      <4> QED
        BY <4>2, OtherTypes DEF NoVote
    <3>3. CASE \E m \in net : HandleAck(m) \/ HandleClientResponse(m)
      BY <3>3 DEF HandleAck, HandleClientResponse, NoVote
    <3> QED
      BY <1>2, <3>1, <3>2, <3>3 DEF ClientNext
  <2>2. \/ votes' = votes /\ decided' = decided
        \/ \E m \in net : HandleVote(m)
    BY <1>2 DEF ClientNext, Issue, HandleAck, HandleClientResponse
  <2> QED
    BY <2>1, <2>2 DEF VoteFlow
<1>3. CASE RemoteVote
  BY <1>3, RemoteClusterVotes DEF RemoteVote, clientVars
<1>4. CASE UNCHANGED vars
  BY <1>4 DEF vars, clientVars, VoteFlow, NoVote
<1> QED
  BY <1>1, <1>2, <1>3, <1>4 DEF Next

\* What a vote changes at the client.
LEMMA VoteCounted ==
    ASSUME TypeInv, NEW m \in net, HandleVote(m)
    PROVE  /\ m \in VoteT
           /\ \A x \in Tx : x # m.tx => votes'[x] = votes[x] /\ decided'[x] = decided[x]
           /\ \/ /\ DOMAIN votes'[m.tx] = DOMAIN votes[m.tx] \cup {m.from}
                 /\ m \notin net'
                 /\ \/ decided'[m.tx] = decided[m.tx]
                    \/ /\ Cardinality(DOMAIN votes'[m.tx]) = 2
                       /\ \E d \in {"COMMIT", "ABORT"} :
                             decided'[m.tx] = decided[m.tx] \cup {d}
              \/ votes'[m.tx] = votes[m.tx] /\ decided'[m.tx] = decided[m.tx]
<1> DEFINE now == VotesWith(m.tx, m.from, m.vote)
<1>1. m \in VoteT /\ m.tx \in Tx /\ m.type = "VOTE"
  <2>1. m \in VoteT
    BY DEF HandleVote, TypeInv, NetInv, Fits
  <2> QED
    BY <2>1 DEF VoteT
<1>2. CASE m.tx \notin open
  <2>1. votes' = votes /\ decided' = decided
    BY <1>2 DEF HandleVote
  <2> QED
    BY <1>1, <2>1
<1>3. CASE m.tx \in open
  <2>1. votes' = [votes EXCEPT ![m.tx] = now]
    BY <1>3 DEF HandleVote
  <2>2. DOMAIN now = DOMAIN votes[m.tx] \cup {m.from}
    BY DEF VotesWith
  <2>3. \/ EveryVoteIn(now) /\ decided' = [decided EXCEPT ![m.tx] = @ \cup {DecisionOn(now)}]
        \/ decided' = decided
    BY <1>3 DEF HandleVote
  <2>4. DecisionOn(now) \in {"COMMIT", "ABORT"}
    BY DEF DecisionOn
  <2>5. m \notin net'
    <3>1. \A s : Decision(DecisionOn(now), s, m.tx).type # "VOTE"
      BY OtherTypes
    <3>2. PICK to : \/ net' = net \ {m}
                    \/ net' = (net \ {m}) \cup {Decision(DecisionOn(now), s, m.tx) : s \in to}
      BY <1>3 DEF HandleVote
    <3> HIDE DEF now
    <3> QED
      BY <1>1, <3>1, <3>2
  <2>6. votes'[m.tx] = now /\ \A x \in Tx : x # m.tx => votes'[x] = votes[x]
    BY <1>1, <2>1 DEF TypeInv, ClientInv
  <2> HIDE DEF now
  <2>7. /\ \A x \in Tx : x # m.tx => decided'[x] = decided[x]
        /\ \/ decided'[m.tx] = decided[m.tx]
           \/ EveryVoteIn(now) /\ decided'[m.tx] = decided[m.tx] \cup {DecisionOn(now)}
    BY <1>1, <2>3 DEF TypeInv, ClientInv
  <2> QED
    BY <1>1, <2>2, <2>4, <2>5, <2>6, <2>7 DEF EveryVoteIn
<1> QED
  BY <1>2, <1>3


LEMMA VotedFrom ==
    ASSUME TypeInv, PlaceInv, [Next]_vars, NEW v, NEW x, HasVoted(v, x)'
    PROVE  \/ HasVoted(v, x)
           \/ \E n \in VoteT : n.from = v /\ n.tx = x /\ Casts(n)
<1>0. /\ VoteFlow
      /\ \/ votes' = votes /\ decided' = decided
         \/ \E m \in net : HandleVote(m)
  BY VoteNext
<1>1. CASE \E m \in net' : m.type = "VOTE" /\ m.from = v /\ m.tx = x
  BY <1>0, <1>1 DEF VoteFlow, NoVote, HasVoted
<1>2. CASE x \in Tx /\ v \in DOMAIN votes'[x]
  <2>1. CASE votes' = votes
    BY <1>2, <2>1 DEF HasVoted
  <2>2. CASE \E m \in net : HandleVote(m)
    <3>1. PICK m \in net : HandleVote(m)
      BY <2>2
    <3>2. /\ m.type = "VOTE"
          /\ \/ votes'[x] = votes[x]
             \/ m.tx = x /\ DOMAIN votes'[x] = DOMAIN votes[x] \cup {m.from}
      BY <1>2, <3>1, VoteCounted DEF VoteT
    <3> QED
      BY <1>2, <3>2 DEF HasVoted
  <2> QED
    BY <1>0, <2>1, <2>2
<1> QED
  BY <1>1, <1>2 DEF HasVoted

\* The server that casts a vote has not voted before, and is done with the
\* transfer.
LEMMA CastFacts ==
    ASSUME TypeInv, PlaceInv, VotedInv, NEW n \in VoteT, Casts(n)
    PROVE  /\ n.tx < nextTx
           /\ ~HasVoted(n.from, n.tx)
           /\ \A k, w : Placed(k, w, n.tx, ClusterOf[n.from])' =>
                 /\ n.from \in Server /\ k = "log" /\ w <= commitIndex'[n.from]
<1>1. PICK c : c = ClusterOf[n.from]
  OBVIOUS
<1>a. PICK x \in Tx : x = n.tx
  BY DEF VoteT
<1>b. PICK v \in Node : v = n.from
  BY DEF VoteT
<1>2. \A k, w : Placed(k, w, x, c)' => Placed(k, w, x, c)
  BY <1>1, <1>a DEF Casts
<1>3. \A k, l, w, u : Placed(k, u, x, c) /\ Placed(l, w, x, c) => k = l /\ u = w
  BY DEF PlaceInv, OnePlace
<1>4. HasVoted(v, x) => \A k, w : Placed(k, w, x, c) =>
          v \in Server /\ k = "log" /\ w <= commitIndex[v]
  BY <1>1, <1>b DEF VotedInv
<1>5. CASE \E k, w : k # "log" /\ Placed(k, w, x, c) /\ ~Placed(k, w, x, c)'
  <2>1. PICK k, w : k # "log" /\ Placed(k, w, x, c) /\ ~Placed(k, w, x, c)'
    BY <1>5
  <2>2. x < nextTx
    BY <2>1 DEF PlaceInv, OnlyIssued
  <2>3. \A l, u : ~Placed(l, u, x, c)'
    BY <1>2, <1>3, <2>1
  <2> QED
    BY <1>1, <1>a, <1>b, <1>4, <2>1, <2>2, <2>3
<1>6. CASE /\ v \in Server
           /\ \E i : /\ Placed("log", i, x, c)
                     /\ commitIndex[v] < i /\ i <= commitIndex'[v]
  <2>1. PICK i : Placed("log", i, x, c) /\ commitIndex[v] < i /\ i <= commitIndex'[v]
    BY <1>6
  <2>2. x < nextTx
    BY <2>1 DEF PlaceInv, OnlyIssued
  <2>3. i \in Nat /\ commitIndex[v] \in Nat
    BY <1>6, <2>1, CurrentTyped DEF Placed
  <2>4. ~HasVoted(v, x)
    BY <1>4, <2>1, <2>3
  <2>5. \A k, w : Placed(k, w, x, c)' => k = "log" /\ w = i
    BY <1>2, <1>3, <2>1
  <2> QED
    BY <1>1, <1>a, <1>b, <1>6, <2>1, <2>2, <2>4, <2>5
<1> QED
  BY <1>1, <1>a, <1>b, <1>5, <1>6 DEF Casts

LEMMA VotedNext ==
    ASSUME TypeInv, TypeInv', PlaceInv, VotedInv, [Next]_vars,
           \A s \in Server : commitIndex'[s] >= commitIndex[s]
    PROVE  VotedInv'
<1>0. nextTx \in Nat /\ nextTx' \in Nat /\ nextTx <= nextTx' /\ Back
  <2>1. nextTx' = nextTx \/ nextTx' = nextTx + 1
    BY StepKinds DEF IssueFlow
  <2> QED
    BY <2>1, PlaceStep DEF TypeInv, ClientInv
<1>1. ASSUME NEW x \in Tx, NEW v \in Node, HasVoted(v, x)'
      PROVE  /\ x < nextTx'
             /\ \A k, w : Placed(k, w, x, ClusterOf[v])' =>
                   v \in Server /\ k = "log" /\ w <= commitIndex'[v]
  <2>0. x \in Nat
    BY TransferFacts
  <2>1. CASE HasVoted(v, x)
    <3>1. /\ x < nextTx
          /\ \A k, w : Placed(k, w, x, ClusterOf[v]) =>
                v \in Server /\ k = "log" /\ w <= commitIndex[v]
      BY <2>1 DEF VotedInv
    <3>2. x # nextTx /\ x < nextTx'
      BY <1>0, <2>0, <3>1
    <3>3. ASSUME NEW k, NEW w, Placed(k, w, x, ClusterOf[v])'
          PROVE  v \in Server /\ k = "log" /\ w <= commitIndex'[v]
      <4>1. Placed(k, w, x, ClusterOf[v])
        BY <1>0, <3>1, <3>2, <3>3 DEF Back
      <4>2. v \in Server /\ k = "log" /\ w <= commitIndex[v]
        BY <3>1, <4>1
      <4>3. w \in Nat /\ commitIndex[v] \in Nat /\ commitIndex'[v] \in Nat
        BY <4>1, <4>2 DEF Placed, TypeInv, LogInv
      <4>4. commitIndex[v] <= commitIndex'[v]
        BY <4>2, <4>3
      <4> QED
        BY <4>2, <4>3, <4>4
    <3> QED
      BY <3>2, <3>3
  <2>2. CASE \E n \in VoteT : n.from = v /\ n.tx = x /\ Casts(n)
    <3>1. PICK n \in VoteT : n.from = v /\ n.tx = x /\ Casts(n)
      BY <2>2
    <3>2. /\ x < nextTx
          /\ \A k, w : Placed(k, w, x, ClusterOf[v])' =>
                v \in Server /\ k = "log" /\ w <= commitIndex'[v]
      <4>1. /\ n.tx < nextTx
            /\ \A k, w : Placed(k, w, n.tx, ClusterOf[n.from])' =>
                  /\ n.from \in Server /\ k = "log" /\ w <= commitIndex'[n.from]
        BY <3>1, CastFacts
      <4> QED
        BY <3>1, <4>1
    <3> QED
      BY <1>0, <2>0, <3>2
  <2> QED
    BY <1>1, <2>1, <2>2, VotedFrom
<1> QED
  BY <1>1 DEF VotedInv


LEMMA VotesNext ==
    ASSUME TypeInv, TypeInv', PlaceInv, VotedInv, VotesInv, [Next]_vars
    PROVE  VotesInv'
<1>0. /\ VoteFlow
      /\ \/ votes' = votes /\ decided' = decided
         \/ \E m \in net : HandleVote(m)
  BY VoteNext
<1>1. PICK q : \A n \in net' : n.type = "VOTE" =>
                  n \in net \/ (n = q /\ q \in VoteT /\ ~HasVoted(q.from, q.tx))
  BY <1>0, CastFacts DEF VoteFlow, NoVote
<1>2. \A m, n \in net : m.type = "VOTE" /\ n.type = "VOTE"
                        /\ m.from = n.from /\ m.tx = n.tx => m = n
  BY DEF VotesInv
<1>3. \A m \in net : m.type = "VOTE" => HasVoted(m.from, m.tx)
  BY DEF HasVoted
<1>4. ASSUME NEW m \in net', NEW n \in net', m.type = "VOTE", n.type = "VOTE",
             m.from = n.from, m.tx = n.tx
      PROVE  m = n
  BY <1>1, <1>2, <1>3, <1>4
<1>5. ASSUME NEW m \in net', m.type = "VOTE" PROVE m.from \notin DOMAIN votes'[m.tx]
  <2>0. m.tx \in Tx
    BY <1>5 DEF TypeInv, NetInv, Fits, VoteT
  <2>1. m.from \notin DOMAIN votes[m.tx]
    BY <1>1, <1>5, <2>0 DEF VotesInv, HasVoted
  <2>2. ASSUME NEW h \in net, HandleVote(h) PROVE m.from \notin DOMAIN votes'[m.tx]
    <3>1. /\ h.type = "VOTE" /\ (m.tx # h.tx => votes'[m.tx] = votes[m.tx])
          /\ \/ votes'[h.tx] = votes[h.tx]
             \/ DOMAIN votes'[h.tx] = DOMAIN votes[h.tx] \cup {h.from} /\ h \notin net'
      BY <2>0, <2>2, VoteCounted DEF VoteT
    <3>2. CASE m.tx = h.tx /\ m.from = h.from /\ h \notin net'
      <4>1. m # h
        BY <1>5, <3>2
      <4>2. HasVoted(m.from, m.tx)
        BY <1>3, <2>2, <3>1, <3>2
      <4> QED
        BY <1>1, <1>2, <1>5, <3>1, <3>2, <4>1, <4>2
    <3> QED
      BY <2>1, <3>1, <3>2
  <2> QED
    BY <1>0, <2>1, <2>2
<1>6. ASSUME NEW x \in Tx
      PROVE  /\ IsFiniteSet(DOMAIN votes'[x])
             /\ decided'[x] # {} => Cardinality(DOMAIN votes'[x]) >= 2
             /\ ~("COMMIT" \in decided'[x] /\ "ABORT" \in decided'[x])
  <2>0. /\ IsFiniteSet(DOMAIN votes[x])
        /\ decided[x] # {} => Cardinality(DOMAIN votes[x]) >= 2
        /\ ~("COMMIT" \in decided[x] /\ "ABORT" \in decided[x])
    BY DEF VotesInv, OneDecision, Announced
  <2>1. CASE votes'[x] = votes[x] /\ decided'[x] = decided[x]
    BY <2>0, <2>1
  <2>2. ASSUME NEW h \in net, HandleVote(h), h.tx = x,
               DOMAIN votes'[x] = DOMAIN votes[x] \cup {h.from},
               \/ decided'[x] = decided[x]
               \/ /\ Cardinality(DOMAIN votes'[x]) = 2
                  /\ \E d \in {"COMMIT", "ABORT"} : decided'[x] = decided[x] \cup {d}
        PROVE  /\ IsFiniteSet(DOMAIN votes'[x])
               /\ decided'[x] # {} => Cardinality(DOMAIN votes'[x]) >= 2
               /\ ~("COMMIT" \in decided'[x] /\ "ABORT" \in decided'[x])
    <3>1. h.from \notin DOMAIN votes[x]
      <4>1. h.type = "VOTE"
        BY <2>2 DEF HandleVote
      <4> QED
        BY <2>2, <4>1 DEF VotesInv
    <3>2. /\ IsFiniteSet(DOMAIN votes'[x])
          /\ Cardinality(DOMAIN votes'[x]) = Cardinality(DOMAIN votes[x]) + 1
          /\ Cardinality(DOMAIN votes[x]) \in Nat
      BY <2>0, <2>2, <3>1, FS_AddElement, FS_CardinalityType
    <3>3. CASE decided'[x] = decided[x]
      BY <2>0, <3>2, <3>3
    <3>4. CASE /\ Cardinality(DOMAIN votes'[x]) = 2
               /\ \E d \in {"COMMIT", "ABORT"} : decided'[x] = decided[x] \cup {d}
      <4>1. decided[x] = {}
        BY <2>0, <3>2, <3>4
      <4> QED
        BY <3>2, <3>4, <4>1
    <3> QED
      BY <2>2, <3>3, <3>4
  <2> QED
    BY <1>0, <2>1, <2>2, VoteCounted
<1> QED
  BY <1>4, <1>5, <1>6 DEF VotesInv, OneDecision, Announced

LEMMA VotesStart == Init => VotedInv /\ VotesInv
<1> SUFFICES ASSUME Init PROVE VotedInv /\ VotesInv
  OBVIOUS
<1>1. /\ net = {} /\ \A x \in Tx : DOMAIN votes[x] = {} /\ decided[x] = {}
  BY DEF Init, ClientInit
<1>2. IsFiniteSet({})
  BY FS_EmptySet
<1> QED
  BY <1>1, <1>2 DEF VotedInv, VotesInv, HasVoted, OneDecision, Announced

\* The client never sends both decisions for a transfer (client.py:39-44), as
\* long as no server's commit index goes back: a server then votes only once on
\* a transfer, whoever leads and however the request is passed on, so no vote is
\* replaced and the client sees exactly two voters only once.
THEOREM OneDecisionHolds == Spec /\ CommitIndexMonotone => []OneDecision
<1> DEFINE I == TypeInv /\ PlaceInv /\ VotedInv /\ VotesInv
           Forward == \A s \in Server : commitIndex'[s] >= commitIndex[s]
<1>1. Init => I
  BY TypeInvInit, PlaceInit, VotesStart
<1>2. I /\ [Next]_vars /\ [Forward]_vars => I'
  <2> SUFFICES ASSUME I, [Next]_vars, [Forward]_vars PROVE I'
    OBVIOUS
  <2>1. TypeInv' /\ PlaceInv'
    BY TypeInvStep, PlaceStep
  <2>2. Forward
    <3>1. CASE vars' = vars
      <4>1. commitIndex' = commitIndex /\ \A s \in Server : commitIndex[s] \in Nat
        BY <3>1 DEF vars, serverVars, logVars, TypeInv, LogInv
      <4> QED
        BY <4>1
    <3> QED
      BY <3>1
  <2>3. VotedInv'
    BY <2>1, <2>2, VotedNext
  <2>4. VotesInv'
    BY <2>1, VotesNext
  <2> QED
    BY <2>1, <2>3, <2>4
<1>3. I => OneDecision
  BY DEF VotesInv
<1> QED
  BY <1>1, <1>2, <1>3, PTL DEF Spec, CommitIndexMonotone

\* With one leader per cluster no commit index goes back, so the coordinator
\* never sends both decisions (client.py:39-44).
COROLLARY OneDecisionOneLeader ==
    ASSUME MayRestart = {}
    PROVE  Spec /\ []OneLeader => []OneDecision
BY OneDecisionHolds, CommitIndexMonotoneHolds, PTL

-----------------------------------------------------------------------------
(* The replicas of a cluster execute the log alike. *)

\* What the execution of transfers changes in a shard, and where it starts.
Books(sh) == [balance |-> sh.balance, ledger |-> sh.ledger]
NewBooks(c) ==
    [balance |-> [a \in {b \in Account : ShardOf[b] = c} |-> InitialBalance],
     ledger |-> <<>>]

\* The books of cluster c after transfer x, which is passed over if its payer
\* is here and cannot pay.
Booked(c, b, x) ==
    IF ShardOf[Payer(x)] = c /\ b.balance[Payer(x)] < Amount(x) THEN b
    ELSE [balance |-> [a \in DOMAIN b.balance |->
                          b.balance[a] - (IF a = Payer(x) THEN Amount(x) ELSE 0)
                                       + (IF a = Payee(x) THEN Amount(x) ELSE 0)],
          ledger |-> Append(b.ledger, x)]

LEMMA PassedBooks ==
    ASSUME NEW s, NEW m \in LoopT(s), NEW i \in Nat, m.upto = i - 1
    PROVE  /\ Passed(m, i).upto = i /\ Passed(m, i).sh.balance = m.sh.balance
           /\ Passed(m, i).sh.ledger = m.sh.ledger
BY DEF Passed, LoopT, ShardT

LEMMA ExecutedBooks ==
    ASSUME NEW s, NEW sh \in ShardT(s), NEW x \in Tx, NEW ci \in Nat, NEW i \in Nat
    PROVE  LET new == Executed(s, sh, x, ci, i)
           IN  /\ new.ledger = Append(sh.ledger, x)
               /\ new.balance = [a \in DOMAIN sh.balance |->
                      sh.balance[a] - (IF a = Payer(x) THEN Amount(x) ELSE 0)
                                    + (IF a = Payee(x) THEN Amount(x) ELSE 0)]
<1> DEFINE st == Stored(sh, ci, i)
           bal == [a \in DOMAIN st.balance |->
                      st.balance[a] - (IF a = Payer(x) THEN Amount(x) ELSE 0)
                                    + (IF a = Payee(x) THEN Amount(x) ELSE 0)]
           lk == st.locks \ Touched(s, x)
           pn == IF Cross(x) THEN st.pending \ {x} ELSE st.pending
           ld == Append(st.ledger, x)
           old == [a \in DOMAIN sh.balance |->
                      sh.balance[a] - (IF a = Payer(x) THEN Amount(x) ELSE 0)
                                    + (IF a = Payee(x) THEN Amount(x) ELSE 0)]
<1>1. st \in ShardT(s) /\ st.balance = sh.balance /\ st.ledger = sh.ledger
  BY DEF Stored, ShardT
<1>2. Executed(s, sh, x, ci, i) =
        [st EXCEPT !.balance = bal, !.locks = lk, !.pending = pn, !.ledger = ld]
  BY DEF Executed
<1>3. bal = old /\ ld = Append(sh.ledger, x)
  BY <1>1
<1> HIDE DEF st, bal, lk, pn, ld, old
<1>4. /\ Executed(s, sh, x, ci, i).ledger = ld
      /\ Executed(s, sh, x, ci, i).balance = bal
  BY <1>1, <1>2 DEF ShardT
<1> QED
  BY <1>3, <1>4 DEF old

\* Entry i is the next to apply, and its transfer is within the shard.
NextToApply(s, lg, m, i) ==
    /\ m \in LoopT(s) /\ m.failed = FALSE /\ m.upto = i - 1 /\ i \notin m.sh.applied
    /\ i <= Len(lg) /\ ~Cross(lg[i].tx)

\* r is m after entry i.
AppliedNext(s, lg, m, i, r) ==
    /\ r \in LoopT(s) /\ r.failed = FALSE /\ r.upto = i
    /\ r.sh.applied = m.sh.applied \cup {i}
    /\ r.sh.lastApplied = m.sh.lastApplied
    /\ Books(r.sh) = Booked(ClusterOf[s], Books(m.sh), lg[i].tx)

\* One turn of the loop.
LEMMA TurnBooks ==
    ASSUME NEW s, NEW lg \in Seq(Entry), NEW ci \in Nat, NEW b, NEW m,
           NEW i \in Nat, NextToApply(s, lg, m, i)
    PROVE  AppliedNext(s, lg, m, i, ApplyEntry(s, lg, ci, b, m, i))
<1> DEFINE x == lg[i].tx
           r == ApplyEntry(s, lg, ci, b, m, i)
<1> USE DEF NextToApply
<1>0. x \in Tx /\ i \in DOMAIN lg /\ m.sh \in ShardT(s) /\ m.out \subseteq ResponseT
  <2>1. m.upto \in Nat /\ Len(lg) \in Nat /\ m.sh \in ShardT(s) /\ m.out \subseteq ResponseT
    BY LenProperties DEF LoopT
  <2>2. i \in DOMAIN lg /\ lg[i] \in Entry
    BY <2>1, LenProperties, ElementOfSeq
  <2> QED
    BY <2>1, <2>2 DEF Entry
<1>1. r = ApplyNew(s, lg[i], ci, b, m, i)
  BY <1>0, LenProperties DEF ApplyEntry
<1>2. Overdrawn(s, m.sh, x) <=> ShardOf[Payer(x)] = ClusterOf[s]
                                /\ Books(m.sh).balance[Payer(x)] < Amount(x)
  BY DEF Overdrawn, Touched, Books
<1>5. ASSUME NEW k \in LoopT(s)
      PROVE  /\ Passed(k, i) \in LoopT(s) /\ Passed(k, i).failed = k.failed
             /\ Passed(k, i).sh.applied = k.sh.applied \cup {i}
             /\ Passed(k, i).sh.lastApplied = k.sh.lastApplied
  BY PassedTyped
<1>3. CASE Overdrawn(s, m.sh, x)
  <2>1. r = Passed(m, i)
    BY <1>1, <1>3 DEF ApplyNew
  <2>2. Booked(ClusterOf[s], Books(m.sh), x) = Books(m.sh)
    BY <1>2, <1>3 DEF Booked
  <2>3. /\ Passed(m, i) \in LoopT(s) /\ Passed(m, i).failed = m.failed
        /\ Passed(m, i).sh.applied = m.sh.applied \cup {i}
        /\ Passed(m, i).sh.lastApplied = m.sh.lastApplied
    BY <1>5
  <2>4. Passed(m, i).upto = i /\ Books(Passed(m, i).sh) = Books(m.sh)
    BY PassedBooks DEF Books
  <2> HIDE DEF r, x
  <2>5. /\ r \in LoopT(s) /\ r.failed = FALSE /\ r.upto = i
        /\ r.sh.applied = m.sh.applied \cup {i}
        /\ r.sh.lastApplied = m.sh.lastApplied
        /\ Books(r.sh) = Booked(ClusterOf[s], Books(m.sh), x)
    BY <2>1, <2>2, <2>3, <2>4
  <2> QED
    BY <2>5 DEF r, x, AppliedNext
<1>4. CASE ~Overdrawn(s, m.sh, x)
  <2> DEFINE n == [m EXCEPT
                    !.sh = Executed(s, @, x, ci, i),
                    !.out = IF ~Cross(x) /\ b
                            THEN @ \cup {ClientResponse(x, TRUE)} ELSE @]
             e == Executed(s, m.sh, x, ci, i)
  <2>1. r = Passed(n, i)
    BY <1>1, <1>4 DEF ApplyNew
  <2>2. e \in ShardT(s) /\ e.applied = m.sh.applied /\ e.lastApplied = m.sh.lastApplied
    BY <1>0, <1>4, ExecutedTyped
  <2>3. Books(e) = Booked(ClusterOf[s], Books(m.sh), x)
    <3>1. Booked(ClusterOf[s], Books(m.sh), x) =
            [balance |-> [a \in DOMAIN m.sh.balance |->
                 m.sh.balance[a] - (IF a = Payer(x) THEN Amount(x) ELSE 0)
                                 + (IF a = Payee(x) THEN Amount(x) ELSE 0)],
             ledger |-> Append(m.sh.ledger, x)]
      BY <1>2, <1>4 DEF Booked, Books
    <3>2. /\ e.ledger = Append(m.sh.ledger, x)
          /\ e.balance = [a \in DOMAIN m.sh.balance |->
                 m.sh.balance[a] - (IF a = Payer(x) THEN Amount(x) ELSE 0)
                                 + (IF a = Payee(x) THEN Amount(x) ELSE 0)]
      <4> HIDE DEF x
      <4> QED
        BY <1>0, ExecutedBooks
    <3> HIDE DEF e, x
    <3> QED
      BY <3>1, <3>2 DEF Books
  <2>4. ClientResponse(x, TRUE) \in ResponseT
    BY <1>0 DEF ClientResponse, ResponseT
  <2> HIDE DEF e
  <2>5. n \in LoopT(s) /\ n.sh = e /\ n.upto = m.upto /\ n.failed = m.failed
    BY <1>0, <2>2, <2>4 DEF LoopT, e
  <2> HIDE DEF n
  <2> HIDE DEF r, x
  <2>6. /\ Passed(n, i) \in LoopT(s) /\ Passed(n, i).failed = n.failed
        /\ Passed(n, i).sh.applied = n.sh.applied \cup {i}
        /\ Passed(n, i).sh.lastApplied = n.sh.lastApplied
    BY <1>5, <2>5
  <2>7. Passed(n, i).upto = i /\ Books(Passed(n, i).sh) = Books(n.sh)
    BY <2>5, PassedBooks DEF Books
  <2>8. /\ r \in LoopT(s) /\ r.failed = FALSE /\ r.upto = i
        /\ r.sh.applied = m.sh.applied \cup {i}
        /\ r.sh.lastApplied = m.sh.lastApplied
        /\ Books(r.sh) = Booked(ClusterOf[s], Books(m.sh), x)
    BY <2>1, <2>2, <2>3, <2>5, <2>6, <2>7
  <2> QED
    BY <2>8 DEF r, x, AppliedNext
<1> QED
  BY <1>3, <1>4

\* g passes the entries of lg from index n to index k through the books of c.
Passes(c, g, lg, n, k) ==
    \A j \in n + 1 .. k : j \in DOMAIN lg /\ g[j] = Booked(c, g[j - 1], lg[j].tx)

\* The indices in memory and in the files agree.
InStep(sh) ==
    /\ sh.applied = 1..sh.lastApplied /\ sh.savedCommit = sh.lastApplied
    /\ sh.savedApplied \in {MissingKey, sh.lastApplied}

\* apply_committed_entries passes every entry it applies through the books, in
\* the order of the log.
LEMMA CommittedBooks ==
    ASSUME NEW s, NEW sh \in ShardT(s), NEW lg \in Seq(Entry), NEW ci \in Nat, NEW b,
           ci <= Len(lg), InStep(sh), \A i \in DOMAIN lg : ~Cross(lg[i].tx)
    PROVE  LET new == ApplyCommitted(s, sh, lg, ci, b).sh
           IN  /\ InStep(new)
               /\ sh.lastApplied <= new.lastApplied
               /\ \E g : /\ g[sh.lastApplied] = Books(sh)
                         /\ g[new.lastApplied] = Books(new)
                         /\ Passes(ClusterOf[s], g, lg, sh.lastApplied, new.lastApplied)
<1> DEFINE la == sh.lastApplied
           turns == Max({0, ci - la})
           f == ApplyTurns(s, sh, lg, ci, b)
           end == f[turns]
           r == ApplyCommitted(s, sh, lg, ci, b)
           g == [j \in Nat |-> Books(f[j - la].sh)]
<1>0. la \in Nat /\ Len(lg) \in Nat /\ DOMAIN lg = 1..Len(lg)
  BY LenProperties DEF ShardT
<1>1. turns \in {0, ci - la} /\ turns >= 0 /\ turns >= ci - la
  <2> DEFINE S == {0, ci - la}
  <2>1. \E k \in S : \A l \in S : k >= l
    BY <1>0
  <2>2. turns \in S /\ \A l \in S : turns >= l
    BY <2>1 DEF Max
  <2> QED
    BY <1>0, <2>2
<1>2. r = [sh |-> IF ~end.failed /\ end.upto > la
                  THEN Stored([end.sh EXCEPT !.lastApplied = end.upto], ci, end.upto)
                  ELSE end.sh,
           ci |-> ci, out |-> end.out, failed |-> end.failed]
  BY DEF ApplyCommitted
<1> HIDE DEF r, f, turns
<1>3. /\ f[0] = LoopStart(sh)
      /\ \A n \in Nat : f[n + 1] = ApplyEntry(s, lg, ci, b, f[n], la + (n + 1))
  BY TurnByTurn DEF f
<1> DEFINE Good(n) == /\ f[n] \in LoopT(s) /\ f[n].failed = FALSE /\ f[n].upto = la + n
                      /\ f[n].sh.lastApplied = la /\ f[n].sh.applied = 1..(la + n)
           In0 == {n \in Nat : la + n <= ci => Good(n)}
<1>4. Good(0) /\ Books(f[0].sh) = Books(sh)
  <2>1. LoopStart(sh) \in LoopT(s)
    BY <1>0 DEF LoopStart, LoopT
  <2>2. /\ f[0].failed = FALSE /\ f[0].upto = la /\ f[0].sh = sh
    BY <1>3 DEF LoopStart
  <2>3. la + 0 = la
    BY <1>0
  <2>4. f[0] \in LoopT(s)
    BY <1>3, <2>1
  <2>5. f[0].sh.applied = 1..la
    BY <2>2 DEF InStep
  <2> QED
    BY <2>2, <2>3, <2>4, <2>5
<1>5. ASSUME NEW n \in Nat, Good(n), la + (n + 1) <= ci
      PROVE  /\ Good(n + 1) /\ la + (n + 1) \in DOMAIN lg
             /\ Books(f[n + 1].sh) = Booked(ClusterOf[s], Books(f[n].sh), lg[la + (n + 1)].tx)
  <2> DEFINE i == la + (n + 1)
             m == f[n]
             new == f[n + 1]
  <2>1. /\ i \in Nat /\ i <= Len(lg) /\ i \in DOMAIN lg /\ m.upto = i - 1
        /\ i \notin m.sh.applied /\ m.failed = FALSE /\ m \in LoopT(s)
        /\ ~Cross(lg[i].tx)
    <3>1. /\ i \in Nat /\ i <= Len(lg) /\ i \in DOMAIN lg /\ la + n = i - 1
          /\ i \notin 1..(la + n)
      BY <1>0, <1>5
    <3> HIDE DEF i
    <3> QED
      BY <1>5, <3>1
  <2>2. new = ApplyEntry(s, lg, ci, b, m, i)
    BY <1>3
  <2>3. la + (n + 1) = i /\ m.sh.lastApplied = la /\ m.sh.applied = 1..(i - 1)
    <3>1. i - 1 = la + n
      BY <1>0
    <3> HIDE DEF i
    <3> QED
      BY <1>5, <3>1 DEF i
  <2> HIDE DEF i, m, new, la
  <2>4. /\ new \in LoopT(s) /\ new.failed = FALSE /\ new.upto = i
        /\ new.sh.applied = m.sh.applied \cup {i}
        /\ new.sh.lastApplied = m.sh.lastApplied
        /\ Books(new.sh) = Booked(ClusterOf[s], Books(m.sh), lg[i].tx)
    <3>1. NextToApply(s, lg, m, i)
      BY <2>1 DEF NextToApply
    <3>2. AppliedNext(s, lg, m, i, new)
      BY <2>1, <2>2, <3>1, TurnBooks
    <3> QED
      BY <3>2 DEF AppliedNext
  <2>5. new.sh.applied = 1..i
    <3>1. i \in Nat /\ i # 0
      BY <1>0 DEF i
    <3> QED
      BY <2>3, <2>4, <3>1
  <2> QED
    BY <2>1, <2>3, <2>4, <2>5 DEF i, m, new
<1>6. Nat \subseteq In0
  <2>1. 0 \in In0
    BY <1>4
  <2>2. ASSUME NEW n \in Nat, n \in In0 PROVE n + 1 \in In0
    <3>1. la + (n + 1) <= ci => la + n <= ci
      BY <1>0
    <3> HIDE DEF Good
    <3> QED
      BY <1>5, <2>2, <3>1
  <2> HIDE DEF In0
  <2> QED
    BY <2>1, <2>2, SetInduction
<1>7. CASE turns = 0
  <2>1. ~(end.upto > la) /\ end.sh = sh
    BY <1>0, <1>3, <1>7 DEF LoopStart
  <2>2. r.sh = sh
    BY <1>2, <2>1
  <2>3. Passes(ClusterOf[s], [j \in Nat |-> Books(sh)], lg, la, la)
    BY <1>0 DEF Passes
  <2>4. [j \in Nat |-> Books(sh)][la] = Books(sh)
    BY <1>0
  <2> DEFINE h == [j \in Nat |-> Books(sh)]
  <2>5. h[la] = Books(r.sh) /\ Passes(ClusterOf[s], h, lg, la, r.sh.lastApplied)
    BY <2>2, <2>3, <2>4
  <2> HIDE DEF h
  <2> QED
    BY <1>0, <2>2, <2>4, <2>5 DEF r, h
<1>8. CASE turns # 0
  <2>1. turns = ci - la /\ la < ci /\ la + turns = ci /\ turns \in Nat
    BY <1>0, <1>1, <1>8
  <2>2. Good(turns)
    BY <1>6, <2>1
  <2>3. /\ r.sh = Stored([end.sh EXCEPT !.lastApplied = end.upto], ci, end.upto)
        /\ end.sh \in ShardT(s) /\ end.upto = ci /\ end.sh.applied = 1..ci
    BY <1>0, <1>2, <2>1, <2>2 DEF LoopT
  <2>4. /\ InStep(r.sh) /\ r.sh.lastApplied = ci /\ Books(r.sh) = Books(end.sh)
    BY <2>3 DEF Stored, ShardT, InStep, Books
  <2>5. g[la] = Books(sh) /\ g[ci] = Books(r.sh)
    <3>1. la - la = 0 /\ ci - la = turns
      BY <1>0, <2>1
    <3> QED
      BY <1>0, <1>4, <2>4, <3>1
  <2>6. Passes(ClusterOf[s], g, lg, la, ci)
    <3>1. ASSUME NEW j \in la + 1 .. ci
          PROVE  j \in DOMAIN lg /\ g[j] = Booked(ClusterOf[s], g[j - 1], lg[j].tx)
      <4> DEFINE n == j - la - 1
      <4>1. /\ n \in Nat /\ la + n <= ci /\ la + (n + 1) = j /\ j <= ci
            /\ j - la = n + 1 /\ (j - 1) - la = n /\ j \in Nat /\ j - 1 \in Nat
        BY <1>0
      <4> HIDE DEF n
      <4>2. Good(n)
        BY <1>6, <4>1
      <4> HIDE DEF Good
      <4>3. j \in DOMAIN lg
            /\ Books(f[n + 1].sh) = Booked(ClusterOf[s], Books(f[n].sh), lg[j].tx)
        BY <1>5, <4>1, <4>2
      <4>4. g[j] = Books(f[n + 1].sh) /\ g[j - 1] = Books(f[n].sh)
        BY <4>1
      <4> QED
        BY <4>3, <4>4
    <3> QED
      BY <3>1 DEF Passes
  <2> HIDE DEF g
  <2> QED
    BY <1>0, <2>1, <2>4, <2>5, <2>6 DEF r
<1> QED
  BY <1>7, <1>8

-----------------------------------------------------------------------------
(* What a step does to the books. *)

\* new is old without an application; the log file may have been rewritten.
Unapplied(old, new) ==
    /\ new.balance = old.balance /\ new.ledger = old.ledger
    /\ new.applied = old.applied /\ new.lastApplied = old.lastApplied
    /\ new.savedCommit = old.savedCommit
    /\ new.savedApplied \in {old.savedApplied, MissingKey}

\* t applies the log it has after the step up to its commit index, which does
\* not lie beyond the log unless the listener handles a decision.
AppliesLog(t) ==
    /\ \/ commitIndex'[t] <= Len(log'[t])
       \/ \E m \in net : m.type \in {"COMMIT", "ABORT"}
    /\ \E sh \in ShardT(t), b \in BOOLEAN :
          /\ Unapplied(shard[t], sh)
          /\ shard'[t] = ApplyCommitted(t, sh, log'[t], commitIndex'[t], b).sh

Rereads(t) ==
    LET theirs == shard[ConfigLast].savedApplied
    IN /\ t \in MayRestart
       /\ shard'[t].balance = shard[t].balance /\ shard'[t].ledger = shard[t].ledger
       /\ shard'[t].applied = shard[t].applied
       /\ shard'[t].savedCommit = shard[t].savedCommit
       /\ shard'[t].savedApplied = shard[t].savedApplied
       /\ shard'[t].lastApplied = IF theirs = MissingKey THEN shard[t].savedCommit
                                  ELSE theirs

BooksStep ==
    \A t \in Server : Unapplied(shard[t], shard'[t]) \/ AppliesLog(t) \/ Rereads(t)

LEMMA SameBooks == ASSUME shard' = shard PROVE BooksStep
BY DEF BooksStep, Unapplied

\* The step changes the shard of s only.
LEMMA OneShard ==
    ASSUME TypeInv, NEW s \in Server, NEW r, shard' = [shard EXCEPT ![s] = r],
           Unapplied(shard[s], r) \/ (AppliesLog(s) /\ shard'[s] = r)
                                  \/ (Rereads(s) /\ shard'[s] = r)
    PROVE  BooksStep
<1>1. shard'[s] = r /\ \A t \in Server : t # s => shard'[t] = shard[t]
  BY DEF TypeInv, ShardInv
<1>2. \A t \in Server : t # s => Unapplied(shard[t], shard'[t])
  BY <1>1 DEF Unapplied
<1> QED
  BY <1>1, <1>2 DEF BooksStep

LEMMA UpdateBooks ==
    ASSUME TypeInv, NEW s \in Server, NEW mi, NEW r,
           \/ r = UpdateCommitIndex(s, shard[s], mi)
           \/ r = NothingDone(s, shard[s]),
           shard' = [shard EXCEPT ![s] = r.sh], log' = log, commitIndex'[s] = r.ci
    PROVE  BooksStep
<1>0. /\ shard[s] \in ShardT(s) /\ Len(log[s]) \in Nat /\ DOMAIN log[s] = 1..Len(log[s])
      /\ shard'[s] = r.sh
  BY CurrentTyped DEF TypeInv, ShardInv
<1>1. CASE r = NothingDone(s, shard[s])
  <2>1. Unapplied(shard[s], r.sh)
    BY <1>1 DEF NothingDone, Unapplied
  <2> QED
    BY <2>1, OneShard
<1>2. CASE Voted(s, shard[s], r)
  <2>1. Unapplied(shard[s], r.sh)
    BY <1>0, <1>2 DEF Voted, Unapplied, ShardT
  <2> QED
    BY <2>1, OneShard
<1>3. CASE /\ r = ApplyCommitted(s, shard[s], log[s], r.ci, role[s] = "leader")
           /\ r.ci \in DOMAIN log[s]
  <2> DEFINE b == role[s] = "leader"
  <2>1. b \in BOOLEAN /\ Unapplied(shard[s], shard[s]) /\ commitIndex'[s] <= Len(log'[s])
        /\ shard'[s] = ApplyCommitted(s, shard[s], log'[s], commitIndex'[s], b).sh
    BY <1>0, <1>3 DEF Unapplied
  <2> HIDE DEF b
  <2>2. AppliesLog(s)
    BY <1>0, <2>1 DEF AppliesLog
  <2> QED
    BY <1>0, <2>2, OneShard
<1> QED
  BY <1>0, <1>1, <1>2, <1>3, UpdateCommitCases

LEMMA AcceptAppendBooks ==
    ASSUME TypeInv, NEW s \in Server, NEW m \in net, m.to = s, AcceptAppend(s, m)
    PROVE  BooksStep
<1> DEFINE ci == CommitAfter(s, m)
           lg == Merged(s, m)
           b == RoleAt(s, m.term) = "leader"
           sh == Received(s, m)
           r == IF ci > commitIndex[s] THEN ApplyCommitted(s, sh, lg, ci, b)
                ELSE NothingDone(s, sh)
<1>1. m \in AppendT /\ Consistent(s, m)
  BY SeeLeaderTyped DEF AcceptAppend, SeeLeader
<1>2. /\ log' = [log EXCEPT ![s] = lg] /\ shard' = [shard EXCEPT ![s] = r.sh]
      /\ commitIndex' = [commitIndex EXCEPT ![s] = ci]
  BY DEF AcceptAppend
<1>3. lg \in Seq(Entry) /\ ci \in Nat /\ sh \in ShardT(s) /\ commitIndex[s] \in Nat
  BY <1>1, MergedTyped, ReceivedTyped, CommitAfterTyped, CurrentTyped
<1>4. Unapplied(shard[s], sh)
  <2>1. shard[s] \in ShardT(s)
    BY CurrentTyped
  <2> QED
    BY <2>1 DEF Received, Unapplied, ShardT
<1>5. ci > commitIndex[s] => ci <= Len(lg)
  <2> DEFINE S == {m.commit, Len(lg)}
  <2>1. S \in SUBSET Nat /\ S # {}
    BY <1>1, <1>3, LenProperties DEF AppendT
  <2>2. ci > commitIndex[s] => ci = Min(S)
    BY <1>3 DEF CommitAfter
  <2>3. Len(lg) \in S
    OBVIOUS
  <2> HIDE DEF S
  <2>4. Min(S) <= Len(lg)
    BY <2>1, <2>3, MinMember
  <2> QED
    BY <2>2, <2>4
<1> HIDE DEF ci, lg, sh, b
<1>6. log'[s] = lg /\ shard'[s] = r.sh /\ commitIndex'[s] = ci
  BY <1>2 DEF TypeInv, LogInv, ShardInv
<1>7. CASE ci > commitIndex[s]
  <2>1. r = ApplyCommitted(s, sh, lg, ci, b)
    BY <1>7
  <2>2. b \in BOOLEAN
    BY DEF b
  <2>3. AppliesLog(s)
    BY <1>3, <1>4, <1>5, <1>6, <1>7, <2>1, <2>2 DEF AppliesLog
  <2> QED
    BY <1>2, <1>6, <2>3, OneShard
<1>8. CASE ~(ci > commitIndex[s])
  <2>1. r.sh = sh
    BY <1>8 DEF NothingDone
  <2> QED
    BY <1>2, <1>4, <2>1, OneShard
<1> QED
  BY <1>7, <1>8

LEMMA AppendBooks ==
    ASSUME TypeInv, NEW s \in Server, NEW x, AppendTransfer(s, x)
    PROVE  BooksStep
<1> DEFINE sh == LogSaved([shard[s] EXCEPT !.locks = @ \cup Touched(s, x)])
<1>1. shard' = [shard EXCEPT ![s] = sh]
  BY DEF AppendTransfer
<1>2. Unapplied(shard[s], sh)
  <2>1. shard[s] \in ShardT(s)
    BY CurrentTyped
  <2> QED
    BY <2>1 DEF LogSaved, Unapplied, ShardT
<1> HIDE DEF sh
<1> QED
  BY <1>1, <1>2, OneShard

LEMMA GiveUpBooks ==
    ASSUME TypeInv, NEW s \in Server, GiveUp(s)
    PROVE  BooksStep
<1> DEFINE lk == UNION {Touched(s, x) : x \in Undone(s)}
           sh == [shard[s] EXCEPT !.locks = @ \ lk]
<1>1. shard' = [shard EXCEPT ![s] = sh]
  BY DEF GiveUp
<1> HIDE DEF lk
<1>2. Unapplied(shard[s], sh)
  <2>1. shard[s] \in ShardT(s)
    BY CurrentTyped
  <2> QED
    BY <2>1 DEF Unapplied, ShardT
<1> HIDE DEF sh
<1> QED
  BY <1>1, <1>2, OneShard

LEMMA RestartBooks ==
    ASSUME TypeInv, NEW s \in Server, Restart(s)
    PROVE  BooksStep
<1> DEFINE theirs == shard[ConfigLast].savedApplied
           la == IF theirs = MissingKey THEN shard[s].savedCommit ELSE theirs
           sh == [shard[s] EXCEPT !.locks = {}, !.pending = {}, !.lastApplied = la]
<1>1. shard' = [shard EXCEPT ![s] = sh] /\ s \in MayRestart
  BY DEF Restart
<1>2. shard'[s] = sh
  BY <1>1 DEF TypeInv, ShardInv
<1> HIDE DEF la
<1>3. /\ sh.balance = shard[s].balance /\ sh.ledger = shard[s].ledger
      /\ sh.applied = shard[s].applied /\ sh.savedCommit = shard[s].savedCommit
      /\ sh.savedApplied = shard[s].savedApplied /\ sh.lastApplied = la
  <2>1. shard[s] \in ShardT(s)
    BY CurrentTyped
  <2> QED
    BY <2>1 DEF ShardT
<1> HIDE DEF sh
<1>4. Rereads(s)
  BY <1>1, <1>2, <1>3 DEF Rereads, la
<1> QED
  BY <1>1, <1>2, <1>4, OneShard

LEMMA CountAckBooks ==
    ASSUME TypeInv, NEW s \in Server, NEW m \in counting[s], CountAck(s, m)
    PROVE  BooksStep
<1> DEFINE mi == [matchIndex[s] EXCEPT ![m.from] = Len(log[s])]
           some == {p \in Peers[s] : mi[p] >= commitIndex[s]}
           r == IF Cardinality(some) > Cardinality(Peers[s]) \div 2
                THEN UpdateCommitIndex(s, shard[s], mi)
                ELSE NothingDone(s, shard[s])
<1>1. shard' = [shard EXCEPT ![s] = r.sh] /\ log' = log
      /\ commitIndex' = [commitIndex EXCEPT ![s] = r.ci]
  BY DEF CountAck, Counted
<1>2. r = UpdateCommitIndex(s, shard[s], mi) \/ r = NothingDone(s, shard[s])
  OBVIOUS
<1> HIDE DEF r, mi
<1>3. commitIndex'[s] = r.ci
  BY <1>1 DEF TypeInv, LogInv
<1> QED
  BY <1>1, <1>2, <1>3, UpdateBooks

LEMMA CountWorkerAckBooks ==
    ASSUME TypeInv, NEW s \in Server, NEW a, CountWorkerAck(s, a)
    PROVE  BooksStep
<1> DEFINE mi == [matchIndex[s] EXCEPT ![a.from] = Len(log[s])]
           r == UpdateCommitIndex(s, shard[s], mi)
<1>1. shard' = [shard EXCEPT ![s] = r.sh] /\ log' = log
      /\ commitIndex' = [commitIndex EXCEPT ![s] = r.ci]
  BY DEF CountWorkerAck, PoppedAck
<1>2. r = UpdateCommitIndex(s, shard[s], mi) \/ r = NothingDone(s, shard[s])
  OBVIOUS
<1> HIDE DEF r, mi
<1>3. commitIndex'[s] = r.ci
  BY <1>1 DEF TypeInv, LogInv
<1> QED
  BY <1>1, <1>2, <1>3, UpdateBooks

LEMMA HandleDecisionBooks ==
    ASSUME TypeInv, NEW s \in Server, NEW m \in net, m.to = s, HandleDecision(s, m)
    PROVE  BooksStep
<1> DEFINE lg == DecidedLog(s, m)
           sh == IF Decidable(s, m.tx) = {} THEN shard[s] ELSE LogSaved(shard[s])
           sh2 == [sh EXCEPT !.pending = @ \ {m.tx}]
           b == role[s] = "leader"
           r == ApplyCommitted(s, sh2, lg, commitIndex[s], b)
<1>1. /\ shard' = [shard EXCEPT ![s] = r.sh] /\ log' = [log EXCEPT ![s] = lg]
      /\ commitIndex' = commitIndex /\ m.type \in {"COMMIT", "ABORT"}
  BY DEF HandleDecision, DecidedLog
<1>2. sh2 \in ShardT(s) /\ Unapplied(shard[s], sh2)
  <2>1. shard[s] \in ShardT(s)
    BY CurrentTyped
  <2>2. sh \in ShardT(s) /\ Unapplied(shard[s], sh)
    BY <2>1 DEF LogSaved, ShardT, Unapplied
  <2> HIDE DEF sh
  <2> QED
    BY <2>2 DEF ShardT, Unapplied
<1>3. b \in BOOLEAN
  OBVIOUS
<1> HIDE DEF lg, sh2, b
<1>4. shard'[s] = r.sh /\ log'[s] = lg
  BY <1>1 DEF TypeInv, LogInv, ShardInv
<1>5. AppliesLog(s)
  BY <1>1, <1>2, <1>3, <1>4 DEF AppliesLog
<1> QED
  BY <1>1, <1>4, <1>5, OneShard

LEMMA CheckPendingBooks ==
    ASSUME TypeInv, NEW s \in Server, NEW x, CheckPending(s, x)
    PROVE  BooksStep
<1>0. shard[s] \in ShardT(s)
  BY CurrentTyped
<1>1. CASE shard' = [shard EXCEPT ![s].pending = @ \ {x}]
  <2> DEFINE sh == [shard[s] EXCEPT !.pending = @ \ {x}]
  <2>1. shard' = [shard EXCEPT ![s] = sh]
    BY <1>1
  <2>2. Unapplied(shard[s], sh)
    BY <1>0 DEF Unapplied, ShardT
  <2> HIDE DEF sh
  <2> QED
    BY <2>1, <2>2, OneShard
<1>2. CASE shard' = [shard EXCEPT ![s] =
                        [shard[s] EXCEPT !.pending = @ \ {x}, !.locks = @ \ Touched(s, x)]]
  <2> DEFINE sh == [shard[s] EXCEPT !.pending = @ \ {x}, !.locks = @ \ Touched(s, x)]
  <2>1. Unapplied(shard[s], sh)
    BY <1>0 DEF Unapplied, ShardT
  <2>2. shard' = [shard EXCEPT ![s] = sh]
    BY <1>2
  <2> HIDE DEF sh
  <2> QED
    BY <2>1, <2>2, OneShard
<1> QED
  BY <1>1, <1>2 DEF CheckPending

LEMMA BooksNext ==
    ASSUME TypeInv, [Next]_vars
    PROVE  BooksStep
<1>1. ASSUME NEW s \in Server, NEW m,
             \/ AbandonElection(s, m) \/ BecomeLeader(s, m) \/ Drop(s, m)
             \/ HandleVoteRequest(s, m)
             \/ StaleAppend(s, m) \/ RefuseAppend(s, m)
             \/ QueueAck(s, m) \/ TakeAck(s, m) \/ RepairFollower(s, m)
             \/ TakeRequest(s, m) \/ IgnoreDecision(s, m)
      PROVE  shard' = shard
  BY <1>1 DEF AbandonElection, BecomeLeader, Drop, HandleVoteRequest, StaleAppend,
              RefuseAppend, QueueAck, TakeAck, RepairFollower, TakeRequest, IgnoreDecision,
              serverVars
<1>2. ASSUME NEW s \in Server, Listener(s) PROVE BooksStep
  <2>1. CASE \E m \in counting[s] : CountAck(s, m) \/ RepairFollower(s, m)
    BY <1>1, <2>1, SameBooks, CountAckBooks
  <2>2. CASE \E m \in net :
         /\ m.to = s
         /\ \/ AbandonElection(s, m) \/ BecomeLeader(s, m) \/ Drop(s, m)
            \/ HandleVoteRequest(s, m)
            \/ StaleAppend(s, m) \/ RefuseAppend(s, m) \/ AcceptAppend(s, m)
            \/ QueueAck(s, m) \/ TakeAck(s, m)
            \/ TakeRequest(s, m)
            \/ IgnoreDecision(s, m) \/ HandleDecision(s, m)
    BY <1>1, <2>2, SameBooks, AcceptAppendBooks, HandleDecisionBooks
  <2> QED
    BY <1>2, <2>1, <2>2 DEF Listener
<1>3. ASSUME NEW s \in Server, Worker(s) PROVE BooksStep
  <2>1. CASE RejectTransfer(s) \/ AwaitLocks(s) \/ LockTimeout(s) \/ Replicate(s)
    <3>1. shard' = shard
      BY <2>1 DEF RejectTransfer, AwaitLocks, LockTimeout, Replicate
    <3> QED
      BY <3>1, SameBooks
  <2>2. CASE AppendIntra(s) \/ AppendCross(s)
    <3>1. PICK x : AppendTransfer(s, x)
      BY <2>2 DEF AppendIntra, AppendCross
    <3> QED
      BY <3>1, AppendBooks
  <2>3. CASE \E a : CountWorkerAck(s, a) \/ RetryFollower(s, a)
    <3>1. PICK a : CountWorkerAck(s, a) \/ RetryFollower(s, a)
      BY <2>3
    <3>2. RetryFollower(s, a) => shard' = shard
      BY DEF RetryFollower
    <3> QED
      BY <3>1, <3>2, SameBooks, CountWorkerAckBooks
  <2> QED
    BY <1>3, <2>1, <2>2, <2>3, GiveUpBooks DEF Worker
<1>5. CASE ServerNext
  <2>1. PICK s \in Server :
           \/ StartElection(s) \/ Listener(s) \/ Worker(s) \/ SendHeartbeats(s)
           \/ \E x \in Tx : CheckPending(s, x)
           \/ Restart(s)
    BY <1>5 DEF ServerNext
  <2>2. StartElection(s) \/ SendHeartbeats(s) => shard' = shard
    BY DEF StartElection, SendHeartbeats
  <2> QED
    BY <1>2, <1>3, <2>1, <2>2, SameBooks, CheckPendingBooks, RestartBooks
<1>6. CASE (ClientNext /\ UNCHANGED serverVars) \/ RemoteVote \/ UNCHANGED vars
  <2>1. shard' = shard
    BY <1>6 DEF RemoteVote, vars, serverVars
  <2> QED
    BY <2>1, SameBooks
<1> QED
  BY <1>5, <1>6 DEF Next

-----------------------------------------------------------------------------
(* Every replica has passed the leader's log through its books.              *)

Agreed(c, i, x) ==
    \E l \in Led : ClusterOf[l] = c /\ i \in DOMAIN log[l] /\ log[l][i].tx = x

\* h are the books of cluster c after each of the first n entries.
History(c, h, n) ==
    /\ h[0] = NewBooks(c)
    /\ \A i \in 1..n : \E x \in Tx : Agreed(c, i, x) /\ h[i] = Booked(c, h[i - 1], x)

\* The books of a shard are those of its cluster after the entries it applied.
Replayed(c, sh) ==
    /\ InStep(sh)
    /\ \E h : History(c, h, sh.lastApplied) /\ h[sh.lastApplied] = Books(sh)

ReplayInv == \A s \in Server : Replayed(ClusterOf[s], shard[s])

LEMMA ReplayStart == Init => ReplayInv
<1> SUFFICES ASSUME Init, NEW s \in Server PROVE Replayed(ClusterOf[s], shard[s])
  BY DEF ReplayInv
<1> DEFINE h == [i \in {0} |-> NewBooks(ClusterOf[s])]
<1>1. shard[s] = ShardInit(s)
  BY DEF Init, ServerInit, NoTransfers
<1>2. /\ shard[s].applied = {} /\ shard[s].lastApplied = 0 /\ shard[s].savedCommit = 0
      /\ shard[s].savedApplied = MissingKey
      /\ Books(shard[s]) = NewBooks(ClusterOf[s])
  BY <1>1 DEF ShardInit, Books, NewBooks
<1>3. InStep(shard[s])
  BY <1>2 DEF InStep
<1>4. h[0] = NewBooks(ClusterOf[s])
  OBVIOUS
<1> HIDE DEF h
<1>5. History(ClusterOf[s], h, 0)
  BY <1>4 DEF History
<1> QED
  BY <1>2, <1>3, <1>4, <1>5 DEF Replayed

LEMMA HistoryKept ==
    ASSUME TypeInv, SteadyStep, LedInv, OneLeader, NEW c, NEW h, NEW n, History(c, h, n)
    PROVE  History(c, h, n)'
<1>1. ASSUME NEW i, NEW x, Agreed(c, i, x) PROVE Agreed(c, i, x)'
  <2>1. PICK l \in Led : ClusterOf[l] = c /\ i \in DOMAIN log[l] /\ log[l][i].tx = x
    BY <1>1 DEF Agreed
  <2>2. l \in Led' /\ i \in DOMAIN log'[l] /\ log'[l][i].tx = x
    BY <2>1, LeaderKeeps
  <2> QED
    BY <2>1, <2>2 DEF Agreed
<1> QED
  BY <1>1 DEF History

LEMMA ReplayNext ==
    ASSUME SteadyInv, SteadyInv', SteadyStep, OneLeader, IntraOnly,
           MayRestart \subseteq {ConfigLast}, BooksStep, ReplayInv,
           \A m \in net : m.type \notin {"COMMIT", "ABORT"}
    PROVE  ReplayInv'
<1> SUFFICES ASSUME NEW t \in Server PROVE Replayed(ClusterOf[t], shard[t])'
  BY DEF ReplayInv
<1> DEFINE c == ClusterOf[t]
<1>0. ASSUME NEW g, NEW k, History(c, g, k)', InStep(shard'[t]),
             shard'[t].lastApplied = k, g[k] = Books(shard'[t])
      PROVE  Replayed(c, shard[t])'
  <2>1. History(c, g, shard[t].lastApplied)'
    BY <1>0 DEF History
  <2> QED
    BY <1>0, <2>1 DEF Replayed
<1>1. PICK old, new, n : old = shard[t] /\ new = shard'[t] /\ n = old.lastApplied
  OBVIOUS
<1>2. PICK h : History(c, h, n) /\ h[n] = Books(old)
  BY <1>1 DEF ReplayInv, Replayed
<1>3. History(c, h, n)'
  BY <1>2, HistoryKept DEF SteadyInv
<1>4. InStep(old) /\ n \in Nat
  BY <1>1, CurrentTyped DEF ReplayInv, Replayed, SteadyInv, ShardT
<1>5. CASE Unapplied(shard[t], shard'[t])
  <2>1. InStep(new) /\ Books(new) = Books(old) /\ new.lastApplied = n
    BY <1>1, <1>4, <1>5 DEF Unapplied, InStep, Books
  <2> QED
    BY <1>0, <1>1, <1>2, <1>3, <2>1
<1>6. CASE Rereads(t)
  <2>1. t = ConfigLast
    BY <1>6 DEF Rereads
  <2>2. InStep(new) /\ Books(new) = Books(old) /\ new.lastApplied = n
    BY <1>1, <1>4, <1>6, <2>1 DEF Rereads, InStep, Books
  <2> QED
    BY <1>0, <1>1, <1>2, <1>3, <2>2
<1>7. CASE AppliesLog(t)
  <2>0. PICK ci \in Nat : ci = commitIndex'[t]
    BY DEF SteadyInv, TypeInv, LogInv
  <2>1. PICK sh \in ShardT(t), b \in BOOLEAN :
            /\ Unapplied(shard[t], sh) /\ ci <= Len(log'[t])
            /\ shard'[t] = ApplyCommitted(t, sh, log'[t], ci, b).sh
    BY <1>7, <2>0 DEF AppliesLog
  <2>2. PICK lg : lg = log'[t]
    OBVIOUS
  <2>3. /\ lg \in Seq(Entry) /\ \A i \in DOMAIN lg : lg[i].tx \in Tx /\ ~Cross(lg[i].tx)
    <3>1. lg \in Seq(Entry)
      BY <2>2 DEF SteadyInv, TypeInv, LogInv
    <3>2. \A i \in DOMAIN lg : lg[i] \in Entry
      BY <3>1, LenProperties, ElementOfSeq
    <3> QED
      BY <3>1, <3>2 DEF Entry, IntraOnly
  <2>4. InStep(sh) /\ sh.lastApplied = n /\ Books(sh) = Books(old)
    BY <1>1, <1>4, <2>1 DEF Unapplied, InStep, Books
  <2>5. new = ApplyCommitted(t, sh, lg, ci, b).sh /\ ci <= Len(lg)
    BY <1>1, <2>1, <2>2
  <2>6. /\ InStep(new) /\ n <= new.lastApplied
        /\ \E g : /\ g[n] = Books(old) /\ g[new.lastApplied] = Books(new)
                  /\ Passes(c, g, lg, n, new.lastApplied)
    <3>1. /\ InStep(new) /\ sh.lastApplied <= new.lastApplied
          /\ \E g : /\ g[sh.lastApplied] = Books(sh) /\ g[new.lastApplied] = Books(new)
                    /\ Passes(ClusterOf[t], g, lg, sh.lastApplied, new.lastApplied)
      BY <2>3, <2>4, <2>5, CommittedBooks
    <3> QED
      BY <2>4, <3>1
  <2>7. PICK g : /\ g[n] = Books(old) /\ g[new.lastApplied] = Books(new)
                 /\ Passes(c, g, lg, n, new.lastApplied)
    BY <2>6
  <2>8. PICK k \in Nat : k = new.lastApplied
    <3>1. new \in ShardT(t)
      BY <1>1 DEF SteadyInv, TypeInv, ShardInv
    <3> QED
      BY <3>1 DEF ShardT
  <2> DEFINE q == [j \in 0..k |-> IF j <= n THEN h[j] ELSE g[j]]
  <2>9. /\ q[0] = h[0] /\ q[k] = Books(new) /\ n <= k
        /\ \A j \in 1..n : q[j] = h[j] /\ q[j - 1] = h[j - 1]
        /\ \A j \in n + 1 .. k : q[j] = g[j] /\ q[j - 1] = g[j - 1]
    <3>1. n <= k /\ g[k] = Books(new)
      BY <2>6, <2>7, <2>8
    <3>2. q[0] = h[0] /\ \A j \in 1..n : q[j] = h[j] /\ q[j - 1] = h[j - 1]
      BY <1>4, <3>1
    <3>3. h[n] = g[n]
      BY <1>2, <2>7
    <3>4. ASSUME NEW j \in n + 1 .. k PROVE q[j] = g[j] /\ q[j - 1] = g[j - 1]
      BY <1>4, <3>3
    <3>5. q[k] = Books(new)
      BY <1>4, <3>1, <3>3
    <3> QED
      BY <3>1, <3>2, <3>4, <3>5
  <2> HIDE DEF q
  <2>10. ASSUME NEW j \in 1..k
         PROVE  \E x \in Tx : Agreed(c, j, x)' /\ q[j] = Booked(c, q[j - 1], x)
    <3>1. CASE j <= n
      <4>1. PICK x \in Tx : Agreed(c, j, x)' /\ h[j] = Booked(c, h[j - 1], x)
        BY <1>3, <1>4, <3>1 DEF History
      <4> QED
        BY <1>4, <2>9, <3>1, <4>1
    <3>2. CASE ~(j <= n)
      <4>1. j \in n + 1 .. k
        BY <1>4, <3>2
      <4>2. j \in DOMAIN lg /\ g[j] = Booked(c, g[j - 1], lg[j].tx)
        BY <2>7, <2>8, <4>1 DEF Passes
      <4>3. Agreed(c, j, lg[j].tx)'
        <5>1. PICK l \in Led' : ClusterOf[l] = ClusterOf[t] /\ CopyOf(log[t][j], l, j)'
          BY <2>2, <4>2 DEF SteadyInv, CopyInv
        <5>2. j \in DOMAIN log'[l] /\ log'[l][j].tx = lg[j].tx
          BY <2>2, <5>1 DEF CopyOf
        <5> QED
          BY <5>1, <5>2 DEF Agreed
      <4> QED
        BY <2>3, <2>9, <4>1, <4>2, <4>3
    <3> QED
      BY <3>1, <3>2
  <2>11. History(c, q, k)'
    BY <1>3, <2>9, <2>10 DEF History
  <2> QED
    BY <1>0, <1>1, <2>6, <2>8, <2>9, <2>11
<1> QED
  BY <1>5, <1>6, <1>7 DEF BooksStep

\* One leader holds one transfer at an index, so its cluster has one history.
LEMMA OneHistory ==
    ASSUME OneLeader, NEW c, NEW h, NEW g, NEW n \in Nat, NEW k \in Nat, n <= k,
           History(c, h, n), History(c, g, k)
    PROVE  h[n] = g[n]
<1> DEFINE Same == {i \in Nat : i <= n => h[i] = g[i]}
<1>1. 0 \in Same
  BY DEF History
<1>2. ASSUME NEW i \in Nat, i \in Same PROVE i + 1 \in Same
  <2> SUFFICES ASSUME i + 1 <= n PROVE h[i + 1] = g[i + 1]
    OBVIOUS
  <2>1. PICK j \in Nat : j = i + 1
    OBVIOUS
  <2>2. j \in 1..n /\ j \in 1..k /\ j - 1 = i /\ h[i] = g[i]
    BY <1>2, <2>1
  <2>3. PICK x \in Tx : Agreed(c, j, x) /\ h[j] = Booked(c, h[j - 1], x)
    BY <2>2 DEF History
  <2>4. PICK y \in Tx : Agreed(c, j, y) /\ g[j] = Booked(c, g[j - 1], y)
    BY <2>2 DEF History
  <2>5. x = y
    BY <2>3, <2>4 DEF Agreed, OneLeader
  <2> QED
    BY <2>1, <2>2, <2>3, <2>4, <2>5
<1> HIDE DEF Same
<1>3. Nat \subseteq Same
  BY <1>1, <1>2, SetInduction
<1> QED
  BY <1>3 DEF Same

LEMMA BookedGrows ==
    ASSUME NEW c, NEW b, NEW x \in Tx, b.ledger \in Seq(Tx)
    PROVE  Booked(c, b, x).ledger \in Seq(Tx) /\ Prefix(b.ledger, Booked(c, b, x).ledger)
<1>1. Prefix(b.ledger, b.ledger)
  BY LenProperties DEF Prefix
<1>2. Append(b.ledger, x) \in Seq(Tx) /\ Prefix(b.ledger, Append(b.ledger, x))
  BY AppendProperties, LenProperties DEF Prefix
<1>3. Booked(c, b, x).ledger \in {b.ledger, Append(b.ledger, x)}
  BY DEF Booked
<1> QED
  BY <1>1, <1>2, <1>3

LEMMA PrefixTransitive ==
    ASSUME NEW f \in Seq(Tx), NEW g \in Seq(Tx), NEW e \in Seq(Tx), Prefix(f, g), Prefix(g, e)
    PROVE  Prefix(f, e)
BY LenProperties DEF Prefix

LEMMA HistoryGrows ==
    ASSUME NEW c, NEW h, NEW k \in Nat, NEW n \in Nat, n <= k, History(c, h, k)
    PROVE  Prefix(h[n].ledger, h[k].ledger)
<1>1. ASSUME NEW i \in Nat, i + 1 <= k
      PROVE  \E x \in Tx : h[i + 1] = Booked(c, h[i], x)
  <2>1. PICK j \in Nat : j = i + 1
    OBVIOUS
  <2>2. j \in 1..k /\ j - 1 = i
    BY <1>1, <2>1
  <2> QED
    BY <2>1, <2>2 DEF History
<1> DEFINE Typed == {i \in Nat : i <= k => h[i].ledger \in Seq(Tx)}
           Grown == {i \in Nat : n <= i /\ i <= k => Prefix(h[n].ledger, h[i].ledger)}
<1>2. 0 \in Typed
  <2>1. h[0].ledger = << >>
    BY DEF History, NewBooks
  <2>2. << >> \in Seq(Tx)
    OBVIOUS
  <2> QED
    BY <2>1, <2>2
<1>3. ASSUME NEW i \in Nat, i \in Typed PROVE i + 1 \in Typed
  <2> SUFFICES ASSUME i + 1 <= k PROVE h[i + 1].ledger \in Seq(Tx)
    OBVIOUS
  <2>1. h[i].ledger \in Seq(Tx)
    BY <1>3
  <2> QED
    BY <1>1, <2>1, BookedGrows
<1>4. \A i \in Nat : i <= k => h[i].ledger \in Seq(Tx)
  <2> HIDE DEF Typed
  <2>1. Nat \subseteq Typed
    BY <1>2, <1>3, SetInduction
  <2> QED
    BY <2>1 DEF Typed
<1> HIDE DEF Typed
<1>5. Prefix(h[n].ledger, h[n].ledger)
  <2>1. h[n].ledger \in Seq(Tx)
    BY <1>4
  <2> QED
    BY <2>1, LenProperties DEF Prefix
<1>6. 0 \in Grown
  BY <1>5
<1>7. ASSUME NEW i \in Nat, i \in Grown PROVE i + 1 \in Grown
  <2> SUFFICES ASSUME n <= i + 1, i + 1 <= k PROVE Prefix(h[n].ledger, h[i + 1].ledger)
    OBVIOUS
  <2>1. CASE n = i + 1
    BY <1>5, <2>1
  <2>2. CASE n <= i
    <3>1. Prefix(h[n].ledger, h[i].ledger)
      BY <1>7, <2>2
    <3>2. /\ h[n].ledger \in Seq(Tx) /\ h[i].ledger \in Seq(Tx)
          /\ h[i + 1].ledger \in Seq(Tx)
      BY <1>4
    <3>3. Prefix(h[i].ledger, h[i + 1].ledger)
      BY <1>1, <3>2, BookedGrows
    <3> QED
      BY <3>1, <3>2, <3>3, PrefixTransitive
  <2> QED
    BY <2>1, <2>2
<1>8. Nat \subseteq Grown
  <2> HIDE DEF Grown
  <2> QED
    BY <1>6, <1>7, SetInduction
<1> QED
  BY <1>8

\* Without cross-shard transfers the coordinator decides nothing.
Undecided == \A x \in Tx : decided[x] = {}

LEMMA UndecidedNext ==
    ASSUME TypeInv, IntraOnly, Undecided, [Next]_vars
    PROVE  Undecided'
<1>1. open = {}
  <2>1. CrossTx = {}
    BY DEF IntraOnly, CrossTx
  <2> QED
    BY <2>1 DEF TypeInv, ClientInv
<1>2. ASSUME NEW m \in net, HandleVote(m) PROVE decided' = decided
  BY <1>1, <1>2 DEF HandleVote
<1>3. ClientNext => decided' = decided
  BY <1>2 DEF ClientNext, Issue, HandleAck, HandleClientResponse
<1>4. decided' = decided
  BY <1>3 DEF Next, RemoteVote, vars, clientVars
<1> QED
  BY <1>4 DEF Undecided

LEMMA ReplayAgrees == TypeInv /\ OneLeader /\ ReplayInv => LedgersAgree
<1> SUFFICES ASSUME TypeInv, OneLeader, ReplayInv, NEW s \in Server, NEW p \in Replicas(s),
                    shard[s].lastApplied <= shard[p].lastApplied
             PROVE  Prefix(shard[s].ledger, shard[p].ledger)
  BY DEF LedgersAgree
<1>1. p \in Server /\ ClusterOf[p] = ClusterOf[s]
  BY DEF Replicas
<1>2. PICK n \in Nat, k \in Nat : n = shard[s].lastApplied /\ k = shard[p].lastApplied
  BY <1>1, CurrentTyped DEF ShardT
<1>3. PICK h : History(ClusterOf[s], h, n) /\ h[n] = Books(shard[s])
  BY <1>2 DEF ReplayInv, Replayed
<1>4. PICK g : History(ClusterOf[s], g, k) /\ g[k] = Books(shard[p])
  BY <1>1, <1>2 DEF ReplayInv, Replayed
<1>5. n <= k
  BY <1>2
<1>6. h[n] = g[n]
  BY <1>3, <1>4, <1>5, OneHistory
<1>7. Prefix(g[n].ledger, g[k].ledger)
  BY <1>4, <1>5, HistoryGrows
<1>8. g[n].ledger = shard[s].ledger /\ g[k].ledger = shard[p].ledger
  BY <1>3, <1>4, <1>6 DEF Books
<1> QED
  BY <1>7, <1>8

\* Of two replicas, the ledger of the one behind is a prefix of the other's
\* (server.py:727-752), in a cluster that keeps its first leader and has only
\* transfers within shards: each server applies the leader's entries one by one
\* from the books of a new shard. A restart leaves last_applied where it was only
\* if it reads back the server's own file, as that of ConfigLast does
\* (server.py:87-91).
THEOREM LedgersAgreeHolds ==
    ASSUME IntraOnly, MayRestart \subseteq {ConfigLast}
    PROVE  Spec /\ []OneLeader => []LedgersAgree
<1> DEFINE Inv == SteadyInv /\ DecidedInv /\ Undecided /\ ReplayInv
<1>1. Init => Inv
  <2>1. Init => Undecided
    BY DEF Init, ClientInit, Undecided
  <2> QED
    BY <2>1, SteadyStart, DecidedInit, ReplayStart
<1>2. Inv /\ OneLeader /\ OneLeader' /\ [Next]_vars => Inv'
  <2> SUFFICES ASSUME Inv, OneLeader, OneLeader', [Next]_vars PROVE Inv'
    OBVIOUS
  <2>1. SteadyInv' /\ SteadyStep
    BY SteadyKept
  <2>2. DecidedInv'
    BY <2>1, DecidedNext DEF SteadyInv
  <2>3. Undecided'
    BY UndecidedNext DEF SteadyInv
  <2>4. BooksStep /\ \A m \in net : m.type \notin {"COMMIT", "ABORT"}
    <3>1. \A m \in net : m.type \in {"COMMIT", "ABORT"} => m.tx \in Tx /\ m.type \in decided[m.tx]
      BY DEF SteadyInv, TypeInv, NetInv, Fits, DecisionT, DecidedInv
    <3>2. \A m \in net : m.type \notin {"COMMIT", "ABORT"}
      BY <3>1 DEF Undecided
    <3> QED
      BY <3>2, BooksNext DEF SteadyInv
  <2>5. ReplayInv'
    BY <2>1, <2>4, ReplayNext
  <2> QED
    BY <2>1, <2>2, <2>3, <2>5
<1>3. Inv /\ OneLeader => LedgersAgree
  BY ReplayAgrees DEF SteadyInv
<1> QED
  BY <1>1, <1>2, <1>3, PTL DEF Spec
=============================================================================
