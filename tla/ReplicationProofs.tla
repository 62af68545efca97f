------------------------- MODULE ReplicationProofs -------------------------
(***************************************************************************)
(* What a cluster does with a transfer, for any number of clusters, any    *)
(* transfers, elections, losses and restarts: it is in one place at a time *)
(* until it is in the log, then always at the same index, and no server    *)
(* executes one across shards before the coordinator decided it.           *)
(***************************************************************************)
EXTENDS ServerProofs

In(x, q) == \E i \in DOMAIN q : q[i] = x
OneToOne(q) == \A i, j \in DOMAIN q : q[i] = q[j] => i = j

-----------------------------------------------------------------------------
(* What apply_committed_entries does to the ledger. *)

\* An entry of lg with transfer x that may be executed, and is applied.
Runs(x, new, lg) ==
    \E i \in DOMAIN lg : /\ lg[i].tx = x /\ i \in new.applied
                         /\ Cross(x) => lg[i].committed = TRUE

\* new is old after entries of lg may have been executed.
Ran(old, new, lg) ==
    /\ old.applied \subseteq new.applied
    /\ \A x : In(x, new.ledger) => In(x, old.ledger) \/ Runs(x, new, lg)

LEMMA InAppend ==
    ASSUME NEW q \in Seq(Tx), NEW y \in Tx
    PROVE  /\ \A x : In(x, Append(q, y)) <=> In(x, q) \/ x = y
           /\ OneToOne(q) /\ ~In(y, q) => OneToOne(Append(q, y))
<1> DEFINE a == Append(q, y)
           n == Len(q)
<1>1. /\ n \in Nat /\ DOMAIN q = 1..n
      /\ a \in Seq(Tx) /\ Len(a) = n + 1
      /\ \A i \in 1..n : a[i] = q[i]
      /\ a[n + 1] = y
  BY LenProperties, AppendProperties
<1>2. DOMAIN a = 1..(n + 1)
  <2> HIDE DEF a
  <2> QED
    BY <1>1, LenProperties
<1> HIDE DEF a, n
<1>3. \A x : In(x, a) <=> In(x, q) \/ x = y
  <2>1. ASSUME NEW x, In(x, a) PROVE In(x, q) \/ x = y
    BY <1>1, <1>2, <2>1 DEF In
  <2>2. ASSUME NEW x, In(x, q) \/ x = y PROVE In(x, a)
    <3>1. n + 1 \in DOMAIN a /\ DOMAIN q \subseteq DOMAIN a
      BY <1>1, <1>2
    <3> QED
      BY <1>1, <2>2, <3>1 DEF In
  <2> QED
    BY <2>1, <2>2
<1>4. ASSUME OneToOne(q), ~In(y, q) PROVE OneToOne(a)
  <2>1. ASSUME NEW i \in DOMAIN a, NEW j \in DOMAIN a, a[i] = a[j] PROVE i = j
    <3>1. \A k \in 1..n : a[k] # y
      BY <1>1, <1>4 DEF In
    <3>2. (i \in 1..n \/ i = n + 1) /\ (j \in 1..n \/ j = n + 1)
      BY <1>1, <1>2
    <3> QED
      BY <1>1, <1>4, <2>1, <3>1, <3>2 DEF OneToOne
  <2> QED
    BY <2>1 DEF OneToOne
<1> QED
  BY <1>3, <1>4 DEF a

\* One turn of the loop.
LEMMA RanTurn ==
    ASSUME NEW s, NEW old \in ShardT(s), NEW lg \in Seq(Entry), NEW ci \in Nat,
           NEW b, NEW m \in LoopT(s), NEW i \in Nat \ {0}, Ran(old, m.sh, lg)
    PROVE  Ran(old, ApplyEntry(s, lg, ci, b, m, i).sh, lg)
<1> DEFINE r == ApplyEntry(s, lg, ci, b, m, i)
<1>1. /\ Turned(s, m, r, lg[i], i)
      /\ r.sh.ledger # m.sh.ledger => i \in DOMAIN lg /\ i \notin m.sh.applied
  BY ApplyEntryTyped
<1> HIDE DEF r
<1>2. m.sh.applied \subseteq r.sh.applied /\ m.sh.ledger \in Seq(Tx)
  BY <1>1 DEF Turned, LoopT, ShardT
<1>3. ASSUME r.sh.ledger = m.sh.ledger PROVE Ran(old, r.sh, lg)
  <2>1. ASSUME NEW x, In(x, r.sh.ledger)
        PROVE  In(x, old.ledger) \/ Runs(x, r.sh, lg)
    BY <1>2, <1>3, <2>1 DEF Ran, Runs
  <2>2. old.applied \subseteq r.sh.applied
    BY <1>2 DEF Ran
  <2> QED
    BY <2>1, <2>2 DEF Ran
<1>4. ASSUME r.sh.ledger # m.sh.ledger PROVE Ran(old, r.sh, lg)
  <2> DEFINE y == lg[i].tx
  <2>1. /\ i \in DOMAIN lg /\ i \notin m.sh.applied
        /\ r.sh.ledger = Append(m.sh.ledger, y)
        /\ i \in r.sh.applied /\ (Cross(y) => lg[i].committed)
    BY <1>1, <1>4 DEF Turned
  <2>2. y \in Tx /\ lg[i].committed \in BOOLEAN
    <3>1. lg[i] \in Entry
      BY <2>1, LenProperties, ElementOfSeq
    <3> QED
      BY <3>1 DEF Entry
  <2>3. \A x : In(x, r.sh.ledger) <=> In(x, m.sh.ledger) \/ x = y
    <3> HIDE DEF y
    <3> QED
      BY <1>2, <2>1, <2>2, InAppend
  <2>4. ASSUME NEW x, In(x, r.sh.ledger)
        PROVE  In(x, old.ledger) \/ Runs(x, r.sh, lg)
    <3>1. CASE In(x, m.sh.ledger)
      BY <1>2, <3>1 DEF Ran, Runs
    <3>2. CASE x = y
      BY <2>1, <2>2, <3>2 DEF Runs, Entry
    <3> QED
      BY <2>3, <2>4, <3>1, <3>2
  <2>5. old.applied \subseteq r.sh.applied
    BY <1>2 DEF Ran
  <2> QED
    BY <2>4, <2>5 DEF Ran
<1> QED
  BY <1>3, <1>4 DEF r

LEMMA RanCommitted ==
    ASSUME NEW s, NEW sh \in ShardT(s), NEW lg \in Seq(Entry), NEW ci \in Nat, NEW b
    PROVE  Ran(sh, ApplyCommitted(s, sh, lg, ci, b).sh, lg)
<1> DEFINE T == {m \in LoopT(s) : m.sh.lastApplied = sh.lastApplied /\ Ran(sh, m.sh, lg)}
           turns == Max({0, ci - sh.lastApplied})
           end == ApplyTurns(s, sh, lg, ci, b)[turns]
           r == ApplyCommitted(s, sh, lg, ci, b)
<1>0. sh.lastApplied \in Nat
  BY DEF ShardT
<1>1. turns \in Nat
  <2> DEFINE S == {0, ci - sh.lastApplied}
  <2>1. \E k \in S : \A l \in S : k >= l
    BY <1>0
  <2>2. turns \in S /\ \A l \in S : turns >= l
    BY <2>1 DEF Max
  <2> QED
    BY <1>0, <2>2
<1>2. LoopStart(sh) \in T
  BY <1>0 DEF LoopStart, LoopT, Ran
<1>3. ASSUME NEW m \in T, NEW n \in Nat
      PROVE  ApplyEntry(s, lg, ci, b, m, sh.lastApplied + (n + 1)) \in T
  <2>1. sh.lastApplied + (n + 1) \in Nat \ {0}
    BY <1>0
  <2> QED
    BY <2>1, RanTurn, ApplyEntryTyped DEF Turned
<1>4. end \in T
  <2> HIDE DEF T, turns
  <2> QED
    BY <1>1, <1>2, <1>3, LoopStays
<1>5. r = [sh |-> IF ~end.failed /\ end.upto > sh.lastApplied
                  THEN Stored([end.sh EXCEPT !.lastApplied = end.upto],
                              ci, end.upto)
                  ELSE end.sh,
           ci |-> ci, out |-> end.out, failed |-> end.failed]
  BY DEF ApplyCommitted
<1> HIDE DEF end, r, turns
<1>6. end.sh \in ShardT(s) /\ end.upto \in Nat /\ Ran(sh, end.sh, lg)
  BY <1>4 DEF LoopT
<1>7. r.sh.applied = end.sh.applied /\ r.sh.ledger = end.sh.ledger
  BY <1>5, <1>6 DEF Stored, ShardT
<1>8. Ran(sh, r.sh, lg)
  <2>1. \A x : Runs(x, end.sh, lg) => Runs(x, r.sh, lg)
    BY <1>7 DEF Runs
  <2> QED
    BY <1>6, <1>7, <2>1 DEF Ran
<1> QED
  BY <1>8 DEF r

\* Nothing executed.
LEMMA RanNothing ==
    ASSUME NEW old, NEW new, NEW lg, new.applied = old.applied, new.ledger = old.ledger
    PROVE  Ran(old, new, lg)
BY DEF Ran

LEMMA RanFrom ==
    ASSUME NEW old, NEW sh, NEW new, NEW lg, Ran(sh, new, lg),
           sh.applied = old.applied, sh.ledger = old.ledger
    PROVE  Ran(old, new, lg)
BY DEF Ran


-----------------------------------------------------------------------------
(* Where entries, requests and decisions come from, in one step. *)

\* The entry i of the log of s after the step was there before, marked by a
\* decision or not, or arrived in a request.
EntryFrom(s, i) ==
    \/ /\ i \in DOMAIN log[s] /\ log'[s][i].tx = log[s][i].tx
       /\ \/ log'[s][i].committed = log[s][i].committed
          \/ \E m \in net : /\ m.type \in {"COMMIT", "ABORT"} /\ m.tx = log[s][i].tx
                            /\ log'[s][i].committed = (m.type = "COMMIT")
    \/ \E m \in net : /\ m \in AppendT /\ m.to = s
                      /\ i - m.prev \in DOMAIN m.entries
                      /\ log'[s][i].tx = m.entries[i - m.prev].tx
                      /\ log'[s][i].committed = m.entries[i - m.prev].committed

EntryNew(s, x, i) ==
    i = Len(log[s]) + 1 /\ log'[s][i].tx = x /\ log'[s][i].committed = FALSE

\* Only s may add an entry, and only for x.
FlowLog(s, x) ==
    \A t \in Server : \A i \in DOMAIN log'[t] :
        EntryFrom(t, i) \/ (t = s /\ EntryNew(s, x, i))

Plain(n) ==
    n.type \in {"REQUEST_VOTE", "VOTE_RESPONSE", "APPEND_ACK", "VOTE", "ACK",
                "CLIENT_RESPONSE"}

\* A request copies the log of its sender.
Copied(n) ==
    /\ n \in AppendT /\ ClusterOf[n.from] = ClusterOf[n.to]
    /\ \A k \in DOMAIN n.entries :
          /\ n.prev + k \in DOMAIN log'[n.from]
          /\ n.entries[k].tx = log'[n.from][n.prev + k].tx
          /\ n.entries[k].committed = log'[n.from][n.prev + k].committed

\* Only the requests of R are new.
FlowNet(R) ==
    \A n \in net' :
        \/ n \in net \/ Plain(n) \/ Copied(n) \/ n \in R
        \/ n \in DecisionT /\ n.type \in decided'[n.tx]

FlowShard == \A s \in Server : Ran(shard[s], shard'[s], log'[s])

\* No transfer comes to a queue, or to the wait for its locks.
FlowCarry ==
    \A s \in Server :
        /\ \A x : In(x, txQueue'[s]) => In(x, txQueue[s])
        /\ OneToOne(txQueue[s]) => OneToOne(txQueue'[s])
        /\ worker'[s].pc = "wait" => worker'[s] = worker[s]

\* A step that moves no transfer.
Still == FlowLog(NoServer, NoTx) /\ FlowNet({}) /\ FlowShard /\ FlowCarry

LEMMA LogKept == ASSUME log' = log, NEW s, NEW x PROVE FlowLog(s, x)
BY DEF FlowLog, EntryFrom

LEMMA ShardKept == ASSUME shard' = shard PROVE FlowShard
BY RanNothing DEF FlowShard

LEMMA ShardSame ==
    ASSUME TypeInv, NEW s \in Server, NEW sh, shard' = [shard EXCEPT ![s] = sh],
           sh.applied = shard[s].applied, sh.ledger = shard[s].ledger
    PROVE  FlowShard
<1>1. ASSUME NEW t \in Server
      PROVE  shard'[t].applied = shard[t].applied /\ shard'[t].ledger = shard[t].ledger
  BY DEF TypeInv, ShardInv
<1> QED
  BY <1>1, RanNothing DEF FlowShard

\* The shard of s ran on the log that s has after the step.
LEMMA ShardRan ==
    ASSUME TypeInv, NEW s \in Server, NEW sh, NEW r,
           shard' = [shard EXCEPT ![s] = r], Ran(sh, r, log'[s]),
           sh.applied = shard[s].applied, sh.ledger = shard[s].ledger
    PROVE  FlowShard
<1>1. Ran(shard[s], shard'[s], log'[s])
  <2>1. shard'[s] = r
    BY DEF TypeInv, ShardInv
  <2> QED
    BY <2>1, RanFrom
<1>2. ASSUME NEW t \in Server, t # s PROVE Ran(shard[t], shard'[t], log'[t])
  <2>1. shard'[t] = shard[t]
    BY <1>2 DEF TypeInv, ShardInv
  <2> QED
    BY <2>1, RanNothing
<1> QED
  BY <1>1, <1>2 DEF FlowShard

LEMMA CarryKept ==
    ASSUME txQueue' = txQueue,
           \A s \in Server : worker'[s].pc = "wait" => worker'[s] = worker[s]
    PROVE  FlowCarry
BY DEF FlowCarry

LEMMA NetPlain ==
    ASSUME \A n \in net' : n \in net \/ Plain(n), NEW R
    PROVE  FlowNet(R)
BY DEF FlowNet

LEMMA CopiedAppend ==
    ASSUME TypeInv, NEW s \in Server, NEW p \in Peers[s], NEW lg \in Seq(Entry),
           lg = log'[s], NEW n \in 0..Len(lg)
    PROVE  Copied(AppendEntries(s, p, lg, n))
<1> DEFINE m == AppendEntries(s, p, lg, n)
<1>1. /\ m \in AppendT /\ m.to = p /\ m.from = s /\ m.prev = n
      /\ Len(m.entries) = Len(lg) - n
      /\ \A i \in 1..(Len(lg) - n) :
            /\ m.entries[i].tx = lg[n + i].tx
            /\ m.entries[i].committed = lg[n + i].committed
  <2>1. /\ Fits(m) /\ m.type = "APPEND_ENTRIES" /\ m \in AppendT
        /\ m.to = p /\ m.from = s /\ m.prev = n
        /\ Len(m.entries) = Len(lg) - n
        /\ \A i \in 1..(Len(lg) - n) :
              /\ m.entries[i].tx = lg[n + i].tx
              /\ m.entries[i].term = lg[n + i].term
              /\ m.entries[i].committed = lg[n + i].committed
              /\ lg[n + i].body = "object" => m.entries[i].body # "none"
    BY FitsAppend
  <2> HIDE DEF m
  <2> QED
    BY <2>1
<1> HIDE DEF m
<1>2. m.entries \in Seq(Entry)
  BY <1>1 DEF AppendT
<1>3. DOMAIN m.entries = 1..(Len(lg) - n) /\ DOMAIN lg = 1..Len(lg) /\ Len(lg) \in Nat
  BY <1>1, <1>2, LenProperties
<1>4. \A k \in DOMAIN m.entries : n + k \in DOMAIN lg
  BY <1>3
<1>5. Copied(m)
  BY <1>1, <1>3, <1>4, PeerFacts DEF Copied
<1> QED
  BY <1>5 DEF m


-----------------------------------------------------------------------------
(* The steps that move no transfer. *)

LEMMA RanUpdate ==
    ASSUME TypeInv, NEW s \in Server, NEW mi, NEW r,
           \/ r = UpdateCommitIndex(s, shard[s], mi)
           \/ r = NothingDone(s, shard[s])
    PROVE  Ran(shard[s], r.sh, log[s]) /\ \A n \in r.out : Plain(n)
<1>0. shard[s] \in ShardT(s) /\ log[s] \in Seq(Entry) /\ commitIndex[s] \in Nat
  BY CurrentTyped
<1>1. CASE r = NothingDone(s, shard[s])
  BY <1>1, NothingTyped, RanNothing
<1>2. CASE r = UpdateCommitIndex(s, shard[s], mi)
  <2>1. /\ r.ci \in Nat
        /\ \/ r = NothingDone(s, shard[s])
           \/ Voted(s, shard[s], r)
           \/ r = ApplyCommitted(s, shard[s], log[s], r.ci, role[s] = "leader")
    BY <1>0, <1>2, UpdateCommitCases
  <2>2. CASE Voted(s, shard[s], r)
    <3>1. r.sh.applied = shard[s].applied /\ r.sh.ledger = shard[s].ledger
      BY <1>0, <2>2 DEF Voted, ShardT
    <3>2. \A n \in r.out : Plain(n)
      BY <2>2 DEF Voted, Plain, Vote
    <3> QED
      BY <3>1, <3>2, RanNothing
  <2>3. CASE r = ApplyCommitted(s, shard[s], log[s], r.ci, role[s] = "leader")
    <3>1. r.out \subseteq ResponseT
      BY <1>0, <2>1, <2>3, ApplyCommittedTyped
    <3>2. Ran(shard[s], r.sh, log[s])
      BY <1>0, <2>1, <2>3, RanCommitted
    <3> QED
      BY <3>1, <3>2 DEF ResponseT, Plain
  <2> QED
    BY <1>1, <2>1, <2>2, <2>3
<1> QED
  BY <1>1, <1>2

LEMMA StartElectionStill ==
    ASSUME TypeInv, NEW s \in Server, StartElection(s)
    PROVE  Still
<1>1. FlowLog(NoServer, NoTx)
  BY LogKept DEF StartElection, logVars, serverVars
<1>2. FlowShard
  BY ShardKept DEF StartElection, serverVars
<1>3. FlowCarry
  BY CarryKept DEF StartElection, threadVars, serverVars
<1>4. FlowNet({})
  <2>1. \A p : Plain(RequestVote(s, currentTerm[s] + 1, p))
    BY DEF Plain, RequestVote
  <2> QED
    BY <2>1, NetPlain DEF StartElection, Send
<1> QED
  BY <1>1, <1>2, <1>3, <1>4 DEF Still

LEMMA AbandonElectionStill ==
    ASSUME TypeInv, NEW s \in Server, NEW m \in net, m.to = s, AbandonElection(s, m)
    PROVE  Still
<1>1. FlowLog(NoServer, NoTx)
  BY LogKept DEF AbandonElection, logVars, serverVars
<1>2. FlowShard
  BY ShardKept DEF AbandonElection, serverVars
<1>3. FlowCarry
  BY CarryKept DEF AbandonElection, threadVars, serverVars
<1>4. FlowNet({})
  BY NetPlain DEF AbandonElection, Reply, Send, Plain
<1> QED
  BY <1>1, <1>2, <1>3, <1>4 DEF Still

LEMMA BecomeLeaderStill ==
    ASSUME TypeInv, NEW s \in Server, NEW m \in net, m.to = s, BecomeLeader(s, m)
    PROVE  Still
<1>1. FlowLog(NoServer, NoTx)
  BY LogKept DEF BecomeLeader, logVars, serverVars
<1>2. FlowShard
  BY ShardKept DEF BecomeLeader, serverVars
<1>3. FlowCarry
  BY CarryKept DEF BecomeLeader, threadVars, serverVars
<1>4. FlowNet({})
  BY NetPlain DEF BecomeLeader, Reply, Send, Plain
<1> QED
  BY <1>1, <1>2, <1>3, <1>4 DEF Still

LEMMA DropStill ==
    ASSUME TypeInv, NEW s \in Server, NEW m \in net, m.to = s, Drop(s, m)
    PROVE  Still
<1>1. FlowLog(NoServer, NoTx)
  BY LogKept DEF Drop, logVars, serverVars
<1>2. FlowShard
  BY ShardKept DEF Drop, serverVars
<1>3. FlowCarry
  BY CarryKept DEF Drop, threadVars, serverVars
<1>4. FlowNet({})
  BY NetPlain DEF Drop, Reply, Send, Plain
<1> QED
  BY <1>1, <1>2, <1>3, <1>4 DEF Still

LEMMA HandleVoteRequestStill ==
    ASSUME TypeInv, NEW s \in Server, NEW m \in net, m.to = s, HandleVoteRequest(s, m)
    PROVE  Still
<1>1. FlowLog(NoServer, NoTx)
  BY LogKept DEF HandleVoteRequest, logVars, serverVars
<1>2. FlowShard
  BY ShardKept DEF HandleVoteRequest, serverVars
<1>3. FlowCarry
  BY CarryKept DEF HandleVoteRequest, threadVars, serverVars
<1>4. FlowNet({})
  <2>1. Plain(VoteResponse(s, TermOf(s, m.term), m.from))
    BY DEF Plain, VoteResponse
  <2> QED
    BY <2>1, NetPlain DEF HandleVoteRequest, Reply
<1> QED
  BY <1>1, <1>2, <1>3, <1>4 DEF Still

LEMMA StaleAppendStill ==
    ASSUME TypeInv, NEW s \in Server, NEW m \in net, m.to = s, StaleAppend(s, m)
    PROVE  Still
<1>1. FlowLog(NoServer, NoTx)
  BY LogKept DEF StaleAppend, logVars, serverVars
<1>2. FlowShard
  BY ShardKept DEF StaleAppend, serverVars
<1>3. FlowCarry
  BY CarryKept DEF StaleAppend, threadVars, serverVars
<1>4. FlowNet({})
  <2>1. Plain(AppendAck(s, m.from, FALSE))
    BY DEF Plain, AppendAck
  <2> QED
    BY <2>1, NetPlain DEF StaleAppend, Reply
<1> QED
  BY <1>1, <1>2, <1>3, <1>4 DEF Still

LEMMA RefuseAppendStill ==
    ASSUME TypeInv, NEW s \in Server, NEW m \in net, m.to = s, RefuseAppend(s, m)
    PROVE  Still
<1>1. FlowLog(NoServer, NoTx)
  BY LogKept DEF RefuseAppend, logVars, serverVars
<1>2. FlowShard
  BY ShardKept DEF RefuseAppend, serverVars
<1>3. FlowCarry
  BY CarryKept DEF RefuseAppend, threadVars, serverVars
<1>4. FlowNet({})
  <2>1. Plain(AppendAck(s, m.from, FALSE))
    BY DEF Plain, AppendAck
  <2> QED
    BY <2>1, NetPlain DEF RefuseAppend, Reply
<1> QED
  BY <1>1, <1>2, <1>3, <1>4 DEF Still

LEMMA AcceptAppendStill ==
    ASSUME TypeInv, NEW s \in Server, NEW m \in net, m.to = s, AcceptAppend(s, m)
    PROVE  Still
<1> DEFINE ci == CommitAfter(s, m)
           sh == Received(s, m)
           lg == Merged(s, m)
           r == IF ci > commitIndex[s]
                THEN ApplyCommitted(s, sh, lg, ci, RoleAt(s, m.term) = "leader")
                ELSE NothingDone(s, sh)
<1>a. /\ m \in AppendT /\ Consistent(s, m)
      /\ shard' = [shard EXCEPT ![s] = r.sh] /\ log' = [log EXCEPT ![s] = lg]
      /\ Reply(m, r.out \cup IF r.failed THEN {} ELSE {AppendAck(s, m.from, TRUE)})
  BY SeeLeaderTyped DEF AcceptAppend
<1>b. /\ ci \in Nat /\ lg \in Seq(Entry) /\ sh \in ShardT(s)
      /\ sh.ledger = shard[s].ledger /\ sh.applied = shard[s].applied
      /\ log'[s] = lg
  BY <1>a, CommitAfterTyped, MergedTyped, ReceivedTyped DEF TypeInv, LogInv
<1>c. Ran(sh, r.sh, lg) /\ \A n \in r.out : Plain(n)
  <2>1. CASE ci > commitIndex[s]
    <3>1. r = ApplyCommitted(s, sh, lg, ci, RoleAt(s, m.term) = "leader")
      BY <2>1
    <3> HIDE DEF ci, sh, lg, r
    <3>2. Ran(sh, r.sh, lg) /\ r.out \subseteq ResponseT
      BY <1>b, <3>1, RanCommitted, ApplyCommittedTyped
    <3>3. \A n \in r.out : Plain(n)
      BY <3>2 DEF ResponseT, Plain
    <3> QED
      BY <3>2, <3>3 DEF r, sh, lg
  <2>2. CASE ~(ci > commitIndex[s])
    <3>1. r.sh = sh /\ r.out = {}
      BY <2>2 DEF NothingDone
    <3> HIDE DEF r, sh, lg
    <3>2. Ran(sh, r.sh, lg)
      BY <3>1, RanNothing
    <3> QED
      BY <3>1, <3>2 DEF r, sh, lg
  <2> QED
    BY <2>1, <2>2
<1>1. FlowLog(NoServer, NoTx)
  <2>1. ASSUME NEW i \in DOMAIN lg PROVE EntryFrom(s, i)
    <3>1. \/ i \in DOMAIN log[s] /\ lg[i] = log[s][i]
          \/ /\ i > m.prev /\ i - m.prev \in DOMAIN m.entries
             /\ lg[i] = m.entries[i - m.prev]
      BY <1>a, MergedTyped
    <3> HIDE DEF lg
    <3> QED
      BY <1>a, <1>b, <3>1 DEF EntryFrom
  <2>2. ASSUME NEW t \in Server, t # s, NEW i \in DOMAIN log'[t] PROVE EntryFrom(t, i)
    <3>1. log'[t] = log[t]
      BY <1>a, <2>2 DEF TypeInv, LogInv
    <3> QED
      BY <2>2, <3>1 DEF EntryFrom
  <2> QED
    BY <1>b, <2>1, <2>2 DEF FlowLog
<1>2. FlowShard
  <2> HIDE DEF sh, r, lg
  <2> QED
    BY <1>a, <1>b, <1>c, ShardRan
<1>3. FlowCarry
  BY CarryKept DEF AcceptAppend, threadVars, serverVars
<1>4. FlowNet({})
  <2>1. Plain(AppendAck(s, m.from, TRUE))
    BY DEF Plain, AppendAck
  <2> HIDE DEF r
  <2> QED
    BY <1>a, <1>c, <2>1, NetPlain DEF Reply
<1> QED
  BY <1>1, <1>2, <1>3, <1>4 DEF Still

LEMMA QueueAckStill ==
    ASSUME TypeInv, NEW s \in Server, NEW m \in net, m.to = s, QueueAck(s, m)
    PROVE  Still
<1>1. FlowLog(NoServer, NoTx)
  BY LogKept DEF QueueAck, logVars, serverVars
<1>2. FlowShard
  BY ShardKept DEF QueueAck, serverVars
<1>3. FlowCarry
  BY CarryKept DEF QueueAck, threadVars, serverVars
<1>4. FlowNet({})
  BY NetPlain DEF QueueAck, Reply, Send, Plain
<1> QED
  BY <1>1, <1>2, <1>3, <1>4 DEF Still

LEMMA TakeAckStill ==
    ASSUME TypeInv, NEW s \in Server, NEW m \in net, m.to = s, TakeAck(s, m)
    PROVE  Still
<1>1. FlowLog(NoServer, NoTx)
  BY LogKept DEF TakeAck, logVars, serverVars
<1>2. FlowShard
  BY ShardKept DEF TakeAck, serverVars
<1>3. FlowCarry
  BY CarryKept DEF TakeAck, threadVars, serverVars
<1>4. FlowNet({})
  BY NetPlain DEF TakeAck, Reply, Send, Plain
<1> QED
  BY <1>1, <1>2, <1>3, <1>4 DEF Still

LEMMA CountAckStill ==
    ASSUME TypeInv, NEW s \in Server, NEW m \in counting[s], CountAck(s, m)
    PROVE  Still
<1> DEFINE mi == [matchIndex[s] EXCEPT ![m.from] = Len(log[s])]
           some == {p \in Peers[s] : mi[p] >= commitIndex[s]}
           r == IF Cardinality(some) > Cardinality(Peers[s]) \div 2
                THEN UpdateCommitIndex(s, shard[s], mi)
                ELSE NothingDone(s, shard[s])
<1>a. /\ shard' = [shard EXCEPT ![s] = r.sh] /\ log' = log
      /\ Send(r.out)
  BY DEF CountAck, Counted
<1>b. r = UpdateCommitIndex(s, shard[s], mi) \/ r = NothingDone(s, shard[s])
  OBVIOUS
<1> HIDE DEF r, mi
<1>c. Ran(shard[s], r.sh, log[s]) /\ \A n \in r.out : Plain(n)
  BY <1>b, RanUpdate
<1>1. FlowLog(NoServer, NoTx)
  BY <1>a, LogKept
<1>2. FlowShard
  BY <1>a, <1>c, ShardRan
<1>3. FlowCarry
  BY CarryKept DEF CountAck, Counted
<1>4. FlowNet({})
  BY <1>a, <1>c, NetPlain DEF Send
<1> QED
  BY <1>1, <1>2, <1>3, <1>4 DEF Still

LEMMA RepairFollowerStill ==
    ASSUME TypeInv, NEW s \in Server, NEW m \in counting[s], RepairFollower(s, m)
    PROVE  Still
<1>1. FlowLog(NoServer, NoTx)
  BY LogKept DEF RepairFollower, Counted
<1>2. FlowShard
  BY ShardKept DEF RepairFollower
<1>3. FlowCarry
  BY CarryKept DEF RepairFollower, Counted
<1>4. FlowNet({})
  <2> DEFINE next == SteppedBack(nextIndex[s][m.from])
             d == AppendEntries(s, m.from, log[s], next)
  <2>1. m.from \in Peers[s] /\ next \in Nat
    BY CurrentTyped, SteppedTyped DEF AckT
  <2>2. Send({}) \/ (Send({d}) /\ CanSend(log[s], next))
    BY DEF RepairFollower
  <2>3. log' = log
    BY DEF RepairFollower, Counted
  <2> HIDE DEF next
  <2>4. ASSUME CanSend(log[s], next) PROVE Copied(d)
    <3>1. next \in 0..Len(log[s]) /\ log[s] \in Seq(Entry)
      BY <2>1, <2>4, CurrentTyped DEF CanSend
    <3> QED
      BY <2>1, <2>3, <3>1, CopiedAppend
  <2> HIDE DEF d
  <2> QED
    BY <2>2, <2>4 DEF FlowNet, Send
<1> QED
  BY <1>1, <1>2, <1>3, <1>4 DEF Still

LEMMA IgnoreDecisionStill ==
    ASSUME TypeInv, NEW s \in Server, NEW m \in net, m.to = s, IgnoreDecision(s, m)
    PROVE  Still
<1>1. FlowLog(NoServer, NoTx)
  BY LogKept DEF IgnoreDecision, logVars, serverVars
<1>2. FlowShard
  BY ShardKept DEF IgnoreDecision, serverVars
<1>3. FlowCarry
  BY CarryKept DEF IgnoreDecision, threadVars, serverVars
<1>4. FlowNet({})
  BY NetPlain DEF IgnoreDecision, Reply, Send, Plain
<1> QED
  BY <1>1, <1>2, <1>3, <1>4 DEF Still

LEMMA HandleDecisionStill ==
    ASSUME TypeInv, NEW s \in Server, NEW m \in net, m.to = s, HandleDecision(s, m)
    PROVE  Still
<1> DEFINE lg == DecidedLog(s, m)
           sh == IF Decidable(s, m.tx) = {} THEN shard[s] ELSE LogSaved(shard[s])
           sh2 == [sh EXCEPT !.pending = @ \ {m.tx}]
           r == ApplyCommitted(s, sh2, lg, commitIndex[s], role[s] = "leader")
<1>a. m \in DecisionT /\ m.type \in {"COMMIT", "ABORT"}
  BY MessageFacts DEF HandleDecision
<1>b. /\ shard' = [shard EXCEPT ![s] = r.sh] /\ log' = [log EXCEPT ![s] = lg]
      /\ Reply(m, r.out \cup IF r.failed THEN {} ELSE {Ack(s, m.tx)})
  BY DEF HandleDecision, DecidedLog
<1>c. sh2 \in ShardT(s) /\ sh2.applied = shard[s].applied /\ sh2.ledger = shard[s].ledger
  <2>1. shard[s] \in ShardT(s)
    BY CurrentTyped
  <2>2. sh \in ShardT(s) /\ sh.applied = shard[s].applied /\ sh.ledger = shard[s].ledger
    BY <2>1 DEF LogSaved, ShardT
  <2> HIDE DEF sh
  <2> QED
    BY <2>2 DEF ShardT
<1>d. lg \in Seq(Entry) /\ commitIndex[s] \in Nat
  BY <1>a, DecidedTyped, CurrentTyped
<1>e. log'[s] = lg
  BY <1>b DEF TypeInv, LogInv
<1>f. Ran(sh2, r.sh, lg) /\ \A n \in r.out : Plain(n)
  <2> HIDE DEF sh2, lg
  <2>1. Ran(sh2, r.sh, lg) /\ r.out \subseteq ResponseT
    BY <1>c, <1>d, RanCommitted, ApplyCommittedTyped
  <2> QED
    BY <2>1 DEF ResponseT, Plain
<1>1. FlowLog(NoServer, NoTx)
  <2>1. ASSUME NEW i \in DOMAIN lg PROVE EntryFrom(s, i)
    <3>1. /\ i \in DOMAIN log[s] /\ lg[i].tx = log[s][i].tx
          /\ \/ lg[i].committed = log[s][i].committed
             \/ lg[i].committed = (m.type = "COMMIT") /\ lg[i].tx = m.tx
      BY <1>a, DecidedTyped
    <3> HIDE DEF lg
    <3> QED
      BY <1>a, <1>e, <3>1 DEF EntryFrom
  <2>2. ASSUME NEW t \in Server, t # s, NEW i \in DOMAIN log'[t] PROVE EntryFrom(t, i)
    <3>1. log'[t] = log[t]
      BY <1>b, <2>2 DEF TypeInv, LogInv
    <3> QED
      BY <2>2, <3>1 DEF EntryFrom
  <2> QED
    BY <1>e, <2>1, <2>2 DEF FlowLog
<1>2. FlowShard
  <2> HIDE DEF sh2, r, lg
  <2> QED
    BY <1>b, <1>c, <1>e, <1>f, ShardRan
<1>3. FlowCarry
  BY CarryKept DEF HandleDecision, threadVars, serverVars
<1>4. FlowNet({})
  <2>1. Plain(Ack(s, m.tx))
    BY DEF Plain, Ack
  <2> HIDE DEF r
  <2> QED
    BY <1>b, <1>f, <2>1, NetPlain DEF Reply
<1> QED
  BY <1>1, <1>2, <1>3, <1>4 DEF Still

\* A transfer leaves the queue.
LEMMA InTail ==
    ASSUME NEW q \in Seq(Tx), q # <<>>
    PROVE  /\ In(Head(q), q) /\ \A x : In(x, Tail(q)) => In(x, q)
           /\ OneToOne(q) => OneToOne(Tail(q)) /\ ~In(Head(q), Tail(q))
<1> DEFINE t == Tail(q)
           n == Len(t)
<1>1. /\ n \in Nat /\ t \in Seq(Tx) /\ Len(q) = n + 1
      /\ \A i \in 1..n : t[i] = q[i + 1]
  BY HeadTailProperties, LenProperties, EmptySeq
<1>2. DOMAIN q = 1..(n + 1)
  BY <1>1, LenProperties
<1>3. DOMAIN t = 1..n
  <2> HIDE DEF t
  <2> QED
    BY <1>1, LenProperties
<1>4. Head(q) = q[1] /\ 1 \in DOMAIN q
  BY <1>1, <1>2
<1> HIDE DEF t, n
<1>5. ASSUME NEW i \in DOMAIN t PROVE i + 1 \in DOMAIN q /\ t[i] = q[i + 1] /\ i \in Nat \ {0}
  BY <1>1, <1>2, <1>3
<1>6. \A x : In(x, t) => In(x, q)
  BY <1>5 DEF In
<1>7. ASSUME OneToOne(q) PROVE OneToOne(t)
  <2>1. ASSUME NEW i \in DOMAIN t, NEW j \in DOMAIN t, t[i] = t[j] PROVE i = j
    <3>1. i + 1 = j + 1
      BY <1>5, <1>7, <2>1 DEF OneToOne
    <3> QED
      BY <1>5, <3>1
  <2> QED
    BY <2>1 DEF OneToOne
<1>8. ASSUME OneToOne(q), In(q[1], t) PROVE FALSE
  <2>1. PICK i \in DOMAIN t : t[i] = q[1]
    BY <1>8 DEF In
  <2>2. i + 1 = 1
    BY <1>4, <1>5, <1>8, <2>1 DEF OneToOne
  <2> QED
    BY <1>5, <2>2
<1> QED
  BY <1>4, <1>6, <1>7, <1>8 DEF In, t

LEMMA CarryTaken ==
    ASSUME TypeInv, NEW s \in Server, txQueue[s] # <<>>,
           txQueue' = [txQueue EXCEPT ![s] = Tail(@)], worker' = worker
    PROVE  FlowCarry
<1>1. txQueue'[s] = Tail(txQueue[s]) /\ \A t \in Server : t # s => txQueue'[t] = txQueue[t]
  BY DEF TypeInv, QueueInv
<1>2. txQueue[s] \in Seq(Tx)
  BY CurrentTyped
<1>3. /\ \A x : In(x, txQueue'[s]) => In(x, txQueue[s])
      /\ OneToOne(txQueue[s]) => OneToOne(txQueue'[s])
  BY <1>1, <1>2, InTail
<1> QED
  BY <1>1, <1>3 DEF FlowCarry

LEMMA RejectTransferStill ==
    ASSUME TypeInv, NEW s \in Server, RejectTransfer(s)
    PROVE  Still
<1>1. FlowLog(NoServer, NoTx)
  BY LogKept DEF RejectTransfer, logVars, serverVars
<1>2. FlowShard
  BY ShardKept DEF RejectTransfer, serverVars
<1>3. FlowCarry
  <2>1. txQueue[s] # <<>> /\ txQueue' = [txQueue EXCEPT ![s] = Tail(@)]
    BY DEF RejectTransfer, NextInQueue, Taken
  <2>2. worker' = worker
    BY DEF RejectTransfer
  <2> QED
    BY <2>1, <2>2, CarryTaken
<1>4. FlowNet({})
  <2>1. \A x : Plain(Vote(s, x, "no")) /\ Plain(ClientResponse(x, FALSE))
    BY DEF Plain, Vote, ClientResponse
  <2> QED
    BY <2>1, NetPlain DEF RejectTransfer, Send
<1> QED
  BY <1>1, <1>2, <1>3, <1>4 DEF Still

LEMMA LockTimeoutStill ==
    ASSUME TypeInv, NEW s \in Server, LockTimeout(s)
    PROVE  Still
<1>1. FlowLog(NoServer, NoTx)
  BY LogKept DEF LockTimeout, logVars, serverVars
<1>2. FlowShard
  BY ShardKept DEF LockTimeout, serverVars
<1>3. FlowCarry
  <2>1. worker' = [worker EXCEPT ![s] = worker'[s]] /\ worker'[s].pc # "wait"
        /\ txQueue' = txQueue
    BY DEF LockTimeout, TypeInv, WorkerInv, Idle
  <2> QED
    BY <2>1, CarryKept DEF TypeInv, WorkerInv
<1>4. FlowNet({})
  <2>1. \A x : Plain(ClientResponse(x, FALSE))
    BY DEF Plain, ClientResponse
  <2> QED
    BY <2>1, NetPlain DEF LockTimeout, Send
<1> QED
  BY <1>1, <1>2, <1>3, <1>4 DEF Still

LEMMA CountWorkerAckStill ==
    ASSUME TypeInv, NEW s \in Server, ackQueue[s] # <<>>, CountWorkerAck(s, Head(ackQueue[s]))
    PROVE  Still
<1> DEFINE a == Head(ackQueue[s])
           mi == [matchIndex[s] EXCEPT ![a.from] = Len(log[s])]
           r == UpdateCommitIndex(s, shard[s], mi)
<1>a. /\ shard' = [shard EXCEPT ![s] = r.sh] /\ log' = log
      /\ Send(r.out)
  BY DEF CountWorkerAck, PoppedAck
<1>c. Ran(shard[s], r.sh, log[s]) /\ \A n \in r.out : Plain(n)
  <2> HIDE DEF mi
  <2> QED
    BY RanUpdate
<1> HIDE DEF r
<1>1. FlowLog(NoServer, NoTx)
  BY <1>a, LogKept
<1>2. FlowShard
  BY <1>a, <1>c, ShardRan
<1>3. FlowCarry
  <2>1. \/ worker' = [worker EXCEPT ![s] = [worker[s] EXCEPT !.pc = "dead"]]
        \/ worker' = [worker EXCEPT ![s] = Idle]
    BY DEF CountWorkerAck
  <2>2. \A t \in Server : worker'[t].pc = "wait" => worker'[t] = worker[t]
    BY <2>1 DEF TypeInv, WorkerInv, Idle
  <2>3. txQueue' = txQueue
    BY DEF CountWorkerAck, PoppedAck
  <2> QED
    BY <2>2, <2>3, CarryKept
<1>4. FlowNet({})
  BY <1>a, <1>c, NetPlain DEF Send
<1> QED
  BY <1>1, <1>2, <1>3, <1>4 DEF Still

LEMMA RetryFollowerStill ==
    ASSUME TypeInv, NEW s \in Server, ackQueue[s] # <<>>, RetryFollower(s, Head(ackQueue[s]))
    PROVE  Still
<1>1. FlowLog(NoServer, NoTx)
  BY LogKept DEF RetryFollower, PoppedAck, logVars, serverVars
<1>2. FlowShard
  BY ShardKept DEF RetryFollower, PoppedAck, serverVars
<1>3. FlowCarry
  <2>1. worker' = worker \/ worker' = [worker EXCEPT ![s].pc = "dead"]
    BY DEF RetryFollower
  <2>2. \A t \in Server : worker'[t].pc = "wait" => worker'[t] = worker[t]
    BY <2>1 DEF TypeInv, WorkerInv
  <2>3. txQueue' = txQueue
    BY DEF RetryFollower, PoppedAck
  <2> QED
    BY <2>2, <2>3, CarryKept
<1>4. FlowNet({})
  <2> DEFINE a == Head(ackQueue[s])
             next == SteppedBack(nextIndex[s][a.from])
             d == AppendEntries(s, a.from, log[s], next)
  <2>1. a.from \in Peers[s]
    BY AckHeadTyped DEF AckT
  <2>2. Send({}) \/ (Send({d}) /\ CanSend(log[s], next))
    BY DEF RetryFollower
  <2>3. log' = log
    BY DEF RetryFollower, PoppedAck
  <2> HIDE DEF a
  <2>4. next \in Nat
    BY <2>1, SteppedTyped
  <2> HIDE DEF next
  <2>5. ASSUME CanSend(log[s], next) PROVE Copied(d)
    <3>1. next \in 0..Len(log[s]) /\ log[s] \in Seq(Entry)
      BY <2>4, <2>5, CurrentTyped DEF CanSend
    <3> QED
      BY <2>1, <2>3, <3>1, CopiedAppend
  <2> HIDE DEF d
  <2> QED
    BY <2>2, <2>5 DEF FlowNet, Send
<1> QED
  BY <1>1, <1>2, <1>3, <1>4 DEF Still

LEMMA GiveUpStill ==
    ASSUME TypeInv, NEW s \in Server, GiveUp(s)
    PROVE  Still
<1>1. FlowLog(NoServer, NoTx)
  BY LogKept DEF GiveUp, logVars, serverVars
<1>2. FlowShard
  <2> DEFINE lk == shard[s].locks \ UNION {Touched(s, x) : x \in Undone(s)}
             sh == [shard[s] EXCEPT !.locks = lk]
  <2>1. shard' = [shard EXCEPT ![s] = sh]
    BY DEF GiveUp, TypeInv, ShardInv
  <2>2. shard[s] \in ShardT(s)
    BY CurrentTyped
  <2> HIDE DEF lk
  <2>3. sh.applied = shard[s].applied /\ sh.ledger = shard[s].ledger
    BY <2>2 DEF ShardT
  <2> HIDE DEF sh
  <2> QED
    BY <2>1, <2>3, ShardSame
<1>3. FlowCarry
  <2>1. worker' = [worker EXCEPT ![s] = worker'[s]] /\ worker'[s].pc # "wait"
        /\ txQueue' = txQueue
    BY DEF GiveUp, TypeInv, WorkerInv, Idle
  <2> QED
    BY <2>1, CarryKept DEF TypeInv, WorkerInv
<1>4. FlowNet({})
  <2>1. \A x : Plain(ClientResponse(x, FALSE))
    BY DEF Plain, ClientResponse
  <2> QED
    BY <2>1, NetPlain DEF GiveUp, Send
<1> QED
  BY <1>1, <1>2, <1>3, <1>4 DEF Still

LEMMA SendHeartbeatsStill ==
    ASSUME TypeInv, NEW s \in Server, SendHeartbeats(s)
    PROVE  Still
<1>1. FlowLog(NoServer, NoTx)
  BY LogKept DEF SendHeartbeats, logVars, serverVars
<1>2. FlowShard
  BY ShardKept DEF SendHeartbeats, serverVars
<1>3. FlowCarry
  BY CarryKept DEF SendHeartbeats, threadVars, serverVars
<1>4. FlowNet({})
  <2> DEFINE o == {AppendEntries(s, p, log[s], Len(log[s])) : p \in Peers[s]}
  <2>1. log' = log
    BY DEF SendHeartbeats, logVars
  <2>2. \A p \in Peers[s] : Copied(AppendEntries(s, p, log[s], Len(log[s])))
    <3>1. log[s] \in Seq(Entry) /\ Len(log[s]) \in 0..Len(log[s])
      BY CurrentTyped
    <3> QED
      BY <2>1, <3>1, CopiedAppend
  <2>3. Send(o) /\ \A n \in o : Copied(n)
    BY <2>2 DEF SendHeartbeats
  <2> HIDE DEF o
  <2> QED
    BY <2>3 DEF Send, FlowNet
<1> QED
  BY <1>1, <1>2, <1>3, <1>4 DEF Still

LEMMA CheckPendingStill ==
    ASSUME TypeInv, NEW s \in Server, NEW x, CheckPending(s, x)
    PROVE  Still
<1>1. FlowLog(NoServer, NoTx)
  BY LogKept DEF CheckPending, logVars, serverVars
<1>2. FlowShard
  <2> DEFINE sh == [shard[s] EXCEPT !.pending = @ \ {x}]
             sh2 == [shard[s] EXCEPT !.pending = @ \ {x}, !.locks = @ \ Touched(s, x)]
  <2>1. shard' = [shard EXCEPT ![s] = sh] \/ shard' = [shard EXCEPT ![s] = sh2]
    <3>1. \/ shard' = [shard EXCEPT ![s].pending = @ \ {x}]
          \/ shard' = [shard EXCEPT ![s] = sh2]
      BY DEF CheckPending
    <3>2. [shard EXCEPT ![s].pending = @ \ {x}] = [shard EXCEPT ![s] = sh]
      OBVIOUS
    <3> QED
      BY <3>1, <3>2, Zenon
  <2>2. shard[s] \in ShardT(s)
    BY CurrentTyped
  <2>3. /\ sh.applied = shard[s].applied /\ sh.ledger = shard[s].ledger
        /\ sh2.applied = shard[s].applied /\ sh2.ledger = shard[s].ledger
    BY <2>2 DEF ShardT
  <2> HIDE DEF sh, sh2
  <2> QED
    BY <2>1, <2>3, ShardSame
<1>3. FlowCarry
  BY CarryKept DEF CheckPending, threadVars, serverVars
<1>4. FlowNet({})
  <2>1. Plain(Ack(s, x))
    BY DEF Plain, Ack
  <2> QED
    BY <2>1, NetPlain DEF CheckPending, Send
<1> QED
  BY <1>1, <1>2, <1>3, <1>4 DEF Still

LEMMA RestartStill ==
    ASSUME TypeInv, NEW s \in Server, Restart(s)
    PROVE  Still
<1>1. FlowLog(NoServer, NoTx)
  <2>1. ASSUME NEW t \in Server, NEW i \in DOMAIN log'[t] PROVE EntryFrom(t, i)
    <3>1. CASE t = s
      BY <2>1, <3>1, RestartLog DEF EntryFrom
    <3>2. CASE t # s
      <4>1. log'[t] = log[t]
        BY <3>2 DEF Restart, TypeInv, LogInv
      <4> QED
        BY <2>1, <4>1 DEF EntryFrom
    <3> QED
      BY <3>1, <3>2
  <2> QED
    BY <2>1 DEF FlowLog
<1>2. FlowShard
  <2> DEFINE theirs == shard[ConfigLast].savedApplied
             last == IF theirs = MissingKey THEN shard[s].savedCommit ELSE theirs
             sh == [shard[s] EXCEPT !.locks = {}, !.pending = {},
                                    !.lastApplied = last]
  <2>1. shard' = [shard EXCEPT ![s] = sh]
    BY DEF Restart
  <2>2. shard[s] \in ShardT(s)
    BY CurrentTyped
  <2> HIDE DEF last
  <2>3. sh.applied = shard[s].applied /\ sh.ledger = shard[s].ledger
    BY <2>2 DEF ShardT
  <2> HIDE DEF sh
  <2> QED
    BY <2>1, <2>3, ShardSame
<1>3. FlowCarry
  <2>1. /\ txQueue' = [txQueue EXCEPT ![s] = <<>>]
        /\ worker' = [worker EXCEPT ![s] = Idle]
    BY DEF Restart
  <2>2. ~(\E x : In(x, <<>>)) /\ OneToOne(<<>>)
    BY DEF In, OneToOne
  <2> QED
    BY <2>1, <2>2 DEF FlowCarry, TypeInv, QueueInv, WorkerInv, Idle
<1>4. FlowNet({})
  BY NetPlain DEF Restart, Reply, Send, Plain
<1> QED
  BY <1>1, <1>2, <1>3, <1>4 DEF Still


-----------------------------------------------------------------------------
(* The steps that move a transfer: into a queue, to the wait for its locks,  *)
(* into the log.                                                             *)

LEMMA TakeRequestFlow ==
    ASSUME TypeInv, NEW s \in Server, NEW m \in net, m.to = s, TakeRequest(s, m)
    PROVE  /\ m \in RequestT /\ FlowLog(NoServer, NoTx) /\ FlowShard
           /\ worker' = worker
           /\ \/ txQueue' = txQueue /\ net' = net \ {m}
              \/ /\ txQueue' = txQueue /\ currentLeader[s] \in Peers[s]
                 /\ net' = (net \ {m}) \cup {[m EXCEPT !.to = currentLeader[s]]}
              \/ /\ txQueue' = [txQueue EXCEPT ![s] = Append(@, m.tx)]
                 /\ net' = net \ {m}
<1>1. m \in RequestT
  BY MessageFacts DEF TakeRequest
<1>2. FlowLog(NoServer, NoTx) /\ FlowShard
  BY LogKept, ShardKept DEF TakeRequest, logVars
<1>3. currentLeader[s] \in Peers[s] \cup {NoServer}
  BY DEF TypeInv, ElectionInv
<1> QED
  BY <1>1, <1>2, <1>3 DEF TakeRequest, Reply

LEMMA AwaitLocksFlow ==
    ASSUME TypeInv, NEW s \in Server, AwaitLocks(s)
    PROVE  \E x \in Tx :
              /\ txQueue[s] # <<>> /\ x = Head(txQueue[s])
              /\ txQueue' = [txQueue EXCEPT ![s] = Tail(@)]
              /\ worker'[s].tx = x
              /\ \A t \in Server : t # s => worker'[t] = worker[t]
              /\ net' = net /\ FlowLog(NoServer, NoTx) /\ FlowShard
<1>1. FlowLog(NoServer, NoTx) /\ FlowShard /\ net' = net
  BY LogKept, ShardKept DEF AwaitLocks, logVars
<1>2. PICK x \in Tx :
         /\ NextInQueue(s, x) /\ Taken(s)
         /\ worker' = [worker EXCEPT ![s] = [Idle EXCEPT !.pc = "wait", !.tx = x]]
  BY DEF AwaitLocks
<1>3. worker'[s].tx = x /\ \A t \in Server : t # s => worker'[t] = worker[t]
  BY <1>2 DEF TypeInv, WorkerInv, Idle
<1> QED
  BY <1>1, <1>2, <1>3 DEF NextInQueue, Taken

LEMMA AppendFlow ==
    ASSUME TypeInv, NEW s \in Server, NEW x \in Tx, AppendTransfer(s, x)
    PROVE  /\ FlowLog(s, x) /\ FlowNet({}) /\ FlowShard
           /\ worker'[s].pc # "wait"
           /\ \A t \in Server : t # s => worker'[t] = worker[t]
<1> DEFINE lg == Append(log[s], NewEntry(s, x))
<1>1. log' = [log EXCEPT ![s] = lg] /\ log'[s] = lg
  BY DEF AppendTransfer, TypeInv, LogInv
<1>2. /\ lg \in Seq(Entry) /\ DOMAIN lg = 1..(Len(log[s]) + 1)
      /\ \A i \in 1..Len(log[s]) : lg[i] = log[s][i]
      /\ lg[Len(log[s]) + 1] = NewEntry(s, x)
  BY AppendedLog
<1>3. FlowLog(s, x)
  <2>1. ASSUME NEW i \in DOMAIN lg PROVE EntryFrom(s, i) \/ EntryNew(s, x, i)
    <3>1. i \in DOMAIN log[s] \/ i = Len(log[s]) + 1
      BY <1>2, CurrentTyped
    <3>2. CASE i \in DOMAIN log[s]
      <4>1. log'[s][i] = log[s][i]
        BY <1>1, <1>2, <3>2, CurrentTyped
      <4> QED
        BY <3>2, <4>1 DEF EntryFrom
    <3>3. CASE i = Len(log[s]) + 1
      <4>1. log'[s][i] = NewEntry(s, x)
        BY <1>1, <1>2, <3>3
      <4> QED
        BY <3>3, <4>1 DEF EntryNew, NewEntry
    <3> QED
      BY <3>1, <3>2, <3>3
  <2>2. ASSUME NEW t \in Server, t # s, NEW i \in DOMAIN log'[t] PROVE EntryFrom(t, i)
    <3>1. log'[t] = log[t]
      BY <1>1, <2>2 DEF TypeInv, LogInv
    <3> QED
      BY <2>2, <3>1 DEF EntryFrom
  <2> QED
    BY <1>1, <2>1, <2>2 DEF FlowLog
<1>4. FlowNet({})
  BY NetPlain DEF AppendTransfer
<1>5. FlowShard
  <2> DEFINE sh == LogSaved([shard[s] EXCEPT !.locks = @ \cup Touched(s, x)])
  <2>1. shard' = [shard EXCEPT ![s] = sh]
    BY DEF AppendTransfer
  <2>2. sh.applied = shard[s].applied /\ sh.ledger = shard[s].ledger
    <3>1. shard[s] \in ShardT(s)
      BY CurrentTyped
    <3> QED
      BY <3>1 DEF LogSaved, ShardT
  <2> HIDE DEF sh
  <2> QED
    BY <2>1, <2>2, ShardSame
<1>6. /\ worker'[s].pc # "wait"
      /\ \A t \in Server : t # s => worker'[t] = worker[t]
  BY DEF AppendTransfer, TypeInv, WorkerInv
<1> QED
  BY <1>3, <1>4, <1>5, <1>6

LEMMA ReplicateStill ==
    ASSUME TypeInv, NEW s \in Server, Replicate(s)
    PROVE  Still
<1>1. FlowLog(NoServer, NoTx)
  BY LogKept DEF Replicate, logVars
<1>2. FlowShard
  BY ShardKept DEF Replicate
<1>3. FlowCarry
  <2>1. worker[s].pc = "append" /\ \E k \in {"repl", "dead"} : worker' = [worker EXCEPT ![s].pc = k]
    BY DEF Replicate
  <2>2. \A t \in Server : worker'[t].pc = "wait" => worker'[t] = worker[t]
    BY <2>1 DEF TypeInv, WorkerInv
  <2> QED
    BY <2>2, CarryKept DEF Replicate
<1>4. FlowNet({})
  <2>1. PICK to \in SUBSET {p \in Peers[s] : nextIndex'[s][p] <= Len(log[s])} :
           Send({AppendEntries(s, p, log[s], nextIndex'[s][p]) : p \in to})
    BY ReplicateNet
  <2>2. log' = log
    BY DEF Replicate, logVars
  <2>3. ASSUME NEW p \in to PROVE Copied(AppendEntries(s, p, log[s], nextIndex'[s][p]))
    <3>1. /\ p \in Peers[s] /\ log[s] \in Seq(Entry)
          /\ nextIndex'[s][p] \in 0..Len(log[s])
      BY <2>1, ReplicateNet, CurrentTyped
    <3> QED
      BY <2>2, <3>1, CopiedAppend
  <2> DEFINE o == {AppendEntries(s, p, log[s], nextIndex'[s][p]) : p \in to}
  <2>4. Send(o) /\ \A n \in o : Copied(n)
    BY <2>1, <2>3
  <2> HIDE DEF o
  <2> QED
    BY <2>4 DEF Send, FlowNet
<1> QED
  BY <1>1, <1>2, <1>3, <1>4 DEF Still

\* The requests of Issue: one for each cluster.
IssueFlow ==
    /\ nextTx \in Tx /\ nextTx' = nextTx + 1
    /\ \E R \in SUBSET RequestT :
          /\ net' = net \cup R
          /\ \A m \in R : m.tx = nextTx /\ \E c \in ClustersOfTx(nextTx) : m.to = Contact[c]
          /\ \A m, n \in R : m.to = n.to => m = n
    /\ UNCHANGED <<serverVars, decided>>

LEMMA IssueFlows ==
    ASSUME TypeInv, Issue, UNCHANGED serverVars
    PROVE  IssueFlow
<1> DEFINE P == {Prepare(Contact[c], nextTx) : c \in ClustersOfTx(nextTx)}
           Q == {ClientRequest(Contact[c], nextTx) : c \in ClustersOfTx(nextTx)}
<1>1. nextTx \in Tx /\ nextTx' = nextTx + 1 /\ decided' = decided
  BY DEF Issue
<1>2. net' = net \cup P \/ net' = net \cup Q
  BY DEF Issue
<1>3. P \in SUBSET RequestT /\ Q \in SUBSET RequestT
  BY <1>1, ContactFacts DEF Prepare, ClientRequest, RequestT
<1>4. /\ \A m \in P : m.tx = nextTx /\ \E c \in ClustersOfTx(nextTx) : m.to = Contact[c]
      /\ \A m, n \in P : m.to = n.to => m = n
  BY DEF Prepare
<1>5. /\ \A m \in Q : m.tx = nextTx /\ \E c \in ClustersOfTx(nextTx) : m.to = Contact[c]
      /\ \A m, n \in Q : m.to = n.to => m = n
  BY DEF ClientRequest
<1> HIDE DEF P, Q
<1> QED
  BY <1>1, <1>2, <1>3, <1>4, <1>5 DEF IssueFlow

\* The client's other steps, a remote vote and no step move no transfer.
LEMMA FramesStill ==
    ASSUME TypeInv, UNCHANGED serverVars, FlowNet({})
    PROVE  Still
<1>1. log' = log /\ shard' = shard /\ txQueue' = txQueue /\ worker' = worker
  BY DEF serverVars, logVars, threadVars
<1> QED
  BY <1>1, LogKept, ShardKept, CarryKept DEF Still

LEMMA HandleVoteStill ==
    ASSUME TypeInv, NEW m \in net, HandleVote(m), UNCHANGED serverVars
    PROVE  Still /\ nextTx' = nextTx /\ \A x \in Tx : decided[x] \subseteq decided'[x]
<1> DEFINE d == DecisionOn(VotesWith(m.tx, m.from, m.vote))
<1>1. m.tx \in Tx
  BY DEF HandleVote, TypeInv, NetInv, Fits, VoteT
<1>2. d \in {"COMMIT", "ABORT"}
  BY DEF DecisionOn
<1> DEFINE D == {Decision(d, s, m.tx) : s \in UNION {Members(c) : c \in ClustersOfTx(m.tx)}}
<1>3. \/ net' = net \ {m} /\ decided' = decided
      \/ /\ net' = (net \ {m}) \cup D
         /\ decided' = [decided EXCEPT ![m.tx] = @ \cup {d}]
  BY DEF HandleVote
<1>4. D \subseteq DecisionT /\ \A n \in D : n.type = d /\ n.tx = m.tx
  <2> HIDE DEF d
  <2> QED
    BY <1>1, <1>2, ContactFacts DEF Decision, DecisionT
<1> HIDE DEF d, D
<1>5. FlowNet({})
  <2>1. CASE net' = net \ {m} /\ decided' = decided
    BY <2>1, NetPlain
  <2>2. CASE /\ net' = (net \ {m}) \cup D
             /\ decided' = [decided EXCEPT ![m.tx] = @ \cup {d}]
    <3>1. d \in decided'[m.tx]
      BY <1>1, <2>2 DEF TypeInv, ClientInv
    <3> QED
      BY <1>4, <2>2, <3>1 DEF FlowNet
  <2> QED
    BY <1>3, <2>1, <2>2
<1>6. \A x \in Tx : decided[x] \subseteq decided'[x]
  BY <1>1, <1>3 DEF TypeInv, ClientInv
<1> QED
  BY <1>5, <1>6, FramesStill DEF HandleVote

\* Every step is of one of these kinds.
Requeued(s, m) ==
    /\ m \in net /\ m.to = s /\ TakeRequest(s, m)
Waits(s) == AwaitLocks(s)
Logs(s, x) ==
    /\ AppendTransfer(s, x)
    /\ \/ worker[s].pc = "wait" /\ worker[s].tx = x /\ txQueue' = txQueue
       \/ /\ txQueue[s] # <<>> /\ x = Head(txQueue[s])
          /\ txQueue' = [txQueue EXCEPT ![s] = Tail(@)]
          /\ worker[s].pc = "idle"

LEMMA StepKinds ==
    ASSUME TypeInv, [Next]_vars
    PROVE  \/ /\ nextTx' = nextTx /\ \A x \in Tx : decided[x] \subseteq decided'[x]
              /\ \/ Still
                 \/ \E s \in Server, m \in net : Requeued(s, m)
                 \/ \E s \in Server : Waits(s)
                 \/ \E s \in Server, x \in Tx : Logs(s, x)
           \/ IssueFlow
<1>1. CASE ServerNext /\ UNCHANGED clientVars
  <2>0. nextTx' = nextTx /\ decided' = decided
    BY <1>1 DEF clientVars
  <2>1. PICK s \in Server :
           \/ StartElection(s) \/ Listener(s) \/ Worker(s) \/ SendHeartbeats(s)
           \/ (\E x \in Tx : CheckPending(s, x)) \/ Restart(s)
    BY <1>1 DEF ServerNext
  <2>2. ASSUME Listener(s) PROVE Still \/ \E m \in net : Requeued(s, m)
    <3>1. CASE \E m \in counting[s] : CountAck(s, m) \/ RepairFollower(s, m)
      BY <3>1, CountAckStill, RepairFollowerStill
    <3>2. ASSUME NEW m \in net, m.to = s,
               \/ AbandonElection(s, m) \/ BecomeLeader(s, m) \/ Drop(s, m)
               \/ HandleVoteRequest(s, m)
               \/ StaleAppend(s, m) \/ RefuseAppend(s, m) \/ AcceptAppend(s, m)
               \/ QueueAck(s, m) \/ TakeAck(s, m) \/ TakeRequest(s, m)
               \/ IgnoreDecision(s, m) \/ HandleDecision(s, m)
          PROVE Still \/ Requeued(s, m)
      BY <3>2, AbandonElectionStill, BecomeLeaderStill, DropStill,
         HandleVoteRequestStill, StaleAppendStill, RefuseAppendStill,
         AcceptAppendStill, QueueAckStill, TakeAckStill,
         IgnoreDecisionStill, HandleDecisionStill DEF Requeued
    <3> QED
      BY <2>2, <3>1, <3>2 DEF Listener
  <2>3. ASSUME Worker(s)
        PROVE  Still \/ Waits(s) \/ \E x \in Tx : Logs(s, x)
    <3>1. ASSUME AppendIntra(s) PROVE \E x \in Tx : Logs(s, x)
      <4>1. worker[s].tx \in Tx
        BY <3>1 DEF AppendIntra, TypeInv, WorkerInv
      <4>2. Logs(s, worker[s].tx)
        BY <3>1 DEF AppendIntra, Logs
      <4> QED
        BY <4>1, <4>2
    <3>2. ASSUME AppendCross(s) PROVE \E x \in Tx : Logs(s, x)
      <4>1. PICK x \in Tx : NextInQueue(s, x) /\ AppendTransfer(s, x) /\ Taken(s)
        BY <3>2 DEF AppendCross
      <4>2. Logs(s, x)
        BY <4>1 DEF NextInQueue, Taken, Logs
      <4> QED
        BY <4>2
    <3> QED
      BY <2>3, <3>1, <3>2, RejectTransferStill, LockTimeoutStill,
         ReplicateStill, CountWorkerAckStill, RetryFollowerStill, GiveUpStill
      DEF Worker, Waits
  <2> QED
    BY <2>0, <2>1, <2>2, <2>3, StartElectionStill, SendHeartbeatsStill,
       CheckPendingStill, RestartStill
<1>2. CASE ClientNext /\ UNCHANGED serverVars
  <2>1. CASE Issue
    BY <1>2, <2>1, IssueFlows
  <2>2. CASE \E m \in net : HandleVote(m)
    BY <1>2, <2>2, HandleVoteStill
  <2>3. CASE \E m \in net : HandleAck(m) \/ HandleClientResponse(m)
    <3>1. nextTx' = nextTx /\ decided' = decided /\ net' \subseteq net
      BY <2>3 DEF HandleAck, HandleClientResponse
    <3>2. Still
      BY <1>2, <3>1, NetPlain, FramesStill
    <3> QED
      BY <3>1, <3>2
  <2> QED
    BY <1>2, <2>1, <2>2, <2>3 DEF ClientNext
<1>3. CASE RemoteVote
  <2>1. PICK m \in net, v \in RemoteVotes :
           /\ net' = (net \ {m}) \cup {Vote(m.to, m.tx, v)}
           /\ UNCHANGED <<serverVars, clientVars>>
    BY <1>3 DEF RemoteVote
  <2>2. Plain(Vote(m.to, m.tx, v))
    BY DEF Plain, Vote
  <2>3. FlowNet({})
    BY <2>1, <2>2, NetPlain
  <2> QED
    BY <2>1, <2>3, FramesStill DEF clientVars
<1>4. CASE UNCHANGED vars
  <2>1. FlowNet({})
    BY <1>4, NetPlain DEF vars
  <2> QED
    BY <1>4, <2>1, FramesStill DEF vars, clientVars
<1> QED
  BY <1>1, <1>2, <1>3, <1>4 DEF Next


-----------------------------------------------------------------------------
(* A transfer is in one place of a cluster at a time. *)

\* The transfer x is at index i of a log of cluster c, or of a request in it.
Occurs(i, x, c) ==
    \/ \E s \in Server : ClusterOf[s] = c /\ i \in DOMAIN log[s] /\ log[s][i].tx = x
    \/ \E m \in net : /\ m \in AppendT /\ ClusterOf[m.to] = c
                      /\ i - m.prev \in DOMAIN m.entries
                      /\ m.entries[i - m.prev].tx = x

\* The transfer x is with cluster c: in the request w, in the queue of server w
\* or in its wait for locks, or at index w of the log.
Placed(k, w, x, c) ==
    \/ k = "request" /\ w \in net /\ w \in RequestT /\ w.tx = x /\ ClusterOf[w.to] = c
    \/ k = "queue" /\ w \in Server /\ ClusterOf[w] = c /\ In(x, txQueue[w])
    \/ /\ k = "wait" /\ w \in Server /\ ClusterOf[w] = c
       /\ worker[w].pc = "wait" /\ worker[w].tx = x
    \/ k = "log" /\ w \in Nat /\ Occurs(w, x, c)

OnePlace ==
    \A x \in Tx : \A c, k, l, v, w :
        Placed(k, v, x, c) /\ Placed(l, w, x, c) => k = l /\ v = w
OnlyIssued == \A x \in Tx : \A c, k, w : Placed(k, w, x, c) => x < nextTx
QueuedOnce == \A s \in Server : OneToOne(txQueue[s])

PlaceInv == OnePlace /\ OnlyIssued /\ QueuedOnce

\* A new place of a transfer is one it came to from a place before the log, or
\* the client has only now issued it.
Back ==
    \A x \in Tx : \A c, k, w : Placed(k, w, x, c)' =>
        \/ Placed(k, w, x, c)
        \/ \E l, u : l # "log" /\ Placed(l, u, x, c)
        \/ x = nextTx

LEMMA OccursStep ==
    ASSUME TypeInv, NEW s, NEW x, FlowLog(s, x), NEW R, R \subseteq RequestT, FlowNet(R),
           NEW i \in Nat, NEW y, NEW c, Occurs(i, y, c)'
    PROVE  \/ Occurs(i, y, c)
           \/ s \in Server /\ ClusterOf[s] = c /\ y = x /\ i = Len(log[s]) + 1
<1>1. ASSUME NEW t \in Server, ClusterOf[t] = c, i \in DOMAIN log'[t], log'[t][i].tx = y
      PROVE  \/ Occurs(i, y, c)
             \/ s \in Server /\ ClusterOf[s] = c /\ y = x /\ i = Len(log[s]) + 1
  <2>1. CASE EntryFrom(t, i)
    BY <1>1, <2>1 DEF EntryFrom, Occurs
  <2>2. CASE t = s /\ EntryNew(s, x, i)
    BY <1>1, <2>2 DEF EntryNew
  <2> QED
    BY <1>1, <2>1, <2>2 DEF FlowLog
<1>2. ASSUME NEW n \in net', n \in AppendT, ClusterOf[n.to] = c,
             i - n.prev \in DOMAIN n.entries, n.entries[i - n.prev].tx = y
      PROVE  \/ Occurs(i, y, c)
             \/ s \in Server /\ ClusterOf[s] = c /\ y = x /\ i = Len(log[s]) + 1
  <2>1. CASE n \in net
    BY <1>2, <2>1 DEF Occurs
  <2>2. CASE Copied(n)
    <3>1. n.prev \in Nat /\ n.from \in Server /\ n.prev + (i - n.prev) = i
      BY <1>2 DEF AppendT
    <3>2. /\ i \in DOMAIN log'[n.from] /\ log'[n.from][i].tx = y
          /\ ClusterOf[n.from] = c
      BY <1>2, <2>2, <3>1 DEF Copied
    <3> QED
      BY <1>1, <3>1, <3>2
  <2>3. ~Plain(n) /\ n \notin R /\ n \notin DecisionT
    BY <1>2 DEF AppendT, Plain, RequestT, DecisionT
  <2> QED
    BY <2>1, <2>2, <2>3 DEF FlowNet
<1> QED
  BY <1>1, <1>2 DEF Occurs

\* No transfer is moved.
LEMMA StillPlaces ==
    ASSUME TypeInv, Still
    PROVE  \A k, w, x, c : Placed(k, w, x, c)' => Placed(k, w, x, c)
<1>1. ASSUME NEW k, NEW w, NEW x, NEW c, Placed(k, w, x, c)' PROVE Placed(k, w, x, c)
  <2>1. CASE k = "request" /\ w \in net' /\ w \in RequestT /\ w.tx = x /\ ClusterOf[w.to] = c
    <3>1. ~Plain(w) /\ ~Copied(w) /\ w \notin DecisionT
      BY <2>1 DEF Plain, Copied, RequestT, DecisionT, AppendT
    <3> QED
      BY <2>1, <3>1 DEF Still, FlowNet, Placed
  <2>2. CASE k = "queue" /\ w \in Server /\ ClusterOf[w] = c /\ In(x, txQueue'[w])
    BY <2>2 DEF Still, FlowCarry, Placed
  <2>3. CASE /\ k = "wait" /\ w \in Server /\ ClusterOf[w] = c
             /\ worker'[w].pc = "wait" /\ worker'[w].tx = x
    BY <2>3 DEF Still, FlowCarry, Placed
  <2>4. CASE k = "log" /\ w \in Nat /\ Occurs(w, x, c)'
    <3>1. NoServer \notin Server
      BY ClustersAndShards
    <3> QED
      BY <2>4, <3>1, OccursStep DEF Still, Placed
  <2> QED
    BY <1>1, <2>1, <2>2, <2>3, <2>4 DEF Placed
<1> QED
  BY <1>1

LEMMA PlaceStill ==
    ASSUME TypeInv, TypeInv', PlaceInv, Still, nextTx' = nextTx
    PROVE  PlaceInv' /\ Back
<1>1. \A k, w, x, c : Placed(k, w, x, c)' => Placed(k, w, x, c)
  BY StillPlaces
<1>2. OnePlace' /\ OnlyIssued'
  BY <1>1 DEF PlaceInv, OnePlace, OnlyIssued
<1>3. QueuedOnce'
  BY DEF PlaceInv, QueuedOnce, Still, FlowCarry
<1>4. Back
  BY <1>1 DEF Back
<1> QED
  BY <1>2, <1>3, <1>4 DEF PlaceInv

\* One transfer leaves one place for another.
Moves(x0, c0, k0, w0, k1, w1) ==
    /\ x0 \in Tx /\ k0 # "log" /\ Placed(k0, w0, x0, c0) /\ ~Placed(k0, w0, x0, c0)'
    /\ \A k, w, x, c : Placed(k, w, x, c)' =>
           Placed(k, w, x, c) \/ (k = k1 /\ w = w1 /\ x = x0 /\ c = c0)

LEMMA PlaceMoved ==
    ASSUME TypeInv, TypeInv', PlaceInv, nextTx' = nextTx, QueuedOnce',
           NEW x0, NEW c0, NEW k0, NEW w0, NEW k1, NEW w1, Moves(x0, c0, k0, w0, k1, w1)
    PROVE  PlaceInv' /\ Back
<1>1. \A k, w : Placed(k, w, x0, c0)' => k = k1 /\ w = w1
  BY DEF PlaceInv, OnePlace, Moves
<1>2. OnePlace'
  BY <1>1 DEF PlaceInv, OnePlace, Moves
<1>3. OnlyIssued'
  BY DEF PlaceInv, OnlyIssued, Moves
<1>4. Back
  BY DEF Back, Moves
<1> QED
  BY <1>2, <1>3, <1>4 DEF PlaceInv

\* The places in the network and in the logs come from the step's new requests
\* and its new entry.
LEMMA PlaceFrom ==
    ASSUME TypeInv, NEW s, NEW x0, FlowLog(s, x0), NEW R, R \subseteq RequestT, FlowNet(R),
           NEW k, NEW w, NEW x, NEW c, Placed(k, w, x, c)', k \notin {"queue", "wait"}
    PROVE  \/ Placed(k, w, x, c)
           \/ k = "request" /\ w \in R /\ w.tx = x /\ ClusterOf[w.to] = c
           \/ /\ k = "log" /\ s \in Server /\ ClusterOf[s] = c /\ x = x0
              /\ w = Len(log[s]) + 1
<1>1. CASE k = "request" /\ w \in net' /\ w \in RequestT /\ w.tx = x /\ ClusterOf[w.to] = c
  <2>1. ~Plain(w) /\ ~Copied(w) /\ w \notin DecisionT
    BY <1>1 DEF Plain, Copied, RequestT, DecisionT, AppendT
  <2> QED
    BY <1>1, <2>1 DEF FlowNet, Placed
<1>2. CASE k = "log" /\ w \in Nat /\ Occurs(w, x, c)'
  BY <1>2, OccursStep DEF Placed
<1> QED
  BY <1>1, <1>2 DEF Placed

LEMMA RequeuedPlace ==
    ASSUME TypeInv, TypeInv', PlaceInv, nextTx' = nextTx,
           NEW s \in Server, NEW m \in net, Requeued(s, m)
    PROVE  PlaceInv' /\ Back
<1>0. NoServer \notin Server
  BY ClustersAndShards
<1>1. /\ m \in RequestT /\ FlowLog(NoServer, NoTx) /\ FlowShard /\ worker' = worker
      /\ \/ txQueue' = txQueue /\ net' = net \ {m}
         \/ /\ txQueue' = txQueue /\ currentLeader[s] \in Peers[s]
            /\ net' = (net \ {m}) \cup {[m EXCEPT !.to = currentLeader[s]]}
         \/ /\ txQueue' = [txQueue EXCEPT ![s] = Append(@, m.tx)]
            /\ net' = net \ {m}
  BY TakeRequestFlow DEF Requeued
<1>2. m.to = s /\ m.tx \in Tx /\ Placed("request", m, m.tx, ClusterOf[s])
  BY <1>1 DEF Requeued, RequestT, Placed
<1>3. CASE txQueue' = txQueue /\ net' = net \ {m}
  <2>1. FlowNet({}) /\ FlowCarry
    BY <1>1, <1>3, CarryKept DEF FlowNet
  <2> QED
    BY <1>1, <2>1, PlaceStill DEF Still
<1>4. CASE /\ txQueue' = txQueue /\ currentLeader[s] \in Peers[s]
           /\ net' = (net \ {m}) \cup {[m EXCEPT !.to = currentLeader[s]]}
  <2> DEFINE n == [m EXCEPT !.to = currentLeader[s]]
  <2>1. /\ n \in RequestT /\ n.tx = m.tx /\ n.to = currentLeader[s]
        /\ currentLeader[s] # s /\ ClusterOf[currentLeader[s]] = ClusterOf[s]
    BY <1>1, <1>4, PeerFacts DEF RequestT, Node
  <2>2. net' = (net \ {m}) \cup {n}
    BY <1>4
  <2> HIDE DEF n
  <2>3. m \notin net'
    BY <1>2, <2>1, <2>2
  <2>4. FlowNet({n})
    BY <2>2 DEF FlowNet
  <2>5. ASSUME NEW k, NEW w, NEW x, NEW c, Placed(k, w, x, c)'
        PROVE  \/ Placed(k, w, x, c)
               \/ k = "request" /\ w = n /\ x = m.tx /\ c = ClusterOf[s]
    <3>1. CASE k \in {"queue", "wait"}
      BY <1>1, <1>4, <2>5, <3>1 DEF Placed
    <3>2. CASE k \notin {"queue", "wait"}
      <4>1. \/ Placed(k, w, x, c)
            \/ k = "request" /\ w \in {n} /\ w.tx = x /\ ClusterOf[w.to] = c
        <5>1. {n} \subseteq RequestT
          BY <2>1
        <5> QED
          BY <1>0, <1>1, <2>4, <2>5, <3>2, <5>1, PlaceFrom
      <4> QED
        BY <2>1, <4>1
    <3> QED
      BY <3>1, <3>2
  <2>6. ~Placed("request", m, m.tx, ClusterOf[s])'
    BY <2>3 DEF Placed
  <2>7. QueuedOnce'
    BY <1>4 DEF PlaceInv, QueuedOnce
  <2> QED
    <3>1. Moves(m.tx, ClusterOf[s], "request", m, "request", n)
      BY <1>2, <2>5, <2>6 DEF Moves
    <3> QED
      BY <1>1, <2>7, <3>1, PlaceMoved
<1>5. CASE /\ txQueue' = [txQueue EXCEPT ![s] = Append(@, m.tx)]
           /\ net' = net \ {m}
  <2>1. /\ txQueue'[s] = Append(txQueue[s], m.tx) /\ txQueue[s] \in Seq(Tx)
        /\ \A t \in Server : t # s => txQueue'[t] = txQueue[t]
    BY <1>5 DEF TypeInv, QueueInv
  <2>2. /\ \A x : In(x, txQueue'[s]) <=> In(x, txQueue[s]) \/ x = m.tx
        /\ OneToOne(txQueue[s]) /\ ~In(m.tx, txQueue[s]) => OneToOne(txQueue'[s])
    BY <1>2, <2>1, InAppend
  <2>3. ~In(m.tx, txQueue[s])
    <3>1. In(m.tx, txQueue[s]) => Placed("queue", s, m.tx, ClusterOf[s])
      BY DEF Placed
    <3> QED
      BY <1>2, <3>1 DEF PlaceInv, OnePlace
  <2>4. QueuedOnce'
    BY <2>1, <2>2, <2>3 DEF PlaceInv, QueuedOnce
  <2>5. FlowNet({})
    BY <1>5 DEF FlowNet
  <2>6. ASSUME NEW k, NEW w, NEW x, NEW c, Placed(k, w, x, c)'
        PROVE  \/ Placed(k, w, x, c)
               \/ k = "queue" /\ w = s /\ x = m.tx /\ c = ClusterOf[s]
    <3>1. CASE k = "queue"
      BY <2>1, <2>2, <2>6, <3>1 DEF Placed
    <3>2. CASE k = "wait"
      BY <1>1, <2>6, <3>2 DEF Placed
    <3>3. CASE k \notin {"queue", "wait"}
      BY <1>0, <1>1, <2>5, <2>6, <3>3, PlaceFrom
    <3> QED
      BY <3>1, <3>2, <3>3
  <2>7. ~Placed("request", m, m.tx, ClusterOf[s])'
    BY <1>5 DEF Placed
  <2> QED
    <3>1. Moves(m.tx, ClusterOf[s], "request", m, "queue", s)
      BY <1>2, <2>6, <2>7 DEF Moves
    <3> QED
      BY <1>1, <2>4, <3>1, PlaceMoved
<1> QED
  BY <1>1, <1>3, <1>4, <1>5

\* The head of a queue without repetition is not in its tail.
LEMMA HeadLeaves ==
    ASSUME TypeInv, QueuedOnce, NEW s \in Server, txQueue[s] # <<>>,
           txQueue' = [txQueue EXCEPT ![s] = Tail(@)]
    PROVE  /\ Head(txQueue[s]) \in Tx /\ QueuedOnce'
           /\ \A t \in Server : \A x : In(x, txQueue'[t]) => In(x, txQueue[t])
           /\ In(Head(txQueue[s]), txQueue[s]) /\ ~In(Head(txQueue[s]), txQueue'[s])
<1>1. /\ txQueue'[s] = Tail(txQueue[s])
      /\ \A t \in Server : t # s => txQueue'[t] = txQueue[t]
  BY DEF TypeInv, QueueInv
<1>2. OneToOne(txQueue[s]) /\ txQueue[s] \in Seq(Tx) /\ Head(txQueue[s]) \in Tx
  BY CurrentTyped, HeadTyped DEF QueuedOnce
<1> QED
  BY <1>1, <1>2, InTail DEF QueuedOnce

LEMMA WaitsPlace ==
    ASSUME TypeInv, TypeInv', PlaceInv, nextTx' = nextTx, NEW s \in Server, Waits(s)
    PROVE  PlaceInv' /\ Back
<1>0. NoServer \notin Server
  BY ClustersAndShards
<1>1. PICK x0 \in Tx :
         /\ txQueue[s] # <<>> /\ x0 = Head(txQueue[s])
         /\ txQueue' = [txQueue EXCEPT ![s] = Tail(@)]
         /\ worker'[s].tx = x0
         /\ \A t \in Server : t # s => worker'[t] = worker[t]
         /\ net' = net /\ FlowLog(NoServer, NoTx) /\ FlowShard
  BY AwaitLocksFlow DEF Waits
<1>2. /\ QueuedOnce' /\ In(x0, txQueue[s]) /\ ~In(x0, txQueue'[s])
      /\ \A t \in Server : \A x : In(x, txQueue'[t]) => In(x, txQueue[t])
  BY <1>1, HeadLeaves DEF PlaceInv
<1>3. /\ Placed("queue", s, x0, ClusterOf[s])
      /\ ~Placed("queue", s, x0, ClusterOf[s])'
  BY <1>2 DEF Placed
<1>4. FlowNet({})
  BY <1>1 DEF FlowNet
<1>5. ASSUME NEW k, NEW w, NEW x, NEW c, Placed(k, w, x, c)'
      PROVE  \/ Placed(k, w, x, c)
             \/ k = "wait" /\ w = s /\ x = x0 /\ c = ClusterOf[s]
  <2>1. CASE k = "queue"
    BY <1>2, <1>5, <2>1 DEF Placed
  <2>2. CASE k = "wait"
    BY <1>1, <1>5, <2>2 DEF Placed
  <2>3. CASE k \notin {"queue", "wait"}
    BY <1>0, <1>1, <1>4, <1>5, <2>3, PlaceFrom
  <2> QED
    BY <2>1, <2>2, <2>3
<1> QED
  <2>1. Moves(x0, ClusterOf[s], "queue", s, "wait", s)
    BY <1>3, <1>5 DEF Moves
  <2> QED
    BY <1>1, <1>2, <2>1, PlaceMoved

LEMMA LogsPlace ==
    ASSUME TypeInv, TypeInv', PlaceInv, nextTx' = nextTx,
           NEW s \in Server, NEW x0 \in Tx, Logs(s, x0)
    PROVE  PlaceInv' /\ Back
<1>1. /\ FlowLog(s, x0) /\ FlowNet({}) /\ FlowShard
      /\ worker'[s].pc # "wait"
      /\ \A t \in Server : t # s => worker'[t] = worker[t]
  BY AppendFlow DEF Logs
<1>2. ASSUME NEW k, NEW w, NEW x, NEW c, Placed(k, w, x, c)',
             \A t \in Server : \A y : In(y, txQueue'[t]) => In(y, txQueue[t])
      PROVE  \/ Placed(k, w, x, c)
             \/ k = "log" /\ w = Len(log[s]) + 1 /\ x = x0 /\ c = ClusterOf[s]
  <2>1. CASE k = "queue"
    BY <1>2, <2>1 DEF Placed
  <2>2. CASE k = "wait"
    BY <1>1, <1>2, <2>2 DEF Placed
  <2>3. CASE k \notin {"queue", "wait"}
    BY <1>1, <1>2, <2>3, PlaceFrom
  <2> QED
    BY <2>1, <2>2, <2>3
<1>3. CASE worker[s].pc = "wait" /\ worker[s].tx = x0 /\ txQueue' = txQueue
  <2>1. /\ Placed("wait", s, x0, ClusterOf[s])
        /\ ~Placed("wait", s, x0, ClusterOf[s])'
    BY <1>1, <1>3 DEF Placed
  <2>2. QueuedOnce'
    BY <1>3 DEF PlaceInv, QueuedOnce
  <2>3. \A t \in Server : \A y : In(y, txQueue'[t]) => In(y, txQueue[t])
    BY <1>3
  <2> QED
    <3>1. Moves(x0, ClusterOf[s], "wait", s, "log", Len(log[s]) + 1)
      BY <1>2, <2>1, <2>3 DEF Moves
    <3> QED
      BY <1>1, <2>2, <3>1, PlaceMoved
<1>4. CASE /\ txQueue[s] # <<>> /\ x0 = Head(txQueue[s])
           /\ txQueue' = [txQueue EXCEPT ![s] = Tail(@)]
  <2>1. /\ QueuedOnce' /\ In(x0, txQueue[s]) /\ ~In(x0, txQueue'[s])
        /\ \A t \in Server : \A x : In(x, txQueue'[t]) => In(x, txQueue[t])
    BY <1>4, HeadLeaves DEF PlaceInv
  <2>2. /\ Placed("queue", s, x0, ClusterOf[s])
        /\ ~Placed("queue", s, x0, ClusterOf[s])'
    BY <2>1 DEF Placed
  <2> QED
    <3>1. Moves(x0, ClusterOf[s], "queue", s, "log", Len(log[s]) + 1)
      BY <1>2, <2>1, <2>2 DEF Moves
    <3> QED
      BY <1>1, <2>1, <3>1, PlaceMoved
<1> QED
  BY <1>3, <1>4 DEF Logs

LEMMA IssuePlace ==
    ASSUME TypeInv, TypeInv', PlaceInv, IssueFlow
    PROVE  PlaceInv' /\ Back
<1>1. PICK R \in SUBSET RequestT :
         /\ net' = net \cup R
         /\ \A m \in R : m.tx = nextTx /\ \E c \in ClustersOfTx(nextTx) : m.to = Contact[c]
         /\ \A m, n \in R : m.to = n.to => m = n
  BY DEF IssueFlow
<1>2. /\ log' = log /\ shard' = shard /\ txQueue' = txQueue /\ worker' = worker
      /\ nextTx \in Tx /\ nextTx' = nextTx + 1 /\ nextTx \in Nat
  BY TransferFacts DEF IssueFlow, serverVars, logVars, threadVars
<1>3. FlowLog(NoServer, NoTx) /\ FlowNet(R) /\ FlowShard
  <2>1. FlowNet(R)
    BY <1>1 DEF FlowNet
  <2> QED
    BY <1>2, <2>1, LogKept, ShardKept
<1>4. \A m \in R : m.tx = nextTx /\ Contact[ClusterOf[m.to]] = m.to
  <2>1. \A c \in ClustersOfTx(nextTx) : ClusterOf[Contact[c]] = c
    BY <1>2, TransferFacts, ClustersAndShards DEF ClustersOfTx, Members
  <2> QED
    BY <1>1, <2>1
<1>5. ASSUME NEW k, NEW w, NEW x, NEW c, Placed(k, w, x, c)'
      PROVE  \/ Placed(k, w, x, c)
             \/ k = "request" /\ w \in R /\ x = nextTx /\ w.to = Contact[c]
  <2>1. CASE k \in {"queue", "wait"}
    BY <1>2, <1>5, <2>1 DEF Placed
  <2>2. CASE k \notin {"queue", "wait"}
    <3>1. NoServer \notin Server
      BY ClustersAndShards
    <3>2. \/ Placed(k, w, x, c)
          \/ k = "request" /\ w \in R /\ w.tx = x /\ ClusterOf[w.to] = c
      BY <1>3, <1>5, <2>2, <3>1, PlaceFrom
    <3> QED
      BY <1>4, <3>2
  <2> QED
    BY <2>1, <2>2
<1>6. \A k, w, c : ~Placed(k, w, nextTx, c)
  BY <1>2 DEF PlaceInv, OnlyIssued
<1>7. OnePlace'
  BY <1>1, <1>5, <1>6 DEF PlaceInv, OnePlace
<1>8. OnlyIssued'
  <2>1. ASSUME NEW x \in Tx, NEW c, NEW k, NEW w, Placed(k, w, x, c)' PROVE x < nextTx + 1
    <3>1. x \in Nat
      BY TransferFacts
    <3>2. Placed(k, w, x, c) => x < nextTx
      BY DEF PlaceInv, OnlyIssued
    <3> QED
      BY <1>2, <1>5, <2>1, <3>1, <3>2
  <2> QED
    BY <1>2, <2>1 DEF OnlyIssued
<1>9. QueuedOnce'
  BY <1>2 DEF PlaceInv, QueuedOnce
<1>10. Back
  BY <1>5 DEF Back
<1> QED
  BY <1>7, <1>8, <1>9, <1>10 DEF PlaceInv

LEMMA PlaceInit == Init => PlaceInv
<1> SUFFICES ASSUME Init PROVE PlaceInv
  OBVIOUS
<1>1. /\ net = {} /\ nextTx = 1
      /\ \A s \in Server : log[s] = <<>> /\ txQueue[s] = <<>> /\ worker[s] = Idle
  BY DEF Init, ServerInit, NoTransfers, ClientInit
<1>2. ~(\E x : In(x, <<>>)) /\ OneToOne(<<>>)
  BY DEF In, OneToOne
<1>3. ~(\E k, w, x, c : Placed(k, w, x, c))
  BY <1>1, <1>2 DEF Placed, Occurs, Idle
<1> QED
  BY <1>1, <1>2, <1>3 DEF PlaceInv, OnePlace, OnlyIssued, QueuedOnce

LEMMA PlaceStep ==
    ASSUME TypeInv, TypeInv', PlaceInv, [Next]_vars
    PROVE  PlaceInv' /\ Back
BY StepKinds, PlaceStill, RequeuedPlace, WaitsPlace, LogsPlace, IssuePlace

\* In the logs of a cluster a transfer has one index (server.py:306-365, 533-538),
\* whatever is lost or late, whoever is elected and, as far as a restart finds the
\* log that the server had, whoever restarts: a transfer is appended to one log of
\* its cluster only, and a copy of the entry keeps its index.
THEOREM OneIndexHolds == Spec => []OneIndex
<1>1. Init => TypeInv /\ PlaceInv
  BY TypeInvInit, PlaceInit
<1>2. TypeInv /\ PlaceInv /\ [Next]_vars => TypeInv' /\ PlaceInv'
  BY TypeInvStep, PlaceStep
<1>3. TypeInv /\ PlaceInv => OneIndex
  <2> SUFFICES ASSUME TypeInv, PlaceInv, NEW s \in Server, NEW p \in Replicas(s),
                      NEW i \in DOMAIN log[s], NEW j \in DOMAIN log[p], NEW x,
                      log[s][i].tx = x, log[p][j].tx = x
               PROVE  i = j
    BY DEF OneIndex
  <2>1. p \in Server /\ ClusterOf[p] = ClusterOf[s]
    BY PeerFacts DEF Replicas
  <2>2. /\ i \in Nat /\ log[s][i] \in Entry
        /\ j \in Nat /\ log[p][j] \in Entry
    BY <2>1, CurrentTyped
  <2>3. Occurs(i, x, ClusterOf[s]) /\ Occurs(j, x, ClusterOf[s])
    BY <2>1 DEF Occurs
  <2>4. Placed("log", i, x, ClusterOf[s]) /\ Placed("log", j, x, ClusterOf[s])
    BY <2>2, <2>3 DEF Placed
  <2>5. x \in Tx
    BY <2>2 DEF Entry
  <2> QED
    BY <2>4, <2>5 DEF PlaceInv, OnePlace
<1> QED
  BY <1>1, <1>2, <1>3, PTL DEF Spec

-----------------------------------------------------------------------------
(* Nothing counts as committed across shards that was not decided. *)

DecidedEntry(e) == Cross(e.tx) /\ e.committed = TRUE => "COMMIT" \in decided[e.tx]

DecidedInv ==
    /\ \A s \in Server : \A i \in DOMAIN log[s] : DecidedEntry(log[s][i])
    /\ \A m \in net : m \in AppendT =>
           \A k \in DOMAIN m.entries : DecidedEntry(m.entries[k])
    /\ \A m \in net : m.type \in {"COMMIT", "ABORT"} => m.type \in decided[m.tx]
    /\ \A s \in Server, x \in Tx :
           Cross(x) /\ In(x, shard[s].ledger) => "COMMIT" \in decided[x]

LEMMA DecidedStep ==
    ASSUME TypeInv, TypeInv', DecidedInv, NEW s0, NEW x0, FlowLog(s0, x0),
           NEW R, R \subseteq RequestT, FlowNet(R), FlowShard,
           \A x \in Tx : decided[x] \subseteq decided'[x]
    PROVE  DecidedInv'
<1>1. ASSUME NEW s \in Server, NEW i \in DOMAIN log'[s], NEW x, x = log'[s][i].tx,
             Cross(x), log'[s][i].committed = TRUE
      PROVE  x \in Tx /\ "COMMIT" \in decided'[x]
  <2>1. x \in Tx
    <3>1. log'[s] \in Seq(Entry)
      BY DEF TypeInv, LogInv
    <3>2. log'[s][i] \in Entry
      BY <3>1, LenProperties, ElementOfSeq
    <3> QED
      BY <1>1, <3>2 DEF Entry
  <2>2. CASE EntryNew(s0, x0, i) /\ s = s0
    BY <1>1, <2>2 DEF EntryNew
  <2>3. CASE i \in DOMAIN log[s] /\ log'[s][i].tx = log[s][i].tx
             /\ log'[s][i].committed = log[s][i].committed
    BY <1>1, <2>1, <2>3 DEF DecidedInv, DecidedEntry
  <2>4. CASE \E m \in net : /\ m.type \in {"COMMIT", "ABORT"} /\ m.tx = log[s][i].tx
                            /\ log'[s][i].committed = (m.type = "COMMIT")
                            /\ log'[s][i].tx = log[s][i].tx
    <3>1. PICK m \in net : /\ m.type \in {"COMMIT", "ABORT"} /\ m.tx = x
                           /\ log'[s][i].committed = (m.type = "COMMIT")
      BY <1>1, <2>4
    <3>2. m.type = "COMMIT"
      BY <1>1, <3>1, Zenon
    <3>3. m.type \in decided[x]
      BY <3>1 DEF DecidedInv
    <3> QED
      BY <2>1, <3>2, <3>3
  <2>5. CASE \E m \in net : /\ m \in AppendT /\ m.to = s
                            /\ i - m.prev \in DOMAIN m.entries
                            /\ log'[s][i].tx = m.entries[i - m.prev].tx
                            /\ log'[s][i].committed = m.entries[i - m.prev].committed
    BY <1>1, <2>1, <2>5 DEF DecidedInv, DecidedEntry
  <2>6. EntryFrom(s, i) \/ (s = s0 /\ EntryNew(s0, x0, i))
    BY DEF FlowLog
  <2> QED
    BY <2>1, <2>2, <2>3, <2>4, <2>5, <2>6 DEF EntryFrom
<1>2. ASSUME NEW m \in net', m \in AppendT, NEW k \in DOMAIN m.entries, NEW x,
             x = m.entries[k].tx, Cross(x), m.entries[k].committed = TRUE
      PROVE  "COMMIT" \in decided'[x]
  <2>1. x \in Tx
    <3>1. m.entries \in Seq(Entry)
      BY <1>2 DEF AppendT
    <3>2. m.entries[k] \in Entry
      BY <3>1, LenProperties, ElementOfSeq
    <3> QED
      BY <1>2, <3>2 DEF Entry
  <2>2. CASE m \in net
    BY <1>2, <2>1, <2>2 DEF DecidedInv, DecidedEntry
  <2>3. CASE Copied(m)
    <3>1. /\ m.from \in Server /\ m.prev + k \in DOMAIN log'[m.from]
          /\ x = log'[m.from][m.prev + k].tx
          /\ log'[m.from][m.prev + k].committed = TRUE
      BY <1>2, <2>3 DEF Copied, AppendT
    <3> QED
      BY <1>1, <1>2, <3>1
  <2>4. ~Plain(m) /\ m \notin R /\ m \notin DecisionT
    BY <1>2 DEF AppendT, Plain, RequestT, DecisionT
  <2> QED
    BY <2>2, <2>3, <2>4 DEF FlowNet
<1>3. ASSUME NEW m \in net', m.type \in {"COMMIT", "ABORT"} PROVE m.type \in decided'[m.tx]
  <2>1. m \in DecisionT /\ m.tx \in Tx
    BY <1>3 DEF TypeInv, NetInv, Fits, DecisionT
  <2>2. CASE m \in net
    BY <1>3, <2>1, <2>2 DEF DecidedInv
  <2>3. ~Plain(m) /\ ~Copied(m) /\ m \notin R
    BY <1>3 DEF Plain, Copied, AppendT, RequestT
  <2> QED
    BY <2>2, <2>3 DEF FlowNet
<1>4. ASSUME NEW s \in Server, NEW x \in Tx, Cross(x), In(x, shard'[s].ledger)
      PROVE  "COMMIT" \in decided'[x]
  <2>1. In(x, shard[s].ledger) \/ Runs(x, shard'[s], log'[s])
    BY <1>4 DEF FlowShard, Ran
  <2>2. CASE In(x, shard[s].ledger)
    BY <1>4, <2>2 DEF DecidedInv
  <2>3. CASE Runs(x, shard'[s], log'[s])
    BY <1>1, <1>4, <2>3 DEF Runs
  <2> QED
    BY <2>1, <2>2, <2>3
<1> QED
  BY <1>1, <1>2, <1>3, <1>4 DEF DecidedInv, DecidedEntry

LEMMA DecidedNext ==
    ASSUME TypeInv, TypeInv', DecidedInv, [Next]_vars
    PROVE  DecidedInv'
<1>1. CASE IssueFlow
  <2>1. PICK R \in SUBSET RequestT : net' = net \cup R
    BY <1>1 DEF IssueFlow
  <2>2. FlowNet(R)
    BY <2>1 DEF FlowNet
  <2>3. log' = log /\ shard' = shard /\ decided' = decided
    BY <1>1 DEF IssueFlow, serverVars, logVars
  <2> QED
    BY <2>1, <2>2, <2>3, LogKept, ShardKept, DecidedStep
<1>2. CASE \A x \in Tx : decided[x] \subseteq decided'[x]
  <2>1. CASE Still
    <3>1. {} \subseteq RequestT
      OBVIOUS
    <3> QED
      BY <1>2, <2>1, <3>1, DecidedStep DEF Still
  <2>2. ASSUME NEW s \in Server, NEW m \in net, Requeued(s, m) PROVE DecidedInv'
    <3> DEFINE n == [m EXCEPT !.to = currentLeader[s]]
    <3>1. /\ m \in RequestT /\ FlowLog(NoServer, NoTx) /\ FlowShard
          /\ net' = net \ {m} \/ (currentLeader[s] \in Peers[s] /\ net' = (net \ {m}) \cup {n})
      BY <2>2, TakeRequestFlow DEF Requeued
    <3>2. currentLeader[s] \in Peers[s] => n \in RequestT
      BY <3>1, PeerFacts DEF RequestT, Node
    <3> HIDE DEF n
    <3>3. CASE net' = net \ {m}
      <4>1. FlowNet({}) /\ {} \subseteq RequestT
        BY <3>3 DEF FlowNet
      <4> QED
        BY <1>2, <3>1, <4>1, DecidedStep
    <3>4. CASE currentLeader[s] \in Peers[s] /\ net' = (net \ {m}) \cup {n}
      <4>1. FlowNet({n}) /\ {n} \subseteq RequestT
        BY <3>2, <3>4 DEF FlowNet
      <4> QED
        BY <1>2, <3>1, <4>1, DecidedStep
    <3> QED
      BY <3>1, <3>3, <3>4
  <2>3. ASSUME NEW s \in Server, Waits(s) PROVE DecidedInv'
    <3>1. net' = net /\ FlowLog(NoServer, NoTx) /\ FlowShard
      BY <2>3, AwaitLocksFlow DEF Waits
    <3>2. FlowNet({}) /\ {} \subseteq RequestT
      BY <3>1 DEF FlowNet
    <3> QED
      BY <1>2, <3>1, <3>2, DecidedStep
  <2>4. ASSUME NEW s \in Server, NEW x \in Tx, Logs(s, x) PROVE DecidedInv'
    <3>1. FlowLog(s, x) /\ FlowNet({}) /\ FlowShard
      BY <2>4, AppendFlow DEF Logs
    <3>2. {} \subseteq RequestT
      OBVIOUS
    <3> QED
      BY <1>2, <3>1, <3>2, DecidedStep
  <2>5. IssueFlow \/ Still \/ (\E s \in Server, m \in net : Requeued(s, m))
        \/ (\E s \in Server : Waits(s)) \/ (\E s \in Server, x \in Tx : Logs(s, x))
    BY StepKinds
  <2> QED
    BY <1>1, <2>1, <2>2, <2>3, <2>4, <2>5
<1> QED
  BY <1>1, <1>2, StepKinds

LEMMA DecidedInit == Init => DecidedInv
<1> SUFFICES ASSUME Init PROVE DecidedInv
  OBVIOUS
<1>1. net = {} /\ \A s \in Server : log[s] = <<>> /\ shard[s] = ShardInit(s)
  BY DEF Init, ServerInit, NoTransfers
<1>2. \A s : ShardInit(s).ledger = <<>>
  BY DEF ShardInit
<1>3. ~(\E x : In(x, <<>>))
  BY DEF In
<1> QED
  BY <1>1, <1>2, <1>3 DEF DecidedInv

\* A server executes its part of a cross-shard transfer only if the coordinator
\* decided COMMIT (server.py:768-789), for any clusters, votes, elections, losses
\* and restarts: the committed_2PC flag is set by a COMMIT of the coordinator only,
\* and copied with the entry.
THEOREM ExecutedOnlyIfDecidedHolds == Spec => []ExecutedOnlyIfDecided
<1>1. Init => TypeInv /\ DecidedInv
  BY TypeInvInit, DecidedInit
<1>2. TypeInv /\ DecidedInv /\ [Next]_vars => TypeInv' /\ DecidedInv'
  BY TypeInvStep, DecidedNext
<1>3. DecidedInv => ExecutedOnlyIfDecided
  BY DEF DecidedInv, ExecutedOnlyIfDecided, HasExecuted, In, Announced
<1> QED
  BY <1>1, <1>2, <1>3, PTL DEF Spec
=============================================================================
