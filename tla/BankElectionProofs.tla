------------------------- MODULE BankElectionProofs -------------------------
(***************************************************************************)
(* The servers of a cluster implement Election, for any number of other    *)
(* clusters, any transfers, datagrams lost, late and reordered, as long as *)
(* none restarts: a restart forgets term and vote.                         *)
(***************************************************************************)
EXTENDS BankElection, SteadyProofs

BallotType == {"REQUEST_VOTE", "VOTE_RESPONSE", "APPEND_ENTRIES"}

-----------------------------------------------------------------------------
(* What a step may do to an election. *)

\* s sends entries, as a leader or a former leader.
Speaks(s, n) ==
    /\ n.type = "APPEND_ENTRIES" /\ n.from = s /\ n.to \in Peers[s]
    /\ n.term = currentTerm[s]

NoBallot == \A n \in net' : n \in net \/ n.type \notin BallotType

\* A step that does not take part in an election, but may send entries of s or
\* append one to its log.
Rest(s) ==
    /\ UNCHANGED <<role, currentTerm, votedFor, elected>>
    /\ \A p \in Server : LastLog(p)' = LastLog(p) \/ (p = s /\ Active(s))
    /\ \A n \in net' : n \in net \/ n.type \notin BallotType \/ (Active(s) /\ Speaks(s, n))

\* A step that elections do not see at all.
Quiet ==
    /\ UNCHANGED <<role, currentTerm, votedFor, elected>> /\ NoBallot
    /\ \A p \in Server : LastLog(p)' = LastLog(p)

\* s hears the request m, whatever it then does to its log.
Hears(s, m) ==
    /\ SeeLeader(s, m) /\ elected' = elected /\ NoBallot
    /\ \A p \in Server \ {s} : LastLog(p)' = LastLog(p)

Elects(s) ==
    \/ StartElection(s) \/ Rest(s)
    \/ \E m \in net : /\ m.to = s
                      /\ \/ AbandonElection(s, m) \/ BecomeLeader(s, m)
                         \/ HandleVoteRequest(s, m) \/ Hears(s, m)

LEMMA QuietRests ==
    ASSUME UNCHANGED <<role, currentTerm, votedFor, elected>>, log' = log, NoBallot
    PROVE  Quiet /\ \A s : Rest(s)
BY DEF Quiet, Rest, NoBallot, LastLog

\* What a follower, a worker or the coordinator sends is no ballot.
LEMMA NoBallots ==
    /\ \A s, p, ok : AppendAck(s, p, ok).type \notin BallotType
    /\ \A s, x, v : Vote(s, x, v).type \notin BallotType
    /\ \A s, x : Ack(s, x).type \notin BallotType
    /\ \A x, ok : ClientResponse(x, ok).type \notin BallotType
    /\ \A s, x : Prepare(s, x).type \notin BallotType
                 /\ ClientRequest(s, x).type \notin BallotType
    /\ \A d \in {"COMMIT", "ABORT"} : \A s, x : Decision(d, s, x).type \notin BallotType
BY DEF BallotType, AppendAck, Vote, Ack, ClientResponse, Prepare, ClientRequest, Decision

LEMMA Spoken ==
    ASSUME NEW s \in Server, NEW p \in Peers[s], NEW lg, NEW k
    PROVE  Speaks(s, AppendEntries(s, p, lg, k))
BY DEF Speaks, AppendEntries

LEMMA DropRests ==
    ASSUME TypeInv, NEW s \in Server, NEW m \in net, m.to = s,
           \/ Drop(s, m) \/ StaleAppend(s, m) \/ QueueAck(s, m) \/ TakeAck(s, m)
           \/ IgnoreDecision(s, m)
    PROVE  Rest(s)
<1>1. NoBallot
  BY NoBallots DEF NoBallot, Drop, StaleAppend, QueueAck, TakeAck, IgnoreDecision, Reply
<1> QED
  BY <1>1, QuietRests DEF Drop, StaleAppend, QueueAck, TakeAck, IgnoreDecision, serverVars,
                          electionVars, logVars

LEMMA TakeRequestRests ==
    ASSUME TypeInv, NEW s \in Server, NEW m \in net, m.to = s, TakeRequest(s, m)
    PROVE  Rest(s)
<1>1. NoBallot
  <2>1. [m EXCEPT !.to = currentLeader[s]].type = m.type
    BY MessageFacts DEF TakeRequest, RequestT
  <2> QED
    BY <2>1 DEF NoBallot, TakeRequest, Reply, BallotType
<1> QED
  BY <1>1, QuietRests DEF TakeRequest, electionVars, logVars

\* What an update of the commit index sends is no ballot.
LEMMA UpdateSends ==
    ASSUME TypeInv, NEW s \in Server, NEW mi
    PROVE  \A n \in UpdateCommitIndex(s, shard[s], mi).out : n.type \notin BallotType
<1> DEFINE r == UpdateCommitIndex(s, shard[s], mi)
<1>1. shard[s] \in ShardT(s) /\ log[s] \in Seq(Entry)
  BY CurrentTyped DEF TypeInv, LogInv
<1>2. /\ r.ci \in Nat
      /\ \/ Voted(s, shard[s], r) \/ r = NothingDone(s, shard[s])
         \/ r = ApplyCommitted(s, shard[s], log[s], r.ci, role[s] = "leader")
  BY <1>1, UpdateCommitCases DEF TypeInv, LogInv
<1> SUFFICES \A n \in r.out : n.type \notin BallotType
  OBVIOUS
<1> HIDE DEF r
<1>3. CASE Voted(s, shard[s], r)
  BY <1>3, NoBallots DEF Voted
<1>4. CASE r = NothingDone(s, shard[s])
  BY <1>4 DEF NothingDone
<1>5. CASE r = ApplyCommitted(s, shard[s], log[s], r.ci, role[s] = "leader")
  <2>1. r.out \subseteq ResponseT
    BY <1>1, <1>2, <1>5, ApplyCommittedTyped
  <2> QED
    BY <2>1 DEF ResponseT, BallotType
<1> QED
  BY <1>2, <1>3, <1>4, <1>5

LEMMA CountAckRests ==
    ASSUME TypeInv, NEW s \in Server, NEW m \in counting[s], CountAck(s, m)
    PROVE  Rest(s)
<1> DEFINE mi == [matchIndex[s] EXCEPT ![m.from] = Len(log[s])]
           some == {p \in Peers[s] : mi[p] >= commitIndex[s]}
           r == IF Cardinality(some) > Cardinality(Peers[s]) \div 2
                THEN UpdateCommitIndex(s, shard[s], mi)
                ELSE NothingDone(s, shard[s])
<1>1. Send(r.out) /\ log' = log /\ UNCHANGED <<role, currentTerm, votedFor, elected>>
  BY DEF CountAck, Counted, electionVars
<1>2. r = UpdateCommitIndex(s, shard[s], mi) \/ r = NothingDone(s, shard[s])
  OBVIOUS
<1> HIDE DEF r, mi
<1>3. \A n \in r.out : n.type \notin BallotType
  BY <1>2, UpdateSends DEF NothingDone
<1>4. NoBallot
  BY <1>1, <1>3 DEF NoBallot, Send
<1> QED
  BY <1>1, <1>4, QuietRests

LEMMA CountWorkerAckRests ==
    ASSUME TypeInv, NEW s \in Server, NEW a, CountWorkerAck(s, a)
    PROVE  Rest(s)
<1> DEFINE mi == [matchIndex[s] EXCEPT ![a.from] = Len(log[s])]
           r == UpdateCommitIndex(s, shard[s], mi)
<1>1. Send(r.out) /\ log' = log /\ UNCHANGED <<role, currentTerm, votedFor, elected>>
  BY DEF CountWorkerAck, PoppedAck, electionVars
<1> HIDE DEF mi
<1>2. \A n \in r.out : n.type \notin BallotType
  BY UpdateSends
<1> HIDE DEF r
<1>3. NoBallot
  BY <1>1, <1>2 DEF NoBallot, Send
<1> QED
  BY <1>1, <1>3, QuietRests

LEMMA HandleDecisionRests ==
    ASSUME TypeInv, NEW s \in Server, NEW m \in net, m.to = s, HandleDecision(s, m)
    PROVE  Rest(s)
<1> DEFINE lg == DecidedLog(s, m)
           sh == IF Decidable(s, m.tx) = {} THEN shard[s] ELSE LogSaved(shard[s])
           sh2 == [sh EXCEPT !.pending = @ \ {m.tx}]
           r == ApplyCommitted(s, sh2, lg, commitIndex[s], role[s] = "leader")
<1>1. /\ log' = [log EXCEPT ![s] = lg]
      /\ Reply(m, r.out \cup IF r.failed THEN {} ELSE {Ack(s, m.tx)})
      /\ UNCHANGED <<role, currentTerm, votedFor, elected>>
  BY DEF HandleDecision, DecidedLog, electionVars
<1>2. m \in DecisionT
  BY MessageFacts DEF HandleDecision
<1>3. /\ lg \in Seq(Entry) /\ Len(lg) = Len(log[s]) /\ DOMAIN lg = DOMAIN log[s]
      /\ \A i \in DOMAIN lg : lg[i].term = log[s][i].term
  BY <1>2, DecidedTyped
<1>4. sh2 \in ShardT(s)
  <2>1. sh \in ShardT(s)
    <3>1. shard[s] \in ShardT(s)
      BY CurrentTyped
    <3> QED
      BY <3>1 DEF LogSaved, ShardT
  <2> HIDE DEF sh
  <2> QED
    BY <2>1 DEF ShardT
<1> HIDE DEF lg, sh2
<1>5. r.out \subseteq ResponseT
  BY <1>3, <1>4, CurrentTyped, ApplyCommittedTyped
<1> HIDE DEF r
<1>6. NoBallot
  <2>1. \A n \in ResponseT : n.type \notin BallotType
    BY DEF ResponseT, BallotType
  <2> QED
    BY <1>1, <1>5, <2>1, NoBallots DEF NoBallot, Reply
<1>7. ASSUME NEW p \in Server PROVE LastLog(p)' = LastLog(p)
  <2>1. CASE p = s
    <3>1. log'[s] = lg /\ log[s] \in Seq(Entry)
      BY <1>1 DEF TypeInv, LogInv
    <3>2. (lg = <<>> <=> log[s] = <<>>) /\ (lg # <<>> => Len(lg) \in DOMAIN lg)
      BY <1>3, <3>1, EmptySeq, LenProperties
    <3> QED
      BY <1>3, <2>1, <3>1, <3>2 DEF LastLog
  <2>2. CASE p # s
    BY <1>1, <2>2 DEF LastLog, TypeInv, LogInv
  <2> QED
    BY <2>1, <2>2
<1> QED
  BY <1>1, <1>6, <1>7 DEF Rest, NoBallot

LEMMA RepairRests ==
    ASSUME TypeInv, NEW s \in Server, NEW m \in counting[s], RepairFollower(s, m)
    PROVE  Rest(s)
<1>1. /\ log' = log /\ UNCHANGED <<role, currentTerm, votedFor, elected>>
      /\ \E k : Send({AppendEntries(s, m.from, log[s], k)}) \/ Send({})
  BY DEF RepairFollower, Counted, electionVars
<1>2. m.from \in Peers[s] /\ Active(s)
  BY CurrentTyped DEF AckT, Active
<1>3. \A n \in net' : n \in net \/ Speaks(s, n)
  BY <1>1, <1>2, Spoken DEF Send
<1> QED
  BY <1>1, <1>2, <1>3 DEF Rest, LastLog

LEMMA RetryRests ==
    ASSUME TypeInv, NEW s \in Server, NEW a, ackQueue[s] # <<>>, a = Head(ackQueue[s]),
           RetryFollower(s, a)
    PROVE  Rest(s)
<1>1. /\ log' = log /\ UNCHANGED <<role, currentTerm, votedFor, elected>>
      /\ worker[s].pc = "repl"
      /\ \E k : Send({AppendEntries(s, a.from, log[s], k)}) \/ Send({})
  BY DEF RetryFollower, PoppedAck, electionVars
<1>2. a.from \in Peers[s] /\ Active(s)
  BY <1>1, AckHeadTyped DEF AckT, Active
<1>3. \A n \in net' : n \in net \/ Speaks(s, n)
  BY <1>1, <1>2, Spoken DEF Send
<1> QED
  BY <1>1, <1>2, <1>3 DEF Rest, LastLog

LEMMA HeartbeatsRest ==
    ASSUME TypeInv, NEW s \in Server, SendHeartbeats(s)
    PROVE  Rest(s)
<1>1. /\ log' = log /\ UNCHANGED <<role, currentTerm, votedFor, elected>> /\ Active(s)
      /\ \E k : Send({AppendEntries(s, p, log[s], k) : p \in Peers[s]})
  BY DEF SendHeartbeats, electionVars, logVars, Active
<1>2. \A n \in net' : n \in net \/ Speaks(s, n)
  BY <1>1, Spoken DEF Send
<1> QED
  BY <1>1, <1>2 DEF Rest, LastLog

LEMMA AppendRests ==
    ASSUME TypeInv, NEW s \in Server, NEW x \in Tx, AppendTransfer(s, x), Active(s)
    PROVE  Rest(s)
<1>1. /\ UNCHANGED <<role, currentTerm, votedFor, elected, net>>
      /\ log' = [log EXCEPT ![s] = Append(log[s], NewEntry(s, x))]
  BY DEF AppendTransfer, electionVars
<1>2. \A p \in Server : p # s => log'[p] = log[p]
  BY <1>1 DEF TypeInv, LogInv
<1> QED
  BY <1>1, <1>2 DEF Rest, LastLog

LEMMA ReplicateRests ==
    ASSUME TypeInv, NEW s \in Server, Replicate(s)
    PROVE  Rest(s)
<1>1. UNCHANGED <<role, currentTerm, votedFor, elected>> /\ log' = log /\ Active(s)
  BY DEF Replicate, electionVars, logVars, Active
<1>2. PICK ni : \E to \in SUBSET Peers[s] :
                   Send({AppendEntries(s, p, log[s], ni[p]) : p \in to})
  BY DEF Replicate
<1>3. \A n \in net' : n \in net \/ Speaks(s, n)
  BY <1>2, Spoken DEF Send
<1> QED
  BY <1>1, <1>3 DEF Rest, LastLog

LEMMA WorkerRests ==
    ASSUME TypeInv, NEW s \in Server, Worker(s)
    PROVE  Rest(s)
<1>1. CASE AppendIntra(s) \/ AppendCross(s)
  <2>1. Active(s) /\ \E x \in Tx : AppendTransfer(s, x)
    BY <1>1 DEF AppendIntra, AppendCross, NextInQueue, Active, TypeInv, WorkerInv
  <2> QED
    BY <2>1, AppendRests
<1>2. CASE \E a : ackQueue[s] # <<>> /\ a = Head(ackQueue[s])
                  /\ (CountWorkerAck(s, a) \/ RetryFollower(s, a))
  BY <1>2, CountWorkerAckRests, RetryRests
<1>3. CASE RejectTransfer(s) \/ AwaitLocks(s) \/ LockTimeout(s) \/ GiveUp(s)
  <2>1. RejectTransfer(s) => NoBallot
    BY NoBallots DEF NoBallot, RejectTransfer, Send
  <2>2. AwaitLocks(s) => NoBallot
    BY DEF NoBallot, AwaitLocks
  <2>3. GiveUp(s) => NoBallot
    BY NoBallots DEF NoBallot, GiveUp, Send
  <2>4. LockTimeout(s) => NoBallot
    <3>1. ClientResponse(worker[s].tx, FALSE).type \notin BallotType
      BY NoBallots
    <3> QED
      BY <3>1 DEF NoBallot, LockTimeout, Send
  <2>5. UNCHANGED <<role, currentTerm, votedFor, elected, log>>
    BY <1>3 DEF RejectTransfer, AwaitLocks, LockTimeout, GiveUp, electionVars, logVars
  <2> QED
    BY <1>3, <2>1, <2>2, <2>3, <2>4, <2>5, QuietRests
<1>4. CASE Replicate(s)
  BY <1>4, ReplicateRests
<1> QED
  BY <1>1, <1>2, <1>3, <1>4 DEF Worker

LEMMA OthersRest ==
    ASSUME \/ ClientNext /\ UNCHANGED serverVars
           \/ RemoteVote \/ UNCHANGED vars
           \/ \E s \in Server, x \in Tx : CheckPending(s, x)
    PROVE  Quiet
<1>1. UNCHANGED <<role, currentTerm, votedFor, elected, log>>
  BY DEF RemoteVote, CheckPending, vars, serverVars, electionVars, logVars
<1>2. ClientNext => NoBallot
  <2>1. Issue => NoBallot
    BY NoBallots DEF NoBallot, Issue
  <2>2. ASSUME NEW m \in net, HandleVote(m) \/ HandleAck(m) \/ HandleClientResponse(m)
        PROVE  NoBallot
    <3>1. \A now : DecisionOn(now) \in {"COMMIT", "ABORT"}
      BY DEF DecisionOn
    <3>2. HandleVote(m) => NoBallot
      BY <3>1, NoBallots DEF NoBallot, HandleVote
    <3> QED
      BY <2>2, <3>2 DEF NoBallot, HandleAck, HandleClientResponse
  <2> QED
    BY <2>1, <2>2 DEF ClientNext
<1>3. RemoteVote \/ UNCHANGED vars => NoBallot
  BY NoBallots DEF NoBallot, RemoteVote, vars
<1>4. ASSUME NEW s \in Server, NEW x \in Tx, CheckPending(s, x) PROVE NoBallot
  <2>1. Send({}) \/ Send({Ack(s, x)})
    BY <1>4 DEF CheckPending
  <2> QED
    BY <2>1, NoBallots DEF NoBallot, Send
<1>5. NoBallot
  BY <1>2, <1>3, <1>4
<1> QED
  BY <1>1, <1>5, QuietRests

LEMMA AppendHears ==
    ASSUME TypeInv, NEW s \in Server, NEW m \in net, m.to = s,
           RefuseAppend(s, m) \/ AcceptAppend(s, m)
    PROVE  Hears(s, m)
<1>1. CASE RefuseAppend(s, m)
  BY <1>1, NoBallots DEF Hears, RefuseAppend, NoBallot, Reply, LastLog, logVars
<1>2. CASE AcceptAppend(s, m)
  <2> DEFINE ci == CommitAfter(s, m)
             lg == Merged(s, m)
             r == IF ci > commitIndex[s]
                  THEN ApplyCommitted(s, Received(s, m), lg, ci,
                                      RoleAt(s, m.term) = "leader")
                  ELSE NothingDone(s, Received(s, m))
  <2>1. /\ SeeLeader(s, m) /\ Consistent(s, m) /\ elected' = elected
        /\ log' = [log EXCEPT ![s] = lg]
        /\ Reply(m, r.out \cup IF r.failed THEN {} ELSE {AppendAck(s, m.from, TRUE)})
    BY <1>2 DEF AcceptAppend
  <2>2. m \in AppendT
    BY <2>1, SeeLeaderTyped
  <2>3. lg \in Seq(Entry) /\ ci \in Nat /\ Received(s, m) \in ShardT(s)
    BY <2>1, <2>2, MergedTyped, ReceivedTyped, CommitAfterTyped
  <2>4. \/ r = ApplyCommitted(s, Received(s, m), lg, ci, RoleAt(s, m.term) = "leader")
        \/ r = NothingDone(s, Received(s, m))
    OBVIOUS
  <2> HIDE DEF lg, ci, r
  <2>5. r.out \subseteq ResponseT
    <3>1. CASE r = NothingDone(s, Received(s, m))
      BY <3>1 DEF NothingDone
    <3>2. CASE r = ApplyCommitted(s, Received(s, m), lg, ci, RoleAt(s, m.term) = "leader")
      BY <2>3, <3>2, ApplyCommittedTyped
    <3> QED
      BY <2>4, <3>1, <3>2
  <2>6. NoBallot
    <3>1. \A n \in ResponseT : n.type \notin BallotType
      BY DEF ResponseT, BallotType
    <3> QED
      BY <2>1, <2>5, <3>1, NoBallots DEF NoBallot, Reply
  <2>7. \A p \in Server \ {s} : LastLog(p)' = LastLog(p)
    BY <2>1 DEF LastLog, TypeInv, LogInv
  <2> QED
    BY <2>1, <2>6, <2>7 DEF Hears
<1> QED
  BY <1>1, <1>2

LEMMA ListenerElects ==
    ASSUME TypeInv, NEW s \in Server, Listener(s)
    PROVE  Elects(s)
<1>1. CASE \E m \in counting[s] : CountAck(s, m) \/ RepairFollower(s, m)
  BY <1>1, CountAckRests, RepairRests DEF Elects
<1>2. ASSUME NEW m \in net, m.to = s,
             AbandonElection(s, m) \/ BecomeLeader(s, m) \/ HandleVoteRequest(s, m)
      PROVE  Elects(s)
  BY <1>2 DEF Elects
<1>3. ASSUME NEW m \in net, m.to = s, RefuseAppend(s, m) \/ AcceptAppend(s, m)
      PROVE  Elects(s)
  BY <1>3, AppendHears DEF Elects
<1>4. ASSUME NEW m \in net, m.to = s,
             \/ Drop(s, m) \/ StaleAppend(s, m) \/ QueueAck(s, m) \/ TakeAck(s, m)
             \/ TakeRequest(s, m) \/ IgnoreDecision(s, m) \/ HandleDecision(s, m)
      PROVE  Elects(s)
  BY <1>4, DropRests, TakeRequestRests, HandleDecisionRests DEF Elects
<1> QED
  BY <1>1, <1>2, <1>3, <1>4 DEF Listener

\* Every step is one of a server in an election, or of none.
LEMMA ElectionKinds ==
    ASSUME TypeInv, MayRestart = {}, [Next]_vars
    PROVE  (\E s \in Server : Elects(s)) \/ Quiet
<1>1. CASE ServerNext
  <2>1. PICK s \in Server :
           \/ StartElection(s) \/ Listener(s) \/ Worker(s) \/ SendHeartbeats(s)
           \/ \E x \in Tx : CheckPending(s, x)
           \/ Restart(s)
    BY <1>1 DEF ServerNext
  <2>2. ~Restart(s)
    BY DEF Restart
  <2>3. CASE \E x \in Tx : CheckPending(s, x)
    BY <2>3, OthersRest
  <2>4. CASE StartElection(s) \/ Listener(s) \/ Worker(s) \/ SendHeartbeats(s)
    BY <2>4, ListenerElects, WorkerRests, HeartbeatsRest DEF Elects
  <2> QED
    BY <2>1, <2>2, <2>3, <2>4
<1>2. CASE (ClientNext /\ UNCHANGED serverVars) \/ RemoteVote \/ UNCHANGED vars
  BY <1>2, OthersRest
<1> QED
  BY <1>1, <1>2 DEF Next

-----------------------------------------------------------------------------
(* Terms stay in their bounds, and logs in theirs. *)

Bounded(t) == t \in 0..LastTerm

TermsInv ==
    /\ \A s \in Server : Bounded(currentTerm[s])
    /\ \A s \in Server : \A i \in DOMAIN log[s] : Bounded(log[s][i].term)
    /\ \A m \in net : m.type \in BallotType => Bounded(m.term)
    /\ \A m \in net : m.type = "APPEND_ENTRIES" =>
          \A k \in DOMAIN m.entries : Bounded(m.entries[k].term)

\* A server that was elected has not gone back below that term.
OfficeInv ==
    \A e \in elected : e \in Nat \X Server /\ e[1] <= currentTerm[e[2]]

LEMMA TermsStart == Init => TermsInv /\ OfficeInv
BY LastTermIsLast DEF Init, ServerInit, NoOffice, NoTransfers, TermsInv, OfficeInv, Bounded

\* No step takes a term back.
LEMMA TermsGrow ==
    ASSUME TypeInv, TermsInv, NEW s \in Server, Elects(s)
    PROVE  \A p \in Server : Bounded(currentTerm'[p]) /\ currentTerm'[p] >= currentTerm[p]
<1>0. /\ \A p \in Server : currentTerm[p] \in Nat /\ currentTerm[p] <= LastTerm
      /\ LastTerm \in Nat
  BY LastTermIsLast DEF TypeInv, ElectionInv, TermsInv, Bounded
<1>1. \A m \in net : m.type \in BallotType => m.term \in Nat /\ m.term <= LastTerm
  BY LastTermIsLast DEF TermsInv, Bounded
<1>2. CASE StartElection(s)
  <2>1. <<s, currentTerm[s] + 1>> \in MayStand
    BY <1>2 DEF StartElection
  <2>2. currentTerm[s] + 1 <= LastTerm
    BY <2>1, LastTermIsLast
  <2>3. \A p \in Server : currentTerm'[p] = IF p = s THEN currentTerm[s] + 1 ELSE currentTerm[p]
    BY <1>2 DEF StartElection, TypeInv, ElectionInv
  <2> QED
    BY <1>0, <2>2, <2>3 DEF Bounded
<1>3. CASE Rest(s)
  BY <1>0, <1>3 DEF Rest, Bounded
<1>4. ASSUME NEW m \in net, m.to = s,
             \/ AbandonElection(s, m) \/ BecomeLeader(s, m)
             \/ HandleVoteRequest(s, m) \/ Hears(s, m)
      PROVE  \A p \in Server : Bounded(currentTerm'[p]) /\ currentTerm'[p] >= currentTerm[p]
  <2>1. CASE AbandonElection(s, m)
    <3>1. m.type \in BallotType /\ m.term >= currentTerm[s]
      BY <1>0, <1>1, <2>1 DEF AbandonElection, EndsElection, BallotType
    <3>2. \A p \in Server : currentTerm'[p] = IF p = s THEN m.term ELSE currentTerm[p]
      BY <2>1 DEF AbandonElection, TypeInv, ElectionInv
    <3> QED
      BY <1>0, <1>1, <3>1, <3>2 DEF Bounded
  <2>2. CASE BecomeLeader(s, m)
    BY <1>0, <2>2 DEF BecomeLeader, Bounded
  <2>3. CASE HandleVoteRequest(s, m) \/ Hears(s, m)
    <3>1. m.type \in BallotType
      BY <2>3 DEF HandleVoteRequest, Hears, SeeLeader, BallotType
    <3>2. \A p \in Server : currentTerm'[p] = IF p = s THEN TermOf(s, m.term) ELSE currentTerm[p]
      BY <2>3 DEF HandleVoteRequest, Hears, SeeLeader, TypeInv, ElectionInv
    <3>3. TermOf(s, m.term) \in Nat /\ TermOf(s, m.term) <= LastTerm
          /\ TermOf(s, m.term) >= currentTerm[s]
      BY <1>0, <1>1, <3>1 DEF TermOf
    <3> QED
      BY <1>0, <3>2, <3>3 DEF Bounded
  <2> QED
    BY <1>4, <2>1, <2>2, <2>3
<1> QED
  BY <1>2, <1>3, <1>4 DEF Elects

\* A new ballot bears the term its sender has after the step.
LEMMA BallotTerms ==
    ASSUME TypeInv, NEW s \in Server, Elects(s)
    PROVE  \A n \in net' : \/ n \in net \/ n.type \notin BallotType
                           \/ n.from = s /\ n.term = currentTerm'[s]
<1>1. CASE StartElection(s)
  <2>1. \A p : /\ RequestVote(s, currentTerm[s] + 1, p).from = s
               /\ RequestVote(s, currentTerm[s] + 1, p).term = currentTerm[s] + 1
    BY DEF RequestVote
  <2>2. currentTerm'[s] = currentTerm[s] + 1
    BY <1>1 DEF StartElection, TypeInv, ElectionInv
  <2> QED
    BY <1>1, <2>1, <2>2 DEF StartElection, Send
<1>2. CASE Rest(s)
  BY <1>2 DEF Rest, Speaks
<1>3. ASSUME NEW m \in net, AbandonElection(s, m) \/ BecomeLeader(s, m) \/ Hears(s, m)
      PROVE  \A n \in net' : n \in net \/ n.type \notin BallotType
  BY <1>3 DEF AbandonElection, BecomeLeader, Hears, NoBallot, Reply
<1>4. ASSUME NEW m \in net, HandleVoteRequest(s, m)
      PROVE  \A n \in net' : n \in net \/ (n.from = s /\ n.term = currentTerm'[s])
  <2> DEFINE v == VoteResponse(s, TermOf(s, m.term), m.from)
  <2>1. v.from = s /\ v.term = TermOf(s, m.term)
    BY DEF VoteResponse
  <2>2. currentTerm'[s] = TermOf(s, m.term)
    BY <1>4 DEF HandleVoteRequest, TypeInv, ElectionInv
  <2>3. Reply(m, {v}) \/ Reply(m, {})
    BY <1>4 DEF HandleVoteRequest
  <2> HIDE DEF v
  <2>4. \A n \in net' : n \in net \/ n = v
    BY <2>3 DEF Reply
  <2> QED
    BY <2>1, <2>2, <2>4
<1> QED
  BY <1>1, <1>2, <1>3, <1>4 DEF Elects

LEMMA TermsNext ==
    ASSUME TypeInv, TypeInv', SteadyStep, TermsInv, OfficeInv,
           (\E s \in Server : Elects(s)) \/ Quiet
    PROVE  TermsInv' /\ OfficeInv'
<1>1. \A p \in Server : Bounded(currentTerm'[p]) /\ currentTerm'[p] >= currentTerm[p]
  <2>1. CASE Quiet
    <3>1. currentTerm' = currentTerm /\ \A p \in Server : currentTerm[p] \in Nat
      BY <2>1 DEF Quiet, TypeInv, ElectionInv
    <3> QED
      BY <3>1 DEF TermsInv
  <2> QED
    BY <2>1, TermsGrow
<1>2. ASSUME NEW n \in net', n.type \in BallotType PROVE Bounded(n.term)
  <2>1. CASE n \in net
    BY <1>2, <2>1 DEF TermsInv
  <2>2. CASE n \notin net
    <3>1. CASE Quiet
      BY <1>2, <2>2, <3>1 DEF Quiet, NoBallot
    <3>2. CASE \E s \in Server : Elects(s)
      BY <1>1, <1>2, <2>2, <3>2, BallotTerms
    <3> QED
      BY <3>1, <3>2
  <2> QED
    BY <2>1, <2>2
<1>3. ASSUME NEW t \in Server, NEW i \in DOMAIN log'[t] PROVE Bounded(log'[t][i].term)
  <2>1. \/ Marked(t)
        \/ \E x \in Tx : log'[t] = Append(log[t], NewEntry(t, x))
        \/ \E m \in net : m \in AppendT /\ m.to = t /\ Consistent(t, m) /\ log'[t] = Merged(t, m)
    BY DEF SteadyStep, LogStep
  <2>2. CASE Marked(t)
    BY <1>3, <2>2 DEF Marked, TermsInv
  <2>3. ASSUME NEW x \in Tx, log'[t] = Append(log[t], NewEntry(t, x))
        PROVE  Bounded(log'[t][i].term)
    <3>1. /\ log[t] \in Seq(Entry) /\ NewEntry(t, x) \in Entry
          /\ NewEntry(t, x).term = currentTerm[t]
      BY CurrentTyped DEF NewEntry, Entry, TypeInv, LogInv, ElectionInv
    <3>2. /\ Len(log'[t]) = Len(log[t]) + 1 /\ Len(log[t]) \in Nat
          /\ \A k \in 1..Len(log[t]) : log'[t][k] = log[t][k]
          /\ log'[t][Len(log[t]) + 1] = NewEntry(t, x)
          /\ DOMAIN log[t] = 1..Len(log[t])
      BY <2>3, <3>1, AppendProperties, LenProperties
    <3>3. DOMAIN log'[t] = 1..Len(log'[t])
      BY LenProperties DEF TypeInv, LogInv
    <3>4. i \in DOMAIN log[t] \/ i = Len(log[t]) + 1
      BY <1>3, <3>2, <3>3
    <3> QED
      BY <3>1, <3>2, <3>4 DEF TermsInv
  <2>4. ASSUME NEW m \in net, m \in AppendT, m.to = t, Consistent(t, m), log'[t] = Merged(t, m)
        PROVE  Bounded(log'[t][i].term)
    <3>1. \/ i \in DOMAIN log[t] /\ log'[t][i] = log[t][i]
          \/ i - m.prev \in DOMAIN m.entries /\ log'[t][i] = m.entries[i - m.prev]
      BY <1>3, <2>4, MergedFrom
    <3> QED
      BY <2>4, <3>1 DEF TermsInv, AppendT
  <2> QED
    BY <2>1, <2>2, <2>3, <2>4
<1>4. ASSUME NEW n \in net', n.type = "APPEND_ENTRIES", NEW k \in DOMAIN n.entries
      PROVE  Bounded(n.entries[k].term)
  <2>1. CASE n \in net
    BY <1>4, <2>1 DEF TermsInv
  <2>2. CASE Sent(n)
    <3>0. PICK s \in Server : \E p \in Peers[s] : \E j \in 0..Len(log'[s]) :
             n = AppendEntries(s, p, log'[s], j)
      BY <2>2 DEF Sent
    <3>1. PICK p \in Peers[s] : \E j \in 0..Len(log'[s]) : n = AppendEntries(s, p, log'[s], j)
      BY <3>0
    <3>11. PICK j \in 0..Len(log'[s]) : n = AppendEntries(s, p, log'[s], j)
      BY <3>1
    <3>2. log'[s] \in Seq(Entry) /\ Len(log'[s]) \in Nat
          /\ DOMAIN log'[s] = 1..Len(log'[s])
      BY LenProperties DEF TypeInv, LogInv
    <3>3. n.entries = [i \in 1..(Len(log'[s]) - j) |-> OnWire(log'[s][j + i])]
      BY <3>11 DEF AppendEntries
    <3>4. j + k \in DOMAIN log'[s] /\ n.entries[k] = OnWire(log'[s][j + k])
      BY <1>4, <3>2, <3>3
    <3>5. OnWire(log'[s][j + k]).term = log'[s][j + k].term
      <4>1. log'[s][j + k] \in Entry
        BY <3>2, <3>4, ElementOfSeq
      <4> QED
        BY <4>1 DEF OnWire, Entry
    <3> QED
      BY <1>3, <3>4, <3>5
  <2> QED
    BY <1>4, <2>1, <2>2 DEF SteadyStep, NetStep
<1>5. ASSUME NEW e \in elected'
      PROVE  e \in Nat \X Server /\ e[1] <= currentTerm'[e[2]]
  <2>1. CASE e \in elected
    <3>1. \A p \in Server : currentTerm'[p] \in Nat /\ currentTerm[p] \in Nat
      BY DEF TypeInv, ElectionInv
    <3> QED
      BY <1>1, <2>1, <3>1 DEF OfficeInv
  <2>2. CASE e \notin elected
    <3>1. PICK s \in Server, m \in net : BecomeLeader(s, m)
      <4>1. ~Quiet /\ \A s : ~Rest(s)
        BY <1>5, <2>2 DEF Quiet, Rest
      <4>2. \A s \in Server : ~StartElection(s)
        BY <1>5, <2>2 DEF StartElection
      <4>3. \A s \in Server, m \in net :
               ~AbandonElection(s, m) /\ ~HandleVoteRequest(s, m) /\ ~Hears(s, m)
        BY <1>5, <2>2 DEF AbandonElection, HandleVoteRequest, Hears
      <4> QED
        BY <4>1, <4>2, <4>3 DEF Elects
    <3>2. e = <<currentTerm[s], s>> /\ currentTerm' = currentTerm
      BY <1>5, <2>2, <3>1 DEF BecomeLeader
    <3> QED
      BY <3>2 DEF TypeInv, ElectionInv
  <2> QED
    BY <2>1, <2>2
<1> QED
  BY <1>1, <1>2, <1>3, <1>4, <1>5 DEF TermsInv, OfficeInv

LEMMA LogsBounded ==
    ASSUME TypeInv, PlaceInv, NEW s \in Server
    PROVE  Len(log[s]) <= Len(TxList)
<1>1. /\ log[s] \in Seq(Entry) /\ Len(log[s]) \in Nat
      /\ DOMAIN log[s] = 1..Len(log[s])
  BY LenProperties DEF TypeInv, LogInv
<1>2. Len(TxList) \in Nat /\ Tx = 1..Len(TxList)
  BY TxListType, LenProperties DEF Tx
<1> DEFINE n == Len(log[s])
           L == Len(TxList)
           f == [i \in 1..n |-> log[s][i].tx]
<1>3. f \in [1..n -> Tx]
  <2>1. \A i \in 1..n : log[s][i] \in Entry
    BY <1>1, ElementOfSeq
  <2> QED
    BY <2>1 DEF Entry
<1>4. ASSUME NEW i \in 1..n, NEW j \in 1..n, f[i] = f[j] PROVE i = j
  <2>1. f[i] \in Tx /\ i \in Nat /\ j \in Nat
    BY <1>3
  <2>2. Occurs(i, f[i], ClusterOf[s]) /\ Occurs(j, f[i], ClusterOf[s])
    BY <1>1, <1>4 DEF Occurs
  <2>3. Placed("log", i, f[i], ClusterOf[s]) /\ Placed("log", j, f[i], ClusterOf[s])
    BY <2>1, <2>2 DEF Placed
  <2> QED
    BY <2>1, <2>3 DEF PlaceInv, OnePlace
<1>5. /\ IsFiniteSet(1..n) /\ Cardinality(1..n) = n
      /\ IsFiniteSet(Tx) /\ Cardinality(Tx) = L
  <2>1. ASSUME NEW k \in Nat PROVE IsFiniteSet(1..k) /\ Cardinality(1..k) = k
    BY FS_Interval
  <2> QED
    BY <1>1, <1>2, <2>1
<1> HIDE DEF f
<1>6. ~(Cardinality(Tx) < Cardinality(1..n))
  <2> SUFFICES ASSUME Cardinality(Tx) < Cardinality(1..n) PROVE FALSE
    OBVIOUS
  <2>1. \E i, j \in 1..n : i # j /\ f[i] = f[j]
    BY <1>3, <1>5, FS_PigeonHole
  <2> QED
    BY <1>4, <2>1
<1> QED
  BY <1>1, <1>2, <1>5, <1>6

LastEntry == [term : 0..LastTerm, index : 0..Len(TxList)]
StampInv == \A s \in Server : LastLog(s) \in LastEntry

LEMMA Stamped == TypeInv /\ PlaceInv /\ TermsInv => StampInv
<1> SUFFICES ASSUME TypeInv, PlaceInv, TermsInv, NEW s \in Server
             PROVE  LastLog(s) \in LastEntry
  BY DEF StampInv
<1>1. /\ log[s] \in Seq(Entry) /\ Len(log[s]) \in Nat /\ Len(TxList) \in Nat
      /\ Len(log[s]) <= Len(TxList)
  BY LogsBounded, TxListType, LenProperties DEF TypeInv, LogInv
<1>2. log[s] # <<>> => Len(log[s]) \in DOMAIN log[s]
  BY <1>1, EmptySeq, LenProperties
<1>3. LastLog(s).term \in 0..LastTerm
  BY <1>2, LastTermIsLast DEF LastLog, TermsInv, Bounded
<1> QED
  BY <1>1, <1>3 DEF LastLog, LastEntry

-----------------------------------------------------------------------------
(* What elections see of the network. *)

SentInv == Ballots(net) \subseteq sent

\* The history variable of a step.
Recorded == sent' = sent \cup Ballots(net')

LEMMA VoterFacts ==
    ASSUME NEW s \in Voters
    PROVE  s \in Server /\ ClusterOf[s] = Cluster /\ Peers[s] = Voters \ {s}
<1>1. s \in Server /\ ClusterOf[s] = Cluster
  BY ClusterInFull DEF Voters, Members
<1> QED
  BY <1>1 DEF Voters, Peers

\* A ballot in flight has been seen.
LEMMA BallotSeen ==
    ASSUME TypeInv, SentInv, NEW m \in net, m.to \in Voters, m.type \in BallotType
    PROVE  /\ m.from \in Voters
           /\ \E b \in sent : /\ b.type = m.type /\ b.term = m.term /\ b.to = m.to
                              /\ b.from = m.from
                              /\ m.type = "REQUEST_VOTE" => b = m
<1>1. m.from \in Voters
  BY MessageFacts, VoterFacts DEF BallotType, RaftType
<1>2. CASE m.type = "APPEND_ENTRIES"
  <2> DEFINE b == [type |-> m.type, term |-> m.term, from |-> m.from, to |-> m.to]
  <2>1. b \in Ballots(net)
    BY <1>1, <1>2 DEF Ballots
  <2>2. b.type = m.type /\ b.term = m.term /\ b.to = m.to /\ b.from = m.from
    OBVIOUS
  <2> HIDE DEF b
  <2> QED
    BY <1>1, <1>2, <2>1, <2>2 DEF SentInv
<1>3. CASE m.type # "APPEND_ENTRIES"
  <2>1. m \in Ballots(net)
    BY <1>1, <1>3 DEF Ballots, BallotType
  <2> QED
    BY <1>1, <2>1 DEF SentInv
<1> QED
  BY <1>2, <1>3

LEMMA NoneSeen ==
    ASSUME SentInv, Recorded,
           \A n \in net' : n \in net \/ n.type \notin BallotType \/ n.from \notin Voters
    PROVE  sent' = sent
<1>1. Ballots(net') \subseteq Ballots(net)
  BY DEF Ballots, BallotType
<1> QED
  BY <1>1 DEF SentInv, Recorded

\* Requests for votes and votes of a voter are seen as they are.
LEMMA VotesSeen ==
    ASSUME SentInv, Recorded, NEW O, O \subseteq net', net' \subseteq net \cup O,
           \A n \in O : n.type \in {"REQUEST_VOTE", "VOTE_RESPONSE"} /\ n.from \in Voters
    PROVE  sent' = sent \cup O
<1>1. Ballots(net') \subseteq Ballots(net) \cup O
  BY DEF Ballots
<1>2. O \subseteq Ballots(net')
  BY DEF Ballots
<1> QED
  BY <1>1, <1>2 DEF SentInv, Recorded

\* What a step does to role, term and vote of s, it does to what elections see.
LEMMA RestrictedExcept ==
    ASSUME TypeInv, NEW s \in Voters, NEW r, NEW t, NEW v
    PROVE  /\ role' = [role EXCEPT ![s] = r]
                 => Restricted(role)' = [Restricted(role) EXCEPT ![s] = r]
           /\ currentTerm' = [currentTerm EXCEPT ![s] = t]
                 => Restricted(currentTerm)' = [Restricted(currentTerm) EXCEPT ![s] = t]
           /\ votedFor' = [votedFor EXCEPT ![s] = v]
                 => Restricted(votedFor)' = [Restricted(votedFor) EXCEPT ![s] = v]
<1>1. \A p \in Voters : p \in Server
  BY VoterFacts
<1> QED
  BY <1>1 DEF Restricted, TypeInv, ElectionInv

-----------------------------------------------------------------------------
(* Every step of Bank is a step of Election, or leaves its state alone. *)

Mapping == TypeInv /\ SentInv /\ Recorded

LEMMA StartElectionSimulates ==
    ASSUME Mapping, NEW s \in Voters, StartElection(s)
    PROVE  Elections!StartElection(s)
<1> DEFINE O == {RequestVote(s, currentTerm[s] + 1, p) : p \in Peers[s]}
<1>1. s \in Server /\ Peers[s] = Voters \ {s}
  BY VoterFacts
<1>2. sent' = sent \cup O
  <2>1. net' = net \cup O
    BY DEF StartElection, Send
  <2>2. \A n \in O : n.type \in {"REQUEST_VOTE", "VOTE_RESPONSE"} /\ n.from \in Voters
    BY DEF RequestVote
  <2> HIDE DEF O
  <2> QED
    BY <2>1, <2>2, VotesSeen DEF Mapping
<1>3. O = {Elections!RequestVote(s, currentTerm[s] + 1, p) : p \in Elections!Peers(s)}
  BY <1>1 DEF RequestVote, Elections!RequestVote, Elections!Peers
<1>4. currentTerm[s] < LastTerm
  <2>1. <<s, currentTerm[s] + 1>> \in MayStand /\ currentTerm[s] \in Nat
    BY <1>1 DEF StartElection, Mapping, TypeInv, ElectionInv
  <2> QED
    BY <2>1, LastTermIsLast
<1>5. /\ Restricted(role)' = [Restricted(role) EXCEPT ![s] = "candidate"]
      /\ Restricted(currentTerm)' = [Restricted(currentTerm) EXCEPT ![s] = currentTerm[s] + 1]
      /\ Restricted(votedFor)' = [Restricted(votedFor) EXCEPT ![s] = s]
  <2>1. /\ role' = [role EXCEPT ![s] = "candidate"]
        /\ currentTerm' = [currentTerm EXCEPT ![s] = currentTerm[s] + 1]
        /\ votedFor' = [votedFor EXCEPT ![s] = s]
    BY DEF StartElection
  <2> QED
    BY <2>1, RestrictedExcept DEF Mapping
<1>6. Restricted(role)[s] = role[s] /\ Restricted(currentTerm)[s] = currentTerm[s]
  BY DEF Restricted
<1>7. elected' = elected /\ log' = log /\ role[s] \in {"follower", "candidate"}
  BY DEF StartElection, logVars
<1> HIDE DEF O
<1> QED
  BY <1>2, <1>3, <1>4, <1>5, <1>6, <1>7 DEF Elections!StartElection, LastLog

LEMMA AbandonSimulates ==
    ASSUME Mapping, NEW s \in Voters, NEW m \in net, m.to = s, AbandonElection(s, m)
    PROVE  \E b \in sent : Elections!Receive(s, b)
<1>1. s \in Server
  BY VoterFacts
<1>2. PICK b \in sent : b.type = m.type /\ b.term = m.term /\ b.to = m.to
  <2>1. m.type \in BallotType
    BY DEF AbandonElection, EndsElection, BallotType
  <2> QED
    BY <2>1, BallotSeen DEF Mapping
<1>3. sent' = sent
  BY NoneSeen DEF Mapping, AbandonElection, Reply
<1>4. /\ Restricted(role)' = [Restricted(role) EXCEPT ![s] = "follower"]
      /\ Restricted(currentTerm)' = [Restricted(currentTerm) EXCEPT ![s] = b.term]
      /\ Restricted(votedFor)' = [Restricted(votedFor) EXCEPT ![s] = NoServer]
  <2>1. /\ role' = [role EXCEPT ![s] = "follower"]
        /\ currentTerm' = [currentTerm EXCEPT ![s] = b.term]
        /\ votedFor' = [votedFor EXCEPT ![s] = NoServer]
    BY <1>2 DEF AbandonElection
  <2> QED
    BY <2>1, RestrictedExcept DEF Mapping
<1>5. Restricted(role)[s] = role[s] /\ Restricted(currentTerm)[s] = currentTerm[s]
  BY DEF Restricted
<1>6. /\ elected' = elected /\ log' = log /\ role[s] = "candidate"
      /\ m.term > currentTerm[s] \/ (m.type = "APPEND_ENTRIES" /\ m.term = currentTerm[s])
  BY DEF AbandonElection, EndsElection, logVars
<1>7. Elections!AbandonElection(s, b)
  BY <1>2, <1>3, <1>4, <1>5, <1>6
  DEF Elections!AbandonElection, Elections!StepDown, LastLog
<1> QED
  BY <1>2, <1>7 DEF Elections!Receive

LEMMA BecomeLeaderSimulates ==
    ASSUME Mapping, NEW s \in Voters, NEW m \in net, m.to = s, BecomeLeader(s, m)
    PROVE  \E b \in sent : Elections!Receive(s, b)
<1>1. s \in Server
  BY VoterFacts
<1>2. PICK b \in sent : b.type = m.type /\ b.term = m.term /\ b.to = m.to
  <2>1. m.type \in BallotType
    BY DEF BecomeLeader, WinsElection, BallotType
  <2> QED
    BY <2>1, BallotSeen DEF Mapping
<1>3. sent' = sent
  BY NoneSeen DEF Mapping, BecomeLeader, Reply
<1>4. Restricted(role)' = [Restricted(role) EXCEPT ![s] = "leader"]
  <2>1. role' = [role EXCEPT ![s] = "leader"]
    BY DEF BecomeLeader
  <2> QED
    BY <2>1, RestrictedExcept DEF Mapping
<1>5. Restricted(role)[s] = role[s] /\ Restricted(currentTerm)[s] = currentTerm[s]
  BY DEF Restricted
<1>6. /\ UNCHANGED <<currentTerm, votedFor, log>> /\ role[s] = "candidate"
      /\ elected' = elected \cup {<<currentTerm[s], s>>}
      /\ m.type = "VOTE_RESPONSE" /\ m.term = currentTerm[s]
  BY DEF BecomeLeader, WinsElection, logVars
<1>7. {e \in elected' : e[2] \in Voters}
         = {e \in elected : e[2] \in Voters} \cup {<<currentTerm[s], s>>}
  BY <1>6
<1>8. Elections!BecomeLeader(s, b)
  BY <1>2, <1>3, <1>4, <1>5, <1>6, <1>7 DEF Elections!BecomeLeader, LastLog, Restricted
<1> QED
  BY <1>2, <1>8 DEF Elections!Receive

\* A voter reads term, role and vote the same way.
LEMMA SameReading ==
    ASSUME NEW s \in Voters, NEW t
    PROVE  /\ Elections!TermOf(s, t) = TermOf(s, t)
           /\ Elections!RoleAt(s, t) = RoleAt(s, t)
           /\ Elections!VoteAt(s, t) = VoteAt(s, t)
BY DEF Elections!TermOf, Elections!RoleAt, Elections!VoteAt, TermOf, RoleAt, VoteAt, Restricted

LEMMA VoteRequestSimulates ==
    ASSUME Mapping, NEW s \in Voters, NEW m \in net, m.to = s, HandleVoteRequest(s, m)
    PROVE  \E b \in sent : Elections!Receive(s, b)
<1>1. s \in Server
  BY VoterFacts
<1>2. m.from \in Voters /\ m \in sent
  <2>1. m.type = "REQUEST_VOTE" /\ m.type \in BallotType
    BY DEF HandleVoteRequest, BallotType
  <2> QED
    BY <2>1, BallotSeen DEF Mapping
<1> DEFINE grants == VoteAt(s, m.term) = NoServer /\ AsComplete(m.lastLog, LastLog(s))
           v == VoteResponse(s, TermOf(s, m.term), m.from)
<1>3. IF grants THEN sent' = sent \cup {v} ELSE sent' = sent
  <2>1. CASE grants
    <3>1. Reply(m, {v})
      BY <2>1 DEF HandleVoteRequest
    <3>2. v.type \in {"REQUEST_VOTE", "VOTE_RESPONSE"} /\ v.from \in Voters
      BY DEF VoteResponse
    <3> HIDE DEF v, grants
    <3>3. {v} \subseteq net' /\ net' \subseteq net \cup {v}
      BY <3>1 DEF Reply
    <3> QED
      BY <2>1, <3>2, <3>3, VotesSeen DEF Mapping
  <2>2. CASE ~grants
    <3>1. Reply(m, {})
      BY <2>2 DEF HandleVoteRequest
    <3> QED
      BY <2>2, <3>1, NoneSeen DEF Mapping, Reply
  <2> QED
    BY <2>1, <2>2
<1>4. /\ Restricted(role)' = [Restricted(role) EXCEPT ![s] = RoleAt(s, m.term)]
      /\ Restricted(currentTerm)' = [Restricted(currentTerm) EXCEPT ![s] = TermOf(s, m.term)]
      /\ Restricted(votedFor)' =
            [Restricted(votedFor) EXCEPT ![s] = IF grants THEN m.from ELSE VoteAt(s, m.term)]
  <2> HIDE DEF grants
  <2>1. /\ role' = [role EXCEPT ![s] = RoleAt(s, m.term)]
        /\ currentTerm' = [currentTerm EXCEPT ![s] = TermOf(s, m.term)]
        /\ votedFor' = [votedFor EXCEPT ![s] = IF grants THEN m.from ELSE VoteAt(s, m.term)]
    BY DEF HandleVoteRequest, grants
  <2> QED
    BY <2>1, RestrictedExcept DEF Mapping
<1>5. /\ elected' = elected /\ log' = log /\ role[s] # "candidate"
      /\ m.type = "REQUEST_VOTE"
  BY DEF HandleVoteRequest, logVars
<1>6. Elections!AsComplete(m.lastLog, LastLog(s)) = AsComplete(m.lastLog, LastLog(s))
  BY DEF Elections!AsComplete, AsComplete
<1>7. Elections!VoteResponse(s, TermOf(s, m.term), m.from) = v
  BY DEF Elections!VoteResponse, VoteResponse
<1>8. Restricted(role)[s] = role[s]
  BY DEF Restricted
<1> HIDE DEF v
<1>9. Elections!HandleVoteRequest(s, m)
  BY <1>3, <1>4, <1>5, <1>6, <1>7, <1>8, SameReading
  DEF Elections!HandleVoteRequest, LastLog
<1> QED
  BY <1>2, <1>9 DEF Elections!Receive

LEMMA HearsSimulates ==
    ASSUME Mapping, StampInv', NEW s \in Voters, NEW m \in net, m.to = s, Hears(s, m)
    PROVE  \E b \in sent : Elections!Receive(s, b)
<1>1. s \in Server /\ \A p \in Voters : p \in Server
  BY VoterFacts
<1>2. PICK b \in sent : b.type = m.type /\ b.term = m.term /\ b.to = m.to
  <2>1. m.type \in BallotType
    BY DEF Hears, SeeLeader, BallotType
  <2> QED
    BY <2>1, BallotSeen DEF Mapping
<1>3. sent' = sent
  BY NoneSeen DEF Mapping, Hears, NoBallot
<1>4. /\ Restricted(role)' = [Restricted(role) EXCEPT ![s] = RoleAt(s, b.term)]
      /\ Restricted(currentTerm)' = [Restricted(currentTerm) EXCEPT ![s] = TermOf(s, b.term)]
      /\ Restricted(votedFor)' = [Restricted(votedFor) EXCEPT ![s] = VoteAt(s, b.term)]
  <2>1. /\ role' = [role EXCEPT ![s] = RoleAt(s, b.term)]
        /\ currentTerm' = [currentTerm EXCEPT ![s] = TermOf(s, b.term)]
        /\ votedFor' = [votedFor EXCEPT ![s] = VoteAt(s, b.term)]
    BY <1>2 DEF Hears, SeeLeader
  <2> QED
    BY <2>1, RestrictedExcept DEF Mapping
<1>5. Restricted(role)[s] = role[s] /\ Restricted(currentTerm)[s] = currentTerm[s]
  BY DEF Restricted
<1>6. /\ elected' = elected /\ role[s] # "candidate"
      /\ m.type = "APPEND_ENTRIES" /\ m.term >= currentTerm[s]
  BY DEF Hears, SeeLeader
<1>7. \E stamp \in LastEntry :
         [p \in Voters |-> LastLog(p)]' = [[p \in Voters |-> LastLog(p)] EXCEPT ![s] = stamp]
  <2>1. LastLog(s)' \in LastEntry /\ \A p \in Voters \ {s} : LastLog(p)' = LastLog(p)
    BY <1>1 DEF Hears, StampInv
  <2> QED
    BY <2>1
<1>8. Elections!HandleAppendEntries(s, b)
  BY <1>2, <1>3, <1>4, <1>5, <1>6, <1>7, SameReading
  DEF Elections!HandleAppendEntries, LastEntry
<1> QED
  BY <1>2, <1>8 DEF Elections!Receive

\* The transaction thread and the repair of a follower look at no role.
LEMMA RestSimulates ==
    ASSUME Mapping, StampInv', LedInv, OfficeInv, NEW s \in Voters, Rest(s), Active(s)
    PROVE  Elections!Replicate(s)
<1>1. s \in Server /\ Peers[s] = Voters \ {s} /\ \A p \in Voters : p \in Server
  BY VoterFacts
<1> DEFINE A(p) == Elections!AppendEntries(s, currentTerm[s], p)
           to == {p \in Peers[s] : A(p) \in Ballots(net')}
<1>2. \E t \in 0..Restricted(currentTerm)[s] : <<t, s>> \in {e \in elected : e[2] \in Voters}
  <2>1. PICK e \in elected : e[2] = s
    BY <1>1 DEF LedInv, Led
  <2>2. e \in Nat \X Server /\ e[1] <= currentTerm[s] /\ currentTerm[s] \in Nat
    BY <1>1, <2>1 DEF OfficeInv, Mapping, TypeInv, ElectionInv
  <2>3. e = <<e[1], s>> /\ e[1] \in 0..currentTerm[s]
    BY <2>1, <2>2
  <2> QED
    BY <2>1, <2>3 DEF Restricted
<1>3. sent' = sent \cup {A(p) : p \in to}
  <2>1. ASSUME NEW b \in Ballots(net'), b \notin Ballots(net) PROVE \E p \in to : b = A(p)
    <3>1. PICK n \in net' :
             /\ n.from \in Voters /\ n.type \in BallotType /\ n \notin net
             /\ IF n.type = "APPEND_ENTRIES"
                THEN b = [type |-> n.type, term |-> n.term, from |-> n.from, to |-> n.to]
                ELSE b = n
      BY <2>1 DEF Ballots, BallotType
    <3>2. Speaks(s, n)
      BY <3>1 DEF Rest
    <3>3. b = A(n.to) /\ n.to \in Peers[s]
      BY <3>1, <3>2 DEF Speaks, Elections!AppendEntries
    <3> QED
      BY <2>1, <3>3
  <2>2. {A(p) : p \in to} \subseteq Ballots(net')
    OBVIOUS
  <2> HIDE DEF A, to
  <2> QED
    BY <2>1, <2>2 DEF Mapping, SentInv, Recorded
<1>4. to \in SUBSET Elections!Peers(s)
  BY <1>1 DEF Elections!Peers
<1>5. \E stamp \in LastEntry :
         [p \in Voters |-> LastLog(p)]' = [[p \in Voters |-> LastLog(p)] EXCEPT ![s] = stamp]
  <2>1. LastLog(s)' \in LastEntry /\ \A p \in Voters \ {s} : LastLog(p)' = LastLog(p)
    BY <1>1 DEF Rest, StampInv
  <2> QED
    BY <2>1
<1>6. Restricted(currentTerm)[s] = currentTerm[s]
  BY DEF Restricted
<1>7. UNCHANGED <<Restricted(role), Restricted(currentTerm), Restricted(votedFor), elected>>
  BY DEF Rest, Restricted
<1>8. \E q \in SUBSET Elections!Peers(s) :
         sent' = sent \cup
            {Elections!AppendEntries(s, Restricted(currentTerm)[s], p) : p \in q}
  BY <1>3, <1>4, <1>6
<1> HIDE DEF to
<1> QED
  BY <1>2, <1>5, <1>7, <1>8 DEF Elections!Replicate, LastEntry

\* What elections of the cluster see stays as it is.
Unseen ==
    /\ \A p \in Voters : /\ role'[p] = role[p] /\ currentTerm'[p] = currentTerm[p]
                         /\ votedFor'[p] = votedFor[p] /\ LastLog(p)' = LastLog(p)
    /\ sent' = sent
    /\ \A e : e[2] \in Voters => (e \in elected' <=> e \in elected)

LEMMA UnseenStutters == Unseen => UNCHANGED Elections!vars
<1> SUFFICES ASSUME Unseen PROVE UNCHANGED Elections!vars
  OBVIOUS
<1>1. UNCHANGED <<Restricted(role), Restricted(currentTerm), Restricted(votedFor)>>
  BY DEF Unseen, Restricted
<1>2. [p \in Voters |-> LastLog(p)]' = [p \in Voters |-> LastLog(p)]
  BY DEF Unseen
<1>3. {e \in elected' : e[2] \in Voters} = {e \in elected : e[2] \in Voters}
  BY DEF Unseen
<1> QED
  BY <1>1, <1>2, <1>3 DEF Elections!vars, Unseen

LEMMA QuietStutters ==
    ASSUME Mapping, Quiet \/ \E s \in Voters : Rest(s) /\ ~Active(s)
    PROVE  Unseen
<1>1. \A p \in Voters : p \in Server
  BY VoterFacts
<1>2. UNCHANGED <<role, currentTerm, votedFor, elected>> /\ NoBallot
      /\ \A p \in Server : LastLog(p)' = LastLog(p)
  BY DEF Quiet, Rest, NoBallot
<1>3. sent' = sent
  BY <1>2, NoneSeen DEF Mapping, NoBallot
<1> QED
  BY <1>1, <1>2, <1>3 DEF Unseen

\* A server of another cluster takes no part in this one's elections.
LEMMA OthersStutter ==
    ASSUME Mapping, NEW s \in Server, s \notin Voters, Elects(s)
    PROVE  Unseen
<1>1. \A p \in Voters : p \in Server /\ p # s
  BY VoterFacts
<1>2. sent' = sent
  BY BallotTerms, NoneSeen DEF Mapping
<1> DEFINE same == \A p \in Server \ {s} :
                      /\ role'[p] = role[p] /\ currentTerm'[p] = currentTerm[p]
                      /\ votedFor'[p] = votedFor[p] /\ LastLog(p)' = LastLog(p)
           told == \A e : e[2] # s => (e \in elected' <=> e \in elected)
<1>3. same /\ told
  <2> USE DEF Mapping, TypeInv, ElectionInv, LastLog, logVars
  <2>1. StartElection(s) => same /\ told
    BY DEF StartElection
  <2>2. Rest(s) => same /\ told
    BY DEF Rest
  <2>3. ASSUME NEW m \in net PROVE AbandonElection(s, m) => same /\ told
    BY DEF AbandonElection
  <2>4. ASSUME NEW m \in net PROVE BecomeLeader(s, m) => same /\ told
    BY DEF BecomeLeader
  <2>5. ASSUME NEW m \in net PROVE HandleVoteRequest(s, m) => same /\ told
    BY DEF HandleVoteRequest
  <2>6. ASSUME NEW m \in net PROVE Hears(s, m) => same /\ told
    BY DEF Hears, SeeLeader
  <2> HIDE DEF same, told
  <2> QED
    BY <2>1, <2>2, <2>3, <2>4, <2>5, <2>6 DEF Elects
<1> QED
  BY <1>1, <1>2, <1>3 DEF Unseen

LEMMA StepSimulates ==
    ASSUME MayRestart = {}, Mapping, LedInv, OfficeInv, StampInv', [Next]_vars
    PROVE  [Elections!Next]_(Elections!vars)
<1>1. CASE Quiet
  BY <1>1, QuietStutters, UnseenStutters
<1>2. ASSUME NEW s \in Server, Elects(s), s \notin Voters
      PROVE  [Elections!Next]_(Elections!vars)
  BY <1>2, OthersStutter, UnseenStutters
<1>3. ASSUME NEW s \in Voters, Elects(s) PROVE [Elections!Next]_(Elections!vars)
  <2>1. CASE StartElection(s)
    BY <2>1, StartElectionSimulates DEF Elections!Next
  <2>2. CASE Rest(s)
    <3>1. CASE Active(s)
      BY <2>2, <3>1, RestSimulates DEF Elections!Next
    <3>2. CASE ~Active(s)
      BY <2>2, <3>2, QuietStutters, UnseenStutters
    <3> QED
      BY <3>1, <3>2
  <2>3. ASSUME NEW m \in net, m.to = s,
               \/ AbandonElection(s, m) \/ BecomeLeader(s, m)
               \/ HandleVoteRequest(s, m) \/ Hears(s, m)
        PROVE  Elections!Next
    <3>1. \E b \in sent : Elections!Receive(s, b)
      BY <2>3, AbandonSimulates, BecomeLeaderSimulates, VoteRequestSimulates, HearsSimulates
    <3> QED
      BY <3>1 DEF Elections!Next
  <2> QED
    BY <1>3, <2>1, <2>2, <2>3 DEF Elects
<1>4. (\E s \in Server : Elects(s)) \/ Quiet
  BY ElectionKinds DEF Mapping
<1> QED
  BY <1>1, <1>2, <1>3, <1>4

LEMMA StartSimulates ==
    ASSUME Init, sent = {}, StampInv
    PROVE  Elections!Init /\ SentInv
<1>1. \A s \in Voters : s \in Server
  BY VoterFacts
<1>2. /\ role = [s \in Server |-> "follower"] /\ currentTerm = [s \in Server |-> 0]
      /\ votedFor = [s \in Server |-> NoServer] /\ elected = {} /\ net = {}
  BY DEF Init, ServerInit, NoOffice
<1>3. /\ Restricted(role) = [s \in Voters |-> "follower"]
      /\ Restricted(currentTerm) = [s \in Voters |-> 0]
      /\ Restricted(votedFor) = [s \in Voters |-> NoServer]
  BY <1>1, <1>2 DEF Restricted
<1>4. [s \in Voters |-> LastLog(s)] \in [Voters -> LastEntry]
  BY <1>1 DEF StampInv
<1>5. Ballots(net) = {} /\ {e \in elected : e[2] \in Voters} = {}
  BY <1>2 DEF Ballots
<1> QED
  BY <1>3, <1>4, <1>5 DEF Elections!Init, SentInv, LastEntry

\* The servers of a cluster, with all that they do besides (server.py:120-230,
\* 265-300, 390-417), elect leaders as module Election says, for any transfers
\* and any other clusters, while datagrams are lost, late and reordered, as long
\* as no server restarts: a restart forgets term and vote (server.py:80-81).
THEOREM ImplementsElectionHolds ==
    ASSUME MayRestart = {}
    PROVE  HistorySpec => ImplementsElection
<1> DEFINE Inv == /\ TypeInv /\ PlaceInv /\ LedInv
                  /\ TermsInv /\ OfficeInv /\ SentInv
<1>1. HistoryInit => Inv /\ Elections!Init
  <2> SUFFICES ASSUME HistoryInit PROVE Inv /\ Elections!Init
    OBVIOUS
  <2>1. Init /\ sent = {}
    BY DEF HistoryInit
  <2>2. TypeInv /\ PlaceInv /\ LedInv /\ TermsInv /\ OfficeInv
    BY <2>1, TypeInvInit, PlaceInit, LedStart, TermsStart
  <2>3. StampInv
    BY <2>2, Stamped
  <2> QED
    BY <2>1, <2>2, <2>3, StartSimulates
<1>2. Inv /\ [HistoryNext]_<<vars, sent>> => [Next]_vars /\ Recorded
  <2>1. SentInv /\ UNCHANGED <<vars, sent>> => Recorded
    BY DEF SentInv, Recorded, vars, Ballots
  <2> QED
    BY <2>1 DEF HistoryNext, Recorded
<1>3. Inv /\ [HistoryNext]_<<vars, sent>> => Inv'
  <2> SUFFICES ASSUME Inv, [HistoryNext]_<<vars, sent>> PROVE Inv'
    OBVIOUS
  <2>1. [Next]_vars /\ Recorded
    BY <1>2
  <2>2. TypeInv' /\ PlaceInv' /\ SteadyStep
    BY <2>1, TypeInvStep, PlaceStep, SteadyNext
  <2>3. LedInv'
    BY <2>2, LedNext
  <2>4. TermsInv' /\ OfficeInv'
    BY <2>1, <2>2, ElectionKinds, TermsNext
  <2>5. SentInv'
    BY <2>1 DEF SentInv, Recorded
  <2> QED
    BY <2>2, <2>3, <2>4, <2>5
<1>4. Inv => StampInv
  BY Stamped
<1>5. Inv /\ StampInv' /\ [HistoryNext]_<<vars, sent>> => [Elections!Next]_(Elections!vars)
  BY <1>2, StepSimulates DEF Mapping
<1> QED
  BY <1>1, <1>3, <1>4, <1>5, PTL DEF HistorySpec, ImplementsElection, Elections!Spec

-----------------------------------------------------------------------------
(* What is proved of Election holds of the cluster. *)

Proved == INSTANCE ElectionProofs WITH
    Server <- Voters,
    Stamp <- LastEntry,
    MaxTerm <- LastTerm,
    role <- Restricted(role),
    currentTerm <- Restricted(currentTerm),
    votedFor <- Restricted(votedFor),
    lastLog <- [s \in Voters |-> LastLog(s)],
    net <- sent,
    elected <- {e \in elected : e[2] \in Voters}

\* Of the servers of the cluster, no two are elected in one term.
OneLeaderPerTerm ==
    \A e, f \in elected :
        e[2] \in Voters /\ f[2] \in Voters /\ e[1] = f[1] => e[2] = f[2]

LEMMA AtMostThree ==
    \A a, b, c, d \in Voters : a \in {b, c, d} \/ b \in {c, d} \/ c = d
<1> SUFFICES ASSUME NEW a \in Voters, NEW b \in Voters, NEW c \in Voters, NEW d \in Voters,
                    a \notin {b, c, d}, b \notin {c, d}, c # d
             PROVE  FALSE
  OBVIOUS
<1>1. a \in Server /\ Peers[a] = Voters \ {a} /\ Voters \subseteq Server
  BY VoterFacts
<1>2. IsFiniteSet(Peers[a]) /\ Cardinality(Peers[a]) = 2
  BY <1>1, ThreeServers, FS_Subset
<1>3. {b, c, d} \subseteq Peers[a]
  BY <1>1
<1>4. Cardinality({b, c, d}) = 3
  <2>1. IsFiniteSet({}) /\ Cardinality({}) = 0
    BY FS_EmptySet
  <2>2. IsFiniteSet({d}) /\ Cardinality({d}) = 1
    BY FS_Singleton
  <2>3. IsFiniteSet({c, d}) /\ Cardinality({c, d}) = 2
    BY <2>2, FS_AddElement
  <2> QED
    BY <2>3, FS_AddElement
<1> QED
  BY <1>2, <1>3, <1>4, FS_Subset

\* No two servers of a cluster are elected in one term (server.py:218-225): it
\* is proved of Election, where datagrams may even be repeated, and so holds of
\* the full servers.
THEOREM OneLeaderPerTermHolds ==
    ASSUME MayRestart = {}
    PROVE  HistorySpec => []OneLeaderPerTerm
<1>1. /\ \A a, b, c, d \in Voters : a \in {b, c, d} \/ b \in {c, d} \/ c = d
      /\ NoServer \notin Voters
      /\ LastEntry \subseteq [term : Nat, index : Nat]
      /\ LastTerm \in Nat
  BY AtMostThree, VoterFacts, ClustersAndShards, TxListType, LastTermIsLast, LenProperties
  DEF LastEntry
<1>2. Proved!Spec => []Proved!ElectionSafety
  BY <1>1, Proved!ElectionSafe
<1>3. Elections!Init => Proved!Init
  BY DEF Elections!Init, Proved!Init, LastEntry
<1>4. [Elections!Next]_(Elections!vars) => [Proved!Next]_(Proved!vars)
  BY DEF
      Proved!Next, Proved!vars, Proved!StartElection, Proved!Receive,
      Proved!SendHeartbeats, Proved!Replicate, Proved!AbandonElection,
      Proved!StepDown, Proved!BecomeLeader, Proved!HandleVoteRequest,
      Proved!HandleAppendEntries, Proved!RequestVote, Proved!VoteResponse,
      Proved!AppendEntries, Proved!Peers, Proved!TermOf, Proved!RoleAt,
      Proved!VoteAt, Proved!AsComplete, Elections!Next, Elections!vars,
      Elections!StartElection, Elections!Receive, Elections!SendHeartbeats,
      Elections!Replicate, Elections!AbandonElection, Elections!StepDown,
      Elections!BecomeLeader, Elections!HandleVoteRequest,
      Elections!HandleAppendEntries, Elections!RequestVote,
      Elections!VoteResponse, Elections!AppendEntries, Elections!Peers,
      Elections!TermOf, Elections!RoleAt, Elections!VoteAt, Elections!AsComplete,
      LastEntry
<1>5. Proved!ElectionSafety => OneLeaderPerTerm
  BY DEF Proved!ElectionSafety, OneLeaderPerTerm
<1> QED
  BY <1>2, <1>3, <1>4, <1>5, ImplementsElectionHolds, PTL
  DEF ImplementsElection, Elections!Spec, Proved!Spec
=============================================================================
