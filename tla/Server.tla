------------------------------- MODULE Server -------------------------------
(***************************************************************************)
(* server.py: a member of one cluster, with its three kinds of threads.    *)
(*                                                                         *)
(*   listener    listen, the handlers it calls, and the election it may    *)
(*               be in (role "candidate")                                  *)
(*   worker      process_transaction_queue: one transfer at a time, from   *)
(*               the checks to the end of replicate_log                    *)
(*   others      send_heartbeats and check_pending_decisions               *)
(*                                                                         *)
(* A handler is one step, and so is what the worker does between two       *)
(* waits, but for two points where another thread may come in: the worker  *)
(* between appending an entry and entering replicate_log, the listener     *)
(* between finding replication_mode off and counting the ack.  That the    *)
(* two threads may also be in apply_committed_entries together, and a      *)
(* crash hit inside a handler, is left to module Storage.  Timers are      *)
(* abstracted to "may expire at any moment".                               *)
(*                                                                         *)
(* Indices count entries: commit_index -1 is commitIndex 0, and the        *)
(* entry log[i] of the code is log[s][i + 1].  next_index is unchanged, it *)
(* is the number of entries before the next one.                           *)
(***************************************************************************)
EXTENDS Transfers, FiniteSetsExt

CONSTANTS
    InitialBalance,  \* what every account holds in a new shard file
    ConfigLast,      \* the server listed last in config.json
    MayStand,        \* bound: the <<server, term>> of elections that may start
    MayBeat,         \* bound: the servers that send heartbeats, one round each
    MayRestart       \* bound: the servers that may restart, once; {} is fail-stop

ASSUME ServerConstants == InitialBalance \in Nat /\ ConfigLast \in Server

VARIABLES
    role, currentTerm, votedFor, currentLeader,
    log,         \* sequence of [term, tx, committed, body]
    commitIndex, \* commit_index, in memory
    nextIndex,   \* next_index
    matchIndex,  \* match_index; -1 is a key that is absent
    shard,       \* the state machine and the files, see ShardInit
    processed,   \* processed_decisions
    timedOut,    \* timed_out_transactions
    txQueue,     \* transaction_queue
    worker,      \* where the worker thread is: [pc, tx]
    ackQueue,    \* append_ack_queue
    counting,    \* the ack the listener is about to count, {} or one
    halted,      \* the servers whose listener thread ended in an exception
    heartbeats,  \* bound: the servers that did send heartbeats
    restarted,   \* bound: the servers that did restart
    elected      \* history: the <<term, server>> pairs that became leader

electionVars == <<role, currentTerm, votedFor, currentLeader>>
logVars == <<log, commitIndex>>
leaderVars == <<nextIndex, matchIndex>>
decisionVars == <<processed, timedOut>>
threadVars == <<txQueue, worker, ackQueue, counting>>
counters == <<heartbeats, restarted>>
serverVars == <<electionVars, logVars, leaderVars, shard, decisionVars,
                threadVars, halted, counters, elected>>

MissingKey == -1
NoTx == 0
Idle == [pc |-> "idle", tx |-> NoTx]

\* What a server keeps about its shard.  balance, applied, savedCommit and
\* savedApplied are on disk (the balance file, the applied file and two keys
\* of the log file); the entries of the log file are those of log[s] after
\* every handler and are not kept twice.
ShardInit(s) ==
    [balance |-> [a \in {b \in Account : ShardOf[b] = ClusterOf[s]}
                     |-> InitialBalance],
     locks |-> {},          \* the accounts whose lock is True
     applied |-> {},        \* applied_log_indices
     lastApplied |-> 0,     \* last_applied
     pending |-> {},        \* the keys of pending_decisions
     savedCommit |-> 0,
     savedApplied |-> MissingKey,
     ledger |-> <<>>]       \* history: the transfers executed, in order

\* No election has started.
NoOffice ==
    /\ role = [s \in Server |-> "follower"]
    /\ currentTerm = [s \in Server |-> 0]
    /\ votedFor = [s \in Server |-> NoServer]
    /\ nextIndex = [s \in Server |-> [p \in Peers[s] |-> MissingKey]]
    /\ elected = {}

\* No transfer has arrived.
NoTransfers ==
    /\ currentLeader = [s \in Server |-> NoServer]
    /\ log = [s \in Server |-> <<>>]
    /\ commitIndex = [s \in Server |-> 0]
    /\ matchIndex = [s \in Server |-> [p \in Peers[s] |-> MissingKey]]
    /\ shard = [s \in Server |-> ShardInit(s)]
    /\ processed = [s \in Server |-> {}]
    /\ timedOut = [s \in Server |-> {}]
    /\ txQueue = [s \in Server |-> <<>>]
    /\ worker = [s \in Server |-> Idle]
    /\ ackQueue = [s \in Server |-> <<>>]
    /\ counting = [s \in Server |-> {}]
    /\ halted = {}
    /\ heartbeats = {}
    /\ restarted = {}

ServerInit == NoOffice /\ NoTransfers

-----------------------------------------------------------------------------
(* Datagrams of the Raft protocol. *)

LastLog(s) ==
    [term |-> IF log[s] = <<>> THEN 0 ELSE log[s][Len(log[s])].term,
     index |-> Len(log[s])]

RequestVote(s, t, p) ==
    [type |-> "REQUEST_VOTE", term |-> t, from |-> s, to |-> p,
     lastLog |-> LastLog(s)]

VoteResponse(s, t, p) ==
    [type |-> "VOTE_RESPONSE", term |-> t, from |-> s, to |-> p]

\* body is the Python value of entry.transaction: a Transaction object, the
\* dict a follower keeps for a cross-shard transfer, or None.
\* send_append_entries serialises objects only, so a dict leaves as None.
OnWire(e) ==
    [e EXCEPT !.body = CASE e.body = "object" /\ ~Cross(e.tx) -> "object"
                         [] e.body = "object" /\ Cross(e.tx) -> "dict"
                         [] OTHER -> "none"]

\* send_append_entries for a follower whose next_index is next.
AppendEntries(s, p, lg, next) ==
    [type |-> "APPEND_ENTRIES", term |-> currentTerm[s], from |-> s, to |-> p,
     prev |-> next, prevTerm |-> IF next > 0 THEN lg[next].term ELSE 0,
     entries |-> [i \in 1..(Len(lg) - next) |-> OnWire(lg[next + i])],
     commit |-> commitIndex[s]]

\* self.log[next_index - 1] exists; otherwise the call is an IndexError.
CanSend(lg, next) == next <= Len(lg)

AppendAck(s, p, ok) ==
    [type |-> "APPEND_ACK", from |-> s, to |-> p, success |-> ok]

Send(out) == net' = net \cup out

\* Take m out of the network and send out.
Reply(m, out) == net' = (net \ {m}) \cup out

-----------------------------------------------------------------------------
(* The state machine: apply_committed_entries and execute_transaction. *)

\* The index i counts as applied; the continuous prefix grows if it is next.
Passed(m, i) ==
    [m EXCEPT !.sh.applied = @ \cup {i},
              !.upto = IF i = @ + 1 THEN i ELSE @]

\* Mutant: the balance is not looked at.
OverdrawnNever(s, sh, x) == FALSE

Overdrawn(s, sh, x) ==
    Payer(x) \in Touched(s, x) /\ sh.balance[Payer(x)] < Amount(x)

\* store_commit_apply_index
Stored(sh, ci, i) == [sh EXCEPT !.savedCommit = ci, !.savedApplied = i]

\* execute_transaction, then the lock and pending_decisions clean-up.
Executed(s, sh, x, ci, i) ==
    [Stored(sh, ci, i) EXCEPT
        !.balance = [a \in DOMAIN @ |->
            @[a] - (IF a = Payer(x) THEN Amount(x) ELSE 0)
                 + (IF a = Payee(x) THEN Amount(x) ELSE 0)],
        !.locks = @ \ Touched(s, x),
        !.pending = IF Cross(x) THEN @ \ {x} ELSE @,
        !.ledger = Append(@, x)]

\* A committed entry that was not applied before.  committed_2PC is never
\* None, so a cross-shard entry without a decision counts as aborted; failed
\* is the exception that is_account_in_cluster(None) raises.
ApplyNew(s, e, ci, isLeader, m, i) ==
    CASE Cross(e.tx) /\ ~e.committed ->
           Passed([m EXCEPT !.sh.locks =
               IF e.body = "none" THEN @ ELSE @ \ Touched(s, e.tx)], i)
      [] Cross(e.tx) /\ e.committed /\ e.body = "none" ->
           [m EXCEPT !.failed = TRUE]
      [] (Cross(e.tx) => e.committed /\ e.body # "none") ->
           IF Overdrawn(s, m.sh, e.tx) THEN Passed(m, i)
           ELSE Passed([m EXCEPT
                    !.sh = Executed(s, @, e.tx, ci, i),
                    !.out = IF ~Cross(e.tx) /\ isLeader
                            THEN @ \cup {ClientResponse(e.tx, TRUE)} ELSE @], i)

\* One turn of the loop over the entries that are committed and not applied.
ApplyEntry(s, lg, ci, isLeader, m, i) ==
    IF m.failed \/ i > Len(lg) THEN m
    ELSE IF i \in m.sh.applied THEN Passed(m, i)
    ELSE ApplyNew(s, lg[i], ci, isLeader, m, i)

\* What the loop has done after n turns.
ApplyTurns(s, sh, lg, ci, isLeader) ==
    LET after[n \in Nat] ==
            IF n = 0 THEN [sh |-> sh, upto |-> sh.lastApplied, out |-> {},
                           failed |-> FALSE]
            ELSE ApplyEntry(s, lg, ci, isLeader, after[n - 1],
                            sh.lastApplied + n)
    IN after

\* The shard, the commit index, the datagrams sent, and whether an exception
\* ended the call.
ApplyCommitted(s, sh, lg, ci, isLeader) ==
    LET turns == Max({0, ci - sh.lastApplied})
        end == ApplyTurns(s, sh, lg, ci, isLeader)[turns]
    IN [sh |-> IF ~end.failed /\ end.upto > sh.lastApplied
               THEN Stored([end.sh EXCEPT !.lastApplied = end.upto],
                           ci, end.upto)
               ELSE end.sh,
        ci |-> ci, out |-> end.out, failed |-> end.failed]

NothingDone(s, sh) ==
    [sh |-> sh, ci |-> commitIndex[s], out |-> {}, failed |-> FALSE]

\* Saving the log without the last_applied key: append_to_log, truncate_log
\* and updateLogEntryCommittedFlag write the entries and commit_index only.
LogSaved(sh) == [sh EXCEPT !.savedApplied = MissingKey]

\* A cross-shard entry is committed: it is voted on and nothing is applied.
Prepared(s, sh, ci) ==
    [ci |-> ci, failed |-> FALSE,
     sh |-> [sh EXCEPT !.pending = @ \cup {log[s][ci].tx}],
     out |-> {Vote(s, log[s][ci].tx,
                   IF Overdrawn(s, sh, log[s][ci].tx) THEN "no" ELSE "yes")}]

\* update_commit_index with the match_index mi: the highest entry of the
\* current term that a majority is believed to store is committed, and with
\* it everything before.  If it is an intra-shard one, all that is committed
\* is applied.
UpdateCommitIndex(s, sh, mi) ==
    LET copies(i) == 1 + Cardinality({p \in Peers[s] : mi[p] >= i})
        ok == {i \in commitIndex[s] + 1 .. Len(log[s]) :
                  /\ copies(i) >= Majority(s)
                  /\ log[s][i].term = currentTerm[s]}
        ci == IF ok = {} THEN commitIndex[s] ELSE Max(ok)
        e == log[s][ci]
    IN IF ok = {} THEN NothingDone(s, sh)
       ELSE IF Cross(e.tx) /\ e.body # "none"
       THEN Prepared(s, sh, ci)
       ELSE ApplyCommitted(s, sh, log[s], ci, role[s] = "leader")

-----------------------------------------------------------------------------
(* The listener: elections. *)

\* A follower hears nothing for its timeout, or a candidate collects no
\* majority and tries again.
StartElection(s) ==
    /\ s \notin halted /\ counting[s] = {}
    /\ role[s] \in {"follower", "candidate"}
    /\ <<s, currentTerm[s] + 1>> \in MayStand
    /\ role' = [role EXCEPT ![s] = "candidate"]
    /\ currentTerm' = [currentTerm EXCEPT ![s] = @ + 1]
    /\ votedFor' = [votedFor EXCEPT ![s] = s]
    /\ Send({RequestVote(s, currentTerm[s] + 1, p) : p \in Peers[s]})
    /\ UNCHANGED <<currentLeader, logVars, leaderVars, shard, decisionVars,
                   threadVars, halted, counters, elected>>

\* The candidate's receive loop ends on a higher term, or on AppendEntries of
\* its own term; the vote is forgotten in both cases.
EndsElection(s, m) ==
    /\ m.type \in {"REQUEST_VOTE", "VOTE_RESPONSE", "APPEND_ENTRIES"}
    /\ \/ m.term > currentTerm[s]
       \/ m.type = "APPEND_ENTRIES" /\ m.term = currentTerm[s]

AbandonElection(s, m) ==
    /\ role[s] = "candidate"
    /\ EndsElection(s, m)
    /\ role' = [role EXCEPT ![s] = "follower"]
    /\ currentTerm' = [currentTerm EXCEPT ![s] = m.term]
    /\ votedFor' = [votedFor EXCEPT ![s] = NoServer]
    /\ Reply(m, {})
    /\ UNCHANGED <<currentLeader, logVars, leaderVars, shard, decisionVars,
                   threadVars, halted, counters, elected>>

WinsElection(s, m) == m.type = "VOTE_RESPONSE" /\ m.term = currentTerm[s]

NextAtEnd(s) == [p \in Peers[s] |-> Len(log[s])]

\* next_index is reset, match_index keeps what an earlier term left in it.
BecomeLeader(s, m) ==
    /\ role[s] = "candidate"
    /\ WinsElection(s, m)
    /\ role' = [role EXCEPT ![s] = "leader"]
    /\ nextIndex' = [nextIndex EXCEPT ![s] = NextAtEnd(s)]
    /\ elected' = elected \cup {<<currentTerm[s], s>>}
    /\ Reply(m, {})
    /\ UNCHANGED <<currentTerm, votedFor, currentLeader, logVars, matchIndex,
                   shard, decisionVars, threadVars, halted, counters>>

\* Everything else a candidate receives is read from the socket and dropped:
\* requests, acks and decisions included.  So is a vote that arrives when the
\* election is over.
Drop(s, m) ==
    /\ \/ role[s] = "candidate" /\ ~EndsElection(s, m) /\ ~WinsElection(s, m)
       \/ role[s] # "candidate" /\ m.type = "VOTE_RESPONSE"
    /\ Reply(m, {})
    /\ UNCHANGED serverVars

\* Mutant: a request of the same term clears the vote, too.
VoteClearedAt(s, t) == IF t >= currentTerm[s] THEN NoServer ELSE votedFor[s]

\* The term, role and vote of s once it has seen a request of term t.
TermOf(s, t) == IF t > currentTerm[s] THEN t ELSE currentTerm[s]
RoleAt(s, t) == IF t > currentTerm[s] THEN "follower" ELSE role[s]
VoteAt(s, t) == IF t > currentTerm[s] THEN NoServer ELSE votedFor[s]

AsComplete(theirs, mine) ==
    \/ theirs.term > mine.term
    \/ theirs.term = mine.term /\ theirs.index >= mine.index

HandleVoteRequest(s, m) ==
    /\ role[s] # "candidate"
    /\ m.type = "REQUEST_VOTE"
    /\ role' = [role EXCEPT ![s] = RoleAt(s, m.term)]
    /\ currentTerm' = [currentTerm EXCEPT ![s] = TermOf(s, m.term)]
    /\ IF VoteAt(s, m.term) = NoServer /\ AsComplete(m.lastLog, LastLog(s))
       THEN /\ votedFor' = [votedFor EXCEPT ![s] = m.from]
            /\ Reply(m, {VoteResponse(s, TermOf(s, m.term), m.from)})
       ELSE /\ votedFor' = [votedFor EXCEPT ![s] = VoteAt(s, m.term)]
            /\ Reply(m, {})
    /\ UNCHANGED <<currentLeader, logVars, leaderVars, shard, decisionVars,
                   threadVars, halted, counters, elected>>

-----------------------------------------------------------------------------
(* The listener: AppendEntries and its acknowledgement. *)

StaleAppend(s, m) ==
    /\ role[s] # "candidate"
    /\ m.type = "APPEND_ENTRIES"
    /\ m.term < currentTerm[s]
    /\ Reply(m, {AppendAck(s, m.from, FALSE)})
    /\ UNCHANGED <<electionVars, logVars, leaderVars, shard, decisionVars,
                   threadVars, halted, counters, elected>>

\* What a request of a current term does before the log is looked at.
SeeLeader(s, m) ==
    /\ role[s] # "candidate"
    /\ m.type = "APPEND_ENTRIES"
    /\ m.term >= currentTerm[s]
    /\ role' = [role EXCEPT ![s] = RoleAt(s, m.term)]
    /\ currentTerm' = [currentTerm EXCEPT ![s] = TermOf(s, m.term)]
    /\ votedFor' = [votedFor EXCEPT ![s] = VoteAt(s, m.term)]
    /\ currentLeader' = IF RoleAt(s, m.term) = "follower"
                        THEN [currentLeader EXCEPT ![s] = m.from]
                        ELSE currentLeader

Consistent(s, m) ==
    /\ m.prev <= Len(log[s])
    /\ m.prev > 0 => log[s][m.prev].term = m.prevTerm

RefuseAppend(s, m) ==
    /\ SeeLeader(s, m)
    /\ ~Consistent(s, m)
    /\ Reply(m, {AppendAck(s, m.from, FALSE)})
    /\ UNCHANGED <<logVars, leaderVars, shard, decisionVars, threadVars,
                   halted, counters, elected>>

\* Mutant: entries are appended and nothing is removed.
MergedAtEnd(s, m) == log[s] \o m.entries

\* Entries replace everything after prev, in conflict or not.
Merged(s, m) ==
    IF m.entries = <<>> THEN log[s] ELSE SubSeq(log[s], 1, m.prev) \o m.entries

\* The transfers among the entries are locked, the cross-shard ones are
\* pending, and the log file is rewritten.
Received(s, m) ==
    LET txs == {e.tx : e \in {m.entries[i] : i \in {j \in DOMAIN m.entries :
                                            m.entries[j].body # "none"}}}
    IN [shard[s] EXCEPT
           !.locks = @ \cup UNION {Touched(s, x) : x \in txs},
           !.pending = @ \cup {x \in txs : Cross(x)},
           !.savedApplied = IF m.entries = <<>> THEN @ ELSE MissingKey]

\* The commit index follows the leader's up to the end of the log, which may
\* be a step back after a truncation.
CommitAfter(s, m) ==
    IF m.commit > commitIndex[s]
    THEN Min({m.commit, Len(Merged(s, m))}) ELSE commitIndex[s]

AcceptAppend(s, m) ==
    LET ci == CommitAfter(s, m)
        r == IF ci > commitIndex[s]
             THEN ApplyCommitted(s, Received(s, m), Merged(s, m), ci,
                                 RoleAt(s, m.term) = "leader")
             ELSE NothingDone(s, Received(s, m))
    IN /\ SeeLeader(s, m)
       /\ Consistent(s, m)
       /\ log' = [log EXCEPT ![s] = Merged(s, m)]
       /\ commitIndex' = [commitIndex EXCEPT ![s] = ci]
       /\ shard' = [shard EXCEPT ![s] = r.sh]
       /\ halted' = IF r.failed THEN halted \cup {s} ELSE halted
       /\ Reply(m, r.out \cup IF r.failed THEN {}
                              ELSE {AppendAck(s, m.from, TRUE)})
       /\ UNCHANGED <<leaderVars, decisionVars, threadVars, counters, elected>>

\* replication_mode: the worker is in replicate_log, or ended in it.
Replicating(s) == worker[s].pc \in {"repl", "dead"}

QueueAck(s, m) ==
    /\ role[s] # "candidate"
    /\ m.type = "APPEND_ACK"
    /\ Replicating(s)
    /\ ackQueue' = [ackQueue EXCEPT ![s] = Append(@, m)]
    /\ Reply(m, {})
    /\ UNCHANGED <<electionVars, logVars, leaderVars, shard, decisionVars,
                   txQueue, worker, counting, halted, counters, elected>>

\* The listener finds replication_mode off and goes on to count the ack; the
\* worker may enter replicate_log before it does.
TakeAck(s, m) ==
    /\ role[s] # "candidate"
    /\ m.type = "APPEND_ACK"
    /\ ~Replicating(s)
    /\ counting' = [counting EXCEPT ![s] = {m}]
    /\ Reply(m, {})
    /\ UNCHANGED <<electionVars, logVars, leaderVars, shard, decisionVars,
                   txQueue, worker, ackQueue, halted, counters, elected>>

Counted(s) ==
    /\ counting' = [counting EXCEPT ![s] = {}]
    /\ UNCHANGED <<electionVars, log, decisionVars, txQueue, worker, ackQueue,
                   counters, elected>>

\* An acknowledgement names neither term nor index: it is taken to cover all
\* that the log of s now holds.  The role of s is not looked at.
CountAck(s, m) ==
    LET mi == [matchIndex[s] EXCEPT ![m.from] = Len(log[s])]
        some == {p \in Peers[s] : mi[p] >= commitIndex[s]}
        r == IF Cardinality(some) > Cardinality(Peers[s]) \div 2
             THEN UpdateCommitIndex(s, shard[s], mi)
             ELSE NothingDone(s, shard[s])
    IN /\ Counted(s)
       /\ m.success
       /\ nextIndex' = [nextIndex EXCEPT ![s][m.from] = Len(log[s])]
       /\ matchIndex' = [matchIndex EXCEPT ![s] = mi]
       /\ commitIndex' = [commitIndex EXCEPT ![s] = r.ci]
       /\ shard' = [shard EXCEPT ![s] = r.sh]
       /\ halted' = IF r.failed THEN halted \cup {s} ELSE halted
       /\ Send(r.out)

\* Mutant: one too many instead of one too few.
SteppedForward(next) == next + 1

SteppedBack(next) == IF next > 0 THEN next - 1 ELSE 0

\* The repair of a follower.  It is a KeyError without a next_index, and an
\* IndexError beyond the end of the log.
RepairFollower(s, m) ==
    LET known == nextIndex[s][m.from] # MissingKey
        next == SteppedBack(nextIndex[s][m.from])
    IN /\ Counted(s)
       /\ ~m.success
       /\ nextIndex' = IF known THEN [nextIndex EXCEPT ![s][m.from] = next]
                       ELSE nextIndex
       /\ IF known /\ CanSend(log[s], next)
          THEN /\ Send({AppendEntries(s, m.from, log[s], next)})
               /\ halted' = halted
          ELSE Send({}) /\ halted' = halted \cup {s}
       /\ UNCHANGED <<commitIndex, matchIndex, shard>>

-----------------------------------------------------------------------------
(* The listener: requests of the client. *)

\* handle_client_request and handle_prepare.
TakeRequest(s, m) ==
    /\ role[s] # "candidate"
    /\ m.type \in {"CLIENT_REQUEST", "PREPARE"}
    /\ IF role[s] = "leader"
       THEN /\ txQueue' = [txQueue EXCEPT ![s] = Append(@, m.tx)]
            /\ Reply(m, {})
       ELSE /\ txQueue' = txQueue
            /\ Reply(m, IF currentLeader[s] = NoServer THEN {}
                        ELSE {[m EXCEPT !.to = currentLeader[s]]})
    /\ UNCHANGED <<electionVars, logVars, leaderVars, shard, decisionVars,
                   worker, ackQueue, counting, halted, counters, elected>>

\* The entries handle_decision would mark: those whose transfer it can read.
Decidable(s, x) ==
    {i \in DOMAIN log[s] : log[s][i].tx = x /\ log[s][i].body # "none"}

\* A decision heard before, or after the transfer timed out here, is ignored.
IgnoreDecision(s, m) ==
    /\ role[s] # "candidate"
    /\ m.type \in {"COMMIT", "ABORT"}
    /\ <<m.tx, m.type>> \in processed[s] \/ m.tx \in timedOut[s]
    /\ processed' = [processed EXCEPT ![s] = @ \cup {<<m.tx, m.type>>}]
    /\ timedOut' = IF <<m.tx, m.type>> \in processed[s] THEN timedOut
                   ELSE [timedOut EXCEPT ![s] = @ \ {m.tx}]
    /\ Reply(m, {})
    /\ UNCHANGED <<electionVars, logVars, leaderVars, shard, threadVars,
                   halted, counters, elected>>

HandleDecision(s, m) ==
    LET at == Decidable(s, m.tx)
        lg == IF at = {} THEN log[s]
              ELSE [log[s] EXCEPT ![Min(at)].committed = (m.type = "COMMIT")]
        sh == IF at = {} THEN shard[s] ELSE LogSaved(shard[s])
        r == ApplyCommitted(s, [sh EXCEPT !.pending = @ \ {m.tx}], lg,
                            commitIndex[s], role[s] = "leader")
    IN /\ role[s] # "candidate"
       /\ m.type \in {"COMMIT", "ABORT"}
       /\ <<m.tx, m.type>> \notin processed[s] /\ m.tx \notin timedOut[s]
       /\ processed' = [processed EXCEPT ![s] = @ \cup {<<m.tx, m.type>>}]
       /\ log' = [log EXCEPT ![s] = lg]
       /\ shard' = [shard EXCEPT ![s] = r.sh]
       /\ halted' = IF r.failed THEN halted \cup {s} ELSE halted
       /\ Reply(m, r.out \cup IF r.failed THEN {} ELSE {Ack(s, m.tx)})
       /\ UNCHANGED <<electionVars, commitIndex, leaderVars, timedOut,
                      threadVars, counters, elected>>

-----------------------------------------------------------------------------
(* The worker: process_transaction and replicate_log. *)

\* Mutant: committed_2PC defaults to True.
NewEntryCommitted(s, x) ==
    [term |-> currentTerm[s], tx |-> x, committed |-> TRUE, body |-> "object"]

NewEntry(s, x) ==
    [term |-> currentTerm[s], tx |-> x, committed |-> FALSE, body |-> "object"]

\* The accounts of the shard are locked and the entry is appended.
AppendTransfer(s, x) ==
    /\ log' = [log EXCEPT ![s] = Append(@, NewEntry(s, x))]
    /\ shard' = [shard EXCEPT ![s] =
                    LogSaved([shard[s] EXCEPT !.locks = @ \cup Touched(s, x)])]
    /\ worker' = [worker EXCEPT ![s] = [pc |-> "append", tx |-> x]]
    /\ UNCHANGED <<electionVars, commitIndex, leaderVars, decisionVars,
                   ackQueue, counting, halted, counters, net, elected>>

\* replicate_log up to its loop: every follower is sent what it is believed to
\* miss.  An IndexError on the way (next_index beyond the log) ends the thread
\* after the sends before it.
Replicate(s) ==
    LET next == [p \in Peers[s] |-> IF nextIndex[s][p] = MissingKey
                                    THEN Len(log[s]) ELSE nextIndex[s][p]]
        good == {p \in Peers[s] : CanSend(log[s], next[p])}
    IN /\ worker[s].pc = "append"
       /\ worker' = [worker EXCEPT ![s].pc = IF good = Peers[s] THEN "repl"
                                             ELSE "dead"]
       /\ nextIndex' = [nextIndex EXCEPT ![s] = next]
       /\ \E to \in SUBSET good :
             /\ good = Peers[s] => to = good
             /\ Send({AppendEntries(s, p, log[s], next[p]) : p \in to})
       /\ UNCHANGED <<electionVars, logVars, matchIndex, shard, decisionVars,
                      txQueue, ackQueue, counting, halted, counters, elected>>

Locked(s, x) == Touched(s, x) \cap shard[s].locks # {}

NextInQueue(s, x) ==
    worker[s].pc = "idle" /\ txQueue[s] # <<>> /\ x = Head(txQueue[s])
Taken(s) == txQueue' = [txQueue EXCEPT ![s] = Tail(@)]

\* The balance does not suffice, or a cross-shard transfer meets a lock.
RejectTransfer(s) ==
    \E x \in Tx :
        /\ NextInQueue(s, x)
        /\ Overdrawn(s, shard[s], x) \/ (Cross(x) /\ Locked(s, x))
        /\ Taken(s)
        /\ Send({IF Cross(x) THEN Vote(s, x, "no")
                 ELSE ClientResponse(x, FALSE)})
        /\ UNCHANGED <<electionVars, logVars, leaderVars, shard, decisionVars,
                       worker, ackQueue, counting, halted, counters, elected>>

\* An intra-shard transfer passed the balance check and waits for its locks.
AwaitLocks(s) ==
    \E x \in Tx :
        /\ NextInQueue(s, x)
        /\ ~Cross(x) /\ ~Overdrawn(s, shard[s], x)
        /\ Taken(s)
        /\ worker' = [worker EXCEPT ![s] = [Idle EXCEPT !.pc = "wait", !.tx = x]]
        /\ UNCHANGED <<electionVars, logVars, leaderVars, shard, decisionVars,
                       ackQueue, counting, halted, counters, net, elected>>

AppendIntra(s) ==
    /\ worker[s].pc = "wait" /\ ~Locked(s, worker[s].tx)
    /\ AppendTransfer(s, worker[s].tx)
    /\ txQueue' = txQueue

AppendCross(s) ==
    \E x \in Tx :
        /\ NextInQueue(s, x)
        /\ Cross(x) /\ ~Overdrawn(s, shard[s], x) /\ ~Locked(s, x)
        /\ AppendTransfer(s, x)
        /\ Taken(s)

\* TRANSACTION_TIMEOUT while the accounts stay locked.
LockTimeout(s) ==
    /\ worker[s].pc = "wait" /\ Locked(s, worker[s].tx)
    /\ worker' = [worker EXCEPT ![s] = Idle]
    /\ Send({ClientResponse(worker[s].tx, FALSE)})
    /\ UNCHANGED <<electionVars, logVars, leaderVars, shard, decisionVars,
                   txQueue, ackQueue, counting, halted, counters, elected>>

\* What replicate_log takes from append_ack_queue; acks of earlier rounds may
\* still be in it.
PoppedAck(s) ==
    /\ worker[s].pc = "repl"
    /\ ackQueue' = [ackQueue EXCEPT ![s] = Tail(@)]
    /\ UNCHANGED <<electionVars, log, txQueue, decisionVars, counting, halted,
                   counters, elected>>

\* A follower stored the log, and with the server itself that is a majority of
\* three: what can be is committed and the round ends.
CountWorkerAck(s, a) ==
    LET mi == [matchIndex[s] EXCEPT ![a.from] = Len(log[s])]
        r == UpdateCommitIndex(s, shard[s], mi)
    IN /\ PoppedAck(s)
       /\ a.success
       /\ nextIndex' = [nextIndex EXCEPT ![s][a.from] = Len(log[s])]
       /\ matchIndex' = [matchIndex EXCEPT ![s] = mi]
       /\ commitIndex' = [commitIndex EXCEPT ![s] = r.ci]
       /\ shard' = [shard EXCEPT ![s] = r.sh]
       /\ worker' = [worker EXCEPT ![s] =
                        IF r.failed THEN [@ EXCEPT !.pc = "dead"] ELSE Idle]
       /\ Send(r.out)

RetryFollower(s, a) ==
    LET next == SteppedBack(nextIndex[s][a.from])
    IN /\ PoppedAck(s)
       /\ ~a.success
       /\ nextIndex' = [nextIndex EXCEPT ![s][a.from] = next]
       /\ IF CanSend(log[s], next)
          THEN /\ Send({AppendEntries(s, a.from, log[s], next)})
               /\ worker' = worker
          ELSE /\ Send({})
               /\ worker' = [worker EXCEPT ![s].pc = "dead"]
       /\ UNCHANGED <<commitIndex, matchIndex, shard>>

\* Mutant: the first entry beyond the commit index is left out.
UndoneButFirst(s) ==
    {log[s][i].tx : i \in {j \in DOMAIN log[s] :
        j > commitIndex[s] + 1 /\ ~Cross(log[s][j].tx)}}

Undone(s) ==
    {log[s][i].tx : i \in {j \in DOMAIN log[s] :
        j > commitIndex[s] /\ ~Cross(log[s][j].tx)}}

\* Five seconds without a majority: every intra-shard entry beyond the commit
\* index is reported as failed and unlocked, and stays in the log.
GiveUp(s) ==
    /\ worker[s].pc = "repl"
    /\ worker' = [worker EXCEPT ![s] = Idle]
    /\ shard' = [shard EXCEPT ![s].locks =
                    @ \ UNION {Touched(s, x) : x \in Undone(s)}]
    /\ Send({ClientResponse(x, FALSE) : x \in Undone(s)})
    /\ UNCHANGED <<electionVars, logVars, leaderVars, txQueue, ackQueue,
                   counting, decisionVars, halted, counters, elected>>

Worker(s) ==
    \/ RejectTransfer(s) \/ AwaitLocks(s)
    \/ AppendIntra(s) \/ AppendCross(s) \/ LockTimeout(s) \/ Replicate(s)
    \/ /\ ackQueue[s] # <<>>
       /\ LET a == Head(ackQueue[s])
          IN CountWorkerAck(s, a) \/ RetryFollower(s, a)
    \/ GiveUp(s)

-----------------------------------------------------------------------------
(* The other threads, and a restart of the process. *)

SendHeartbeats(s) ==
    /\ role[s] = "leader"
    /\ s \in MayBeat \ heartbeats
    /\ heartbeats' = heartbeats \cup {s}
    /\ Send({AppendEntries(s, p, log[s], Len(log[s])) : p \in Peers[s]})
    /\ UNCHANGED <<electionVars, logVars, leaderVars, shard, decisionVars,
                   threadVars, halted, restarted, elected>>

\* check_pending_decisions: committed_2PC is never None, so a transfer that is
\* in the log counts as decided and only leaves pending_decisions.
CheckPending(s, x) ==
    LET known == \E i \in DOMAIN log[s] : log[s][i].tx = x
    IN /\ x \in shard[s].pending
       /\ IF known
          THEN /\ shard' = [shard EXCEPT ![s].pending = @ \ {x}]
               /\ timedOut' = timedOut
               /\ Send({})
          ELSE /\ shard' = [shard EXCEPT ![s] =
                               [shard[s] EXCEPT !.pending = @ \ {x},
                                                !.locks = @ \ Touched(s, x)]]
               /\ timedOut' = [timedOut EXCEPT ![s] = @ \cup {x}]
               /\ Send({Ack(s, x)})
       /\ UNCHANGED <<electionVars, logVars, leaderVars, processed, threadVars,
                      halted, counters, elected>>

\* The process ends between two handlers and __init__ runs again on the files,
\* which exist, as all servers were started once.  last_applied is read from
\* the log file of the server that config.json lists last.
Restart(s) ==
    LET sh == shard[s]
        theirs == shard[ConfigLast].savedApplied
    IN /\ s \in MayRestart \ restarted
       /\ restarted' = restarted \cup {s}
       /\ role' = [role EXCEPT ![s] = "follower"]
       /\ currentTerm' = [currentTerm EXCEPT ![s] = 0]
       /\ votedFor' = [votedFor EXCEPT ![s] = NoServer]
       /\ currentLeader' = [currentLeader EXCEPT ![s] = NoServer]
       /\ log' = [log EXCEPT ![s] = [i \in DOMAIN log[s] |->
             [log[s][i] EXCEPT !.body = IF @ = "dict" THEN "object" ELSE @]]]
       /\ commitIndex' = [commitIndex EXCEPT ![s] = sh.savedCommit]
       /\ nextIndex' = [nextIndex EXCEPT ![s] = [p \in Peers[s] |-> MissingKey]]
       /\ matchIndex' = [matchIndex EXCEPT ![s] = [p \in Peers[s] |-> MissingKey]]
       /\ shard' = [shard EXCEPT ![s] =
             [sh EXCEPT !.locks = {}, !.pending = {},
                        !.lastApplied = IF theirs = MissingKey
                                        THEN sh.savedCommit ELSE theirs]]
       /\ processed' = [processed EXCEPT ![s] = {}]
       /\ timedOut' = [timedOut EXCEPT ![s] = {}]
       /\ txQueue' = [txQueue EXCEPT ![s] = <<>>]
       /\ worker' = [worker EXCEPT ![s] = Idle]
       /\ ackQueue' = [ackQueue EXCEPT ![s] = <<>>]
       /\ counting' = [counting EXCEPT ![s] = {}]
       /\ halted' = halted \ {s}
       /\ Send({})
       /\ UNCHANGED <<heartbeats, elected>>

\* The listener handles one datagram after the other.
Listener(s) ==
    /\ s \notin halted
    /\ \/ /\ counting[s] = {}
          /\ \E m \in net :
                /\ m.to = s
                /\ \/ AbandonElection(s, m) \/ BecomeLeader(s, m) \/ Drop(s, m)
                   \/ HandleVoteRequest(s, m)
                   \/ StaleAppend(s, m) \/ RefuseAppend(s, m) \/ AcceptAppend(s, m)
                   \/ QueueAck(s, m) \/ TakeAck(s, m)
                   \/ TakeRequest(s, m)
                   \/ IgnoreDecision(s, m) \/ HandleDecision(s, m)
       \/ \E m \in counting[s] : CountAck(s, m) \/ RepairFollower(s, m)

ServerNext ==
    \E s \in Server :
        \/ StartElection(s)
        \/ Listener(s)
        \/ Worker(s)
        \/ SendHeartbeats(s)
        \/ \E x \in Tx : CheckPending(s, x)
        \/ Restart(s)
=============================================================================
