# Raft and two-phase commit for a sharded bank: specifications

This directory specifies and verifies the transaction system of this repository: a
bank whose accounts are split over clusters of three servers. A transfer inside a
shard is replicated by Raft (`server.py`); one between two shards is coordinated by the
client with two-phase commit (`client.py`). Everything travels by UDP.

Contents: [the system](#the-system), [hard behaviours](#what-is-hard-about-it),
[modules](#modules), [correspondence](#correspondence-to-the-code),
[runs](#runs), [fairness](#fairness), [proofs](#proofs),
[disagreements](#where-code-and-documentation-disagree), [limits](#what-is-not-modelled),
[plan](#plan).

## The system

| Component | State | Operations | Correct if |
|---|---|---|---|
| Leader election, `server.py` | `role`, `current_term`, `voted_for`, the last log entry | `start_election` (with a receive loop of its own), `step_down_to_follower`, `become_leader`, `handle_vote_request`, the term part of `handle_append_entries` | one leader per term; votes bind; only a higher term deposes |
| Log replication, `server.py` | `log`, `commit_index`, `next_index`, `match_index`, `append_ack_queue` | `replicate_log`, `send_append_entries`, `handle_append_entries`, `handle_append_ack`, `update_commit_index`, `send_heartbeats` | replicas agree on entries; what is committed stays |
| Transaction worker, `server.py` | `transaction_queue`, `locks`, where the thread is | `process_transaction_queue`, `process_transaction`, then `replicate_log` | every request answered, the accounts locked until then |
| State machine, `server.py`, `shard_manager.py` | balances, `last_applied`, `applied_log_indices`, the files | `apply_committed_entries`, `execute_transaction` | each transfer executed once, in the same order everywhere, never overdrawn |
| 2PC participant, `server.py` | `pending_decisions`, `processed_decisions`, `timed_out_transactions`, `committed_2PC` of entries | `handle_prepare`, the vote in `update_commit_index`, `handle_decision`, `check_pending_decisions` | a yes vote can be kept; nothing is executed without a COMMIT; what is decided is executed |
| 2PC coordinator, `client.py` | `pending_transactions`, `transaction_times`, `completed_transactions` | `issue_transaction`, `handle_vote`, `handle_ack`, `handle_client_response` | one decision per transfer, COMMIT only if both clusters vote yes, a decision if one cluster fails |
| Files, `shard_manager.py` | `<id>_balance.csv`, `<id>_log.json`, `<id>_applied.json` | read-modify-write of a whole file | a restart continues where the server stopped |
| Transport, `udp_messenger.py`, `send_message` | the sockets | send, receive | none: datagrams may be lost, late and reordered |

A server has a listener thread (all handlers, and the whole of an election), a worker
thread (one transfer at a time), a heartbeat thread for each office it wins, a thread for
pending decisions, and a thread per datagram sent. They share every field without a lock.
The client has a thread that reads commands and one that handles datagrams. Client and
servers share nothing but datagrams: `CLIENT_REQUEST` and `PREPARE` go to one server of a
cluster, which forwards them to the leader it knows; `VOTE`, `ACK` and `CLIENT_RESPONSE`
come back; `COMMIT` and `ABORT` go to every server of both clusters.

## What is hard about it

* **Interleaving.** The worker waits (for locks, for acks) while the listener changes role,
  term and log under it; nothing after the wait looks at the role again.
* **Ordering.** `_send` sleeps in a thread of its own, so even one server's datagrams
  overtake each other. Acks name neither term nor index.
* **Loss.** A candidate drops everything that is not about its election.
* **Timeouts.** A round that timed out is reported as failed, and may still succeed.
* **Crash.** Terms and votes are not persisted; the commit index, `last_applied` and the
  applied indices are in different files, and a file is empty while it is rewritten.
* **Shared files.** The worker and the listener read, change and write the same three files without
  a lock.
* **Partial failure.** A cluster that never votes; a datagram that ends a thread with an
  exception.

`PROJECT.json` lists these hazards one by one with the line where each bites.

## Modules

| Module | What it is |
|---|---|
| `Election` | Leader election of one cluster on its own, the log abstracted to the stamp of its last entry; the network keeps every datagram ever sent, so late, lost, reordered *and repeated* delivery. The abstract specification of what servers promise each other about leaders. |
| `ElectionProofs` | The theorems about `Election`. |
| `Transfers` | What client and servers share: clusters, shards, the transfers, the set of datagrams in flight. |
| `Client` | `client.py`: issuing and coordinating. |
| `Server` | `server.py` with the files of `shard_manager.py`: one server, all of its threads. |
| `Bank` | The composition of `Client` and `Server`s over the network, the votes of clusters that are not modelled, fairness, and the properties. |
| `BankElection` | `Bank` with a history of the election datagrams, and the refinement mapping to `Election`. |
| `ServerProofs` | The types of everything in `Bank`, for every action, and the theorems about the client. |
| `ReplicationProofs` | Where a transfer and its `committed_2PC` flag can be, whoever leads and restarts: one index in a cluster, and the flag only after a COMMIT. |
| `SteadyProofs` | What a cluster that keeps one leader promises of logs, commit index, threads, votes and ledgers. |
| `BankElectionProofs` | That the servers of a cluster implement `Election`, and so inherit what is proved of it. |
| `ShardMap` | The account ranges of the client, the shard files and the lock table, as four operators. |
| `Shard` | What one server knows of its shard: the transfers in the order of the log, which sides of them are its own, the balances they change. |
| `Ledger` | The state machine a server promises to be: committed entries are applied whole, one at a time. The abstract specification of `Storage`, and what `Server` takes for granted. |
| `Storage` | One server, its two threads and its three files: `apply_committed_entries`, the `ShardManager` methods it and the handlers call, and `__init__` after a crash, one file operation at a time. |
| `StorageProofs`, `LedgerProofs`, `WholeProofs` | The theorems about `Storage`, each module on top of the one before: types, what counts as applied and how the account ranges compare; that it implements `Ledger`; that entries are executed whole and once. |
| `MCElection`, `MCBank`, `MCBankElection`, `MCStorage` | The instances TLC checks. |

Three levels of detail meet in two refinements. `Election` is implemented by the full server in
`BankElection`; `Ledger` is implemented by the files in `Storage`. `Server` stands between: it has all
handlers and all servers, and takes one handler, file writes included, as one step. `Storage` has one
server and its handlers as sequences of file operations, and takes from the other servers only what
they may send.

Operators whose comment begins with `Mutant` are defective variants of the definition that
follows. No specification uses them; `PROJECT.json` names, for each checked property, the
variant that breaks it, so that a property no bug could violate would be noticed.

## Correspondence to the code

State names are those of the code in camel case. What differs:

* **Indices count entries.** `commit_index` -1 is `commitIndex` 0, and `log[i]` in Python is
  `log[s][i + 1]`. `next_index` is the number of entries before the next one in both.
  An absent key of `next_index` or `match_index` is `MissingKey`.
* **An entry** is `[term, tx, committed, body]`. `tx` stands for the payload, `committed` is
  `committed_2PC` (default False), and `body` tells whether the Python value of
  `transaction` is an object, a dict or None: `send_append_entries` serialises objects only,
  so a cross-shard entry that was received once (a dict) leaves as None (`OnWire`).
* **`shard[s]`** groups the balances, locks, pending decisions and the numbers on disk.
  The entries in the log file equal `log[s]` after every handler and are not kept twice
  (in `Storage`, `LogFileCurrent` says when that is so).
  A write of the log file without a `last_applied` key (`LogSaved`) forgets that number,
  as the code does.
* **Handlers are steps.** A handler of the listener, with every call it makes, is one
  action. An action that may end in an exception says so by its guard on the data
  (`CanSend`, `failed`): the thread is then in `halted` (listener) or at `pc = "dead"` (worker).
* **The worker** takes one step up to each point where it waits: the wait for locks
  (`"wait"`), the wait for acks (`"repl"`), one step per ack, one for the end of the round. One point more is
  no wait: between the append to the log (server.py:537) and `replication_mode = True` (server.py:546)
  the listener may come in (`"append"`). `AppendTransfer` is the step up to there, `Replicate` the one after it.
* **An ack** the listener gets takes two steps. `TakeAck` finds `replication_mode` off (server.py:920); the ack
  is then in `counting[s]`, and `CountAck` or `RepairFollower` handles it, on a log to which the worker may
  have appended in the meantime.
  With three servers the first positive ack makes a majority, so the set of servers that
  responded never matters.
* **Elections** are a mode of the listener: while `role = "candidate"` it handles only what
  the receive loop of `start_election` looks at, and drops the rest (`Drop`).
* **Time.** Election timeouts, heartbeat intervals, the transaction timeout, the round's five
  seconds and the pending timeout may each expire at any moment.
* **Network.** `net` in `Transfers` is a set: a datagram that stays is late or lost. Two equal
  datagrams in flight count as one. In `Election` nothing is ever removed, which adds
  repetition.
* **Histories.** `elected`, `shard[s].ledger` and `decided` record who won, what was executed and which
  decisions were sent. No action reads them, except `Replicate` of `Election`, where "has been leader once"
  stands for "has a request in its queue or a next_index".
* **Restart** runs `__init__` on the files. It includes reading `last_applied` from the file
  of the server listed last in `config.json` (`ConfigLast`), which is what the code does. The code reads the log only if
  that file exists (server.py:87): all servers have been started once, so it does.
* **One step that the code takes in many**: `apply_committed_entries` with its file writes (`ApplyCommitted`). In the code
  the other thread may be in it at the same time, and a crash may come between two of its writes. `Server` has neither. Its
  `LedgersAgree` compares executions at this grain only, and none of its properties says how often an entry is executed or what a
  file holds: that is what `Storage` is for.

`Storage` has conventions of its own:

* **The log** is a sequence of flags: entry *i* is always transfer `Order[i]`, and its flag is
  `committed_2PC`. Leaders that send different entries for one index belong to `Server`; here an index
  that is truncated and appended again gets the same transfer.
* **A file** is `Torn` between `open(..., 'w')`, which empties it, and the close, which writes it: two
  steps, `Open` and `Put`. Readers of a torn file raise, and so does `__init__`, except that the balance
  file is read only when a balance is needed. A crash in between leaves the file torn for good.
  Two threads that have one file open may also leave the shorter content over the longer.
* **A thread** is a record: `pc`, the locals of the loop, and, while a file is written, `file`, `put` (the
  content, computed when the file was read) and `then` (where it goes on). `store_applied_indices` is
  the exception: it opens the file first and lists the set when it writes.
* **A step** changes memory and reads at most one file. The two follow each other without a wait in the
  code, and where another thread could come in between, it changes other variables or is kept out by
  `Receiving`.
* **A crash** reads `last_applied` from the log file of the server listed last in `config.json`, of another cluster for the
  servers of the runs: it may hold any number, none (`MissingKey`), or be torn, and then `__init__` raises. `LastListed` is the set of
  what it may hold.
* **AppendEntries** carry a commit index that may lie beyond their last entry (server.py:371): a leader whose own
  log was truncated sends such.
* **`Overlap`** says whether the second thread may enter a handler while the first is in one. In the code
  it may; the run `storage` says what holds when it does not happen, `applied_twice` what happens when
  it does. The theorems of `StorageProofs` hold either way, the others without overlap.
* **Histories** `moved`, `passed`, `cuts` and `settled` record what was written, passed over and hit by a
  crash. No action reads them.
* **Locks, votes and answers** are in `Server` and left out here, except that an account without a lock
  ends the worker (`Lockable`).

`PROJECT.json` maps each definition to its lines.

## Runs

All runs are exhaustive over the bounds they name. In the runs of `Bank` the bank has one full cluster
(`s1`, `s2`, `s3`; accounts `ann`, `bob` with 10 each) and, for cross-shard transfers, one server
`r1` of a second cluster with account `zoe`. The client writes to `s1`. Deadlock is not checked:
the instances stop when the transfers and elections they allow are used up.

| Run | Instance | Shows |
|---|---|---|
| `election` | 3 servers, terms up to 2, any log stamps, symmetric | `TypeOK`, `ElectionSafety`, `VoteOutlivesTerm`, `LeaderOnlyDeposedByHigherTerm` |
| `replication` | two transfers of 3 and 8 from one account of 10, `s1` in office, one restart of it, after which it may win its term again | `TypeOK` (no balance below zero), `LogMatching`, `LedgersAgree`, `OneIndex` |
| `two_phase` | one cross-shard transfer, remote votes yes or no, `s1` in office and a second office | `OneDecision`, `CountedOnce`, `ExecutedOnlyIfDecided` |
| `failed_cluster` | a cross-shard transfer the other cluster never votes on and one that wants the same money, in either order; `s1` in office; worker fairness | `ListenersSurvive`, `QueuedIsAnswered` |
| `refinement` | one transfer; `s1` stands in term 1, then `s2` in term 2 while the worker of `s1` may still replicate, and a round of heartbeats of `s2` | `ImplementsElection` |
| `storage` | one server of cluster 1; a transfer out of the shard, then one inside it, of which the balance allows one; up to two entries in a request, two crashes, any file of the server listed last, one handler at a time | `TypeOK`, `AppliedMeansDone`, `TransferIsWhole`, `LogFileCurrent`, `ImplementsLedger` |
| six more | see [below](#where-code-and-documentation-disagree) | one violated statement each |

The bounds: `MayStand` names the elections that may start, as server and term, `MayBeat` the servers that send heartbeats (one round each), `MayRestart` the servers that may restart (once each), `TxList` the
transfers, `MaxTerm` the terms of `Election`. They are chosen so that the case in question
happens. Two transfers are needed for anything about order, late acks or locks, and for a `next_index` that is
stepped back from 2 (`failed_cluster`); two offices
for a deposed leader that does not know it; one heartbeat to carry a commit index on its own.
"`s1` in office" is an instance that starts when `s1` has won term 1 with the vote of `s2`, the request
to `s3` lost (`InOffice` in `MCBank`).

In the runs of `Storage`, `MaxEntries` bounds the entries of one AppendEntries and `MaxCrashes` the crashes of
the process. The server is one of cluster 1. Two entries are the least for which one waits behind, overtakes or
replaces another; an entry out of the shard and one inside it have one and two sides to write here, so a
crash may hit before, between and after the writes, and a request of two entries may be
truncated by a shorter one. The second crash is there because it may hit the re-execution of what the first one
hit, or come after a crash that left a file torn. The log file of the server listed last holds 0, a number beyond
every index, no number, or is torn. Nothing in the code counts beyond that, and the theorems
about `Storage` need none of these bounds.

What the runs do not reach: a third office of a server that was leader before (leftovers in
`match_index`), more than one restart in a cluster of several servers, two full clusters, a third vote on one transfer
(with heartbeats of `s2` the run `two_phase` takes minutes and finds no violation; `OneDecisionHolds` covers every number
of votes), a log that is truncated below the commit index and a request that then lowers it
(`CommitIndexMonotone`, which is a theorem and in no run).

## Fairness

Safety runs use none. The liveness run uses `WorkerFairness`: weak fairness of each worker thread. All
its waits end by a timeout (`server.py:509-515`, `566-568`), so it always takes another step. Nothing is
assumed of the listeners, the client or the network: any datagram may be lost. Elections, heartbeats,
remote clusters and new transfers are never assumed to happen; timers are random in the code.
`Storage` states no fairness: what is written there is a promise about files, and a thread may end in
an exception at any file.

`QueuedIsAnswered` is checked with loss (fairness of workers only), a leader that stays in office and a
lock that is never released. It does not hold in general. If the leader is deposed and the uncommitted
entry is truncated before the round times out, the loop that reports failures finds nothing; and an
entry that is passed over for lack of balance when it is applied is never answered.

## Proofs

`ElectionProofs` proves for every set of at most three servers, every bound `MaxTerm` and every
set of stamps:

| Theorem | Statement |
|---|---|
| `TypeCorrect` | `Spec => []TypeOK` |
| `InductiveInvariant` | `Spec => []IInv` |
| `ElectionSafe` | `Spec => []ElectionSafety` |
| `VotesKept` | `Spec => VoteOutlivesTerm` |
| `LeadersStepDownForHigherTerms` | `Spec => LeaderOnlyDeposedByHigherTerm` |

Assumptions: `AtMostThreeServers` (one vote besides its own wins, `server.py:223`, is a
majority only then; with four servers the theorem is false), `NoServerIsNone`, `StampType`,
`MaxTermType`.

Why an inductive invariant. `ElectionSafety` is about pairs that were elected, and nothing in
it says why a second server cannot collect a vote of the same term. The argument runs through
the votes: a response of term *t* in flight means that the sender voted for the addressee
in *t*, or has since reached a higher term (`VotesBind`); no server answers two candidates in
one term (`VotesUnique`); each elected pair is backed by such a response (`LeadersBacked`); a
server that won a term leads in it or has moved on (`LeadersStay`), and gave no vote of that
term to another (`LeadersVoteForNoOther`).
Two leaders of a term would then each be backed by a server outside the pair, which with three
servers is the same one, and it answered only one of them. This carries over the two oddities of
the code: a candidate that steps down in its own term clears its vote (`server.py:214`), which is
harmless because by then another leader holds the majority of that term, and requests of older
terms are answered under the voter's own term (`server.py:396-417`), which is harmless because the
candidate counts answers of its own term only.

`ServerProofs` proves one thing of the client, for any clusters, any number of servers and any list of transfers:

| Theorem | Statement |
|---|---|
| `CountedOnceHolds` | `Spec => []CountedOnce` |

It says that `completed_transactions` never exceeds the number of transfers issued although several
servers answer for one transfer and each may answer twice. The invariant counts the keys of `transaction_times` with the counter: the key goes with
the first answer, and only an answer that finds it counts.

The theorems about the servers are about the whole system `Bank`: any number of clusters of three, any accounts and
transfers, datagrams lost, late and reordered, any elections.

| Module | Theorem | Statement |
|---|---|---|
| `ServerProofs` | `TypeCorrect` | `Spec => []TypeOK`, no balance below zero |
| `ReplicationProofs` | `OneIndexHolds` | `Spec => []OneIndex` |
| `ReplicationProofs` | `ExecutedOnlyIfDecidedHolds` | `Spec => []ExecutedOnlyIfDecided` |
| `SteadyProofs` | `OneLeaderHolds` | `Spec => []OneLeader`, if only one server of a cluster may stand |
| `SteadyProofs` | `LogMatchingHolds` | `Spec /\ []OneLeader => []LogMatching` |
| `SteadyProofs` | `CommitIndexMonotoneHolds` | `Spec /\ []OneLeader => CommitIndexMonotone`, if none restarts |
| `SteadyProofs` | `ListenersSurviveHolds` | `Spec /\ []OneLeader => []ListenersSurvive`, if none restarts |
| `SteadyProofs` | `LedgersAgreeHolds` | `Spec /\ []OneLeader => []LedgersAgree`, if no transfer is cross-shard and only `ConfigLast` restarts |
| `SteadyProofs` | `OneDecisionHolds` | `Spec /\ CommitIndexMonotone => []OneDecision` |
| `SteadyProofs` | `OneDecisionOneLeader` | `Spec /\ []OneLeader => []OneDecision`, if none restarts |
| `BankElectionProofs` | `ImplementsElectionHolds` | `HistorySpec => ImplementsElection`, if none restarts |
| `BankElectionProofs` | `OneLeaderPerTermHolds` | `HistorySpec => []OneLeaderPerTerm`, if none restarts |

The hypotheses are those the code needs. `OneLeader` says that no two servers of a cluster are ever elected; the
worker of a deposed leader writes into the term of the next one (see
[below](#what-the-passing-runs-do-not-promise)), so nothing about logs holds without it. "None restarts" is
`MayRestart = {}`: a restart brings back an older commit index and no `next_index`.
`OneLeaderHolds` shows that the hypothesis is not empty: the instances in which one
server of each cluster may stand satisfy it, those of the runs `replication` and `failed_cluster` among them.

* `TypeCorrect`: `TypeInv` gives every datagram the fields of its type and peers as its ends, every entry a transfer of the
  list, and every balance a natural number. `execute_transaction` subtracts what the test before it
  compared. The loop of `apply_committed_entries` is a recursive function of the number of turns
  (`ApplyTurns`); what it preserves is proved by induction on the set of turns it is true of.
* `OneIndexHolds` rests on `PlaceInv`: within one cluster a transfer is in one place at a time, a request in
  flight, a queue, the worker's hands, or one index of the log, the same in every copy of the entry
  (`OnePlace`). Each action is of one of five kinds (`StepKinds`): almost all move no transfer (`Still`), the others move one from one
  place to the next, or issue it. This needs no leader: a deposed leader, a truncation or a restart loses
  places and makes none. It is what `applied_log_indices` relies on: an index stands for a transfer, so that
  what is executed once per index is executed once. Whether it is executed once per index is `AppliedOnce` of `Storage`.
* `ExecutedOnlyIfDecidedHolds`: every entry in a log or in a request whose flag is set, has it from a COMMIT the
  client sent (`DecidedInv`).
* `SteadyProofs` first says what each action may do to the log, the commit index, `next_index`, the datagrams and the
  threads (`SteadyStep`), and then uses only that. With one leader, whoever has a
  request, an ack or a running round is that leader (`LedInv`); every entry in a log or a request is a copy of the
  leader's at the same index (`CopyInv`), which is `LogMatching`. The leader's own entries are objects, so what it
  sends has a transfer (`BodyInv`); a request never carries a commit index beyond its last entry
  (`CommitInv`), so the truncation of server.py:371 does not lower the follower's. Then no thread meets the
  data that would end it (`AliveInv`).
* `LedgersAgreeHolds`: the balances and the ledger of a server are those a new shard reaches by executing, one by one,
  the first `lastApplied` transfers of the leader's log (`History`), passing over those that cannot be paid;
  with one leader there is one such history, and ledgers only grow along it. That the server neither skips nor
  repeats an entry is `InStep`: `applied` holds the indices up to `lastApplied`, and the two files hold `lastApplied`
  too. A restart reads `last_applied` from the file of the server that config.json lists last (server.py:87-91), so
  only that server may restart. A cross-shard entry may be applied before its decision, differently on each server.
* `OneDecisionHolds`: who has voted on a transfer has it in the log, not above its commit index, and nowhere else
  (`VotedInv`), so it never votes again: a vote is cast when a transfer leaves the queue, or when the commit
  index passes its entry (`Casts`). Two votes therefore come from two servers, each is counted once, and the count
  passes two once (`VotesInv`). No leader is needed for that, only a commit index that does not go back.
* `ImplementsElectionHolds` sorts the steps of `Bank` by what an election sees of them (`ElectionKinds`): a server
  stands, abandons or wins an election, answers a request for votes, hears a leader (`Hears`), or does something
  else, during which it may still send AppendEntries and append to its log (`Rest`). The first five are the
  actions of `Election` of the same name, the last is its `Replicate`, or nothing. Three
  invariants are needed besides the types: who sends entries has been elected (`LedInv`) in a term it has not
  fallen behind (`OfficeInv`), which is the guard of `Replicate`; and terms and logs stay within
  the stamps `Election` is given (`TermsInv`, `Stamped`; that a log is never longer than the list of transfers follows from
  `OnePlace`). `SentInv` says that a datagram in flight is one `Election` knows. The cluster may elect
  any number of leaders: nothing here assumes `OneLeader`.
* `OneLeaderPerTermHolds` is what the refinement is for: it instantiates `ElectionProofs` with the cluster
  (`Proved`) and takes `ElectionSafe` over. `HistorySpec` adds to `Spec` the variable `sent`, which no action reads, so
  the statement, which is about `elected` only, holds of `Bank`.

`StorageProofs` also compares the account ranges over all accounts: `ClustersAgree` (client and shard
manager put an account in the same cluster), `ServedAccounts` (all but 0 and 1000 have a row and a
lock there), `UnservedAccounts` (account 1000 has a lock and no row, account 0 a row and no lock).

The theorems about `Storage` hold for every log of transfers, every initial balance, every length of request and
every number of crashes:

| Module | Theorem | Statement |
|---|---|---|
| `StorageProofs` | `TypeCorrect` | `Spec => []TypeOK`, no balance below zero |
| `StorageProofs` | `AppliedMeansDoneHolds` | `Spec => []AppliedMeansDone` |
| `LedgerProofs` | `ImplementsLedgerHolds` | `Spec => ImplementsLedger`, if `Served` |
| `WholeProofs` | `TransferIsWholeHolds` | `Spec => []TransferIsWhole`, if `Served` |
| `WholeProofs` | `AppliedOnceHolds` | `Spec => []AppliedOnce`, if `Served` |
| `WholeProofs` | `LogFileCurrentHolds` | `Spec => []LogFileCurrent`, if `Served` |

* `TypeCorrect` is about balances that were read two steps before they are written. `TypeInv`
  carries through these steps that a thread about to debit holds a balance it found sufficient, and that what
  waits to be written is a table of balances that are not negative. It holds with two threads at once: they may lose each
  other's update, not overdraw.
* `AppliedMeansDoneHolds` follows from what a thread promises at each place (`Doing`): the sides no longer in
  `left` were written, all of them when it is about to record the entry. The set in the file is written after the
  set in memory, and only grows, so the one a restart finds holds nothing else.
* `ImplementsLedgerHolds` maps the files to the abstract state: log, commit index and applied indices are those in
  memory, the balance is the file's when an entry was last recorded. `LedgerInv` says how far the file is from it
  (`Progress`: the sides written so far, or torn during the next), that the entry may be applied and is
  not yet (`Allowed`), that no thread looks beyond the commit index or saves one that is higher
  (`Bounded`), that the log file is torn only while a live thread writes it, and that a readable applied file equals
  memory (`FilesInv`). Then recording an entry is `Apply`, a crash is `Crash`, and every other step is
  `Replicate`. `Served` is the theorem's condition: one handler at a time, and no transfer of account 1000, which
  has no row. Both are needed: `applied_twice` and `half_transfer` show what happens without.
* `TransferIsWholeHolds` counts: the debits of an entry exceed its credits by what is owed now (`Owed`: a thread is
  between the two writes) and by some of the crashes that hit the entry (`WholeInv`). Only two steps change the
  count, the write of a side and a crash; for the rest it is enough that they are `Calm`.
* `AppliedOnceHolds` counts in the same way (`OnceInv`): an entry that is not recorded, and of which a thread has not
  just written this side, was written at most once per crash that hit it. It is the property that `applied_twice`
  refutes: for accounts that are served, the overlap of the two threads is the only way to get there.
* `LogFileCurrentHolds` rests on `LogKept`: the thread that writes the log file holds the log in memory, and the
  listener appends at the end of the log, so that an index means the same in memory and in the file.

Assumptions about the constants of `Bank`: there are finitely many servers, each with two peers (`ThreeServers`, as in `config.json`; the code
takes the first positive ack for a majority); a cluster is modelled in full or by its votes, and the client writes to a
server of the cluster it means (`ClustersAndShards`); payers, payees and amounts of the list are accounts and natural
numbers (`TxListType`); the initial balance is a natural number (`ServerConstants`); remote votes are yes or no (`RemoteVotesType`).
Of `BankElection`: the cluster looked at is modelled in full (`ClusterInFull`), and `LastTerm` is a bound on the terms in
`MayStand` (`LastTermIsLast`).
Of `Storage`, besides the types of the constants: `Torn` is neither a table of balances nor the content of a
log file (`TornIsNoFile`, `TornIsNoLog`), and every transfer in the log has a side in the cluster
(`OrderType`), as the client sends no others.

TLC alone: of `Bank`, `QueuedIsAnswered`, because liveness under
fairness is out of reach of the prover. Every other property of a passing run is a theorem.
`ImplementsLedgerHolds` is why `Server` may take
`apply_committed_entries` as one step, as long as handlers do not overlap.

## Where code and documentation disagree

Each of these runs checks one statement of the repository and ends in a counterexample. Servers
and numbers are those of the traces TLC prints.

* `reported_is_kept`. *"On consensus, the transaction is committed and the client is notified"*
  (README.md:66). A success ack is counted for the whole log. The second ack of the first round is
  still queued when the second round starts, commits the second transfer at once, and the
  client is told; no follower has it. The next leader neither.
* `commit_is_executed`. *"Manages cross-shard transactions for atomicity"* (README.md:28), *"we wait for
  the coordinator's decision"* (server.py:721). `committed_2PC` defaults to False, so an undecided
  entry is applied as an aborted one, and the COMMIT that follows finds its index applied.
* `executed_is_committed`. *"check for conflicts and truncate if needed"*, *"Delete conflicting
  entries"* (server.py:306-309). No terms are compared. A follower receives the request with three
  entries, two of them committed, executes those two, then receives the earlier request with one
  entry, and deletes the other two, although nothing conflicts. One leader, no failure.
* `commit_needs_both_clusters`. *"If all clusters vote "yes", a commit message is broadcasted. If any
  cluster votes "no" or fails, an abort message is sent"* (README.md:74-75). The client waits for two
  voters, not for two clusters. A deposed leader whose worker goes on, and the new leader, which
  counts the ack of its own heartbeat for the entry it received, both vote yes, and COMMIT goes out
  without a vote of the other cluster.
* `applied_twice`. *"Prevent reapplying the same log entry using log index"* (server.py:744). The test
  (server.py:745) and the addition (server.py:806) are apart, with the whole execution in between, and
  nothing keeps the worker and the listener from being there at once: both find the index not yet applied,
  and the transfer is executed twice without any crash. `AppliedOnceHolds` proves that
  it takes an overlap.
* `half_transfer`. *"Cluster 1: Items 1 - 1000"* (README.md:40) and *"All data items start with a balance of 10
  units"* (README.md:43). Account 1000 has a lock and counts as one of cluster 1, and the balance file ends
  at 999 (shard_manager.py:41-46). A transfer to it is committed, debits the payer, and ends the thread with an exception at the credit.

Four more were found with TLC and have no run of their own:

* An entry that was reported as failed stays in the log and is executed when a late ack arrives, against *"we'll abort
  if we can't reach consensus"* (server.py:614).
* The client sends no decision when a cluster stays silent, against *"If any cluster votes "no" or fails, an abort
  message is sent"* (README.md:75), as it waits for exactly two votes and has no timer.
* The worker *"Replicates the transaction log to followers and waits for majority acknowledgment"*
  (server.py:545). Between its append (server.py:537) and `replication_mode = True` (server.py:546), or after the listener has found that
  flag off (server.py:920), the listener counts a late ack for the new entry, commits it, executes it and unlocks its accounts
  (server.py:925-932). The worker then replicates a transfer that is done and holds no lock.
* *"Clean up completed transactions"* (client.py:62) never happens. `transaction_times` loses its key with
  the first ack or answer (client.py:60, 81), and the clean-up waits for a second ack behind the test of that key:
  `pending_transactions` only grows, and late votes on decided transfers go on being counted.

### What the passing runs do not promise

Several statements hold only under the restriction of their run. Larger instances of `Bank` give
counterexamples, recorded as hazards without runs of their own:

* With a second leader, `LogMatching` fails: the worker of a deposed leader appends
  under a term it did not win (server.py:536), and the leader in office accepts those entries, because
  they carry its own term. They may replace one it has executed.
* With a second leader `ListenersSurvive` fails in two ways. An entry that was received as a dict is sent on as
  None, and applying it once it is marked committed raises TypeError (server.py:792); this takes a cross-shard and an intra-shard
  transfer. And a leader with a `next_index` of 3 whose log the next leader truncates to one entry reads beyond it when a
  late negative ack arrives (server.py:933-936); this takes three intra-shard ones.
* After a restart a negative ack is a KeyError that ends the listener (server.py:935), and a server
  that reads the `last_applied` of another (server.py:87-91) passes over entries it never applied.
* `check_pending_decisions` never reaches its timeout for an entry in the log (server.py:119), so the
  locks of an undecided transfer stay.
* A yes vote is not always kept. A COMMIT applies the log from `last_applied` on, and an earlier entry of a round that
  timed out, which is executed in that same pass, may take the money the vote counted on: the transfer voted on is then skipped for lack of balance
  (server.py:792-800), while the other cluster executes its part.
* Nothing keeps the accounts of a transfer locked until its round ends: see the third of the disagreements
  without a run, a round that gives up (server.py:605-640), and `handle_decision`, which applies what is committed before its entry.
* An entry that is passed over for lack of balance is neither answered nor unlocked
  (server.py:794-800).

In `Storage`, two threads in handlers at once (`Overlap`) break more than `AppliedOnce`. A thread that reads a file the other
has just emptied ends in an exception (shard_manager.py:72, 141). `LogFileCurrent` fails: while the worker rewrites
the log file, the listener truncates the log in memory, finds the file empty and ends, and the file keeps the entry. `Bank` has no such
overlap and no crash inside a handler, and claims nothing about the number of executions: a crash between the
execution and the write of the applied file (server.py:804-807), too, executes an entry again, as `AppliedOnce` allows for. Without overlap the test of
`applied_log_indices` alone could be dropped and no checked property would notice: the loop starts at `last_applied`.

What the theorems about `Bank` say of these limits:

* `TypeOK`, `CountedOnce`, `OneIndex` and `ExecutedOnlyIfDecided` need none of them: they hold with any
  number of leaders, restarts and lost datagrams.
* `OneDecision` needs only that no commit index goes back (`OneDecisionHolds`): a server votes on a transfer
  when its commit index passes the entry, so one that never goes back votes once.
* `CommitIndexMonotone` is proved for one leader and no restart; no run checks it. The proof shows why the code needs it: the
  commit index may lie beyond a truncated log (server.py:371), so what protects a follower is that the leader's own log is
  never truncated, and that the leader's commit index never lies beyond it. A truncated server that wins an election has neither,
  and with it a follower's commit index may go from 2 to 1. So `OneDecisionHolds` says nothing of such a cluster.
* `ImplementsElection` holds with any number of leaders and without restarts: elections are sound, and what goes wrong
  with a second leader is what the first one's threads go on doing.
* `LedgersAgree` is proved for one leader, intra-shard transfers and restarts of `ConfigLast` only. Each of the three is
  needed: entries are replaced after they were executed, an undecided entry is passed over by one replica and executed
  by the other, and `last_applied` is read from a file that is not the server's own.
* `LogMatching` is proved for one leader, restarts included, and `ListenersSurvive` for one leader and no restart, both
  with cross-shard transfers as well.

## What is not modelled

* `PrintBalance`, `PrintDatastore`, `Performance`, the latency sums, logging: they change nothing else.
* `launch.sh` and the reading of `config.json` and `transactions.csv`.
* JSON text, and the 2048-byte limit of a datagram.
* `get_last_log_entry`, `get_log_length`, `apply_log_entries`: nothing calls them.
* In `Storage`: leaders that send different entries for one index, locks, votes and answers to the client (all
  in `Server`); the content a torn file may partly hold, which is taken as lost; the creation of missing files by a
  new server. A process whose log or applied file is torn never comes back, as its `__init__` raises.
* Crashes inside a handler of a server among several, and two threads in `apply_committed_entries` of one: `Server` takes it as one step and
  restarts between handlers; `Storage`, with one server, has both.

## Plan

Done, in this order: `Election` and its proofs; `Transfers`, `Client`, `Server`; `Bank` with the safety
runs; `BankElection`; the liveness run; `ShardMap` and its proofs; `Shard`, `Ledger` and `Storage` with crashes
inside handlers and overlapping threads; the proofs about the client and about `Storage`; types, replication,
votes and ledgers of `Bank`; its refinement of `Election`; the steps of the worker and of the listener's acks taken apart.

Next:

1. Two full clusters: cross-shard atomicity between the two shards' ledgers, conservation of money.
