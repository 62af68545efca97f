------------------------------- MODULE Storage -------------------------------
(***************************************************************************)
(* One server and its three files: apply_committed_entries step by step,   *)
(* the shard manager it calls, and __init__ after a crash.                 *)
(*                                                                         *)
(* Each file is rewritten whole: open(..., 'w') empties it, and closing it *)
(* puts the content there.  Between the two the file is Torn for other     *)
(* threads, and for good if the process dies.  Server takes a handler as   *)
(* one step; here the two threads that handle entries may also overlap.    *)
(* A step updates memory and reads at most one file.                       *)
(***************************************************************************)
EXTENDS Shard

CONSTANTS
    Overlap,    \* may both threads be inside a handler?
    LastListed, \* what the log file of the server listed last in config.json
                \* may hold as last_applied: a value, MissingKey or Torn
    MaxEntries, \* bound: the entries in one AppendEntries
    MaxCrashes  \* bound: the crashes of the process

ASSUME BoundsType ==
    Overlap \in BOOLEAN /\ MaxEntries \in Nat /\ MaxCrashes \in Nat

VARIABLES
    disk,         \* the files: "rows", "log" and "applied"
    log,          \* self.log
    commitIndex,  \* commit_index + 1
    lastApplied,  \* last_applied + 1
    applied,      \* applied_log_indices
    processed,    \* the indices in processed_decisions
    up,           \* FALSE: __init__ ends in an exception, now and forever
    th,           \* per thread, where it is and its locals
    crashes,      \* bound: the crashes so far
    moved,        \* history: how often each side of an entry was written
    passed,       \* history: the entries applied without being executed
    cuts,         \* history: how often a crash hit the execution of an entry
    settled       \* history: the balances when an entry was last applied whole

memory == <<log, commitIndex, lastApplied, applied, processed, up>>
history == <<moved, passed, cuts, settled>>
vars == <<disk, memory, th, crashes, history>>

Thread == {"worker", "listener"}
MissingKey == -1

ASSUME LastListedType == LastListed \subseteq Nat \cup {MissingKey, Torn}

\* Nor is it what a log file holds.
ASSUME TornIsNoLog ==
    Torn \notin [entries : Seq(BOOLEAN), commit : Nat,
                 applied : Nat \cup {MissingKey}]

Least(a, b) == IF a < b THEN a ELSE b

\* pc; the entries at+1..last are to be done and up to upto all are applied;
\* ci and value as in the code; left are the sides still to be written; file,
\* put and then: the file being written, with what, and what comes after.
Idle == [pc |-> "idle", at |-> 0, last |-> 0, upto |-> 0, ci |-> 0,
         value |-> 0, left |-> {}, file |-> "log", put |-> Torn, then |-> "idle"]

\* The thread ended in an exception.
Dead == [Idle EXCEPT !.pc = "dead"]

Init ==
    /\ disk = [rows |-> [a \in Held |-> InitialBalance],
               log |-> [entries |-> <<>>, commit |-> 0, applied |-> MissingKey],
               applied |-> {}]
    /\ log = <<>>
    /\ commitIndex = 0
    /\ lastApplied = 0
    /\ applied = {}
    /\ processed = {}
    /\ up = TRUE
    /\ th = [t \in Thread |-> Idle]
    /\ crashes = 0
    /\ moved = [i \in Index |-> [f \in Side |-> 0]]
    /\ passed = {}
    /\ cuts = [i \in Index |-> 0]
    /\ settled = [a \in Held |-> InitialBalance]

-----------------------------------------------------------------------------
(* Reading and writing files. *)

Becomes(t, r) == th' = [th EXCEPT ![t] = r]

\* r goes on to write content into file f, and then to pc.
Saving(r, f, content, pc) ==
    [r EXCEPT !.pc = "open", !.file = f, !.put = content, !.then = pc]

\* r goes on to rewrite the log file it read as content; an unreadable one is
\* an exception.
SavingLog(r, content, pc) ==
    IF disk.log = Torn THEN Dead ELSE Saving(r, "log", content, pc)

\* get_log, then json.dump of the entries and commit_index only.
WithEntries(es) ==
    [entries |-> es, commit |-> disk.log.commit, applied |-> MissingKey]

\* store_commit_apply_index
WithIndices(ci, i) ==
    [entries |-> disk.log.entries, commit |-> ci, applied |-> i]

\* get_balance: an account without a row is an exception, like an empty file.
Readable(a) == disk.rows # Torn /\ a \in Held

Open(t) ==
    /\ th[t].pc = "open"
    /\ disk' = [disk EXCEPT ![th[t].file] = Torn]
    /\ Becomes(t, [th[t] EXCEPT !.pc = "put"])
    /\ UNCHANGED <<memory, crashes, history>>

\* Two threads that wrote one file leave the second content, or that over a
\* longer first one.
Written(f, content) ==
    {content} \cup IF disk[f] = Torn THEN {} ELSE {Torn}

SideOf(r) == IF "payer" \in r.left THEN "payer" ELSE "payee"

\* store_applied_indices lists the set when the file is open.
Put(t) ==
    LET r == th[t]
        content == IF r.file = "applied" THEN applied ELSE r.put
        f == SideOf(r)
    IN /\ r.pc = "put"
       /\ \E w \in Written(r.file, content) : disk' = [disk EXCEPT ![r.file] = w]
       /\ moved' = IF r.file = "rows" THEN [moved EXCEPT ![r.at + 1][f] = @ + 1]
                   ELSE moved
       /\ Becomes(t, IF r.then = "idle" THEN Idle
                     ELSE [r EXCEPT !.pc = r.then, !.put = Torn,
                              !.left = IF r.file = "rows" THEN @ \ {f} ELSE @])
       /\ UNCHANGED <<memory, crashes, passed, cuts, settled>>

-----------------------------------------------------------------------------
(* The handlers that lead to apply_committed_entries. *)

Free(t) ==
    /\ up /\ th[t].pc = "idle"
    /\ Overlap \/ \A u \in Thread : th[u].pc \in {"idle", "dead"}

\* A call of apply_committed_entries with the commit index ci.
Applying(r, ci) ==
    [r EXCEPT !.pc = "scan", !.at = lastApplied, !.last = ci, !.upto = lastApplied]

\* The lock table has an entry for every account to be locked.
Lockable(i) ==
    IF ~Cross(i) THEN \A f \in Side : Order[i][f] \in LockTable(Cluster)
    ELSE Order[i][IF Local(i, "payer") THEN "payer" ELSE "payee"]
            \in LockTable(Cluster)

\* The listener appends entries of a leader.
Receiving == "append" \in {th["listener"].pc, th["listener"].then}

\* process_transaction up to replicate_log; a transfer that is short of
\* balance changes nothing.  An entry of the worker among those of another
\* leader would be a conflict, which is left to module Server.
Request ==
    LET i == Len(log) + 1
        looks == Local(i, "payer")
    IN /\ Free("worker") /\ ~Receiving /\ i \in Index
       /\ IF (looks => Readable(Order[i].payer)) /\ Lockable(i)
          THEN /\ looks => ~Short(disk.rows, i)
               /\ log' = Append(log, FALSE)
               /\ Becomes("worker",
                    SavingLog(Idle, WithEntries(Append(disk.log.entries, FALSE)),
                              "idle"))
          ELSE log' = log /\ Becomes("worker", Dead)
       /\ UNCHANGED <<disk, commitIndex, lastApplied, applied, processed, up,
                      crashes, history>>

\* update_commit_index, from the worker or from handle_append_ack.
Lead(t) ==
    /\ Free(t)
    /\ \E n \in commitIndex + 1 .. Len(log) :
          /\ commitIndex' = n
          /\ Becomes(t, IF ~Cross(n) THEN Applying(Idle, n)
                        ELSE IF Local(n, "payer") => Readable(Order[n].payer)
                        THEN Idle ELSE Dead)
    /\ UNCHANGED <<disk, log, lastApplied, applied, processed, up, crashes,
                   history>>

\* Mutant: what conflicts stays in the file.
ReceiveFromKeeping(k, m, c) ==
    /\ log' = IF k < m /\ k < Len(log) THEN SubSeq(log, 1, k) ELSE log
    /\ Becomes("listener",
               [Idle EXCEPT !.pc = "append", !.at = k, !.last = m, !.ci = c])

\* handle_append_entries with the entries k+1..m and the leader's commit c,
\* beyond m if the leader's log was truncated; what conflicts is removed first.
ReceiveFrom(k, m, c) ==
    LET r == [Idle EXCEPT !.at = k, !.last = m, !.ci = c]
        conflict == k < m /\ k < Len(log)
    IN /\ log' = IF conflict THEN SubSeq(log, 1, k) ELSE log
       /\ Becomes("listener",
            IF ~conflict \/ (disk.log # Torn /\ k >= Len(disk.log.entries))
            THEN [r EXCEPT !.pc = "append"]
            ELSE SavingLog(r, WithEntries(SubSeq(disk.log.entries, 1, k)),
                           "append"))

Receive ==
    /\ Free("listener")
    /\ \E k \in 0..Len(log) :
       \E m \in k .. Least(k + MaxEntries, Len(Order)) :
       \E c \in 0..Len(Order) : ReceiveFrom(k, m, c)
    /\ UNCHANGED <<disk, commitIndex, lastApplied, applied, processed, up,
                   crashes, history>>

\* Step 4 of handle_append_entries; the flag travels with the entry.
AppendEntry ==
    LET r == th["listener"]
        i == r.at + 1
    IN /\ r.pc = "append" /\ r.at < r.last
       /\ \E flag \in {FALSE, Cross(i) /\ Order[i].commit} :
             /\ log' = Append(log, flag)
             /\ Becomes("listener",
                  SavingLog([r EXCEPT !.at = i],
                            WithEntries(Append(disk.log.entries, flag)), "append"))
       /\ UNCHANGED <<disk, commitIndex, lastApplied, applied, processed, up,
                      crashes, history>>

\* Step 5: the commit index, which may step back to the end of a shorter log.
FollowCommit ==
    LET r == th["listener"]
        n == IF r.ci > commitIndex THEN Least(r.ci, Len(log)) ELSE commitIndex
    IN /\ r.pc = "append" /\ r.at = r.last
       /\ commitIndex' = n
       /\ Becomes("listener", IF n > commitIndex THEN Applying(Idle, n) ELSE Idle)
       /\ UNCHANGED <<disk, log, lastApplied, applied, processed, up, crashes,
                      history>>

\* handle_decision
Decide ==
    /\ Free("listener")
    /\ \E i \in Index \ processed :
          /\ Cross(i)
          /\ processed' = processed \cup {i}
          /\ log' = IF i \in DOMAIN log
                    THEN [log EXCEPT ![i] = Order[i].commit] ELSE log
          /\ Becomes("listener",
               IF i \notin DOMAIN log \/
                  (disk.log # Torn /\ i \notin DOMAIN disk.log.entries)
               THEN [Idle EXCEPT !.pc = "apply"]
               ELSE SavingLog(Idle,
                      WithEntries([disk.log.entries EXCEPT ![i] = Order[i].commit]),
                      "apply"))
    /\ UNCHANGED <<disk, commitIndex, lastApplied, applied, up, crashes, history>>

ApplyDecision ==
    /\ th["listener"].pc = "apply"
    /\ Becomes("listener", Applying(th["listener"], commitIndex))
    /\ UNCHANGED <<disk, memory, crashes, history>>

-----------------------------------------------------------------------------
(* apply_committed_entries *)

\* The turn of the loop for entry i is over.
Turned(r, i) ==
    [r EXCEPT !.at = i, !.upto = IF i = @ + 1 THEN i ELSE @]

\* Entry i joins applied_log_indices, and the file of them is opened.
Record(t, i) ==
    /\ applied' = applied \cup {i}
    /\ disk' = [disk EXCEPT !.applied = Torn]
    /\ Becomes(t, [Saving(Turned(th[t], i), "applied", Torn, "scan")
                     EXCEPT !.pc = "put"])
    /\ UNCHANGED <<log, commitIndex, lastApplied, processed, up, crashes>>

AtEntry(t, i) ==
    /\ th[t].pc = "scan" /\ i = th[t].at + 1
    /\ th[t].at < th[t].last /\ i <= Len(log)

Skip(t, i) ==
    /\ AtEntry(t, i) /\ i \in applied
    /\ Becomes(t, Turned(th[t], i))
    /\ UNCHANGED <<disk, memory, crashes, history>>

\* Mutant: the balance is not compared with the amount.
CoveredAlways(i) == TRUE

Covered(i) == Local(i, "payer") => ~Short(disk.rows, i)
BalanceRead(i) == Local(i, "payer") => Readable(Order[i].payer)

\* Without a decision, or without the balance.
Pass(t, i) ==
    /\ AtEntry(t, i) /\ i \notin applied
    /\ Undecided(log, i) \/ (BalanceRead(i) /\ ~Covered(i))
    /\ Record(t, i)
    /\ passed' = passed \cup {i}
    /\ UNCHANGED <<moved, cuts, settled>>

\* Mutant: the payee's side is not written.
SidesPayer(i) == {f \in {"payer"} : Local(i, f)}

\* The sides execute_transaction writes, the payer's first.
Sides(i) == {f \in Side : Local(i, f)}

Check(t, i) ==
    /\ AtEntry(t, i) /\ i \notin applied /\ ~Undecided(log, i)
    /\ BalanceRead(i) => Covered(i)
    /\ Becomes(t, IF BalanceRead(i)
                  THEN [th[t] EXCEPT !.pc = "get", !.left = Sides(i),
                                     !.ci = commitIndex]
                  ELSE Dead)
    /\ UNCHANGED <<disk, memory, crashes, history>>

GetBalance(t) ==
    LET r == th[t]
        i == r.at + 1
        a == Order[i][SideOf(r)]
    IN /\ r.pc = "get" /\ r.left # {}
       /\ Becomes(t, IF Readable(a) /\ ("payer" \in r.left => Covered(i))
                     THEN [r EXCEPT !.pc = "rows", !.value = disk.rows[a]]
                     ELSE Dead)
       /\ UNCHANGED <<disk, memory, crashes, history>>

\* Mutant: the amount is taken from both sides.
NewBalanceTaken(r) == r.value - Order[r.at + 1].amount

NewBalance(r) ==
    IF SideOf(r) = "payer" THEN r.value - Order[r.at + 1].amount
    ELSE r.value + Order[r.at + 1].amount

\* update_balance reads all rows and replaces one.
ReadRows(t) ==
    LET r == th[t]
        a == Order[r.at + 1][SideOf(r)]
    IN /\ r.pc = "rows"
       /\ Becomes(t, IF Readable(a)
                     THEN Saving([r EXCEPT !.value = 0], "rows",
                            [disk.rows EXCEPT ![a] = NewBalance(r)], "get")
                     ELSE Dead)
       /\ UNCHANGED <<disk, memory, crashes, history>>

\* execute_transaction ends with the indices in the log file.
StoreIndices(t) ==
    LET r == th[t]
    IN /\ r.pc = "get" /\ r.left = {}
       /\ Becomes(t, SavingLog([r EXCEPT !.ci = 0],
                       WithIndices(r.ci, r.at + 1), "note"))
       /\ UNCHANGED <<disk, memory, crashes, history>>

Note(t) ==
    /\ th[t].pc = "note"
    /\ Record(t, th[t].at + 1)
    /\ settled' = disk.rows
    /\ UNCHANGED <<moved, passed, cuts>>

\* The loop is over, or broken off at the end of a log shorter than the range.
Finish(t) ==
    LET r == th[t]
    IN /\ r.pc = "scan" /\ (r.at >= r.last \/ r.at >= Len(log))
       /\ lastApplied' = IF r.upto > lastApplied THEN r.upto ELSE lastApplied
       /\ Becomes(t, IF r.upto > lastApplied
                     THEN SavingLog(Idle, WithIndices(commitIndex, r.upto), "idle")
                     ELSE Idle)
       /\ UNCHANGED <<disk, log, commitIndex, applied, processed, up, crashes,
                      history>>

Apply(t) ==
    \/ \E i \in Index : Skip(t, i) \/ Pass(t, i) \/ Check(t, i)
    \/ GetBalance(t) \/ ReadRows(t) \/ StoreIndices(t) \/ Note(t) \/ Finish(t)

-----------------------------------------------------------------------------
(* A crash, and __init__ on the files it left. *)

\* Thread t is in execute_transaction for entry i, or has not recorded it yet.
Executing(t, i) ==
    /\ th[t].at + 1 = i
    /\ \/ th[t].pc \in {"get", "rows", "note"}
       \/ th[t].pc \in {"open", "put"} /\ th[t].then \in {"get", "note"}

\* Mutant: what is committed counts as applied.
AppliedOnDiskCommitted == 1..disk.log.commit

AppliedOnDisk == disk.applied

\* An empty log file or applied file is no JSON.
Startable(theirs) ==
    disk.log # Torn /\ disk.applied # Torn /\ theirs # Torn

\* last_applied is read from the file of another server, where the key may be
\* missing.
Crash == \E theirs \in LastListed :
    /\ up /\ crashes < MaxCrashes
    /\ crashes' = crashes + 1
    /\ th' = [t \in Thread |-> Idle]
    /\ cuts' = [i \in Index |->
                  cuts[i] + IF \E t \in Thread : Executing(t, i) THEN 1 ELSE 0]
    /\ settled' = disk.rows
    /\ up' = Startable(theirs)
    /\ IF Startable(theirs)
       THEN /\ log' = disk.log.entries
            /\ commitIndex' = disk.log.commit
            /\ lastApplied' = IF theirs = MissingKey THEN disk.log.commit
                              ELSE theirs
            /\ applied' = AppliedOnDisk
            /\ processed' = {}
       ELSE UNCHANGED <<log, commitIndex, lastApplied, applied, processed>>
    /\ UNCHANGED <<disk, moved, passed>>

Next ==
    \/ Request \/ Receive \/ AppendEntry \/ FollowCommit
    \/ Decide \/ ApplyDecision
    \/ \E t \in Thread : Lead(t) \/ Apply(t) \/ Open(t) \/ Put(t)
    \/ Crash

Spec == Init /\ [][Next]_vars

-----------------------------------------------------------------------------
(* Properties. *)

\* No account is ever overdrawn (server.py:792-801, shard_manager.py:107): a
\* balance is written from one read before, maybe by another thread.
TypeOK ==
    /\ disk.rows \in Balances \cup {Torn}
    /\ log \in Seq(BOOLEAN)
    /\ commitIndex \in Nat /\ lastApplied \in Nat
    /\ applied \subseteq Nat
    /\ \A t \in Thread : th[t].put # Torn /\ th[t].file = "rows" =>
                             th[t].put \in Balances

Finished(i) == i \in passed \/ \A f \in Sides(i) : moved[i][f] > 0

\* An index that counts as applied (server.py:745), in memory or in the file,
\* was executed or rightly passed over, whatever crash came in between.
AppliedMeansDone ==
    /\ \A i \in applied : Finished(i)
    /\ disk.applied # Torn => \A i \in disk.applied : Finished(i)

\* The debit and the credit of a transfer inside the shard are done together,
\* but for crashes in between (shard_manager.py:104-114; README.md:66).
TransferIsWhole ==
    \A i \in Index :
        (\A t \in Thread : ~Executing(t, i)) /\ ~Cross(i) =>
            moved[i]["payer"] - moved[i]["payee"] \in 0..cuts[i]

\* One handler at a time (~Overlap), the log file holds between handlers the
\* log in memory, entry by entry and flag by flag, so that a crash there loses
\* none (server.py:306-365, 538, 898; shard_manager.py:52-61, 147-186).
LogFileCurrent ==
    up /\ (\A t \in Thread : th[t].pc \in {"idle", "dead"}) =>
        disk.log # Torn /\ disk.log.entries = log

\* server.py:744, "Prevent reapplying the same log entry using log index": an
\* entry is executed once, and once more for each crash that hit its execution.
AppliedOnce == \A i \in Index, f \in Side : moved[i][f] <= 1 + cuts[i]

\* The files implement the atomic state machine.
Atomic == INSTANCE Ledger WITH
    commit <- commitIndex,
    balance <- IF up THEN settled ELSE Torn

ImplementsLedger == Atomic!Spec
=============================================================================
