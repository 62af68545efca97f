----------------------------- MODULE WholeProofs -----------------------------
(***************************************************************************)
(* One handler at a time, for every log of accounts that are served and    *)
(* any number of crashes: an entry is executed once, its debit and credit  *)
(* together, and the log file keeps up with the log.                       *)
(***************************************************************************)
EXTENDS LedgerProofs

\* The debit of entry i is written, and thread t has its credit to write.
Between(t, i) ==
    Executing(t, i) /\ "payer" \notin th[t].left /\ "payee" \in th[t].left

\* Side f of entry i is written by thread t, which has not recorded the entry.
Part(t, i, f) == Executing(t, i) /\ f \notin th[t].left

Owed(i) == IF \E t \in Thread : Between(t, i) THEN 1 ELSE 0

Counts == moved \in [Index -> [Side -> Nat]] /\ cuts \in [Index -> Nat]

\* A transfer inside one shard that has one side here has both.
LEMMA SameCluster ==
    ASSUME NEW i \in Index, ~Cross(i) PROVE \A f \in Side : Local(i, f)
<1>1. \A f \in Side :
        /\ Order[i][f] \in Issued
        /\ ClusterOfAccount(Order[i][f]) = ClusterOfAccount(Order[i].payer)
  BY OrderFacts DEF Side, Cross
<1>2. PICK g \in Side : IsAccountInCluster(Cluster, Order[i][g])
  BY OrderType
<1>3. ClusterOfAccount(Order[i].payer) = Cluster
  BY <1>1, <1>2, ClustersAgree, ClusterType
<1> QED
  BY <1>1, <1>3, ClustersAgree, ClusterType DEF Local

\* What was debited and not credited is owed, or was cut off by a crash.
WholeInv ==
    /\ Counts
    /\ \A i \in Index : ~Cross(i) =>
            moved[i]["payer"] - moved[i]["payee"] - Owed(i) \in 0..cuts[i]

\* An entry that is neither recorded nor begun was begun once for each cut at most.
OnceInv ==
    \A i \in Index, f \in Side :
        /\ f \notin Sides(i) => moved[i][f] = 0
        /\ moved[i][f] <= 1 + cuts[i]
        /\ i \notin applied /\ (\A t \in Thread : ~Part(t, i, f)) =>
              moved[i][f] <= cuts[i]

-----------------------------------------------------------------------------
\* What a thread does outside execute_transaction.

LEMMA IdleFacts == Idle \in Fields /\ Outside(Idle) /\ Outside(Dead)
BY IdleOK, IdleOutside DEF Locals

LEMMA OutsideNotExec ==
    ASSUME NEW t \in Thread
    PROVE  Outside(th'[t]) => ~Exec(t)' /\ \A i : ~Executing(t, i)' /\ ~Between(t, i)'
BY DEF Outside, Exec, Between, Executing, At

LEMMA NotExecNotBetween ==
    ASSUME NEW t \in Thread, ~Exec(t) PROVE \A i : ~Executing(t, i) /\ ~Between(t, i)
BY DEF Exec, Between, Executing, At

\* Thread t, which is in no transfer, moves and stays out of them.
Apart(t) ==
    /\ Moves(t) /\ ~Exec(t) /\ Outside(th'[t])
    /\ UNCHANGED <<moved, cuts>> /\ applied \subseteq applied'

LEMMA ListenerApart ==
    ASSUME Served, TypeInv, LedgerInv,
           Receive \/ AppendEntry \/ FollowCommit \/ Decide \/ ApplyDecision
    PROVE  Apart("listener")
<1> DEFINE t == "listener"
           r == th[t]
<1>1. /\ t \in Thread /\ r \in Fields /\ (Free(t) \/ ~Resting(t)) /\ ~Exec(t)
      /\ UNCHANGED <<moved, cuts, applied>>
  BY LocalsFacts DEF Thread, Receive, AppendEntry, FollowCommit, Decide,
                     ApplyDecision, Free, Resting, Exec, At, memory, history
<1>2. ASSUME NEW q, Becomes(t, q), Outside(q) PROVE Apart(t)
  BY <1>1, <1>2, Turn DEF Apart
<1>3. CASE Receive
  <2> PICK k \in 0..Len(log) :
         \E m \in k .. Least(k + MaxEntries, Len(Order)) : \E c \in 0..Len(Order) :
            ReceiveFrom(k, m, c)
    BY <1>3 DEF Receive
  <2> PICK m \in k .. Least(k + MaxEntries, Len(Order)) :
         \E c \in 0..Len(Order) : ReceiveFrom(k, m, c)
    OBVIOUS
  <2> PICK c \in 0..Len(Order) : ReceiveFrom(k, m, c)
    OBVIOUS
  <2> DEFINE p == [Idle EXCEPT !.at = k, !.last = m, !.ci = c]
             direct == [p EXCEPT !.pc = "append"]
             kept == WithEntries(SubSeq(disk.log.entries, 1, k))
  <2>1. Outside(direct)
    BY DEF Idle, Outside, At
  <2>2. Outside(SavingLog(p, kept, "append"))
    <3>1. CASE disk.log = Torn
      BY <3>1, IdleOutside DEF SavingLog
    <3>2. CASE disk.log # Torn
      BY <3>2 DEF SavingLog, Saving, Idle, Outside, At
    <3> QED
      BY <3>1, <3>2
  <2>3. \/ Becomes(t, direct)
        \/ Becomes(t, SavingLog(p, kept, "append"))
    BY DEF ReceiveFrom
  <2> QED
    BY <1>2, <2>1, <2>2, <2>3
<1>4. CASE AppendEntry
  <2>1. [r EXCEPT !.at = r.at + 1] \in Fields
    BY <1>1 DEF Fields
  <2> QED
    BY <1>2, <1>4, <2>1, SavingLogOutside DEF AppendEntry
<1>5. CASE FollowCommit
  BY <1>2, <1>5, IdleFacts, ApplyingOutside DEF FollowCommit
<1>6. CASE Decide
  <2>1. Outside([Idle EXCEPT !.pc = "apply"])
    BY DEF Idle, Outside, At
  <2> QED
    BY <1>2, <1>6, <2>1, IdleFacts, SavingLogOutside DEF Decide
<1>7. CASE ApplyDecision
  BY <1>1, <1>2, <1>7, ApplyingOutside DEF ApplyDecision
<1> QED
  BY <1>3, <1>4, <1>5, <1>6, <1>7

LEMMA RequestApart ==
    ASSUME Served, TypeInv, LedgerInv, Request PROVE Apart("worker")
<1> DEFINE t == "worker"
           q == SavingLog(Idle, WithEntries(Append(disk.log.entries, FALSE)), "idle")
<1>1. /\ t \in Thread /\ Free(t) /\ ~Exec(t)
      /\ UNCHANGED <<moved, cuts, applied>>
      /\ Becomes(t, q) \/ Becomes(t, Dead)
  BY DEF Thread, Request, Free, Exec, At, history
<1>2. Outside(q) /\ Outside(Dead)
  BY IdleFacts, SavingLogOutside
<1> QED
  BY <1>1, <1>2, Turn DEF Apart

-----------------------------------------------------------------------------
\* The log file and the log in memory.

Writing(t) == th[t].pc \in {"open", "put"} /\ th[t].file = "log"

\* A thread with entries to append is at the end of the log.
Appending(t) ==
    At(th[t], "append") /\ th[t].at < th[t].last => th[t].at = Len(log)

\* They have the same entries, or will when the thread that writes the file is
\* done; all of them are transfers.
LogKept ==
    /\ Len(log) <= Len(Order)
    /\ disk.log # Torn => Len(disk.log.entries) <= Len(Order)
    /\ \A t \in Thread : Appending(t) /\ (Writing(t) => th[t].put.entries = log)
    /\ up /\ (\A t \in Thread : ~Writing(t)) => disk.log.entries = log

LEMMA OthersDoNotWrite ==
    ASSUME TypeInv, NEW t \in Thread, Moves(t)
    PROVE  \A u \in Thread \ {t} : ~Writing(u) /\ ~Writing(u)' /\ Appending(u)'
<1>1. \A u \in Thread \ {t} : th'[u] = th[u] /\ th[u].pc \in {"idle", "dead"}
  BY DEF Moves, Becomes, TypeInv, Resting
<1> QED
  BY <1>1 DEF Writing, Appending, At

\* Thread t leaves the log as it is, or sets out to write the new one.
LEMMA KeptMove ==
    ASSUME TypeInv, LedgerInv, LogKept, NEW t \in Thread, Moves(t), up' = up,
           ~Writing(t), disk'.log = disk.log, Len(log') <= Len(Order), Appending(t)',
           IF Writing(t)' THEN th'[t].put.entries = log' ELSE log' = log
    PROVE  LogKept'
<1>1. \A u \in Thread \ {t} : ~Writing(u) /\ ~Writing(u)' /\ Appending(u)'
  BY OthersDoNotWrite
<1>2. disk.log.entries = log
  BY <1>1 DEF LogKept, Moves
<1> QED
  BY <1>1, <1>2 DEF LogKept

LEMMA SavingLogWrites ==
    ASSUME NEW t \in Thread, disk.log # Torn, NEW r \in Fields, NEW c, NEW p,
           th'[t] = SavingLog(r, c, p),
           p = "append" /\ r.at < r.last => r.at = Len(log')
    PROVE  Writing(t)' /\ th'[t].put = c /\ Appending(t)'
BY DEF SavingLog, Saving, Writing, Fields, Appending, At

\* What the file holds when no thread writes it.
LEMMA LogOnDisk ==
    ASSUME TypeInv, LedgerInv, LogKept, NEW t \in Thread, Moves(t), ~Writing(t)
    PROVE  disk.log # Torn /\ disk.log.entries = log
<1>1. disk.log # Torn
  BY LogReadable DEF Writing
<1> QED
  BY <1>1, OthersDoNotWrite DEF LogKept, Moves

LEMMA SameLength ==
    \A es, n, i : WithEntries(es).entries = es
                  /\ WithIndices(n, i).entries = disk.log.entries
BY DEF WithEntries, WithIndices

LEMMA RequestKept ==
    ASSUME Served, TypeInv, LedgerInv, LogKept, Request PROVE LogKept'
<1> DEFINE t == "worker"
           c == WithEntries(Append(disk.log.entries, FALSE))
<1>1. /\ t \in Thread /\ Free(t) /\ ~Writing(t) /\ UNCHANGED <<disk, up>>
      /\ log \in Seq(BOOLEAN) /\ Len(log) + 1 \in Index
      /\ \/ Becomes(t, SavingLog(Idle, c, "idle")) /\ log' = Append(log, FALSE)
         \/ Becomes(t, Dead) /\ log' = log
  BY DEF Thread, Request, Free, Writing, TypeInv, Memory
<1>2. Moves(t)
  BY <1>1, Turn
<1>3. disk.log # Torn /\ disk.log.entries = log
  BY <1>1, <1>2, LogOnDisk
<1>4. CASE Becomes(t, Dead) /\ log' = log
  <2>1. th'[t] = Dead /\ ~Writing(t)' /\ Appending(t)'
    BY <1>1, <1>4, Turn DEF Dead, Idle, Writing, Appending, At
  <2> QED
    BY <1>1, <1>2, <1>4, <2>1, KeptMove DEF LogKept
<1>5. CASE Becomes(t, SavingLog(Idle, c, "idle")) /\ log' = Append(log, FALSE)
  <2>1. th'[t] = SavingLog(Idle, c, "idle")
    BY <1>1, <1>5, Turn
  <2>2. Writing(t)' /\ th'[t].put = c /\ Appending(t)'
    BY <1>1, <1>3, <2>1, IdleFacts, SavingLogWrites
  <2>3. th'[t].put.entries = log'
    BY <1>3, <1>5, <2>2, SameLength
  <2>4. Len(log') <= Len(Order)
    <3>1. Len(log') = Len(log) + 1
      BY <1>1, <1>5, AppendProperties
    <3> QED
      BY <1>1, <3>1, OrderType DEF Index
  <2> QED
    BY <1>1, <1>2, <2>2, <2>3, <2>4, KeptMove
<1> QED
  BY <1>1, <1>4, <1>5

LEMMA ReceiveKept ==
    ASSUME Served, TypeInv, LedgerInv, LogKept, Receive PROVE LogKept'
<1> PICK k \in 0..Len(log) :
       \E m \in k .. Least(k + MaxEntries, Len(Order)) : \E c \in 0..Len(Order) :
          ReceiveFrom(k, m, c)
  BY DEF Receive
<1> PICK m \in k .. Least(k + MaxEntries, Len(Order)) :
       \E c \in 0..Len(Order) : ReceiveFrom(k, m, c)
  OBVIOUS
<1> PICK c \in 0..Len(Order) : ReceiveFrom(k, m, c)
  OBVIOUS
<1> DEFINE t == "listener"
           r == [Idle EXCEPT !.at = k, !.last = m, !.ci = c]
           kept == WithEntries(SubSeq(disk.log.entries, 1, k))
           conflict == k < m /\ k < Len(log)
<1>0. k \in Nat /\ m \in Nat /\ c \in Nat /\ k <= Len(log) /\ log \in Seq(BOOLEAN)
  BY OrderType, BoundsType DEF TypeInv, Memory, Least
<1>1. /\ t \in Thread /\ Free(t) /\ ~Writing(t) /\ UNCHANGED <<disk, up>>
      /\ log' = IF conflict THEN SubSeq(log, 1, k) ELSE log
      /\ \E q : Becomes(t, q)
  BY DEF Thread, Receive, ReceiveFrom, Free, Writing
<1>2. Moves(t)
  BY <1>1, Turn
<1>3. disk.log # Torn /\ disk.log.entries = log
  BY <1>1, <1>2, LogOnDisk
<1>4. r \in Fields /\ r.at = k /\ r.last = m
  BY <1>0 DEF Idle, Fields, Pc
<1>5. Len(log') <= Len(Order) /\ (k < m => Len(log') = k)
  <2>1. Len(SubSeq(log, 1, k)) = k
    BY <1>0, SubSeqProperties
  <2> QED
    BY <1>0, <1>1, <2>1, OrderType DEF LogKept
<1>6. CASE conflict
  <2>1. Becomes(t, SavingLog(r, kept, "append"))
    BY <1>1, <1>3, <1>6 DEF ReceiveFrom
  <2>2. th'[t] = SavingLog(r, kept, "append")
    BY <1>1, <2>1, Turn
  <2>3. Writing(t)' /\ th'[t].put = kept /\ Appending(t)'
    <3>1. r.at < r.last => r.at = Len(log')
      BY <1>4, <1>5
    <3> HIDE DEF r, kept
    <3> QED
      BY <1>1, <1>3, <1>4, <2>2, <3>1, SavingLogWrites
  <2>4. th'[t].put.entries = log'
    BY <1>1, <1>3, <1>6, <2>3, SameLength
  <2> QED
    BY <1>1, <1>2, <1>5, <2>3, <2>4, KeptMove
<1>7. CASE ~conflict
  <2>1. Becomes(t, [r EXCEPT !.pc = "append"])
    BY <1>7 DEF ReceiveFrom
  <2>2. th'[t] = [r EXCEPT !.pc = "append"]
    BY <1>1, <2>1, Turn
  <2>3. th'[t].pc = "append" /\ th'[t].at = k /\ th'[t].last = m
    BY <2>2 DEF Idle
  <2>4. ~Writing(t)' /\ Appending(t)'
    BY <1>5, <2>3 DEF Writing, Appending
  <2> QED
    BY <1>1, <1>2, <1>5, <1>7, <2>4, KeptMove
<1> QED
  BY <1>6, <1>7

LEMMA AppendEntryKept ==
    ASSUME Served, TypeInv, LedgerInv, LogKept, AppendEntry PROVE LogKept'
<1> DEFINE t == "listener"
           r == th[t]
           i == r.at + 1
           q == [r EXCEPT !.at = i]
<1> PICK flag \in {FALSE, Cross(i) /\ Order[i].commit} :
       /\ log' = Append(log, flag)
       /\ Becomes(t, SavingLog(q, WithEntries(Append(disk.log.entries, flag)), "append"))
  BY DEF AppendEntry
<1>1. /\ t \in Thread /\ ~Resting(t) /\ ~Writing(t) /\ UNCHANGED <<disk, up>>
      /\ r \in Fields /\ r.at < r.last /\ r.last <= Len(Order) /\ At(r, "append")
      /\ log \in Seq(BOOLEAN) /\ Len(log) = r.at
  BY LocalsFacts DEF Thread, AppendEntry, Resting, Writing, At, TypeInv, Memory,
                     LogKept, Appending
<1>2. /\ Moves(t)
      /\ th'[t] = SavingLog(q, WithEntries(Append(disk.log.entries, flag)), "append")
  BY <1>1, Turn
<1>3. disk.log # Torn /\ disk.log.entries = log
  BY <1>1, <1>2, LogOnDisk
<1>4. q \in Fields /\ q.at = i /\ q.last = r.last /\ i \in Nat
  <2>1. i \in Nat /\ r \in Fields
    BY <1>1 DEF Fields
  <2> HIDE DEF i, r
  <2> QED
    BY <2>1 DEF Fields
<1>5. flag \in BOOLEAN
  <2>1. i \in Index
    BY <1>1, <1>4, OrderType DEF Index, Fields
  <2> QED
    BY <2>1, OrderFacts DEF Cross
<1>6. Len(log') = i /\ i <= Len(Order)
  BY <1>1, <1>5, AppendProperties, OrderType DEF Fields
<1>7. Writing(t)' /\ th'[t].put = WithEntries(Append(disk.log.entries, flag))
      /\ Appending(t)'
  <2>1. q.at = Len(log')
    BY <1>4, <1>6
  <2> HIDE DEF q
  <2> QED
    BY <1>1, <1>2, <1>3, <1>4, <2>1, SavingLogWrites
<1>8. th'[t].put.entries = log'
  BY <1>3, <1>7, SameLength
<1> QED
  BY <1>1, <1>2, <1>6, <1>7, <1>8, KeptMove

LEMMA DecideKept ==
    ASSUME Served, TypeInv, LedgerInv, LogKept, Decide PROVE LogKept'
<1> DEFINE t == "listener"
           unknown(i) == i \notin DOMAIN log \/
                         (disk.log # Torn /\ i \notin DOMAIN disk.log.entries)
           marked(i) == WithEntries([disk.log.entries EXCEPT ![i] = Order[i].commit])
<1> PICK i \in Index \ processed :
       /\ log' = IF i \in DOMAIN log
                 THEN [log EXCEPT ![i] = Order[i].commit] ELSE log
       /\ Becomes(t, IF unknown(i) THEN [Idle EXCEPT !.pc = "apply"]
                     ELSE SavingLog(Idle, marked(i), "apply"))
  BY DEF Decide
<1>1. /\ t \in Thread /\ Free(t) /\ ~Writing(t) /\ UNCHANGED <<disk, up>>
      /\ log \in Seq(BOOLEAN)
  BY DEF Thread, Decide, Free, Writing, TypeInv, Memory
<1>2. Moves(t) /\ th'[t] = IF unknown(i) THEN [Idle EXCEPT !.pc = "apply"]
                           ELSE SavingLog(Idle, marked(i), "apply")
  BY <1>1, Turn
<1>3. disk.log # Torn /\ disk.log.entries = log
  BY <1>1, <1>2, LogOnDisk
<1>4. Len(log') <= Len(Order)
  <2>1. CASE i \in DOMAIN log
    <3>1. Len(log') = Len(log)
      BY <1>1, <2>1, OrderFacts, ExceptSeq
    <3> QED
      BY <3>1 DEF LogKept
  <2>2. CASE i \notin DOMAIN log
    BY <2>2 DEF LogKept
  <2> QED
    BY <2>1, <2>2
<1>5. CASE i \in DOMAIN log
  <2>1. th'[t] = SavingLog(Idle, marked(i), "apply")
    BY <1>2, <1>3, <1>5
  <2>2. Writing(t)' /\ th'[t].put = marked(i) /\ Appending(t)'
    BY <1>1, <1>3, <2>1, IdleFacts, SavingLogWrites
  <2>3. th'[t].put.entries = log'
    BY <1>3, <1>5, <2>2, SameLength
  <2> QED
    BY <1>1, <1>2, <1>4, <2>2, <2>3, KeptMove
<1>6. CASE i \notin DOMAIN log
  <2>1. th'[t].pc = "apply"
    BY <1>2, <1>6 DEF Idle
  <2>2. ~Writing(t)' /\ Appending(t)'
    BY <2>1 DEF Writing, Appending, At
  <2> QED
    BY <1>1, <1>2, <1>4, <1>6, <2>2, KeptMove
<1> QED
  BY <1>5, <1>6

\* Steps that leave the log and its file alone.
LEMMA StillKept ==
    ASSUME TypeInv, LedgerInv, LogKept, NEW t \in Thread, Moves(t), up' = up,
           ~Writing(t), log' = log, disk'.log = disk.log,
           ~Writing(t)', ~At(th'[t], "append")
    PROVE  LogKept'
BY KeptMove DEF Appending, LogKept

LEMMA LeadKept ==
    ASSUME Served, TypeInv, LedgerInv, LogKept, NEW t \in Thread,
           Lead(t) \/ (t = "listener" /\ (FollowCommit \/ ApplyDecision))
    PROVE  LogKept'
<1> DEFINE r == th[t]
<1>1. /\ (Free(t) \/ ~Resting(t)) /\ ~Writing(t) /\ UNCHANGED <<disk, log, up>>
      /\ r \in Fields
  BY LocalsFacts DEF Lead, FollowCommit, ApplyDecision, memory, Free, Resting, Writing
<1>2. \E q : Becomes(t, q) /\ q.pc \in {"idle", "dead", "scan"}
  <2>1. ASSUME NEW q \in Fields, NEW n PROVE Applying(q, n).pc = "scan"
    BY DEF Applying, Fields
  <2>2. Idle.pc = "idle" /\ Dead.pc = "dead" /\ Idle \in Fields
    BY IdleFacts DEF Idle, Dead
  <2>3. CASE Lead(t)
    BY <2>1, <2>2, <2>3 DEF Lead
  <2>4. CASE t = "listener" /\ FollowCommit
    BY <2>1, <2>2, <2>4 DEF FollowCommit
  <2>5. CASE t = "listener" /\ ApplyDecision
    BY <1>1, <2>1, <2>5 DEF ApplyDecision
  <2> QED
    BY <2>3, <2>4, <2>5
<1>3. Moves(t) /\ th'[t].pc \in {"idle", "dead", "scan"}
  BY <1>1, <1>2, Turn
<1> QED
  BY <1>1, <1>3, StillKept DEF Writing, At

LEMMA ApplyKept ==
    ASSUME Served, TypeInv, LedgerInv, LogKept, NEW t \in Thread, Apply(t)
    PROVE  LogKept'
<1> DEFINE r == th[t]
<1>0. r \in Fields /\ commitIndex \in Nat
  BY LocalsFacts DEF TypeInv, Memory
<1>1. ASSUME ~Resting(t), ~Writing(t), UNCHANGED <<log, up>>, disk'.log = disk.log,
             NEW q, Becomes(t, q), ~At(q, "append"),
             q.pc \notin {"open", "put"} \/ q.file # "log"
      PROVE  LogKept'
  BY <1>1, Turn, StillKept DEF Writing
<1>2. ASSUME ~Resting(t), ~Writing(t), UNCHANGED <<log, up, disk>>,
             NEW q \in Fields, NEW n, NEW i, NEW p \in {"idle", "note"},
             Becomes(t, SavingLog(q, WithIndices(n, i), p))
      PROVE  LogKept'
  <2>1. Moves(t) /\ th'[t] = SavingLog(q, WithIndices(n, i), p)
    BY <1>2, Turn
  <2>2. disk.log # Torn /\ disk.log.entries = log
    BY <1>2, <2>1, LogOnDisk
  <2>3. Writing(t)' /\ th'[t].put = WithIndices(n, i) /\ Appending(t)'
    BY <1>2, <2>1, <2>2, SavingLogWrites
  <2>4. th'[t].put.entries = log'
    BY <1>2, <2>2, <2>3, SameLength
  <2> QED
    BY <1>2, <2>1, <2>3, <2>4, KeptMove DEF LogKept
<1>3. ASSUME NEW i \in Index, Skip(t, i) PROVE LogKept'
  <2>1. Turned(r, i).pc = "scan"
    BY <1>0, <1>3 DEF Turned, Fields, Skip, AtEntry
  <2> QED
    BY <1>1, <1>3, <2>1 DEF Skip, AtEntry, memory, Resting, Writing, At
<1>4. ASSUME NEW i, Record(t, i), r.pc \in {"scan", "note"} PROVE LogKept'
  <2> DEFINE q == [Saving(Turned(r, i), "applied", Torn, "scan") EXCEPT !.pc = "put"]
  <2>1. q.pc = "put" /\ q.file = "applied" /\ q.then = "scan"
    BY <1>0 DEF Saving, Turned, Fields
  <2>2. disk'.log = disk.log /\ UNCHANGED <<log, up>> /\ Becomes(t, q)
    BY <1>4 DEF Record, TypeInv, Files
  <2> HIDE DEF q
  <2> QED
    BY <1>1, <1>4, <2>1, <2>2 DEF Resting, Writing, At
<1>5. ASSUME NEW i \in Index, Check(t, i) PROVE LogKept'
  <2> DEFINE q == IF BalanceRead(i)
                  THEN [r EXCEPT !.pc = "get", !.left = Sides(i), !.ci = commitIndex]
                  ELSE Dead
  <2>1. q.pc \in {"get", "dead"}
    BY <1>0 DEF Fields, Dead, Idle
  <2>2. Becomes(t, q) /\ r.pc = "scan" /\ UNCHANGED <<log, up, disk>>
    BY <1>5 DEF Check, AtEntry, memory
  <2> HIDE DEF q
  <2> QED
    BY <1>1, <2>1, <2>2 DEF Resting, Writing, At
<1>6. CASE GetBalance(t)
  <2> DEFINE q(b) == [r EXCEPT !.pc = "rows", !.value = b]
  <2>1. Dead.pc = "dead" /\ \A b : q(b).pc = "rows"
    BY <1>0 DEF Fields, Dead, Idle
  <2>2. Becomes(t, Dead) \/ \E b : Becomes(t, q(b))
    BY <1>6 DEF GetBalance
  <2>3. ~Resting(t) /\ ~Writing(t) /\ UNCHANGED <<log, up, disk>>
    BY <1>6 DEF GetBalance, memory, Resting, Writing
  <2> HIDE DEF q
  <2> QED
    BY <1>1, <2>1, <2>2, <2>3 DEF At
<1>7. CASE ReadRows(t)
  <2> DEFINE q(rows) == Saving([r EXCEPT !.value = 0], "rows", rows, "get")
  <2>1. Dead.pc = "dead"
    BY DEF Dead, Idle
  <2>2. ASSUME NEW rows
        PROVE  q(rows).file = "rows" /\ q(rows).pc = "open" /\ q(rows).then = "get"
    BY <1>0 DEF Saving, Fields
  <2>3. /\ ~Resting(t) /\ ~Writing(t) /\ UNCHANGED <<log, up, disk>>
        /\ Becomes(t, Dead) \/ \E rows : Becomes(t, q(rows))
    BY <1>7 DEF ReadRows, memory, Resting, Writing
  <2> HIDE DEF q
  <2> QED
    BY <1>1, <2>1, <2>2, <2>3 DEF At
<1>8. CASE StoreIndices(t)
  <2>1. [r EXCEPT !.ci = 0] \in Fields
    <3> HIDE DEF r
    <3> QED
      BY <1>0 DEF Fields
  <2>2. /\ Becomes(t, SavingLog([r EXCEPT !.ci = 0], WithIndices(r.ci, r.at + 1), "note"))
        /\ ~Resting(t) /\ ~Writing(t) /\ UNCHANGED <<log, up, disk>>
    BY <1>8 DEF StoreIndices, memory, Resting, Writing
  <2> QED
    BY <1>2, <2>1, <2>2
<1>9. CASE Finish(t)
  <2>1. CASE r.upto > lastApplied
    BY <1>2, <1>9, <2>1, IdleFacts DEF Finish, Resting, Writing
  <2>2. CASE ~(r.upto > lastApplied)
    <3>1. Idle.pc = "idle"
      BY DEF Idle
    <3> QED
      BY <1>1, <1>9, <2>2, <3>1 DEF Finish, Resting, Writing, At
  <2> QED
    BY <2>1, <2>2
<1>10. CASE \E i \in Index : Pass(t, i)
  BY <1>4, <1>10 DEF Pass, AtEntry
<1>11. CASE Note(t)
  BY <1>4, <1>11 DEF Note
<1> QED
  BY <1>3, <1>5, <1>6, <1>7, <1>8, <1>9, <1>10, <1>11 DEF Apply

LEMMA OpenKept ==
    ASSUME Served, TypeInv, LedgerInv, LogKept, NEW t \in Thread, Open(t)
    PROVE  LogKept'
<1> DEFINE r == th[t]
           q == [r EXCEPT !.pc = "put"]
<1>1. /\ r.pc = "open" /\ ~Resting(t) /\ r \in Fields /\ Becomes(t, q)
      /\ disk' = [disk EXCEPT ![r.file] = Torn] /\ UNCHANGED <<log, up>>
  BY LocalsFacts DEF Open, memory, Resting
<1>2. Moves(t) /\ th'[t] = q
  BY <1>1, Turn
<1>3. /\ q.pc = "put" /\ q.file = r.file /\ q.put = r.put /\ q.then = r.then
      /\ q.at = r.at /\ q.last = r.last
  BY <1>1 DEF Fields
<1> HIDE DEF q
<1>4. (Writing(t)' <=> Writing(t)) /\ Appending(t)'
  BY <1>1, <1>2, <1>3 DEF Writing, Appending, At, LogKept
<1>5. IF r.file = "log" THEN disk'.log = Torn ELSE disk'.log = disk.log
  BY <1>1 DEF TypeInv, Files
<1>6. \A u \in Thread \ {t} : ~Writing(u) /\ ~Writing(u)' /\ Appending(u)'
  BY <1>2, OthersDoNotWrite
<1>7. Writing(t) => th'[t].put.entries = log'
  BY <1>1, <1>2, <1>3 DEF LogKept
<1>8. ~Writing(t) => disk'.log = disk.log /\ disk.log.entries = log
  BY <1>1, <1>2, <1>5, LogOnDisk DEF Writing
<1> QED
  BY <1>1, <1>4, <1>5, <1>6, <1>7, <1>8 DEF LogKept, Writing

LEMMA PutKept ==
    ASSUME Served, TypeInv, LedgerInv, LogKept, NEW t \in Thread, Put(t)
    PROVE  LogKept'
<1> DEFINE r == th[t]
           f == SideOf(r)
           content == IF r.file = "applied" THEN applied ELSE r.put
           next == [r EXCEPT !.pc = r.then, !.put = Torn,
                      !.left = IF r.file = "rows" THEN @ \ {f} ELSE @]
           q == IF r.then = "idle" THEN Idle ELSE next
<1>1. /\ r.pc = "put" /\ ~Resting(t) /\ r \in Fields /\ Becomes(t, q)
      /\ UNCHANGED <<log, up>> /\ disk[r.file] = Torn
  BY LocalsFacts DEF Put, memory, Resting, LedgerInv, Bounded
<1>2. Moves(t) /\ th'[t] = q
  BY <1>1, Turn
<1>3. disk' = [disk EXCEPT ![r.file] = content]
  BY <1>1 DEF Put, Written
<1>4. \/ q.pc = "idle"
      \/ q.pc = r.then /\ q.at = r.at /\ q.last = r.last
  BY <1>1 DEF Fields, Idle
<1>5. r.then \notin {"rows", "open", "put"}
  BY <1>1 DEF Fields
<1> HIDE DEF q
<1>6. ~Writing(t)' /\ Appending(t)'
  BY <1>1, <1>2, <1>4, <1>5 DEF Writing, Appending, At, LogKept
<1>7. IF r.file = "log" THEN disk'.log = r.put ELSE disk'.log = disk.log
  BY <1>3 DEF TypeInv, Files
<1>8. \A u \in Thread \ {t} : ~Writing(u) /\ ~Writing(u)' /\ Appending(u)'
  BY <1>2, OthersDoNotWrite
<1>9. disk'.log.entries = log
  <2>1. CASE r.file = "log"
    BY <1>1, <1>7, <2>1 DEF LogKept, Writing
  <2>2. CASE r.file # "log"
    BY <1>2, <1>7, <2>2, LogOnDisk DEF Writing
  <2> QED
    BY <2>1, <2>2
<1> QED
  BY <1>1, <1>6, <1>8, <1>9 DEF LogKept

LEMMA CrashKept == ASSUME TypeInv, LogKept, Crash PROVE LogKept'
<1>1. \A u \in Thread : ~Writing(u)' /\ Appending(u)'
  BY DEF Crash, Writing, Appending, At, Idle
<1>2. CASE up'
  BY <1>1, <1>2 DEF Crash, Startable, LogKept
<1>3. CASE ~up'
  BY <1>1, <1>3 DEF Crash, Startable, LogKept
<1> QED
  BY <1>2, <1>3

LEMMA KeptInit == ASSUME Init PROVE LogKept
<1>1. /\ Len(log) = 0 /\ disk.log.entries = log
      /\ \A t \in Thread : ~Writing(t) /\ Appending(t)
  BY DEF Init, Writing, Appending, At, Idle
<1> QED
  BY <1>1, OrderType DEF LogKept

LEMMA KeptStep ==
    ASSUME Served, TypeInv, LedgerInv, LogKept, [Next]_vars PROVE LogKept'
<1>1. CASE UNCHANGED vars
  BY <1>1 DEF vars, memory, LogKept, Writing, Appending, At
<1>2. CASE FollowCommit \/ ApplyDecision
  BY <1>2, LeadKept DEF Thread
<1> QED
  BY <1>1, <1>2, RequestKept, ReceiveKept, AppendEntryKept, DecideKept, LeadKept,
     ApplyKept, OpenKept, PutKept, CrashKept DEF Next

-----------------------------------------------------------------------------
\* Who is in a transfer, and how far it is.

LEMMA LeadApart ==
    ASSUME Served, TypeInv, LedgerInv, NEW t \in Thread, Lead(t) PROVE Apart(t)
<1>1. /\ Free(t) /\ ~Exec(t) /\ UNCHANGED <<moved, cuts, applied>>
  BY DEF Lead, Free, Exec, At, history
<1>2. \E q : Becomes(t, q) /\ Outside(q)
  BY IdleFacts, ApplyingOutside DEF Lead
<1> QED
  BY <1>1, <1>2, Turn DEF Apart

\* A thread that records or looks for an entry, without a balance changing.
LEMMA ScanApart ==
    ASSUME Served, TypeInv, LedgerInv, NEW t \in Thread,
           Finish(t) \/ \E i \in Index : Skip(t, i) \/ Pass(t, i)
    PROVE  Apart(t)
<1> DEFINE r == th[t]
<1>1. /\ r.pc = "scan" /\ ~Resting(t) /\ ~Exec(t) /\ r \in Fields
      /\ UNCHANGED <<moved, cuts>> /\ applied \subseteq applied'
  BY LocalsFacts DEF Finish, Skip, Pass, Record, AtEntry, Resting, Exec, At, memory,
                     history
<1>2. ASSUME NEW q, Becomes(t, q), Outside(q) PROVE Apart(t)
  BY <1>1, <1>2, Turn DEF Apart
<1>3. CASE Finish(t)
  BY <1>2, <1>3, IdleFacts, SavingLogOutside DEF Finish
<1>4. ASSUME NEW i \in Index, Skip(t, i) PROVE Apart(t)
  <2>1. Outside(Turned(r, i))
    BY <1>1 DEF Turned, Fields, Outside, At
  <2> QED
    BY <1>2, <1>4, <2>1 DEF Skip
<1>5. ASSUME NEW i \in Index, Pass(t, i) PROVE Apart(t)
  <2> DEFINE q == [Saving(Turned(r, i), "applied", Torn, "scan") EXCEPT !.pc = "put"]
  <2>1. Outside(q)
    BY <1>1 DEF Saving, Turned, Fields, Outside, At
  <2> QED
    BY <1>2, <1>5, <2>1 DEF Pass, Record
<1> QED
  BY <1>3, <1>4, <1>5

\* Thread t does not change how far a transfer is.
Calm(t) ==
    /\ Moves(t) /\ UNCHANGED <<moved, cuts>>
    /\ \A i \in Index : ~Cross(i) => (Between(t, i)' <=> Between(t, i))
    /\ applied \subseteq applied'
    /\ \A i \in Index : \A f \in Sides(i) :
          Part(t, i, f) => Part(t, i, f)' \/ i \in applied'

LEMMA ApartCalm == ASSUME NEW t \in Thread, Apart(t) PROVE Calm(t)
BY OutsideNotExec, NotExecNotBetween DEF Apart, Calm, Part

\* A step inside or outside execute_transaction that writes no balance.
LEMMA InsideCalm ==
    ASSUME NEW t \in Thread, Moves(t),
           UNCHANGED <<moved, cuts, applied>>, Exec(t)' <=> Exec(t),
           Exec(t) => th'[t].at = th[t].at /\ th'[t].left = th[t].left
    PROVE  Calm(t)
<1>1. \A i : Executing(t, i) <=> Exec(t) /\ th[t].at + 1 = i
  BY DEF Executing, Exec, At
<1>2. \A i : Executing(t, i)' <=> Exec(t)' /\ th'[t].at + 1 = i
  BY DEF Executing, Exec, At
<1> QED
  BY <1>1, <1>2 DEF Calm, Between, Part

LEMMA CheckCalm ==
    ASSUME Served, TypeInv, LedgerInv, NEW t \in Thread, NEW i \in Index, Check(t, i)
    PROVE  Calm(t)
<1> DEFINE r == th[t]
           q == [r EXCEPT !.pc = "get", !.left = Sides(i), !.ci = commitIndex]
<1>1. /\ r.pc = "scan" /\ ~Resting(t) /\ ~Exec(t) /\ r \in Fields /\ i = r.at + 1
      /\ UNCHANGED <<moved, cuts, applied>>
      /\ Becomes(t, IF BalanceRead(i) THEN q ELSE Dead)
  BY LocalsFacts DEF Check, AtEntry, Resting, Exec, At, memory, history
<1>2. Moves(t) /\ th'[t] = IF BalanceRead(i) THEN q ELSE Dead
  BY <1>1, Turn
<1>3. CASE ~BalanceRead(i)
  BY <1>1, <1>2, <1>3, IdleOutside, ApartCalm DEF Apart
<1>4. CASE BalanceRead(i)
  <2>1. th'[t] = q /\ q.pc = "get" /\ q.left = Sides(i) /\ q.at = r.at
    BY <1>1, <1>2, <1>4 DEF Fields
  <2> HIDE DEF q
  <2>2. ASSUME NEW j \in Index, ~Cross(j), Between(t, j)' PROVE FALSE
    <3>1. th'[t].at + 1 = j /\ "payer" \notin Sides(i)
      BY <2>1, <2>2 DEF Between, Executing
    <3>2. j = i
      BY <1>1, <2>1, <3>1
    <3>3. Local(i, "payer")
      BY <2>2, <3>2, SameCluster DEF Side
    <3> QED
      BY <3>1, <3>3 DEF Sides, Side
  <2>3. \A j : ~Executing(t, j) /\ ~Between(t, j)
    BY <1>1, NotExecNotBetween
  <2> QED
    BY <1>1, <1>2, <2>2, <2>3 DEF Calm, Part
<1> QED
  BY <1>3, <1>4

\* A thread that looks at a balance dies before any side is written.
LEMMA GetBalanceCalm ==
    ASSUME Served, TypeInv, LedgerInv, NEW t \in Thread, GetBalance(t)
    PROVE  Calm(t)
<1> DEFINE r == th[t]
           i == Entry(t)
           a == Order[i][SideOf(r)]
           q == [r EXCEPT !.pc = "rows", !.value = disk.rows[a]]
<1>1. /\ r.pc = "get" /\ r.left # {} /\ Exec(t) /\ At(r, "get")
      /\ UNCHANGED <<moved, cuts, applied>>
      /\ Becomes(t, IF Readable(a) /\ ("payer" \in r.left => Covered(i))
                    THEN q ELSE Dead)
  BY DEF GetBalance, memory, history, Exec, At, Entry
<1>2. /\ r \in Fields /\ i \in Index /\ Allowed(t) /\ Progress(t)
      /\ settled \in Balances \cup {Torn} /\ a \in Held /\ ~Resting(t)
  BY <1>1, ExecFacts
<1>3. disk.rows = After(settled, i, r.left)
  BY <1>1, <1>2 DEF Progress, Entry
<1>4. CASE settled = Torn
  <2>1. r.left = Sides(i)
    BY <1>2, <1>4 DEF Progress, Entry
  <2>2. disk.rows = Torn
    BY <1>2, <1>3, <1>4, <2>1, AfterAll
  <2>3. Moves(t) /\ th'[t] = Dead
    BY <1>1, <1>2, <2>2, Turn DEF Readable
  <2>4. \A j : ~Between(t, j)'
    BY <2>3, IdleOutside, OutsideNotExec
  <2>5. ASSUME NEW j \in Index, ~Cross(j), Between(t, j) PROVE FALSE
    <3>1. j = i /\ "payer" \notin Sides(i)
      BY <2>1, <2>5 DEF Between, Executing, Entry
    <3>2. Local(i, "payer")
      BY <2>5, <3>1, SameCluster DEF Side
    <3> QED
      BY <3>1, <3>2 DEF Sides, Side
  <2>6. \A j \in Index : \A g \in Sides(j) : ~Part(t, j, g)
    BY <2>1 DEF Part, Executing, Entry
  <2> QED
    BY <1>1, <1>4, <2>3, <2>4, <2>5, <2>6 DEF Calm
<1>5. CASE settled # Torn
  <2>1. disk.rows # Torn
    BY <1>2, <1>3, <1>5, AfterType
  <2>2. "payer" \in r.left => Covered(i)
    <3>1. "payer" \in r.left => disk.rows = settled
      BY <1>2, <1>3, AfterAll DEF Progress, Entry
    <3> QED
      BY <1>2, <3>1 DEF Covered, Allowed
  <2>3. Moves(t) /\ th'[t] = q
    BY <1>1, <1>2, <2>1, <2>2, Turn DEF Readable
  <2>4. q.pc = "rows" /\ q.left = r.left /\ q.at = r.at
    BY <1>2 DEF Fields
  <2> HIDE DEF q
  <2>5. Exec(t)'
    BY <2>3, <2>4 DEF Exec, At
  <2> QED
    BY <1>1, <2>3, <2>4, <2>5, InsideCalm
<1> QED
  BY <1>4, <1>5

LEMMA ReadRowsCalm ==
    ASSUME Served, TypeInv, LedgerInv, NEW t \in Thread, ReadRows(t)
    PROVE  Calm(t)
<1> DEFINE r == th[t]
           a == Order[Entry(t)][SideOf(r)]
           rows == [disk.rows EXCEPT ![a] = NewBalance(r)]
           q == Saving([r EXCEPT !.value = 0], "rows", rows, "get")
<1>1. /\ r.pc = "rows" /\ Exec(t) /\ r.left # {}
      /\ UNCHANGED <<moved, cuts, applied>>
      /\ Becomes(t, IF Readable(a) THEN q ELSE Dead)
  BY LocalsFacts DEF ReadRows, memory, history, Exec, At, Entry, Locals
<1>2. /\ r \in Fields /\ Progress(t) /\ a \in Held /\ ~Resting(t)
  BY <1>1, ExecFacts
<1>3. Readable(a)
  BY <1>1, <1>2 DEF Progress, Readable
<1>4. Moves(t) /\ th'[t] = q
  BY <1>1, <1>2, <1>3, Turn
<1>5. q.pc = "open" /\ q.then = "get" /\ q.left = r.left /\ q.at = r.at
  BY <1>2 DEF Saving, Fields
<1> HIDE DEF q
<1>6. Exec(t)'
  BY <1>4, <1>5 DEF Exec, At
<1> QED
  BY <1>1, <1>4, <1>5, <1>6, InsideCalm

LEMMA StoreIndicesCalm ==
    ASSUME Served, TypeInv, LedgerInv, NEW t \in Thread, StoreIndices(t)
    PROVE  Calm(t)
<1> DEFINE r == th[t]
           q == SavingLog([r EXCEPT !.ci = 0], WithIndices(r.ci, r.at + 1), "note")
<1>1. /\ r.pc = "get" /\ Exec(t) /\ ~Resting(t) /\ r \in Fields /\ Becomes(t, q)
      /\ UNCHANGED <<moved, cuts, applied>>
  BY LocalsFacts DEF StoreIndices, memory, history, Exec, At, Resting
<1>2. Moves(t) /\ th'[t] = q
  BY <1>1, Turn
<1>3. disk.log # Torn
  BY <1>1, <1>2, LogReadable
<1>4. q.pc = "open" /\ q.then = "note" /\ q.left = r.left /\ q.at = r.at
  BY <1>1, <1>3 DEF SavingLog, Saving, Fields
<1> HIDE DEF q
<1>5. Exec(t)'
  BY <1>2, <1>4 DEF Exec, At
<1> QED
  BY <1>1, <1>2, <1>4, <1>5, InsideCalm

\* Both sides are written when the entry is recorded.
LEMMA NoteCalm ==
    ASSUME Served, TypeInv, LedgerInv, NEW t \in Thread, Note(t)
    PROVE  Calm(t)
<1> DEFINE r == th[t]
           i == Entry(t)
           q == [Saving(Turned(r, i), "applied", Torn, "scan") EXCEPT !.pc = "put"]
<1>1. /\ r.pc = "note" /\ Exec(t) /\ Becomes(t, q)
      /\ UNCHANGED <<moved, cuts>> /\ applied' = applied \cup {i}
  BY DEF Note, Record, Exec, At, Entry
<1>2. /\ r \in Fields /\ i \in Index /\ Progress(t) /\ ~Resting(t)
  BY <1>1, ExecFacts
<1>3. Moves(t) /\ th'[t] = q
  BY <1>1, <1>2, Turn
<1>4. r.left = {}
  BY <1>1, <1>2 DEF Progress, At
<1>5. Outside(q)
  BY <1>2 DEF Saving, Turned, Fields, Outside, At
<1>6. \A j, g : Part(t, j, g) => j = i
  BY DEF Part, Executing, Entry
<1> HIDE DEF q, i
<1>7. \A j : ~Between(t, j)' /\ ~Between(t, j)
  BY <1>3, <1>4, <1>5, OutsideNotExec DEF Between
<1> QED
  BY <1>1, <1>3, <1>6, <1>7 DEF Calm

LEMMA OpenCalm ==
    ASSUME Served, TypeInv, LedgerInv, NEW t \in Thread, Open(t)
    PROVE  Calm(t)
<1> DEFINE r == th[t]
           q == [r EXCEPT !.pc = "put"]
<1>1. /\ r.pc = "open" /\ ~Resting(t) /\ Becomes(t, q) /\ r \in Fields
      /\ UNCHANGED <<moved, cuts, applied>>
  BY LocalsFacts DEF Open, memory, history, Resting
<1>2. Moves(t) /\ th'[t] = q
  BY <1>1, Turn
<1>3. q.pc = "put" /\ q.then = r.then /\ q.left = r.left /\ q.at = r.at
  BY <1>1 DEF Fields
<1> HIDE DEF q
<1>4. Exec(t)' <=> Exec(t)
  BY <1>1, <1>2, <1>3 DEF Exec, At
<1> QED
  BY <1>1, <1>2, <1>3, <1>4, InsideCalm

-----------------------------------------------------------------------------
\* A side is written, and a crash.

LEMMA OwedByOne ==
    ASSUME TypeInv, NEW t \in Thread, Moves(t)
    PROVE  \A i : /\ Owed(i) = IF Between(t, i) THEN 1 ELSE 0
                  /\ Owed(i)' = IF Between(t, i)' THEN 1 ELSE 0
<1>1. \A u \in Thread \ {t} : th'[u] = th[u] /\ th[u].pc \in {"idle", "dead"}
  BY DEF Moves, Becomes, TypeInv, Resting
<1>2. \A u \in Thread \ {t} : \A i : ~Between(u, i) /\ ~Between(u, i)'
  BY <1>1 DEF Between, Executing
<1> QED
  BY <1>2 DEF Owed

LEMMA CalmWhole ==
    ASSUME TypeInv, WholeInv, NEW t \in Thread, Calm(t) PROVE WholeInv'
<1>1. \A i \in Index : ~Cross(i) => Owed(i)' = Owed(i)
  BY OwedByOne DEF Calm
<1> QED
  BY <1>1 DEF Calm, WholeInv, Counts

LEMMA CalmOnce ==
    ASSUME TypeInv, Counts, OnceInv, NEW t \in Thread, Calm(t) PROVE OnceInv'
<1>1. \A u \in Thread \ {t} : th'[u] = th[u]
  BY DEF Calm, Moves, Becomes, TypeInv
<1>2. \A u \in Thread \ {t} : \A i, f : Part(u, i, f)' <=> Part(u, i, f)
  BY <1>1 DEF Part, Executing
<1> SUFFICES ASSUME NEW i \in Index, NEW f \in Side
             PROVE  /\ f \notin Sides(i) => moved'[i][f] = 0
                    /\ moved'[i][f] <= 1 + cuts'[i]
                    /\ i \notin applied' /\ (\A u \in Thread : ~Part(u, i, f)') =>
                          moved'[i][f] <= cuts'[i]
  BY DEF OnceInv, Sides
<1>3. moved' = moved /\ cuts' = cuts /\ moved[i][f] \in Nat /\ cuts[i] \in Nat
  BY DEF Calm, Counts
<1>4. CASE f \in Sides(i)
  <2>1. i \notin applied' /\ (\A u \in Thread : ~Part(u, i, f)') =>
            i \notin applied /\ \A u \in Thread : ~Part(u, i, f)
    BY <1>2, <1>4 DEF Calm
  <2> QED
    BY <1>3, <1>4, <2>1 DEF OnceInv
<1>5. CASE f \notin Sides(i)
  BY <1>3, <1>5 DEF OnceInv
<1> QED
  BY <1>4, <1>5

\* The side that is written moves the transfer one on: it owes the credit after
\* the debit, and nothing after the credit.
LEMMA PutWhole ==
    ASSUME Served, TypeInv, DoneInv, LedgerInv, WholeInv, NEW t \in Thread, Put(t)
    PROVE  WholeInv'
<1> DEFINE r == th[t]
           i == Entry(t)
           f == SideOf(r)
           next == [r EXCEPT !.pc = r.then, !.put = Torn,
                      !.left = IF r.file = "rows" THEN @ \ {f} ELSE @]
           q == IF r.then = "idle" THEN Idle ELSE next
<1>1. /\ r.pc = "put" /\ ~Resting(t) /\ r \in Fields /\ Becomes(t, q)
      /\ UNCHANGED <<cuts, applied>>
      /\ moved' = IF r.file = "rows" THEN [moved EXCEPT ![i][f] = @ + 1] ELSE moved
      /\ r.file = "rows" => r.then = "get"
  BY LocalsFacts DEF Put, memory, Resting, DoneInv, Doing, Entry
<1>2. Moves(t) /\ th'[t] = q
  BY <1>1, Turn
<1>3. /\ r.then = "idle" => q.pc = "idle"
      /\ r.then # "idle" =>
            /\ q.pc = r.then /\ q.at = r.at
            /\ q.left = IF r.file = "rows" THEN r.left \ {f} ELSE r.left
  BY <1>1 DEF Fields, Idle
<1>4. r.then \notin {"rows", "open", "put"}
  BY <1>1 DEF Fields
<1> HIDE DEF next, q
<1>5. Exec(t)' <=> Exec(t)
  BY <1>1, <1>2, <1>3, <1>4 DEF Exec, At
<1>6. CASE r.file # "rows"
  <2>1. Exec(t) => th'[t].at = r.at /\ th'[t].left = r.left
    BY <1>1, <1>2, <1>3, <1>6 DEF Exec, At
  <2> QED
    BY <1>1, <1>2, <1>5, <1>6, <2>1, InsideCalm, CalmWhole
<1>7. CASE r.file = "rows"
  <2>1. /\ Exec(t) /\ Exec(t)' /\ th'[t].at = r.at /\ th'[t].left = r.left \ {f}
    BY <1>1, <1>2, <1>3, <1>5, <1>7 DEF Exec, At
  <2>2. /\ i \in Index /\ f \in r.left /\ r.left \subseteq Sides(i)
        /\ "payer" \in r.left => r.left = Sides(i)
    BY <1>1, <1>7, <2>1, ExecFacts DEF Progress, Entry
  <2>3. /\ Counts' /\ f \in Side
        /\ \A j \in Index, g \in Side :
              moved'[j][g] = IF j = i /\ g = f THEN moved[j][g] + 1 ELSE moved[j][g]
    <3>1. f \in Side
      BY DEF SideOf, Side
    <3> HIDE DEF f, i
    <3> QED
      BY <1>1, <1>7, <2>2, <3>1 DEF WholeInv, Counts
  <2>4. \A j : /\ Between(t, j) <=> j = i /\ "payer" \notin r.left /\ "payee" \in r.left
               /\ Between(t, j)' <=> /\ j = i /\ "payer" \notin r.left \ {f}
                                     /\ "payee" \in r.left \ {f}
    BY <2>1 DEF Between, Executing, Exec, At, Entry
  <2>5. ASSUME NEW j \in Index, ~Cross(j)
        PROVE  moved'[j]["payer"] - moved'[j]["payee"] - Owed(j)' =
               moved[j]["payer"] - moved[j]["payee"] - Owed(j)
    <3>1. CASE j # i
      <4>1. Owed(j)' = Owed(j)
        BY <1>2, <2>4, <3>1, OwedByOne
      <4> QED
        BY <2>3, <3>1, <4>1 DEF Side
    <3>2. CASE j = i /\ "payer" \in r.left
      <4>1. f = "payer" /\ "payee" \in r.left
        BY <2>2, <2>5, <3>2, SameCluster DEF SideOf, Sides, Side
      <4>2. Owed(j) = 0 /\ Owed(j)' = 1
        BY <1>2, <2>4, <3>2, <4>1, OwedByOne
      <4> QED
        BY <2>3, <3>2, <4>1, <4>2 DEF Side, WholeInv, Counts
    <3>3. CASE j = i /\ "payer" \notin r.left
      <4>1. f = "payee"
        BY <3>3 DEF SideOf
      <4>2. Owed(j) = 1 /\ Owed(j)' = 0
        BY <1>2, <2>2, <2>4, <3>3, <4>1, OwedByOne
      <4> QED
        BY <2>3, <3>3, <4>1, <4>2 DEF Side, WholeInv, Counts
    <3> QED
      BY <3>1, <3>2, <3>3
  <2> QED
    BY <1>1, <2>3, <2>5 DEF WholeInv
<1> QED
  BY <1>6, <1>7

\* The side that is written was not, or a crash came in between.
LEMMA PutOnce ==
    ASSUME Served, TypeInv, DoneInv, LedgerInv, Counts, OnceInv,
           NEW t \in Thread, Put(t)
    PROVE  OnceInv'
<1> DEFINE r == th[t]
           i == Entry(t)
           f == SideOf(r)
           next == [r EXCEPT !.pc = r.then, !.put = Torn,
                      !.left = IF r.file = "rows" THEN @ \ {f} ELSE @]
           q == IF r.then = "idle" THEN Idle ELSE next
<1>1. /\ r.pc = "put" /\ ~Resting(t) /\ r \in Fields /\ Becomes(t, q)
      /\ UNCHANGED <<cuts, applied>>
      /\ moved' = IF r.file = "rows" THEN [moved EXCEPT ![i][f] = @ + 1] ELSE moved
      /\ r.file = "rows" => r.then = "get"
  BY LocalsFacts DEF Put, memory, Resting, DoneInv, Doing, Entry
<1>2. Moves(t) /\ th'[t] = q
  BY <1>1, Turn
<1>3. /\ r.then = "idle" => q.pc = "idle"
      /\ r.then # "idle" =>
            /\ q.pc = r.then /\ q.at = r.at
            /\ q.left = IF r.file = "rows" THEN r.left \ {f} ELSE r.left
  BY <1>1 DEF Fields, Idle
<1>4. r.then \notin {"rows", "open", "put"}
  BY <1>1 DEF Fields
<1> HIDE DEF next, q
<1>5. Exec(t)' <=> Exec(t)
  BY <1>1, <1>2, <1>3, <1>4 DEF Exec, At
<1>6. CASE r.file # "rows"
  <2>1. Exec(t) => th'[t].at = r.at /\ th'[t].left = r.left
    BY <1>1, <1>2, <1>3, <1>6 DEF Exec, At
  <2> QED
    BY <1>1, <1>2, <1>5, <1>6, <2>1, InsideCalm, CalmOnce
<1>7. CASE r.file = "rows"
  <2>1. /\ Exec(t) /\ Exec(t)' /\ th'[t].at = r.at /\ th'[t].left = r.left \ {f}
    BY <1>1, <1>2, <1>3, <1>5, <1>7 DEF Exec, At
  <2>2. /\ i \in Index /\ i \notin applied /\ f \in r.left /\ f \in Sides(i)
    BY <1>1, <1>7, <2>1, ExecFacts DEF Progress, Allowed, Entry
  <2>3. /\ \A j, g : Part(t, j, g) <=> j = i /\ g \notin r.left
        /\ \A j, g : Part(t, j, g)' <=> j = i /\ g \notin r.left \ {f}
    BY <2>1 DEF Part, Executing, Exec, At, Entry
  <2>4. \A u \in Thread \ {t} : \A j, g : ~Part(u, j, g)
    BY <1>2 DEF Moves, Resting, Part, Executing
  <2>5. f \in Side
    BY DEF SideOf, Side
  <2> HIDE DEF f, i
  <2> SUFFICES ASSUME NEW j \in Index, NEW g \in Side
               PROVE  /\ g \notin Sides(j) => moved'[j][g] = 0
                      /\ moved'[j][g] <= 1 + cuts'[j]
                      /\ j \notin applied' /\ (\A u \in Thread : ~Part(u, j, g)') =>
                            moved'[j][g] <= cuts'[j]
    BY DEF OnceInv, Sides
  <2>6. moved[j][g] \in Nat /\ cuts[j] \in Nat /\ cuts' = cuts /\ applied' = applied
    BY <1>1 DEF Counts
  <2>7. moved'[j][g] = IF j = i /\ g = f THEN moved[j][g] + 1 ELSE moved[j][g]
    BY <1>1, <1>7, <2>2, <2>5 DEF Counts
  <2>8. CASE j = i /\ g = f
    <3>1. moved[j][g] <= cuts[j]
      BY <2>2, <2>3, <2>4, <2>8 DEF OnceInv
    <3>2. Part(t, j, g)'
      BY <2>3, <2>8
    <3> QED
      BY <2>2, <2>6, <2>7, <2>8, <3>1, <3>2
  <2>9. CASE ~(j = i /\ g = f)
    <3>1. Part(t, j, g) => Part(t, j, g)'
      BY <2>3
    <3> QED
      BY <2>4, <2>6, <2>7, <2>9, <3>1 DEF OnceInv
  <2> QED
    BY <2>8, <2>9
<1> QED
  BY <1>6, <1>7

\* What a transfer owes when the process dies is one of its cuts.
LEMMA CrashWhole ==
    ASSUME WholeInv, Crash PROVE WholeInv'
<1>1. \A t \in Thread : th'[t].pc = "idle"
  BY DEF Crash, Idle
<1>2. \A i : Owed(i)' = 0
  BY <1>1 DEF Owed, Between, Executing
<1>3. /\ Counts' /\ moved' = moved
      /\ \A i \in Index : cuts'[i] \in cuts[i] .. cuts[i] + 1
                          /\ cuts'[i] >= cuts[i] + Owed(i)
  BY DEF Crash, WholeInv, Counts, Owed, Between
<1>4. ASSUME NEW i \in Index, ~Cross(i)
      PROVE  moved'[i]["payer"] - moved'[i]["payee"] - Owed(i)' \in 0..cuts'[i]
  <2>1. moved[i]["payer"] \in Nat /\ moved[i]["payee"] \in Nat /\ cuts[i] \in Nat
    BY DEF WholeInv, Counts, Side
  <2>2. moved[i]["payer"] - moved[i]["payee"] - Owed(i) \in 0..cuts[i]
    BY <1>4 DEF WholeInv
  <2>3. Owed(i) \in {0, 1}
    BY DEF Owed
  <2> QED
    BY <1>2, <1>3, <2>1, <2>2, <2>3
<1> QED
  BY <1>3, <1>4 DEF WholeInv

\* What was applied stays so, or the process does not come back.
LEMMA CrashOnce ==
    ASSUME TypeInv, LedgerInv, Counts, OnceInv, Crash PROVE OnceInv'
<1>1. applied' = applied
  BY DEF Crash, Startable, AppliedOnDisk, LedgerInv, FilesInv
<1>2. moved' = moved
  BY DEF Crash
<1> SUFFICES ASSUME NEW i \in Index, NEW f \in Side
             PROVE  /\ f \notin Sides(i) => moved[i][f] = 0
                    /\ moved[i][f] <= 1 + cuts'[i]
                    /\ i \notin applied => moved[i][f] <= cuts'[i]
  BY <1>1, <1>2 DEF OnceInv, Sides
<1>3. moved[i][f] \in Nat /\ cuts[i] \in Nat
  BY DEF Counts
<1>4. /\ cuts'[i] \in {cuts[i], cuts[i] + 1}
      /\ (\E t \in Thread : Part(t, i, f)) => cuts'[i] = cuts[i] + 1
  <2>1. cuts'[i] = cuts[i] + IF \E t \in Thread : Executing(t, i) THEN 1 ELSE 0
    BY DEF Crash
  <2> QED
    BY <1>3, <2>1 DEF Part
<1> QED
  BY <1>3, <1>4 DEF OnceInv

-----------------------------------------------------------------------------
\* The invariants of the specification.

LEMMA WholeInit == ASSUME Init PROVE WholeInv /\ OnceInv
<1>1. \A i : Owed(i) = 0
  BY DEF Init, Idle, Owed, Between, Executing
<1>2. Counts /\ \A i \in Index : moved[i]["payer"] = 0 /\ moved[i]["payee"] = 0
  BY DEF Init, Counts, Side
<1>3. WholeInv
  BY <1>1, <1>2 DEF WholeInv, Counts
<1>4. OnceInv
  BY <1>2 DEF Init, OnceInv, Side
<1> QED
  BY <1>3, <1>4

\* Every step but a write and a crash is calm.
LEMMA CalmStep ==
    ASSUME Served, TypeInv, LedgerInv, Next
    PROVE  (\E t \in Thread : Calm(t)) \/ (\E t \in Thread : Put(t)) \/ Crash
<1>1. CASE Request
  BY <1>1, RequestApart, ApartCalm DEF Thread
<1>2. CASE Receive \/ AppendEntry \/ FollowCommit \/ Decide \/ ApplyDecision
  BY <1>2, ListenerApart, ApartCalm DEF Thread
<1>3. ASSUME NEW t \in Thread, Lead(t) PROVE Calm(t)
  BY <1>3, LeadApart, ApartCalm
<1>4. ASSUME NEW t \in Thread, Apply(t) PROVE Calm(t)
  <2>1. CASE Finish(t) \/ \E i \in Index : Skip(t, i) \/ Pass(t, i)
    BY <2>1, ScanApart, ApartCalm
  <2>2. CASE \E i \in Index : Check(t, i)
    BY <2>2, CheckCalm
  <2>3. CASE GetBalance(t) \/ ReadRows(t) \/ StoreIndices(t) \/ Note(t)
    BY <2>3, GetBalanceCalm, ReadRowsCalm, StoreIndicesCalm, NoteCalm
  <2> QED
    BY <1>4, <2>1, <2>2, <2>3 DEF Apply
<1>5. ASSUME NEW t \in Thread, Open(t) PROVE Calm(t)
  BY <1>5, OpenCalm
<1> QED
  BY <1>1, <1>2, <1>3, <1>4, <1>5 DEF Next

AllInv == TypeInv /\ DoneInv /\ LedgerInv /\ LogKept

LEMMA AllInit == Init => AllInv
BY TypeInit, DoneInit, LedgerInit, KeptInit DEF AllInv

LEMMA AllStep == ASSUME Served PROVE AllInv /\ [Next]_vars => AllInv'
BY TypeStep, DoneStep, LedgerStep, KeptStep DEF AllInv

LEMMA WholeStep ==
    ASSUME Served, AllInv, WholeInv, [Next]_vars
    PROVE  WholeInv' /\ (OnceInv => OnceInv')
<1>1. CASE UNCHANGED vars
  <2>1. UNCHANGED <<th, moved, cuts, applied>>
    BY <1>1 DEF vars, memory, history
  <2>2. \A i : Owed(i)' = Owed(i)
    BY <2>1 DEF Owed, Between, Executing
  <2> QED
    BY <2>1, <2>2 DEF WholeInv, Counts, OnceInv, Part, Executing
<1>2. CASE Next
  BY <1>2, CalmStep, CalmWhole, CalmOnce, PutWhole, PutOnce,
     CrashWhole, CrashOnce DEF AllInv, WholeInv
<1> QED
  BY <1>1, <1>2

\* When one handler runs at a time (Served), the debit and the credit of a
\* transfer inside the shard are done together but for crashes
\* (shard_manager.py:104-114), whatever the transfers are.
THEOREM TransferIsWholeHolds == ASSUME Served PROVE Spec => []TransferIsWhole
<1>1. Init => AllInv /\ WholeInv
  BY AllInit, WholeInit
<1>2. AllInv /\ WholeInv /\ [Next]_vars => AllInv' /\ WholeInv'
  BY AllStep, WholeStep
<1>3. WholeInv => TransferIsWhole
  <2> SUFFICES ASSUME WholeInv, NEW i \in Index,
                      \A t \in Thread : ~Executing(t, i), ~Cross(i)
               PROVE  moved[i]["payer"] - moved[i]["payee"] \in 0..cuts[i]
    BY DEF TransferIsWhole
  <2>1. Owed(i) = 0
    BY DEF Owed, Between
  <2>2. moved[i]["payer"] \in Nat /\ moved[i]["payee"] \in Nat
    BY DEF WholeInv, Counts, Side
  <2> QED
    BY <2>1, <2>2 DEF WholeInv
<1> QED
  BY <1>1, <1>2, <1>3, PTL DEF Spec

\* When one handler runs at a time (Served), an entry is executed once, and once
\* more for each crash that hit its execution (server.py:744-747), whatever the
\* transfers are; with two threads it is not (run applied_twice).
THEOREM AppliedOnceHolds == ASSUME Served PROVE Spec => []AppliedOnce
<1>1. Init => AllInv /\ WholeInv /\ OnceInv
  BY AllInit, WholeInit
<1>2. AllInv /\ WholeInv /\ OnceInv /\ [Next]_vars => AllInv' /\ WholeInv' /\ OnceInv'
  BY AllStep, WholeStep
<1>3. OnceInv => AppliedOnce
  BY DEF OnceInv, AppliedOnce
<1> QED
  BY <1>1, <1>2, <1>3, PTL DEF Spec

\* When one handler runs at a time and the accounts have a balance (Served),
\* between handlers the log file holds every entry and flag (server.py:306-365,
\* 538, 898); two threads at once may lose one (shard_manager.py:52-61).
THEOREM LogFileCurrentHolds == ASSUME Served PROVE Spec => []LogFileCurrent
<1>1. Init => AllInv
  BY AllInit
<1>2. AllInv /\ [Next]_vars => AllInv'
  BY AllStep
<1>3. AllInv => LogFileCurrent
  BY DEF AllInv, LogFileCurrent, LogKept, Writing, LedgerInv, FilesInv
<1> QED
  BY <1>1, <1>2, <1>3, PTL DEF Spec
=============================================================================
