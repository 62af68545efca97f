---------------------------- MODULE LedgerProofs ----------------------------
(***************************************************************************)
(* The files implement the atomic state machine: for every log whose       *)
(* accounts have a balance and any number of crashes, when one handler     *)
(* runs at a time.                                                         *)
(***************************************************************************)
EXTENDS StorageProofs

\* What the theorem needs of the constants: the threads are not both inside a
\* handler, and every account of the cluster that the log names has a row.
Served ==
    /\ ~Overlap
    /\ \A i \in Index, f \in Side : Local(i, f) => Order[i][f] \in Rows(Cluster)

Resting(t) == th[t].pc \in {"idle", "dead"}

\* Thread t is inside execute_transaction, or about to record the entry.
Exec(t) == At(th[t], "get") \/ At(th[t], "note") \/ th[t].pc = "rows"

Entry(t) == th[t].at + 1

\* The balances when the sides in left of entry i are still to be written.
After(b, i, left) ==
    IF "payer" \in left THEN b
    ELSE IF "payee" \in left THEN Moved(b, i, "payer")
    ELSE Moved(Moved(b, i, "payer"), i, "payee")

\* No thread applies entries beyond the commit index, and the file that is
\* being written is empty.
Bounded(t) ==
    LET r == th[t]
    IN /\ At(r, "scan") \/ Exec(t) => r.last <= commitIndex
       /\ r.pc \in {"open", "put"} /\ r.file = "log" => r.put # Torn
       /\ r.pc = "put" => disk[r.file] = Torn

\* The entry in execution may be applied, and its payer can pay.
Allowed(t) ==
    LET i == Entry(t)
    IN /\ i \in DOMAIN log /\ i \in Index /\ i \notin applied
       /\ th[t].at < th[t].last
       /\ ~Undecided(log, i)
       /\ Local(i, "payer") => settled # Torn /\ ~Short(settled, i)

\* How far the balance file is.
Progress(t) ==
    LET r == th[t]
        i == Entry(t)
        f == SideOf(r)
        writing == r.pc \in {"open", "put"} /\ r.file = "rows"
    IN /\ r.left \subseteq Sides(i) /\ ("payer" \in r.left => r.left = Sides(i))
       /\ settled = Torn => r.pc = "get" /\ r.left = Sides(i)
       /\ ~(writing /\ r.pc = "put") => disk.rows = After(settled, i, r.left)
       /\ r.pc = "rows" =>
             disk.rows # Torn /\ r.value = disk.rows[Order[i][f]]
       /\ writing => r.left # {} /\ r.put = After(settled, i, r.left \ {f})
       /\ At(r, "note") => r.left = {}

FilesInv ==
    /\ settled \in Balances \cup {Torn}
    /\ disk.applied # Torn => disk.applied = applied
    /\ up /\ disk.log = Torn =>
          \E t \in Thread : th[t].pc = "put" /\ th[t].file = "log"
    /\ (\A t \in Thread : ~Exec(t)) => disk.rows = settled

LedgerInv ==
    /\ \A t, u \in Thread : t = u \/ Resting(t) \/ Resting(u)
    /\ ~up => \A t \in Thread : Resting(t)
    /\ FilesInv
    /\ \A t \in Thread : Bounded(t) /\ (Exec(t) => Allowed(t) /\ Progress(t))

-----------------------------------------------------------------------------
\* Only one thread moves, and the other is at rest.

LEMMA RestingOutside ==
    ASSUME NEW t \in Thread, Resting(t)
    PROVE  ~Exec(t) /\ Bounded(t)
BY DEF Resting, Exec, Bounded, At

\* t is in a handler, or enters one.
Moves(t) ==
    /\ up /\ Becomes(t, th'[t])
    /\ \A u \in Thread \ {t} : Resting(u)

LEMMA Alone ==
    ASSUME Served, LedgerInv, NEW t \in Thread, Free(t) \/ ~Resting(t)
    PROVE  up /\ \A u \in Thread \ {t} : Resting(u)
BY DEF Served, LedgerInv, Free, Resting

\* The other thread stays where it is.
LEMMA OthersRest ==
    ASSUME TypeInv, LedgerInv, NEW t \in Thread, Moves(t), up' = up
    PROVE  /\ \A u \in Thread \ {t} : Resting(u)' /\ ~Exec(u)' /\ Bounded(u)'
           /\ \A s, u \in Thread : s = u \/ Resting(s)' \/ Resting(u)'
<1>1. \A u \in Thread \ {t} : th'[u] = th[u]
  BY DEF Moves, Becomes, TypeInv
<1>2. \A u \in Thread \ {t} : th'[u].pc \in {"idle", "dead"}
  BY <1>1 DEF Moves, Resting
<1> QED
  BY <1>2 DEF Resting, Exec, Bounded, At

LEMMA StepInv ==
    ASSUME TypeInv, LedgerInv, NEW t \in Thread, Moves(t), up' = up,
           FilesInv', Bounded(t)', (Exec(t) => Allowed(t) /\ Progress(t))'
    PROVE  LedgerInv'
BY OthersRest DEF LedgerInv, Moves

\* A step outside execute_transaction that changes no file.
LEMMA QuietStep ==
    ASSUME TypeInv, LedgerInv, NEW t \in Thread, Moves(t), ~Exec(t), ~Exec(t)',
           th[t].pc # "put", UNCHANGED <<disk, applied, settled, up>>,
           Bounded(t)'
    PROVE  LedgerInv'
<1>1. \A u \in Thread : ~Exec(u)
  BY RestingOutside DEF Moves
<1>2. disk.rows = settled
  BY <1>1 DEF LedgerInv, FilesInv
<1>3. disk.log # Torn
  BY DEF LedgerInv, FilesInv, Moves, Resting
<1>4. FilesInv'
  BY <1>2, <1>3 DEF LedgerInv, FilesInv
<1> QED
  BY <1>4, StepInv

LEMMA Turn ==
    ASSUME Served, TypeInv, LedgerInv, NEW t \in Thread, Free(t) \/ ~Resting(t),
           NEW q, Becomes(t, q)
    PROVE  Moves(t) /\ th'[t] = q
<1>1. th'[t] = q
  BY DEF Becomes, TypeInv
<1>2. up /\ \A u \in Thread \ {t} : Resting(u)
  BY Alone
<1> QED
  BY <1>1, <1>2 DEF Moves

\* The log file can be read unless t is writing it.
LEMMA LogReadable ==
    ASSUME TypeInv, LedgerInv, NEW t \in Thread, Moves(t),
           th[t].pc # "put" \/ th[t].file # "log"
    PROVE  /\ disk.log # Torn /\ disk.log \in Contents
<1>1. disk.log # Torn
  BY DEF LedgerInv, FilesInv, Moves, Resting
<1> QED
  BY <1>1 DEF LedgerInv, FilesInv, TypeInv, Files

\* A thread that sets out to rewrite the log file outside execute_transaction.
LEMMA SavingBounded ==
    ASSUME NEW t \in Thread, disk.log # Torn, NEW r \in Fields, NEW c \in Contents,
           NEW p \in {"idle", "append", "apply"},
           th'[t] = SavingLog(r, c, p)
    PROVE  Bounded(t)' /\ ~Exec(t)'
<1>1. th'[t] = Saving(r, "log", c, p)
  BY DEF SavingLog
<1>2. c # Torn
  BY TornIsNoLog DEF Contents
<1> QED
  BY <1>1, <1>2 DEF Saving, Fields, Bounded, Exec, At

\* A thread that is not inside execute_transaction, and writes no file.
LEMMA ElsewhereBounded ==
    ASSUME NEW t \in Thread,
           th'[t].pc \in {"idle", "dead", "append", "apply", "scan"},
           th'[t].pc = "scan" => th'[t].last <= commitIndex'
    PROVE  Bounded(t)' /\ ~Exec(t)'
BY DEF Bounded, Exec, At

-----------------------------------------------------------------------------
\* The handlers, up to the call of apply_committed_entries.

LEMMA RequestStep ==
    ASSUME Served, TypeInv, LedgerInv, Request PROVE LedgerInv'
<1> DEFINE t == "worker"
           c == WithEntries(Append(disk.log.entries, FALSE))
<1>0. t \in Thread /\ Free(t) /\ th[t].pc = "idle" /\ ~Exec(t)
  BY DEF Thread, Request, Free, Exec, At
<1>1. /\ UNCHANGED <<disk, commitIndex, applied, settled, up>>
      /\ \/ Becomes(t, SavingLog(Idle, c, "idle"))
         \/ Becomes(t, Dead)
  BY DEF Request, history
<1>2. CASE Becomes(t, Dead)
  <2>1. Moves(t) /\ th'[t] = Dead
    BY <1>0, <1>2, Turn
  <2>2. Bounded(t)' /\ ~Exec(t)'
    BY <1>0, <2>1, ElsewhereBounded DEF Dead, Idle
  <2> QED
    BY <1>0, <1>1, <2>1, <2>2, QuietStep DEF TypeInv, Memory
<1>3. CASE Becomes(t, SavingLog(Idle, c, "idle"))
  <2>1. Moves(t) /\ th'[t] = SavingLog(Idle, c, "idle")
    BY <1>0, <1>3, Turn
  <2>2. disk.log # Torn /\ disk.log \in Contents
    BY <1>0, <2>1, LogReadable
  <2>3. c \in Contents
    BY <1>1, <2>2, ReadLog, AppendProperties DEF TypeInv
  <2>4. Bounded(t)' /\ ~Exec(t)'
    BY <1>0, <2>1, <2>2, <2>3, IdleOK, SavingBounded DEF Locals
  <2> QED
    BY <1>0, <1>1, <2>1, <2>4, QuietStep DEF TypeInv, Memory
<1> QED
  BY <1>1, <1>2, <1>3

LEMMA LeadStep ==
    ASSUME Served, TypeInv, LedgerInv, NEW t \in Thread, Lead(t) PROVE LedgerInv'
<1> PICK n \in commitIndex + 1 .. Len(log) :
         /\ commitIndex' = n
         /\ Becomes(t, IF ~Cross(n) THEN Applying(Idle, n)
                       ELSE IF Local(n, "payer") => Readable(Order[n].payer)
                       THEN Idle ELSE Dead)
  BY DEF Lead
<1> DEFINE q == IF ~Cross(n) THEN Applying(Idle, n)
                ELSE IF Local(n, "payer") => Readable(Order[n].payer)
                THEN Idle ELSE Dead
<1>0. /\ Free(t) /\ th[t].pc = "idle" /\ ~Exec(t)
      /\ n \in Nat /\ commitIndex \in Nat /\ commitIndex' = n /\ n >= commitIndex
      /\ UNCHANGED <<disk, applied, settled, up>>
  BY DEF Lead, history, Free, Exec, At, TypeInv, Memory
<1>1. Moves(t) /\ th'[t] = q
  BY <1>0, Turn
<1>2. q.pc \in {"idle", "dead", "scan"} /\ (q.pc = "scan" => q.last = n)
  BY DEF Applying, Idle, Dead
<1>3. Bounded(t)' /\ ~Exec(t)'
  BY <1>0, <1>1, <1>2, ElsewhereBounded
<1> QED
  BY <1>0, <1>1, <1>3, QuietStep

LEMMA ReceiveStep ==
    ASSUME Served, TypeInv, LedgerInv, Receive PROVE LedgerInv'
<1> PICK k \in 0..Len(log) :
       \E m \in k .. Least(k + MaxEntries, Len(Order)) : \E c \in 0..Len(Order) :
          ReceiveFrom(k, m, c)
  BY DEF Receive
<1> PICK m \in k .. Least(k + MaxEntries, Len(Order)) :
       \E c \in 0..Len(Order) : ReceiveFrom(k, m, c)
  OBVIOUS
<1> PICK c \in 0..Len(Order) : ReceiveFrom(k, m, c)
  OBVIOUS
<1> DEFINE t == "listener"
           r == [Idle EXCEPT !.at = k, !.last = m, !.ci = c]
           kept == WithEntries(SubSeq(disk.log.entries, 1, k))
<1>0. /\ t \in Thread /\ Free(t) /\ th[t].pc = "idle" /\ ~Exec(t)
      /\ k \in Nat /\ m \in Nat /\ c \in Nat /\ k <= Len(log)
      /\ UNCHANGED <<disk, commitIndex, applied, settled, up>>
      /\ commitIndex \in Nat
  BY OrderType, BoundsType
     DEF Receive, history, Free, Exec, At, Thread, TypeInv, Memory, Least
<1>2. r \in Fields
  BY <1>0 DEF Idle, Fields, Pc
<1>3. CASE Becomes(t, [r EXCEPT !.pc = "append"])
  <2>1. Moves(t) /\ th'[t] = [r EXCEPT !.pc = "append"]
    BY <1>0, <1>3, Turn
  <2>2. Bounded(t)' /\ ~Exec(t)'
    BY <1>0, <1>2, <2>1, ElsewhereBounded DEF Fields
  <2> QED
    BY <1>0, <2>1, <2>2, QuietStep
<1>4. CASE /\ ~(disk.log # Torn /\ k >= Len(disk.log.entries))
           /\ Becomes(t, SavingLog(r, kept, "append"))
  <2>1. Moves(t) /\ th'[t] = SavingLog(r, kept, "append")
    BY <1>0, <1>4, Turn
  <2>2. disk.log # Torn /\ disk.log \in Contents
    BY <1>0, <2>1, LogReadable
  <2>3. kept \in Contents
    <3>1. disk.log.entries \in Seq(BOOLEAN) /\ k <= Len(disk.log.entries)
      BY <1>0, <1>4, <2>2, ReadLog DEF TypeInv
    <3> QED
      BY <1>0, <2>2, <3>1, ReadLog, Truncated DEF TypeInv
  <2>4. Bounded(t)' /\ ~Exec(t)'
    BY <1>0, <1>2, <2>1, <2>2, <2>3, SavingBounded
  <2> QED
    BY <1>0, <2>1, <2>4, QuietStep
<1>5. \/ Becomes(t, [r EXCEPT !.pc = "append"])
      \/ /\ ~(disk.log # Torn /\ k >= Len(disk.log.entries))
         /\ Becomes(t, SavingLog(r, kept, "append"))
  <2>1. CASE /\ k < m /\ k < Len(log)
             /\ ~(disk.log # Torn /\ k >= Len(disk.log.entries))
    BY <2>1 DEF ReceiveFrom
  <2>2. CASE ~(/\ k < m /\ k < Len(log)
               /\ ~(disk.log # Torn /\ k >= Len(disk.log.entries)))
    BY <2>2 DEF ReceiveFrom
  <2> QED
    BY <2>1, <2>2
<1> QED
  BY <1>3, <1>4, <1>5

LEMMA AppendEntryStep ==
    ASSUME Served, TypeInv, LedgerInv, AppendEntry PROVE LedgerInv'
<1> DEFINE t == "listener"
           r == th[t]
           i == r.at + 1
<1> PICK flag \in {FALSE, Cross(i) /\ Order[i].commit} :
       /\ log' = Append(log, flag)
       /\ Becomes(t, SavingLog([r EXCEPT !.at = i],
                       WithEntries(Append(disk.log.entries, flag)), "append"))
  BY DEF AppendEntry
<1> DEFINE c == WithEntries(Append(disk.log.entries, flag))
           q == [r EXCEPT !.at = i]
<1>0. /\ t \in Thread /\ r.pc = "append" /\ ~Resting(t) /\ ~Exec(t)
      /\ r \in Fields /\ r.at < r.last /\ r.last <= Len(Order)
      /\ UNCHANGED <<disk, commitIndex, applied, settled, up>>
      /\ commitIndex \in Nat /\ log \in Seq(BOOLEAN)
  BY LocalsFacts
     DEF AppendEntry, history, Resting, Exec, At, Thread, TypeInv, Memory
<1>1. flag \in BOOLEAN
  <2>1. i \in Index
    BY <1>0, OrderType DEF Index, Fields
  <2> QED
    BY <2>1, OrderFacts DEF Cross
<1>2. Moves(t) /\ th'[t] = SavingLog(q, c, "append")
  BY <1>0, Turn
<1>3. disk.log # Torn /\ disk.log \in Contents
  BY <1>0, <1>2, LogReadable
<1>4. c \in Contents
  BY <1>0, <1>1, <1>3, ReadLog, AppendProperties DEF TypeInv
<1>5. q \in Fields
  <2>1. r \in Fields /\ i \in Nat
    BY <1>0 DEF Fields
  <2> HIDE DEF i, r
  <2> QED
    BY <2>1 DEF Fields
<1>6. Bounded(t)' /\ ~Exec(t)'
  BY <1>0, <1>2, <1>3, <1>4, <1>5, SavingBounded
<1> QED
  BY <1>0, <1>2, <1>6, QuietStep

\* The commit index may step back, and nothing is applied then.
LEMMA FollowCommitStep ==
    ASSUME Served, TypeInv, LedgerInv, FollowCommit PROVE LedgerInv'
<1> DEFINE t == "listener"
           r == th[t]
           n == IF r.ci > commitIndex THEN Least(r.ci, Len(log)) ELSE commitIndex
           q == IF n > commitIndex THEN Applying(Idle, n) ELSE Idle
<1>0. /\ t \in Thread /\ r.pc = "append" /\ ~Resting(t) /\ ~Exec(t)
      /\ r \in Fields /\ r.at = r.last /\ commitIndex' = n /\ Becomes(t, q)
      /\ UNCHANGED <<disk, applied, settled, up>>
      /\ commitIndex \in Nat /\ log \in Seq(BOOLEAN)
  BY LocalsFacts
     DEF FollowCommit, history, Resting, Exec, At, Thread, TypeInv, Memory
<1>1. n \in Nat
  BY <1>0 DEF Fields, Least
<1>2. Moves(t) /\ th'[t] = q
  BY <1>0, Turn
<1>3. q.pc \in {"idle", "scan"} /\ (q.pc = "scan" => q.last = n)
  BY DEF Applying, Idle
<1> HIDE DEF q, n
<1>4. Bounded(t)' /\ ~Exec(t)'
  BY <1>0, <1>1, <1>2, <1>3, ElsewhereBounded
<1> QED
  BY <1>0, <1>1, <1>2, <1>4, QuietStep

LEMMA DecideStep ==
    ASSUME Served, TypeInv, LedgerInv, Decide PROVE LedgerInv'
<1> DEFINE t == "listener"
           unknown(i) == i \notin DOMAIN log \/
                         (disk.log # Torn /\ i \notin DOMAIN disk.log.entries)
           marked(i) == WithEntries([disk.log.entries EXCEPT ![i] = Order[i].commit])
<1> PICK i \in Index \ processed :
       Becomes("listener", IF unknown(i) THEN [Idle EXCEPT !.pc = "apply"]
                           ELSE SavingLog(Idle, marked(i), "apply"))
  BY DEF Decide
<1>0. /\ t \in Thread /\ Free(t) /\ th[t].pc = "idle" /\ ~Exec(t)
      /\ UNCHANGED <<disk, commitIndex, applied, settled, up>>
      /\ commitIndex \in Nat
  BY DEF Decide, history, Free, Exec, At, Thread, TypeInv, Memory
<1>1. CASE unknown(i)
  <2>1. Moves(t) /\ th'[t] = [Idle EXCEPT !.pc = "apply"]
    BY <1>0, <1>1, Turn
  <2>2. Bounded(t)' /\ ~Exec(t)'
    BY <1>0, <2>1, ElsewhereBounded DEF Idle
  <2> QED
    BY <1>0, <2>1, <2>2, QuietStep
<1>2. CASE ~unknown(i)
  <2>1. Moves(t) /\ th'[t] = SavingLog(Idle, marked(i), "apply")
    BY <1>0, <1>2, Turn
  <2>2. disk.log # Torn /\ disk.log \in Contents
    BY <1>0, <2>1, LogReadable
  <2>3. marked(i) \in Contents
    <3>1. [disk.log.entries EXCEPT ![i] = Order[i].commit] \in Seq(BOOLEAN)
      BY <1>2, <2>2, OrderFacts, ReadLog, ExceptSeq DEF TypeInv
    <3> QED
      BY <1>0, <2>2, <3>1, ReadLog DEF TypeInv
  <2>4. Bounded(t)' /\ ~Exec(t)'
    BY <1>0, <2>1, <2>2, <2>3, IdleOK, SavingBounded DEF Locals
  <2> QED
    BY <1>0, <2>1, <2>4, QuietStep
<1> QED
  BY <1>1, <1>2

-----------------------------------------------------------------------------
\* The scan: entries already applied, its beginning and its end.

LEMMA ApplyDecisionStep ==
    ASSUME Served, TypeInv, LedgerInv, ApplyDecision PROVE LedgerInv'
<1> DEFINE t == "listener"
           q == Applying(th[t], commitIndex)
<1>0. /\ t \in Thread /\ th[t].pc = "apply" /\ ~Resting(t) /\ ~Exec(t)
      /\ UNCHANGED <<disk, commitIndex, applied, settled, up>>
      /\ commitIndex \in Nat /\ th[t] \in Fields /\ Becomes(t, q)
  BY LocalsFacts DEF ApplyDecision, memory, history, Resting, Exec, At, Thread,
                     TypeInv, Memory
<1>1. Moves(t) /\ th'[t] = q
  BY <1>0, Turn
<1>2. q.pc = "scan" /\ q.last = commitIndex
  BY <1>0 DEF Applying, Fields
<1>3. Bounded(t)' /\ ~Exec(t)'
  BY <1>0, <1>1, <1>2, ElsewhereBounded
<1> QED
  BY <1>0, <1>1, <1>3, QuietStep

LEMMA SkipStep ==
    ASSUME Served, TypeInv, LedgerInv, NEW t \in Thread, NEW i \in Index, Skip(t, i)
    PROVE  LedgerInv'
<1> DEFINE q == Turned(th[t], i)
<1>0. /\ th[t].pc = "scan" /\ ~Resting(t) /\ ~Exec(t)
      /\ UNCHANGED <<disk, commitIndex, applied, settled, up>>
      /\ commitIndex \in Nat /\ th[t] \in Fields /\ Becomes(t, q)
      /\ th[t].last <= commitIndex
  BY LocalsFacts DEF Skip, AtEntry, memory, history, Resting, Exec, At, TypeInv,
                     Memory, LedgerInv, Bounded
<1>1. Moves(t) /\ th'[t] = q
  BY <1>0, Turn
<1>2. q.pc = "scan" /\ q.last = th[t].last
  BY <1>0 DEF Turned, Fields
<1>3. Bounded(t)' /\ ~Exec(t)'
  BY <1>0, <1>1, <1>2, ElsewhereBounded
<1> QED
  BY <1>0, <1>1, <1>3, QuietStep

LEMMA FinishStep ==
    ASSUME Served, TypeInv, LedgerInv, NEW t \in Thread, Finish(t)
    PROVE  LedgerInv'
<1> DEFINE r == th[t]
           c == WithIndices(commitIndex, r.upto)
           q == IF r.upto > lastApplied THEN SavingLog(Idle, c, "idle") ELSE Idle
<1>0. /\ r.pc = "scan" /\ ~Resting(t) /\ ~Exec(t)
      /\ UNCHANGED <<disk, commitIndex, applied, settled, up>>
      /\ commitIndex \in Nat /\ r \in Fields /\ Becomes(t, q)
  BY LocalsFacts DEF Finish, history, Resting, Exec, At, TypeInv, Memory
<1>1. Moves(t) /\ th'[t] = q
  BY <1>0, Turn
<1>2. /\ disk.log # Torn /\ disk.log \in Contents
  BY <1>0, <1>1, LogReadable
<1>3. c \in Contents
  BY <1>0, <1>2, ReadLog DEF TypeInv, Fields
<1>4. Bounded(t)' /\ ~Exec(t)'
  <2>1. CASE r.upto > lastApplied
    BY <1>0, <1>1, <1>2, <1>3, <2>1, IdleOK, SavingBounded DEF Locals
  <2>2. CASE ~(r.upto > lastApplied)
    BY <1>0, <1>1, <2>2, ElsewhereBounded DEF Idle
  <2> QED
    BY <2>1, <2>2
<1> QED
  BY <1>0, <1>1, <1>4, QuietStep

\* An index is recorded by a thread that leaves, or was never in,
\* execute_transaction; the balances are those of the file.
LEMMA RecordStep ==
    ASSUME Served, TypeInv, LedgerInv, NEW t \in Thread, ~Resting(t),
           NEW i \in Index, Record(t, i), th[t].pc \in {"scan", "note"},
           th[t].last <= commitIndex, settled' = disk.rows
    PROVE  LedgerInv'
<1> DEFINE r == th[t]
           q == [Saving(Turned(r, i), "applied", Torn, "scan") EXCEPT !.pc = "put"]
<1>0. /\ Becomes(t, q) /\ r \in Fields /\ commitIndex \in Nat
      /\ UNCHANGED <<commitIndex, up>>
  BY LocalsFacts DEF Record, TypeInv, Memory
<1>1. Moves(t) /\ th'[t] = q
  BY <1>0, Turn
<1>2. /\ q.pc = "put" /\ q.then = "scan" /\ q.file = "applied" /\ q.last = r.last
  BY <1>0 DEF Saving, Turned, Fields
<1> HIDE DEF q
<1>4. /\ disk'.applied = Torn /\ disk'.rows = disk.rows /\ disk'.log = disk.log
  BY DEF Record, TypeInv, Files
<1>3. Bounded(t)' /\ ~Exec(t)'
  BY <1>0, <1>1, <1>2, <1>4 DEF Bounded, Exec, At
<1>5. disk.log # Torn
  BY <1>1, LogReadable
<1>6. FilesInv'
  BY <1>0, <1>4, <1>5 DEF FilesInv, TypeInv, Files
<1> QED
  BY <1>0, <1>1, <1>3, <1>6, StepInv

LEMMA PassStep ==
    ASSUME Served, TypeInv, LedgerInv, NEW t \in Thread, NEW i \in Index, Pass(t, i)
    PROVE  LedgerInv' /\ settled = disk.rows
<1>1. th[t].pc = "scan" /\ ~Resting(t) /\ ~Exec(t) /\ Record(t, i)
      /\ settled' = settled
  BY DEF Pass, AtEntry, Resting, Exec, At
<1>2. th[t].last <= commitIndex
  BY <1>1 DEF LedgerInv, Bounded, At
<1>3. settled = disk.rows
  BY <1>1, Alone, RestingOutside DEF LedgerInv, FilesInv
<1> QED
  BY <1>1, <1>2, <1>3, RecordStep

LEMMA NoteStep ==
    ASSUME Served, TypeInv, LedgerInv, NEW t \in Thread, Note(t)
    PROVE  LedgerInv'
<1>1. th[t].pc = "note" /\ ~Resting(t) /\ Exec(t) /\ Record(t, Entry(t))
      /\ settled' = disk.rows
  BY DEF Note, Resting, Exec, At, Entry
<1>2. th[t].last <= commitIndex /\ Entry(t) \in Index
  BY <1>1 DEF LedgerInv, Bounded, Allowed
<1> QED
  BY <1>1, <1>2, RecordStep

-----------------------------------------------------------------------------
\* Inside execute_transaction.

LEMMA AfterAll ==
    ASSUME NEW b, NEW i \in Index PROVE After(b, i, Sides(i)) = b
BY DEF After, Sides, Side, Moved

\* Writing the next side takes the balances one further.
LEMMA AfterNext ==
    ASSUME NEW b, NEW i \in Index, NEW r, r.left \subseteq Sides(i), r.left # {},
           "payer" \in r.left => r.left = Sides(i)
    PROVE  /\ SideOf(r) \in r.left /\ Local(i, SideOf(r))
           /\ After(b, i, r.left \ {SideOf(r)}) = Moved(After(b, i, r.left), i, SideOf(r))
<1>1. SideOf(r) \in r.left /\ Local(i, SideOf(r))
  BY DEF SideOf, Sides, Side
<1>2. CASE "payer" \in r.left
  <2>1. SideOf(r) = "payer" /\ After(b, i, r.left) = b
    BY <1>2 DEF SideOf, After
  <2>2. CASE "payee" \in r.left
    BY <1>1, <2>1, <2>2 DEF After
  <2>3. CASE "payee" \notin r.left
    <3>1. ~Local(i, "payee")
      BY <1>2, <2>3 DEF Sides, Side
    <3> QED
      BY <1>1, <2>1, <2>3, <3>1 DEF After, Moved
  <2> QED
    BY <2>2, <2>3
<1>3. CASE "payer" \notin r.left
  <2>1. SideOf(r) = "payee" /\ "payee" \in r.left
    BY <1>1, <1>3 DEF SideOf
  <2> QED
    BY <1>1, <1>3, <2>1 DEF After
<1> QED
  BY <1>2, <1>3

\* The balances stay readable.
LEMMA AfterType ==
    ASSUME NEW b \in Balances, NEW i \in Index, NEW left
    PROVE  After(b, i, left) \in [Held -> Int] /\ After(b, i, left) # Torn
<1>1. ASSUME NEW c \in [Held -> Int], NEW f \in Side PROVE Moved(c, i, f) \in [Held -> Int]
  <2>1. CASE Local(i, f) /\ Order[i][f] \in Held
    BY <2>1, OrderFacts DEF Moved
  <2>2. CASE ~(Local(i, f) /\ Order[i][f] \in Held)
    BY <2>2 DEF Moved
  <2> QED
    BY <2>1, <2>2
<1>2. b \in [Held -> Int]
  BY DEF Balances
<1>3. After(b, i, left) \in [Held -> Int]
  BY <1>1, <1>2 DEF After, Side
<1> QED
  BY <1>3, TornIsNoFile

\* A step into, or inside, execute_transaction that changes no file.
LEMMA InsideStep ==
    ASSUME TypeInv, LedgerInv, NEW t \in Thread, Moves(t), th[t].pc # "put",
           UNCHANGED <<disk, commitIndex, applied, settled, up>>,
           Bounded(t)', Exec(t)', Allowed(t)', Progress(t)'
    PROVE  LedgerInv'
<1>1. disk.log # Torn
  BY LogReadable
<1>2. FilesInv'
  BY <1>1 DEF LedgerInv, FilesInv
<1> QED
  BY <1>2, StepInv

LEMMA CheckStep ==
    ASSUME Served, TypeInv, LedgerInv, NEW t \in Thread, NEW i \in Index, Check(t, i)
    PROVE  LedgerInv'
<1> DEFINE r == th[t]
           q == [r EXCEPT !.pc = "get", !.left = Sides(i), !.ci = commitIndex]
<1>0. /\ r.pc = "scan" /\ ~Resting(t) /\ ~Exec(t) /\ r \in Fields
      /\ UNCHANGED <<disk, log, commitIndex, applied, settled, up>>
      /\ commitIndex \in Nat /\ r.last <= commitIndex /\ i = r.at + 1
      /\ r.at < r.last /\ i \notin applied /\ ~Undecided(log, i)
      /\ Becomes(t, IF BalanceRead(i) THEN q ELSE Dead)
  BY LocalsFacts DEF Check, AtEntry, memory, history, Resting, Exec, At, TypeInv,
                     Memory, LedgerInv, Bounded
<1>1. Moves(t) /\ th'[t] = IF BalanceRead(i) THEN q ELSE Dead
  BY <1>0, Turn
<1>2. CASE ~BalanceRead(i)
  <2>1. Bounded(t)' /\ ~Exec(t)'
    BY <1>1, <1>2, ElsewhereBounded DEF Dead, Idle
  <2> QED
    BY <1>0, <1>1, <2>1, QuietStep
<1>3. CASE BalanceRead(i)
  <2>0. disk.rows = settled
    BY <1>0, <1>1, RestingOutside DEF Moves, LedgerInv, FilesInv
  <2>1. /\ th'[t] = q /\ q.pc = "get" /\ q.left = Sides(i) /\ q.ci = commitIndex
        /\ q.at = r.at /\ q.last = r.last
    BY <1>0, <1>1, <1>3 DEF Fields
  <2> HIDE DEF q
  <2>2. Exec(t)' /\ Bounded(t)'
    BY <1>0, <2>1 DEF Exec, Bounded, At
  <2>3. Allowed(t)'
    <3>1. i \in DOMAIN log
      BY OrderFacts DEF Check, AtEntry, TypeInv, Memory
    <3>2. Local(i, "payer") => settled # Torn /\ ~Short(settled, i)
      BY <1>3, <2>0 DEF Check, BalanceRead, Covered, Readable
    <3> QED
      BY <1>0, <2>1, <3>1, <3>2 DEF Allowed, Entry
  <2>4. Progress(t)'
    BY <1>0, <2>0, <2>1, AfterAll DEF Progress, Entry, At
  <2> QED
    BY <1>0, <1>1, <2>2, <2>3, <2>4, InsideStep
<1> QED
  BY <1>2, <1>3

\* What is known of a thread inside execute_transaction.
LEMMA ExecFacts ==
    ASSUME Served, TypeInv, LedgerInv, NEW t \in Thread, Exec(t)
    PROVE  /\ ~Resting(t) /\ th[t] \in Fields /\ Entry(t) \in Index
           /\ Allowed(t) /\ Progress(t) /\ Bounded(t)
           /\ settled \in Balances \cup {Torn}
           /\ th[t].left # {} =>
                 /\ Local(Entry(t), SideOf(th[t])) /\ SideOf(th[t]) \in th[t].left
                 /\ Order[Entry(t)][SideOf(th[t])] \in Held
<1>1. ~Resting(t)
  BY DEF Exec, Resting, At
<1>2. Allowed(t) /\ Progress(t) /\ Bounded(t) /\ settled \in Balances \cup {Torn}
      /\ Entry(t) \in Index
  BY DEF LedgerInv, Allowed, FilesInv
<1>3. ASSUME th[t].left # {}
      PROVE  /\ Local(Entry(t), SideOf(th[t])) /\ SideOf(th[t]) \in th[t].left
             /\ SideOf(th[t]) \in Side
  <2>1. /\ th[t].left \subseteq Sides(Entry(t))
        /\ "payer" \in th[t].left => th[t].left = Sides(Entry(t))
    BY <1>2 DEF Progress, Entry
  <2> QED
    BY <1>2, <1>3, <2>1, AfterNext DEF Sides
<1>4. th[t].left # {} => Order[Entry(t)][SideOf(th[t])] \in Held
  BY <1>2, <1>3 DEF Served, Held
<1> QED
  BY <1>1, <1>2, <1>3, <1>4, LocalsFacts

\* Only a torn balance file ends it in an exception, and before any write.
LEMMA GetBalanceStep ==
    ASSUME Served, TypeInv, LedgerInv, NEW t \in Thread, GetBalance(t)
    PROVE  LedgerInv'
<1> DEFINE r == th[t]
           i == Entry(t)
           a == Order[i][SideOf(r)]
           q == [r EXCEPT !.pc = "rows", !.value = disk.rows[a]]
<1>0. /\ r.pc = "get" /\ r.left # {} /\ Exec(t) /\ At(r, "get")
      /\ UNCHANGED <<disk, log, commitIndex, applied, settled, up>>
      /\ Becomes(t, IF Readable(a) /\ ("payer" \in r.left => Covered(i))
                    THEN q ELSE Dead)
  BY DEF GetBalance, memory, history, Exec, At, Entry
<1>1. /\ r \in Fields /\ i \in Index /\ Allowed(t) /\ Progress(t) /\ Bounded(t)
      /\ settled \in Balances \cup {Torn} /\ a \in Held /\ ~Resting(t)
  BY <1>0, ExecFacts
<1>2. disk.rows = After(settled, i, r.left)
  BY <1>0, <1>1 DEF Progress, Entry
<1>3. CASE settled = Torn
  <2>1. disk.rows = Torn /\ disk.rows = settled
    BY <1>1, <1>2, <1>3, AfterAll DEF Progress, Entry
  <2>2. Moves(t) /\ th'[t] = Dead
    BY <1>0, <1>1, <2>1, Turn DEF Readable
  <2>3. Bounded(t)' /\ ~Exec(t)'
    BY <2>2, ElsewhereBounded DEF Dead, Idle
  <2>4. disk.log # Torn
    BY <1>0, <2>2, LogReadable
  <2>5. FilesInv'
    BY <1>0, <2>1, <2>4 DEF LedgerInv, FilesInv
  <2> QED
    BY <1>0, <2>2, <2>3, <2>5, StepInv
<1>4. CASE settled # Torn
  <2>1. disk.rows # Torn
    BY <1>1, <1>2, <1>4, AfterType
  <2>2. "payer" \in r.left => Covered(i)
    <3>1. "payer" \in r.left => disk.rows = settled
      BY <1>1, <1>2, AfterAll DEF Progress, Entry
    <3> QED
      BY <1>1, <3>1 DEF Covered, Allowed
  <2>3. Moves(t) /\ th'[t] = q
    BY <1>0, <1>1, <2>1, <2>2, Turn DEF Readable
  <2>4. /\ q.pc = "rows" /\ q.left = r.left /\ q.value = disk.rows[a]
        /\ q.at = r.at /\ q.last = r.last /\ q.ci = r.ci
    BY <1>1 DEF Fields
  <2> HIDE DEF q
  <2>5. SideOf(q) = SideOf(r)
    BY <2>4 DEF SideOf
  <2>6. Exec(t)' /\ Bounded(t)'
    BY <1>0, <1>1, <2>3, <2>4 DEF Exec, Bounded, At
  <2>7. Allowed(t)'
    BY <1>0, <1>1, <2>3, <2>4 DEF Allowed, Entry
  <2>8. Progress(t)'
    BY <1>0, <1>1, <1>2, <1>4, <2>1, <2>3, <2>4, <2>5 DEF Progress, Entry, At
  <2> QED
    BY <1>0, <2>3, <2>6, <2>7, <2>8, InsideStep
<1> QED
  BY <1>3, <1>4

\* The new rows are the balances with one more side written.
LEMMA ReadRowsStep ==
    ASSUME Served, TypeInv, LedgerInv, NEW t \in Thread, ReadRows(t)
    PROVE  LedgerInv'
<1> DEFINE r == th[t]
           i == Entry(t)
           f == SideOf(r)
           a == Order[i][f]
           rows == [disk.rows EXCEPT ![a] = NewBalance(r)]
           q == Saving([r EXCEPT !.value = 0], "rows", rows, "get")
<1>0. /\ r.pc = "rows" /\ Exec(t) /\ r.left # {}
      /\ UNCHANGED <<disk, log, commitIndex, applied, settled, up>>
      /\ Becomes(t, IF Readable(a) THEN q ELSE Dead)
  BY LocalsFacts DEF ReadRows, memory, history, Exec, At, Entry, Locals
<1>1. /\ r \in Fields /\ i \in Index /\ Allowed(t) /\ Progress(t) /\ Bounded(t)
      /\ a \in Held /\ ~Resting(t) /\ Local(i, f)
  BY <1>0, ExecFacts
<1>2. /\ disk.rows = After(settled, i, r.left) /\ disk.rows # Torn
      /\ settled # Torn /\ r.value = disk.rows[a] /\ r.left \subseteq Sides(i)
      /\ "payer" \in r.left => r.left = Sides(i)
  BY <1>0, <1>1 DEF Progress, Entry
<1>3. rows = After(settled, i, r.left \ {f})
  <2>1. After(settled, i, r.left \ {f}) = Moved(disk.rows, i, f)
    <3>1. /\ i \in Index /\ r.left # {} /\ r.left \subseteq Sides(i)
          /\ "payer" \in r.left => r.left = Sides(i)
      BY <1>0, <1>1, <1>2
    <3> HIDE DEF i, r
    <3>2. After(settled, i, r.left \ {SideOf(r)})
            = Moved(After(settled, i, r.left), i, SideOf(r))
      BY <3>1, AfterNext
    <3> QED
      BY <1>2, <3>2
  <2>2. NewBalance(r) = IF f = "payer" THEN disk.rows[a] - Order[i].amount
                        ELSE disk.rows[a] + Order[i].amount
    BY <1>2 DEF NewBalance, Entry
  <2>3. Moved(disk.rows, i, f) =
            [disk.rows EXCEPT ![a] = IF f = "payer" THEN disk.rows[a] - Order[i].amount
                                     ELSE disk.rows[a] + Order[i].amount]
    BY <1>1 DEF Moved
  <2> QED
    BY <2>1, <2>2, <2>3
<1>4. Moves(t) /\ th'[t] = q
  BY <1>0, <1>1, <1>2, Turn DEF Readable
<1>5. /\ q.pc = "open" /\ q.then = "get" /\ q.file = "rows" /\ q.put = rows
      /\ q.left = r.left /\ q.at = r.at /\ q.last = r.last /\ q.ci = r.ci
  BY <1>1 DEF Saving, Fields
<1> HIDE DEF q, rows
<1>6. SideOf(q) = f
  BY <1>5 DEF SideOf
<1>7. Exec(t)' /\ Bounded(t)'
  BY <1>0, <1>1, <1>4, <1>5 DEF Exec, Bounded, At
<1>8. Allowed(t)'
  BY <1>0, <1>1, <1>4, <1>5 DEF Allowed, Entry
<1>9. Progress(t)'
  BY <1>0, <1>1, <1>2, <1>3, <1>4, <1>5, <1>6 DEF Progress, Entry, At
<1> QED
  BY <1>0, <1>4, <1>7, <1>8, <1>9, InsideStep

LEMMA StoreIndicesStep ==
    ASSUME Served, TypeInv, LedgerInv, NEW t \in Thread, StoreIndices(t)
    PROVE  LedgerInv'
<1> DEFINE r == th[t]
           i == Entry(t)
           c == WithIndices(r.ci, i)
           q == SavingLog([r EXCEPT !.ci = 0], c, "note")
<1>0. /\ r.pc = "get" /\ At(r, "get") /\ Exec(t) /\ r.left = {}
      /\ UNCHANGED <<disk, log, commitIndex, applied, settled, up>>
      /\ Becomes(t, q)
  BY DEF StoreIndices, memory, history, Exec, At, Entry
<1>1. /\ r \in Fields /\ i \in Index /\ Allowed(t) /\ Progress(t) /\ Bounded(t)
      /\ ~Resting(t) /\ i \in Nat
  BY <1>0, ExecFacts, OrderFacts
<1>2. settled # Torn
  <2>1. Sides(i) # {}
    BY <1>1, OrderType DEF Sides, Local
  <2> QED
    BY <1>0, <1>1, <2>1 DEF Progress, Entry
<1>3. Moves(t) /\ th'[t] = q
  BY <1>0, <1>1, Turn
<1>4. disk.log # Torn /\ disk.log \in Contents
  BY <1>0, <1>3, LogReadable
<1>5. c # Torn
  <2>1. c \in Contents
    BY <1>1, <1>4, ReadLog DEF TypeInv, Fields
  <2> QED
    BY <1>4, <2>1, TornIsNoLog DEF Contents
<1>6. /\ q.pc = "open" /\ q.then = "note" /\ q.file = "log" /\ q.put = c
      /\ q.left = {} /\ q.at = r.at /\ q.last = r.last
  BY <1>0, <1>1, <1>4 DEF SavingLog, Saving, Fields
<1> HIDE DEF q, c
<1>7. Exec(t)' /\ Bounded(t)'
  BY <1>0, <1>1, <1>3, <1>5, <1>6 DEF Exec, Bounded, At
<1>8. Allowed(t)'
  BY <1>0, <1>1, <1>3, <1>6 DEF Allowed, Entry
<1>9. Progress(t)'
  BY <1>0, <1>1, <1>2, <1>3, <1>6 DEF Progress, Entry, At
<1> QED
  BY <1>0, <1>3, <1>7, <1>8, <1>9, InsideStep

-----------------------------------------------------------------------------
\* The two halves of rewriting a file.

LEMMA OpenStep ==
    ASSUME Served, TypeInv, DoneInv, LedgerInv, NEW t \in Thread, Open(t)
    PROVE  LedgerInv'
<1> DEFINE r == th[t]
           i == Entry(t)
           q == [r EXCEPT !.pc = "put"]
<1>0. /\ r.pc = "open" /\ ~Resting(t) /\ Becomes(t, q) /\ r \in Fields
      /\ disk' = [disk EXCEPT ![r.file] = Torn]
      /\ UNCHANGED <<log, commitIndex, applied, settled, up>>
      /\ r.file = "rows" => r.then = "get"
      /\ Bounded(t)
  BY LocalsFacts DEF Open, memory, history, Resting, LedgerInv, DoneInv, Doing
<1>1. Moves(t) /\ th'[t] = q
  BY <1>0, Turn
<1>2. /\ q.pc = "put" /\ q.then = r.then /\ q.file = r.file /\ q.put = r.put
      /\ q.left = r.left /\ q.at = r.at /\ q.last = r.last /\ q.ci = r.ci
  BY <1>0 DEF Fields
<1> HIDE DEF q
<1>3. /\ disk' \in [{"rows", "log", "applied"} ->
                      Balances \cup Contents \cup (SUBSET Nat) \cup {Torn}]
      /\ disk'[r.file] = Torn
      /\ \A f \in {"rows", "log", "applied"} \ {r.file} : disk'[f] = disk[f]
  BY <1>0 DEF TypeInv, Files, Fields
<1>4. Exec(t)' <=> Exec(t)
  BY <1>0, <1>1, <1>2 DEF Exec, At
<1>5. SideOf(q) = SideOf(r)
  BY <1>2 DEF SideOf
<1>6. Bounded(t)'
  BY <1>0, <1>1, <1>2, <1>3, <1>4 DEF Bounded, At
<1>7. ASSUME Exec(t) PROVE Allowed(t)' /\ Progress(t)'
  <2>1. Allowed(t) /\ Progress(t)
    BY <1>7, ExecFacts
  <2>2. Allowed(t)'
    BY <1>0, <1>1, <1>2, <2>1 DEF Allowed, Entry
  <2>3. settled # Torn
    BY <1>0, <2>1 DEF Progress
  <2>4. disk.rows = After(settled, i, r.left)
    BY <1>0, <2>1 DEF Progress
  <2>5. r.file # "rows" => disk'.rows = disk.rows
    BY <1>0, <1>3
  <2>6. Progress(t)'
    BY <1>0, <1>1, <1>2, <1>5, <2>1, <2>3, <2>4, <2>5 DEF Progress, Entry, At
  <2> QED
    BY <2>2, <2>6
<1>8. FilesInv'
  <2>1. disk'.applied # Torn => disk'.applied = applied'
    BY <1>0, <1>3 DEF LedgerInv, FilesInv
  <2>2. disk.log # Torn
    BY <1>0, <1>1, LogReadable
  <2>3. disk'.log = Torn => th'[t].pc = "put" /\ th'[t].file = "log"
    BY <1>1, <1>2, <1>3, <2>2
  <2>4. (\A u \in Thread : ~Exec(u)') => disk'.rows = settled'
    <3>1. ASSUME ~Exec(t) PROVE disk'.rows = settled'
      <4>1. r.file # "rows"
        BY <1>0, <3>1 DEF Exec, At
      <4>2. disk.rows = settled
        BY <1>1, <3>1, RestingOutside DEF Moves, LedgerInv, FilesInv
      <4> QED
        BY <1>0, <1>3, <4>1, <4>2
    <3> QED
      BY <1>4, <3>1
  <2>5. settled' \in Balances \cup {Torn}
    BY <1>0 DEF LedgerInv, FilesInv
  <2> QED
    BY <1>1, <2>1, <2>3, <2>4, <2>5 DEF FilesInv
<1> QED
  BY <1>0, <1>1, <1>4, <1>6, <1>7, <1>8, StepInv

\* The file was torn by the same thread, so it holds what was to be written.
LEMMA PutStep ==
    ASSUME Served, TypeInv, DoneInv, LedgerInv, NEW t \in Thread, Put(t)
    PROVE  LedgerInv'
<1> DEFINE r == th[t]
           i == Entry(t)
           f == SideOf(r)
           content == IF r.file = "applied" THEN applied ELSE r.put
           next == [r EXCEPT !.pc = r.then, !.put = Torn,
                      !.left = IF r.file = "rows" THEN @ \ {f} ELSE @]
           q == IF r.then = "idle" THEN Idle ELSE next
           left == IF r.file = "rows" THEN r.left \ {f} ELSE r.left
<1>0. /\ r.pc = "put" /\ ~Resting(t) /\ r \in Fields /\ Becomes(t, q)
      /\ UNCHANGED <<log, commitIndex, applied, settled, up>>
      /\ r.file = "rows" => r.then = "get"
      /\ Bounded(t) /\ disk[r.file] = Torn
  BY LocalsFacts DEF Put, memory, Resting, LedgerInv, DoneInv, Doing, Bounded
<1>1. Moves(t) /\ th'[t] = q
  BY <1>0, Turn
<1>2. /\ r.then = "idle" => th'[t].pc = "idle"
      /\ r.then # "idle" =>
            /\ th'[t].pc = r.then /\ th'[t].left = left /\ th'[t].at = r.at
            /\ th'[t].last = r.last /\ th'[t].ci = r.ci
  BY <1>0, <1>1 DEF Fields, Idle
<1>3. r.then \notin {"rows", "open", "put"}
  BY <1>0 DEF Fields
<1>4. disk' = [disk EXCEPT ![r.file] = content]
  BY <1>0 DEF Put, Written
<1> HIDE DEF next, q
<1>5. Exec(t)' <=> Exec(t)
  BY <1>0, <1>2, <1>3 DEF Exec, At
<1>6. Bounded(t)'
  <2>1. CASE r.then = "idle"
    BY <1>2, <2>1, ElsewhereBounded
  <2>2. CASE r.then # "idle"
    BY <1>0, <1>2, <1>3, <2>2 DEF Bounded, Exec, At
  <2> QED
    BY <2>1, <2>2
<1>7. ASSUME Exec(t) PROVE Allowed(t)' /\ Progress(t)'
  <2>1. Allowed(t) /\ Progress(t) /\ i \in Index
    BY <1>7, ExecFacts
  <2>2. r.then \in {"get", "note"}
    BY <1>0, <1>7 DEF Exec, At
  <2>3. Allowed(t)'
    BY <1>0, <1>2, <2>1, <2>2 DEF Allowed, Entry
  <2>4. settled # Torn
    BY <1>0, <2>1 DEF Progress
  <2>5. left \subseteq Sides(i) /\ ("payer" \in left => left = Sides(i))
    BY <2>1 DEF Progress, SideOf, Entry
  <2>6. disk'.rows = After(settled, i, left)
    <3>1. CASE r.file = "rows"
      <4>1. disk'.rows = r.put
        BY <1>4, <3>1 DEF TypeInv, Files
      <4> QED
        BY <1>0, <2>1, <3>1, <4>1 DEF Progress
    <3>2. CASE r.file # "rows"
      <4>1. disk'.rows = disk.rows
        BY <1>4, <3>2 DEF TypeInv, Files
      <4> QED
        BY <1>0, <2>1, <3>2, <4>1 DEF Progress
    <3> QED
      BY <3>1, <3>2
  <2>7. r.then = "note" => left = {}
    BY <1>0, <2>1 DEF Progress, At
  <2>8. Progress(t)'
    BY <1>0, <1>2, <2>1, <2>2, <2>4, <2>5, <2>6, <2>7 DEF Progress, Entry, At
  <2> QED
    BY <2>3, <2>8
<1>8. FilesInv'
  <2>1. disk'.applied # Torn => disk'.applied = applied'
    BY <1>0, <1>4 DEF LedgerInv, FilesInv, TypeInv, Files
  <2>2. disk'.log # Torn
    <3>1. CASE r.file = "log"
      BY <1>0, <1>4, <3>1 DEF Bounded, TypeInv, Files
    <3>2. CASE r.file # "log"
      <4>1. disk'.log = disk.log
        BY <1>4, <3>2 DEF TypeInv, Files
      <4>2. disk.log # Torn
        BY <1>1, <3>2, LogReadable
      <4> QED
        BY <1>0, <4>1, <4>2
    <3> QED
      BY <3>1, <3>2
  <2>3. (\A u \in Thread : ~Exec(u)') => disk'.rows = settled'
    <3>1. ASSUME ~Exec(t) PROVE disk'.rows = settled'
      <4>1. r.file # "rows"
        BY <1>0, <3>1 DEF Exec, At
      <4>2. disk.rows = settled
        BY <1>1, <3>1, RestingOutside DEF Moves, LedgerInv, FilesInv
      <4> QED
        BY <1>0, <1>4, <4>1, <4>2 DEF TypeInv, Files
    <3> QED
      BY <1>5, <3>1
  <2>4. settled' \in Balances \cup {Torn}
    BY <1>0 DEF LedgerInv, FilesInv
  <2> QED
    BY <2>1, <2>2, <2>3, <2>4 DEF FilesInv
<1> QED
  BY <1>0, <1>1, <1>5, <1>6, <1>7, <1>8, StepInv

-----------------------------------------------------------------------------
\* A restart, and the invariant of the specification.

LEMMA CrashStep == ASSUME TypeInv, LedgerInv, Crash PROVE LedgerInv'
<1>1. \A t \in Thread : Resting(t)'
  BY DEF Crash, Resting, Idle
<1>2. \A t \in Thread : ~Exec(t)' /\ Bounded(t)'
  BY <1>1 DEF Resting, Exec, Bounded, At
<1>3. FilesInv'
  <2>1. /\ up' => disk.log # Torn
        /\ disk.applied # Torn => applied' = disk.applied
    BY DEF Crash, Startable, AppliedOnDisk, LedgerInv, FilesInv
  <2> QED
    BY <1>2, <2>1 DEF Crash, TypeInv, Files, FilesInv
<1> QED
  BY <1>1, <1>2, <1>3 DEF LedgerInv

LEMMA LedgerInit == ASSUME Init PROVE LedgerInv
<1>1. \A t \in Thread : Resting(t) /\ ~Exec(t) /\ Bounded(t)
  BY RestingOutside DEF Init, Resting, Idle
<1>2. disk.log # Torn /\ settled \in Balances
  <2>1. disk.log \in Contents
    BY DEF Init, Contents
  <2>2. settled \in Balances
    BY BalanceType DEF Init, Balances
  <2> QED
    BY <2>1, <2>2, TornIsNoLog DEF Contents
<1>3. disk.rows = settled /\ disk.applied = applied
  BY DEF Init
<1>4. FilesInv
  BY <1>2, <1>3 DEF FilesInv
<1> QED
  BY <1>1, <1>4 DEF LedgerInv, Init

LEMMA LedgerStep ==
    ASSUME Served, TypeInv, DoneInv, LedgerInv, [Next]_vars PROVE LedgerInv'
<1>1. CASE UNCHANGED vars
  <2>0. UNCHANGED <<disk, th, log, commitIndex, applied, up, settled>>
    BY <1>1 DEF vars, memory, history
  <2>1. \A t \in Thread : (Resting(t)' <=> Resting(t)) /\ (Exec(t)' <=> Exec(t))
    BY <2>0 DEF Resting, Exec, At
  <2>2. FilesInv'
    BY <2>0, <2>1 DEF LedgerInv, FilesInv
  <2>3. \A t \in Thread : Bounded(t)'
    BY <2>0 DEF LedgerInv, Bounded, Exec, At
  <2>4. \A t \in Thread : Exec(t) => Allowed(t)' /\ Progress(t)'
    BY <2>0 DEF LedgerInv, Allowed, Progress, Entry, At
  <2> QED
    BY <2>0, <2>1, <2>2, <2>3, <2>4 DEF LedgerInv
<1>2. ASSUME NEW t \in Thread, Apply(t) PROVE LedgerInv'
  BY <1>2, SkipStep, PassStep, CheckStep, GetBalanceStep, ReadRowsStep,
     StoreIndicesStep, NoteStep, FinishStep DEF Apply
<1> QED
  BY <1>1, <1>2, RequestStep, LeadStep, ReceiveStep, AppendEntryStep,
     FollowCommitStep, DecideStep, ApplyDecisionStep, OpenStep, PutStep, CrashStep
     DEF Next

-----------------------------------------------------------------------------
\* What Ledger says of a transfer is what Storage says: both take it from Shard.

LEMMA SameShard ==
    /\ Atomic!Held = Held
    /\ \A i \in Index, f \in Side : Atomic!Local(i, f) = Local(i, f)
    /\ \A i \in Index, f \in Side : \A b : Atomic!Moved(b, i, f) = Moved(b, i, f)
    /\ \A i \in Index : \A l : Atomic!Undecided(l, i) = Undecided(l, i)
    /\ \A i \in Index : \A b : Atomic!Short(b, i) = Short(b, i)
BY DEF Held, Atomic!Held, Rows, Atomic!Rows, AccountOffset, Atomic!AccountOffset,
       Index, Atomic!Index, Side, Atomic!Side, Local, Atomic!Local,
       IsAccountInCluster, Atomic!IsAccountInCluster, Moved, Atomic!Moved,
       Undecided, Atomic!Undecided, Cross, Atomic!Cross,
       ClusterOfAccount, Atomic!ClusterOfAccount, Short, Atomic!Short

balance == IF up THEN settled ELSE Torn

\* A step that neither records nor loses anything is one of consensus.
LEMMA Replicating ==
    ASSUME TypeInv', UNCHANGED <<applied, settled, up>> PROVE Atomic!Replicate
BY DEF Atomic!Replicate, TypeInv, Memory

LEMMA PassSimulates ==
    ASSUME Served, TypeInv, LedgerInv, NEW t \in Thread, NEW i \in Index, Pass(t, i)
    PROVE  Atomic!Apply(i)
<1>1. /\ th[t].pc = "scan" /\ ~Resting(t) /\ i = th[t].at + 1 /\ th[t].at < th[t].last
      /\ i <= Len(log) /\ i \notin applied /\ applied' = applied \cup {i}
      /\ UNCHANGED <<log, commitIndex, up, settled>>
  BY DEF Pass, AtEntry, Record, Resting
<1>2. th[t].last <= commitIndex /\ th[t] \in Fields /\ commitIndex \in Nat
  BY <1>1, LocalsFacts DEF LedgerInv, Bounded, At, TypeInv, Memory
<1>3. i \in DOMAIN log \ applied /\ i <= commitIndex
  BY <1>1, <1>2, OrderFacts DEF TypeInv, Memory, Fields
<1>4. up /\ settled = disk.rows
  BY <1>1, Alone, PassStep
<1>5. \/ Undecided(log, i)
      \/ Local(i, "payer") /\ Short(settled, i) /\ settled # Torn
  BY <1>4 DEF Pass, BalanceRead, Covered, Readable
<1>6. /\ Atomic!Undecided(log, i) = Undecided(log, i)
      /\ Atomic!Local(i, "payer") = Local(i, "payer")
      /\ Atomic!Short(settled, i) = Short(settled, i)
  BY SameShard DEF Side
<1> QED
  BY <1>1, <1>3, <1>4, <1>5, <1>6 DEF Atomic!Apply

LEMMA NoteSimulates ==
    ASSUME Served, TypeInv, LedgerInv, NEW t \in Thread, Note(t)
    PROVE  \E i \in Index : Atomic!Apply(i)
<1> DEFINE i == Entry(t)
<1>1. /\ Exec(t) /\ applied' = applied \cup {i} /\ th[t].pc = "note"
      /\ UNCHANGED <<log, commitIndex, up>> /\ settled' = disk.rows
  BY DEF Note, Record, Exec, At, Entry
<1>2. /\ Allowed(t) /\ Progress(t) /\ Bounded(t) /\ i \in Index /\ up
      /\ th[t] \in Fields /\ commitIndex \in Nat
  BY <1>1, ExecFacts, Alone DEF TypeInv, Memory
<1>3. i \in DOMAIN log \ applied /\ i <= commitIndex
  BY <1>1, <1>2 DEF Allowed, Bounded, Entry, Fields
<1>4. /\ ~Undecided(log, i) /\ settled # Torn
      /\ ~(Local(i, "payer") /\ Short(settled, i))
      /\ settled' = Moved(Moved(settled, i, "payer"), i, "payee")
  BY <1>1, <1>2 DEF Allowed, Progress, At, Entry, After
<1> HIDE DEF i
<1>5. /\ Atomic!Undecided(log, i) = Undecided(log, i)
      /\ Atomic!Local(i, "payer") = Local(i, "payer")
      /\ Atomic!Short(settled, i) = Short(settled, i)
      /\ \A b : /\ Atomic!Moved(b, i, "payer") = Moved(b, i, "payer")
                /\ Atomic!Moved(b, i, "payee") = Moved(b, i, "payee")
  BY <1>2, SameShard DEF Side
<1>6. Atomic!Apply(i)
  BY <1>1, <1>2, <1>3, <1>4, <1>5 DEF Atomic!Apply
<1> QED
  BY <1>2, <1>6

\* The balance file is as it was, unreadable, or what remains of one transfer.
LEMMA CrashSimulates ==
    ASSUME Served, TypeInv, TypeInv', LedgerInv, Crash PROVE Atomic!Crash
<1>1. /\ up /\ settled' = disk.rows
      /\ balance = settled /\ balance' \in {disk.rows, Torn}
  BY DEF Crash, balance
<1>2. log' \in Seq(BOOLEAN) /\ applied' = applied /\ commitIndex' \in Nat
  BY DEF Crash, Startable, AppliedOnDisk, LedgerInv, FilesInv, TypeInv, Memory
<1>3. \/ disk.rows \in {settled, Torn}
      \/ \E i \in Index :
            /\ i \in DOMAIN log \ applied /\ i <= commitIndex /\ ~Undecided(log, i)
            /\ settled # Torn /\ (Local(i, "payer") => ~Short(settled, i))
            /\ disk.rows \in {Moved(settled, i, "payer"),
                              Moved(Moved(settled, i, "payer"), i, "payee")}
  <2>1. CASE \A t \in Thread : ~Exec(t)
    BY <2>1 DEF LedgerInv, FilesInv
  <2>2. ASSUME NEW t \in Thread, Exec(t), disk.rows \notin {settled, Torn}
        PROVE  \E i \in Index :
                 /\ i \in DOMAIN log \ applied /\ i <= commitIndex /\ ~Undecided(log, i)
                 /\ settled # Torn /\ (Local(i, "payer") => ~Short(settled, i))
                 /\ disk.rows \in {Moved(settled, i, "payer"),
                                   Moved(Moved(settled, i, "payer"), i, "payee")}
    <3> DEFINE i == Entry(t)
    <3>1. /\ Allowed(t) /\ Progress(t) /\ Bounded(t) /\ i \in Index
          /\ th[t] \in Fields /\ commitIndex \in Nat
      BY <2>2, ExecFacts DEF TypeInv, Memory
    <3>2. disk.rows = After(settled, i, th[t].left)
      BY <2>2, <3>1 DEF Progress, Bounded
    <3>3. settled # Torn
      BY <2>2, <3>1, <3>2, AfterAll DEF Progress
    <3>4. i \in DOMAIN log \ applied /\ i <= commitIndex /\ ~Undecided(log, i)
          /\ (Local(i, "payer") => ~Short(settled, i))
      BY <2>2, <3>1 DEF Allowed, Bounded, Entry, Fields
    <3>5. disk.rows \in {Moved(settled, i, "payer"),
                         Moved(Moved(settled, i, "payer"), i, "payee")}
      BY <2>2, <3>2 DEF After
    <3> QED
      BY <3>1, <3>3, <3>4, <3>5
  <2> QED
    BY <2>1, <2>2
<1>4. CASE disk.rows \in {settled, Torn}
  <2>1. balance' \in {balance, Torn}
    BY <1>1, <1>4
  <2> QED
    BY <1>2, <2>1 DEF Atomic!Crash, balance
<1>5. ASSUME NEW i \in Index, i \in DOMAIN log \ applied, i <= commitIndex,
             ~Undecided(log, i), settled # Torn,
             Local(i, "payer") => ~Short(settled, i),
             disk.rows \in {Moved(settled, i, "payer"),
                            Moved(Moved(settled, i, "payer"), i, "payee")}
      PROVE  Atomic!Crash
  <2>1. /\ Atomic!Undecided(log, i) = Undecided(log, i)
        /\ Atomic!Local(i, "payer") = Local(i, "payer")
        /\ Atomic!Short(settled, i) = Short(settled, i)
        /\ \A b : /\ Atomic!Moved(b, i, "payer") = Moved(b, i, "payer")
                  /\ Atomic!Moved(b, i, "payee") = Moved(b, i, "payee")
    BY SameShard DEF Side
  <2>2. CASE balance' = Torn
    BY <1>2, <2>2 DEF Atomic!Crash, balance
  <2>3. CASE balance' = disk.rows
    <3>1. disk.rows \in Atomic!Remains(i)
      BY <1>1, <1>5, <2>1 DEF Atomic!Remains, balance
    <3> QED
      BY <1>1, <1>2, <1>5, <2>1, <2>3, <3>1 DEF Atomic!Crash, balance
  <2> QED
    BY <1>1, <2>2, <2>3
<1> QED
  BY <1>3, <1>4, <1>5

LEMMA Simulation ==
    ASSUME Served, TypeInv, TypeInv', LedgerInv, [Next]_vars
    PROVE  [Atomic!Next]_(Atomic!vars)
<1>1. CASE UNCHANGED vars
  BY <1>1 DEF vars, memory, history, Atomic!vars
<1>2. CASE UNCHANGED <<applied, settled, up>>
  BY <1>2, Replicating DEF Atomic!Next
<1>3. CASE Crash
  BY <1>3, CrashSimulates DEF Atomic!Next
<1>4. ASSUME NEW t \in Thread, Note(t) \/ \E i \in Index : Pass(t, i)
      PROVE  Atomic!Next
  <2>1. \E i \in Index : Atomic!Apply(i)
    BY <1>4, PassSimulates, NoteSimulates
  <2>2. \A i : Atomic!Apply(i) => i \in DOMAIN log
    BY DEF Atomic!Apply
  <2> QED
    BY <2>1, <2>2 DEF Atomic!Next
<1>5. \/ UNCHANGED vars
      \/ UNCHANGED <<applied, settled, up>>
      \/ Crash
      \/ \E t \in Thread : Note(t) \/ \E i \in Index : Pass(t, i)
  <2> DEFINE quiet == UNCHANGED <<applied, settled, up>>
  <2>1. Request \/ Receive \/ AppendEntry \/ FollowCommit => quiet
    BY DEF Request, Receive, AppendEntry, FollowCommit, history
  <2>2. Decide \/ ApplyDecision => quiet
    BY DEF Decide, ApplyDecision, memory, history
  <2>3. ASSUME NEW t \in Thread PROVE Lead(t) \/ Open(t) \/ Put(t) => quiet
    BY DEF Lead, Open, Put, memory, history
  <2>4. ASSUME NEW t \in Thread, NEW i \in Index
        PROVE  Skip(t, i) \/ Check(t, i) => quiet
    BY DEF Skip, Check, memory, history
  <2>5. ASSUME NEW t \in Thread
        PROVE  GetBalance(t) \/ ReadRows(t) \/ StoreIndices(t) \/ Finish(t) => quiet
    BY DEF GetBalance, ReadRows, StoreIndices, Finish, memory, history
  <2> HIDE DEF quiet
  <2>6. \A t \in Thread :
            Apply(t) => quiet \/ Note(t) \/ \E i \in Index : Pass(t, i)
    BY <2>4, <2>5 DEF Apply
  <2>7. [Next]_vars => \/ UNCHANGED vars \/ quiet \/ Crash
                       \/ \E t \in Thread : Note(t) \/ \E i \in Index : Pass(t, i)
    BY <2>1, <2>2, <2>3, <2>6 DEF Next
  <2> QED
    BY <2>7 DEF quiet
<1> QED
  BY <1>1, <1>2, <1>3, <1>4, <1>5

\* The files implement the state machine that applies entries one at a time and
\* whole (server.py:740-811, shard_manager.py:60-120), whatever the log and
\* however often the process crashes.
THEOREM ImplementsLedgerHolds == ASSUME Served PROVE Spec => ImplementsLedger
<1>1. Init => TypeInv /\ DoneInv /\ LedgerInv
  BY TypeInit, DoneInit, LedgerInit
<1>2. TypeInv /\ DoneInv /\ LedgerInv /\ [Next]_vars
        => TypeInv' /\ DoneInv' /\ LedgerInv'
  BY TypeStep, DoneStep, LedgerStep
<1>3. Init => Atomic!Init
  BY SameShard DEF Init, Atomic!Init
<1>4. TypeInv /\ TypeInv' /\ LedgerInv /\ [Next]_vars => [Atomic!Next]_(Atomic!vars)
  BY Simulation
<1> QED
  BY <1>1, <1>2, <1>3, <1>4, PTL DEF Spec, ImplementsLedger, Atomic!Spec
=============================================================================
