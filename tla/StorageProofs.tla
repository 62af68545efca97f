---------------------------- MODULE StorageProofs ----------------------------
(***************************************************************************)
(* What holds of the files whatever the threads and the crashes do: for    *)
(* every log, every number of crashes, and threads that overlap or not;    *)
(* and which accounts have a balance, a lock and a cluster.                *)
(***************************************************************************)
EXTENDS Storage, SequenceTheorems, TLAPS

Contents == [entries : Seq(BOOLEAN), commit : Nat, applied : Nat \cup {MissingKey}]

\* The thread with locals r is at p, or will be when it has written a file.
At(r, p) == r.pc = p \/ (r.pc \in {"open", "put"} /\ r.then = p)

Pc == {"idle", "dead", "append", "apply", "scan", "get", "rows", "note", "open", "put"}

Fields ==
    [pc : Pc, at : Nat, last : Nat, upto : Nat, ci : Nat, value : Nat,
     left : SUBSET Side, file : {"rows", "log", "applied"},
     put : Balances \cup Contents \cup {Torn}, then : Pc \ {"rows", "open", "put"}]

\* A balance that is going to be reduced was read and found sufficient; what
\* is going to be written is what the file may hold.
Locals ==
    {r \in Fields :
        /\ r.put # Torn /\ r.file = "rows" => r.put \in Balances
        /\ r.put # Torn /\ r.file = "log" => r.put \in Contents
        /\ At(r, "append") => r.last <= Len(Order)
        /\ At(r, "get") \/ r.pc = "rows" => r.at + 1 \in Index
        /\ r.pc = "rows" /\ "payer" \in r.left =>
              r.value >= Order[r.at + 1].amount
        /\ r.pc = "rows" => r.left # {}}

Files ==
    disk \in [rows : Balances \cup {Torn}, log : Contents \cup {Torn},
              applied : (SUBSET Nat) \cup {Torn}]

Memory ==
    /\ log \in Seq(BOOLEAN)
    /\ commitIndex \in Nat /\ lastApplied \in Nat
    /\ applied \subseteq Nat

TypeInv == Files /\ Memory /\ th \in [Thread -> Locals]

-----------------------------------------------------------------------------
\* Facts about the transfers and about the pieces handlers are made of.

LEMMA OrderFacts ==
    ASSUME NEW i \in Index
    PROVE  /\ Order[i].payer \in Issued /\ Order[i].payee \in Issued
           /\ Order[i].amount \in Nat /\ Order[i].commit \in BOOLEAN
           /\ i \in Nat /\ i >= 1 /\ i <= Len(Order)
<1>1. i \in 1..Len(Order) /\ Len(Order) \in Nat
  BY OrderType DEF Index
<1>2. Order[i] \in [payer : Issued, payee : Issued, amount : Nat, commit : BOOLEAN]
  BY <1>1, OrderType, ElementOfSeq
<1> QED
  BY <1>1, <1>2

\* An account with a row is one of the cluster.
LEMMA HeldIsLocal ==
    ASSUME NEW a \in Held PROVE IsAccountInCluster(Cluster, a)
<1>1. Cluster = 1 \/ Cluster = 2 \/ Cluster = 3
  BY ClusterType
<1>2. a \in AccountOffset(Cluster) .. AccountOffset(Cluster) + 999
  BY DEF Held, Rows
<1>3. CASE Cluster = 1
  BY <1>2, <1>3 DEF AccountOffset, IsAccountInCluster
<1>4. CASE Cluster = 2
  BY <1>2, <1>4 DEF AccountOffset, IsAccountInCluster
<1>5. CASE Cluster = 3
  BY <1>2, <1>5 DEF AccountOffset, IsAccountInCluster
<1> QED
  BY <1>1, <1>3, <1>4, <1>5

LEMMA IdleOK == Idle \in Locals /\ Dead \in Locals
BY DEF Idle, Dead, Locals, Fields, Pc, At

LEMMA BecomesOK ==
    ASSUME th \in [Thread -> Locals], NEW t \in Thread, NEW r \in Locals,
           Becomes(t, r)
    PROVE  th' \in [Thread -> Locals]
BY DEF Becomes

\* A save from locals that are sound, to a place that asks for nothing more.
LEMMA SavingLogOK ==
    ASSUME NEW r \in Locals, NEW c, disk.log # Torn => c \in Contents,
           NEW p \in {"idle", "append", "apply", "note"},
           p = "append" => r.last <= Len(Order)
    PROVE  SavingLog(r, c, p) \in Locals
<1>1. CASE disk.log = Torn
  BY <1>1, IdleOK DEF SavingLog
<1>2. CASE disk.log # Torn
  BY <1>2 DEF SavingLog, Saving, Locals, Fields, Pc, At
<1> QED
  BY <1>1, <1>2

LEMMA ApplyingOK ==
    ASSUME NEW r \in Locals, NEW n \in Nat, lastApplied \in Nat
    PROVE  Applying(r, n) \in Locals
<1> DEFINE q == Applying(r, n)
<1>1. /\ q.pc = "scan" /\ q.put = r.put /\ q.file = r.file
      /\ q \in Fields
  BY DEF Applying, Locals, Fields, Pc
<1> QED
  BY <1>1 DEF Locals, At

LEMMA ReadLog ==
    ASSUME Files, disk.log # Torn
    PROVE  /\ disk.log.entries \in Seq(BOOLEAN)
           /\ \A es \in Seq(BOOLEAN) : WithEntries(es) \in Contents
           /\ \A n \in Nat, i \in Nat : WithIndices(n, i) \in Contents
BY DEF Files, Contents, WithEntries, WithIndices

LEMMA Truncated ==
    ASSUME NEW s \in Seq(BOOLEAN), NEW k \in Nat, k <= Len(s)
    PROVE  SubSeq(s, 1, k) \in Seq(BOOLEAN)
<1>1. \A i \in 1..k : s[i] \in BOOLEAN
  BY ElementOfSeq
<1> QED
  BY <1>1, SubSeqProperties

LEMMA TypeInit == Init => TypeInv
<1> SUFFICES ASSUME Init PROVE TypeInv
  OBVIOUS
<1>1. disk.rows \in Balances
  BY BalanceType DEF Init, Balances
<1>2. disk.log \in Contents
  BY DEF Init, Contents
<1> QED
  BY <1>1, <1>2, IdleOK DEF Init, TypeInv, Files, Memory

-----------------------------------------------------------------------------
\* One lemma per group of actions.

LEMMA RequestTyped == ASSUME TypeInv, Request PROVE TypeInv'
<1>1. log' \in Seq(BOOLEAN)
  BY AppendProperties DEF Request, TypeInv, Memory
<1>2. SavingLog(Idle, WithEntries(Append(disk.log.entries, FALSE)), "idle") \in Locals
  BY IdleOK, ReadLog, SavingLogOK, AppendProperties DEF TypeInv
<1>3. th' \in [Thread -> Locals]
  BY <1>2, IdleOK, BecomesOK DEF Request, TypeInv, Thread
<1> QED
  BY <1>1, <1>3 DEF Request, TypeInv, Files, Memory

LEMMA LeadTyped == ASSUME TypeInv, NEW t \in Thread, Lead(t) PROVE TypeInv'
<1> PICK n \in commitIndex + 1 .. Len(log) :
         /\ commitIndex' = n
         /\ Becomes(t, IF ~Cross(n) THEN Applying(Idle, n)
                       ELSE IF Local(n, "payer") => Readable(Order[n].payer)
                       THEN Idle ELSE Dead)
  BY DEF Lead
<1>1. n \in Nat
  BY DEF TypeInv, Memory
<1>2. Applying(Idle, n) \in Locals
  BY <1>1, IdleOK, ApplyingOK DEF TypeInv, Memory
<1>3. th' \in [Thread -> Locals]
  BY <1>2, IdleOK, BecomesOK DEF TypeInv
<1> QED
  BY <1>1, <1>3 DEF Lead, TypeInv, Files, Memory

LEMMA ReceiveTyped == ASSUME TypeInv, Receive PROVE TypeInv'
<1> PICK k \in 0..Len(log) :
       \E m \in k .. Least(k + MaxEntries, Len(Order)) : \E c \in 0..Len(Order) :
          ReceiveFrom(k, m, c)
  BY DEF Receive
<1> PICK m \in k .. Least(k + MaxEntries, Len(Order)) :
       \E c \in 0..Len(Order) : ReceiveFrom(k, m, c)
  OBVIOUS
<1> PICK c \in 0..Len(Order) : ReceiveFrom(k, m, c)
  OBVIOUS
<1> DEFINE r == [Idle EXCEPT !.at = k, !.last = m, !.ci = c]
<1>1. /\ k \in Nat /\ m \in Nat /\ c \in Nat /\ Len(Order) \in Nat
      /\ k <= Len(log)
  BY OrderType, BoundsType DEF TypeInv, Memory, Least
<1>2. m <= Len(Order)
  BY <1>1, BoundsType DEF Least
<1>3. r \in Locals /\ [r EXCEPT !.pc = "append"] \in Locals /\ r.last = m
  BY <1>1, <1>2 DEF Idle, Locals, Fields, Pc, At
<1>4. log' \in Seq(BOOLEAN)
  BY <1>1, Truncated DEF ReceiveFrom, TypeInv, Memory
<1> DEFINE kept == WithEntries(SubSeq(disk.log.entries, 1, k))
           q == SavingLog(r, kept, "append")
           direct == disk.log # Torn /\ k >= Len(disk.log.entries)
<1>5. ~direct => q \in Locals
  <2>1. ASSUME disk.log # Torn, ~direct PROVE kept \in Contents
    <3>1. disk.log.entries \in Seq(BOOLEAN) /\ k <= Len(disk.log.entries)
      BY <1>1, <2>1, ReadLog DEF TypeInv
    <3> QED
      BY <1>1, <2>1, <3>1, ReadLog, Truncated DEF TypeInv
  <2> QED
    BY <1>2, <1>3, <2>1, SavingLogOK
<1>6. \/ Becomes("listener", [r EXCEPT !.pc = "append"])
      \/ ~direct /\ Becomes("listener", q)
  <2>1. CASE k < m /\ k < Len(log) /\ ~direct
    BY <2>1 DEF ReceiveFrom
  <2>2. CASE ~(k < m /\ k < Len(log) /\ ~direct)
    BY <2>2 DEF ReceiveFrom
  <2> QED
    BY <2>1, <2>2
<1>7. th' \in [Thread -> Locals]
  BY <1>3, <1>5, <1>6, BecomesOK DEF Thread, TypeInv
<1> QED
  BY <1>4, <1>7 DEF Receive, TypeInv, Files, Memory

\* What the listener reads from its locals.
LEMMA LocalsFacts ==
    ASSUME TypeInv, NEW t \in Thread
    PROVE  /\ th[t] \in Locals /\ th[t] \in Fields
           /\ At(th[t], "append") => th[t].last <= Len(Order)
           /\ At(th[t], "get") \/ th[t].pc = "rows" => th[t].at + 1 \in Index
BY DEF TypeInv, Locals

LEMMA AppendEntryTyped == ASSUME TypeInv, AppendEntry PROVE TypeInv'
<1> DEFINE r == th["listener"]
           i == r.at + 1
<1> PICK flag \in {FALSE, Cross(i) /\ Order[i].commit} :
       /\ log' = Append(log, flag)
       /\ Becomes("listener",
            SavingLog([r EXCEPT !.at = i],
                      WithEntries(Append(disk.log.entries, flag)), "append"))
  BY DEF AppendEntry
<1>1. r \in Locals /\ r \in Fields /\ r.pc = "append" /\ r.at < r.last
      /\ r.last <= Len(Order)
  BY LocalsFacts DEF AppendEntry, Thread, At
<1>2. i \in Index /\ i \in Nat
  BY <1>1, OrderType DEF Index, Fields
<1>3. flag \in BOOLEAN
  BY <1>2, OrderFacts DEF Cross
<1>4. log' \in Seq(BOOLEAN)
  BY <1>3, AppendProperties DEF TypeInv, Memory
<1>5. [r EXCEPT !.at = i] \in Locals
  BY <1>1, <1>2 DEF Locals, Fields, At
<1>6. disk.log # Torn => WithEntries(Append(disk.log.entries, flag)) \in Contents
  BY <1>3, ReadLog, AppendProperties DEF TypeInv
<1>7. SavingLog([r EXCEPT !.at = i], WithEntries(Append(disk.log.entries, flag)),
                "append") \in Locals
  BY <1>1, <1>5, <1>6, SavingLogOK DEF Fields
<1>8. th' \in [Thread -> Locals]
  BY <1>7, BecomesOK DEF Thread, TypeInv
<1> QED
  BY <1>4, <1>8 DEF AppendEntry, TypeInv, Files, Memory

LEMMA FollowCommitTyped == ASSUME TypeInv, FollowCommit PROVE TypeInv'
<1> DEFINE r == th["listener"]
           n == IF r.ci > commitIndex THEN Least(r.ci, Len(log)) ELSE commitIndex
<1>1. r.ci \in Nat /\ n \in Nat
  BY LocalsFacts DEF Thread, Fields, TypeInv, Memory, Least
<1>2. Applying(Idle, n) \in Locals
  BY <1>1, IdleOK, ApplyingOK DEF TypeInv, Memory
<1>3. th' \in [Thread -> Locals]
  BY <1>2, IdleOK, BecomesOK DEF FollowCommit, Thread, TypeInv
<1> QED
  BY <1>1, <1>3 DEF FollowCommit, TypeInv, Files, Memory

LEMMA DecideTyped == ASSUME TypeInv, Decide PROVE TypeInv'
<1> DEFINE unknown(i) == i \notin DOMAIN log \/
                         (disk.log # Torn /\ i \notin DOMAIN disk.log.entries)
           marked(i) == WithEntries([disk.log.entries EXCEPT ![i] = Order[i].commit])
<1> PICK i \in Index \ processed :
       /\ log' = IF i \in DOMAIN log
                 THEN [log EXCEPT ![i] = Order[i].commit] ELSE log
       /\ Becomes("listener", IF unknown(i) THEN [Idle EXCEPT !.pc = "apply"]
                              ELSE SavingLog(Idle, marked(i), "apply"))
  BY DEF Decide
<1>1. Order[i].commit \in BOOLEAN
  BY OrderFacts
<1>2. log' \in Seq(BOOLEAN)
  BY <1>1, ExceptSeq DEF TypeInv, Memory
<1>3. ~unknown(i) /\ disk.log # Torn => marked(i) \in Contents
  BY <1>1, ReadLog, ExceptSeq DEF TypeInv
<1>4. ~unknown(i) => SavingLog(Idle, marked(i), "apply") \in Locals
  BY <1>3, IdleOK, SavingLogOK
<1>5. [Idle EXCEPT !.pc = "apply"] \in Locals
  BY DEF Idle, Locals, Fields, Pc, At
<1>6. th' \in [Thread -> Locals]
  <2>1. CASE unknown(i)
    BY <2>1, <1>5, BecomesOK DEF Thread, TypeInv
  <2>2. CASE ~unknown(i)
    BY <2>2, <1>4, BecomesOK DEF Thread, TypeInv
  <2> QED
    BY <2>1, <2>2
<1> QED
  BY <1>2, <1>6 DEF Decide, TypeInv, Files, Memory

LEMMA ApplyDecisionTyped == ASSUME TypeInv, ApplyDecision PROVE TypeInv'
<1>1. Applying(th["listener"], commitIndex) \in Locals
  BY LocalsFacts, ApplyingOK DEF TypeInv, Memory, Thread
<1>2. th' \in [Thread -> Locals]
  BY <1>1, BecomesOK DEF ApplyDecision, Thread, TypeInv
<1> QED
  BY <1>2 DEF ApplyDecision, memory, TypeInv, Files, Memory

LEMMA OpenTyped == ASSUME TypeInv, NEW t \in Thread, Open(t) PROVE TypeInv'
<1>1. [th[t] EXCEPT !.pc = "put"] \in Locals
  BY LocalsFacts DEF Open, Locals, Fields, Pc, At
<1>2. th' \in [Thread -> Locals]
  BY <1>1, BecomesOK DEF Open, TypeInv
<1>3. Files'
  BY LocalsFacts DEF Open, TypeInv, Files, Fields
<1> QED
  BY <1>2, <1>3 DEF Open, memory, TypeInv, Memory

\* A file gets what its writer held, or is left unreadable by two writers.
LEMMA PutTyped == ASSUME TypeInv, NEW t \in Thread, Put(t) PROVE TypeInv'
<1> DEFINE r == th[t]
           f == SideOf(r)
           content == IF r.file = "applied" THEN applied ELSE r.put
           next == [r EXCEPT !.pc = r.then, !.put = Torn,
                      !.left = IF r.file = "rows" THEN @ \ {f} ELSE @]
<1>1. r \in Locals /\ r \in Fields /\ r.pc = "put"
  BY LocalsFacts DEF Put
<1>2. Files'
  <2> PICK w \in Written(r.file, content) : disk' = [disk EXCEPT ![r.file] = w]
    BY DEF Put
  <2>1. w \in {content, Torn}
    BY DEF Written
  <2>2. CASE r.file = "rows"
    <3>1. w \in Balances \cup {Torn}
      BY <1>1, <2>1, <2>2 DEF Locals
    <3> QED
      BY <2>2, <3>1 DEF TypeInv, Files
  <2>3. CASE r.file = "log"
    <3>1. w \in Contents \cup {Torn}
      BY <1>1, <2>1, <2>3 DEF Locals
    <3> QED
      BY <2>3, <3>1 DEF TypeInv, Files
  <2>4. CASE r.file = "applied"
    <3>1. w \in (SUBSET Nat) \cup {Torn}
      BY <2>1, <2>4 DEF TypeInv, Memory
    <3> QED
      BY <2>4, <3>1 DEF TypeInv, Files
  <2> QED
    BY <1>1, <2>2, <2>3, <2>4 DEF Fields
<1>3. next \in Locals
  BY <1>1 DEF Locals, Fields, Pc, At
<1>4. Becomes(t, IF r.then = "idle" THEN Idle ELSE next)
  BY DEF Put
<1>5. th' \in [Thread -> Locals]
  BY <1>3, <1>4, IdleOK, BecomesOK DEF TypeInv
<1> QED
  BY <1>2, <1>5 DEF Put, memory, TypeInv, Memory

LEMMA TurnedOK ==
    ASSUME NEW r \in Locals, r.pc = "scan", NEW i \in Nat
    PROVE  Turned(r, i) \in Locals
BY DEF Turned, Locals, Fields, At

LEMMA RecordTyped ==
    ASSUME TypeInv, NEW t \in Thread, NEW i \in Nat, Record(t, i)
    PROVE  TypeInv'
<1> DEFINE q == [Saving(Turned(th[t], i), "applied", Torn, "scan")
                   EXCEPT !.pc = "put"]
<1>1. q \in Fields /\ q.pc = "put" /\ q.then = "scan" /\ q.put = Torn
  BY LocalsFacts DEF Saving, Turned, Fields, Pc
<1> HIDE DEF q
<1>0. q \in Locals
  BY <1>1 DEF Locals, At
<1> USE DEF q
<1>2. th' \in [Thread -> Locals]
  BY <1>0, BecomesOK DEF Record, TypeInv
<1>3. Files'
  BY DEF Record, TypeInv, Files
<1>4. Memory'
  BY DEF Record, TypeInv, Memory
<1> QED
  BY <1>2, <1>3, <1>4 DEF TypeInv

LEMMA ScanTyped ==
    ASSUME TypeInv, NEW t \in Thread, NEW i \in Index,
           Skip(t, i) \/ Pass(t, i) \/ Check(t, i)
    PROVE  TypeInv'
<1>0. i \in Nat /\ th[t] \in Locals /\ th[t] \in Fields
  BY OrderFacts, LocalsFacts
<1>1. CASE Skip(t, i)
  BY <1>0, <1>1, TurnedOK, BecomesOK DEF Skip, AtEntry, memory, TypeInv, Files, Memory
<1>2. CASE Pass(t, i)
  BY <1>0, <1>2, RecordTyped DEF Pass
<1>3. CASE Check(t, i)
  <2> DEFINE q == [th[t] EXCEPT !.pc = "get", !.left = Sides(i), !.ci = commitIndex]
  <2>1. q \in Locals
    BY <1>0, <1>3 DEF Check, AtEntry, Sides, TypeInv, Memory, Locals, Fields, Pc, At
  <2>2. th' \in [Thread -> Locals]
    BY <1>3, <2>1, IdleOK, BecomesOK DEF Check, TypeInv
  <2> QED
    BY <1>3, <2>2 DEF Check, memory, TypeInv, Files, Memory
<1> QED
  BY <1>1, <1>2, <1>3

\* A balance that was read and found sufficient for the debit.
LEMMA GetBalanceTyped ==
    ASSUME TypeInv, NEW t \in Thread, GetBalance(t)
    PROVE  TypeInv'
<1> DEFINE r == th[t]
           i == r.at + 1
           a == Order[i][SideOf(r)]
           q == [r EXCEPT !.pc = "rows", !.value = disk.rows[a]]
<1>1. r \in Locals /\ r \in Fields /\ i \in Index /\ r.left # {}
  BY LocalsFacts DEF GetBalance, At
<1>2. ASSUME Readable(a), "payer" \in r.left => Covered(i) PROVE q \in Locals
  <2>1. disk.rows \in Balances /\ disk.rows[a] \in Nat
    BY <1>2 DEF TypeInv, Files, Readable, Balances
  <2>2. ASSUME "payer" \in r.left PROVE disk.rows[a] >= Order[i].amount
    <3>1. a = Order[i].payer
      BY <2>2 DEF SideOf
    <3>2. Local(i, "payer")
      BY <1>2, <3>1, HeldIsLocal DEF Readable, Local
    <3> QED
      BY <1>1, <1>2, <2>1, <2>2, <3>1, <3>2, OrderFacts DEF Covered, Short
  <2>3. /\ q \in Fields /\ q.pc = "rows" /\ q.put = r.put /\ q.file = r.file
        /\ q.at = r.at /\ q.left = r.left /\ q.value = disk.rows[a]
    BY <1>1, <2>1 DEF Fields, Pc
  <2> HIDE DEF q
  <2> QED
    BY <1>1, <2>2, <2>3 DEF Locals, At
<1>3. th' \in [Thread -> Locals]
  BY <1>2, IdleOK, BecomesOK DEF GetBalance, TypeInv
<1> QED
  BY <1>3 DEF GetBalance, memory, TypeInv, Files, Memory

\* All rows but one are copied, and that one does not become negative.
LEMMA ReadRowsTyped ==
    ASSUME TypeInv, NEW t \in Thread, ReadRows(t)
    PROVE  TypeInv'
<1> DEFINE r == th[t]
           i == r.at + 1
           a == Order[i][SideOf(r)]
           rows == [disk.rows EXCEPT ![a] = NewBalance(r)]
           q == Saving([r EXCEPT !.value = 0], "rows", rows, "get")
<1>1. r \in Locals /\ r \in Fields /\ i \in Index /\ r.pc = "rows" /\ r.left # {}
  BY LocalsFacts DEF ReadRows, Locals
<1>2. ASSUME Readable(a) PROVE q \in Locals
  <2>1. NewBalance(r) \in Nat
    BY <1>1, OrderFacts DEF NewBalance, SideOf, Locals, Fields
  <2>2. rows \in Balances
    BY <1>2, <2>1 DEF TypeInv, Files, Readable, Balances
  <2> QED
    BY <1>1, <2>2 DEF Saving, Locals, Fields, Pc, At
<1>3. th' \in [Thread -> Locals]
  BY <1>2, IdleOK, BecomesOK DEF ReadRows, TypeInv
<1> QED
  BY <1>3 DEF ReadRows, memory, TypeInv, Files, Memory

LEMMA StoreIndicesTyped ==
    ASSUME TypeInv, NEW t \in Thread, StoreIndices(t)
    PROVE  TypeInv'
<1> DEFINE r == th[t]
           c == WithIndices(r.ci, r.at + 1)
<1>1. r \in Locals /\ r \in Fields /\ r.pc = "get"
  BY LocalsFacts DEF StoreIndices
<1>2. [r EXCEPT !.ci = 0] \in Locals
  BY <1>1 DEF Locals, Fields, At
<1>3. disk.log # Torn => c \in Contents
  BY <1>1, ReadLog DEF TypeInv, Fields
<1>4. SavingLog([r EXCEPT !.ci = 0], c, "note") \in Locals
  BY <1>2, <1>3, SavingLogOK
<1>5. th' \in [Thread -> Locals]
  BY <1>4, BecomesOK DEF StoreIndices, TypeInv
<1> QED
  BY <1>5 DEF StoreIndices, memory, TypeInv, Files, Memory

LEMMA FinishTyped == ASSUME TypeInv, NEW t \in Thread, Finish(t) PROVE TypeInv'
<1> DEFINE r == th[t]
           c == WithIndices(commitIndex, r.upto)
<1>1. r \in Fields
  BY LocalsFacts
<1>2. disk.log # Torn => c \in Contents
  BY <1>1, ReadLog DEF TypeInv, Memory, Fields
<1>3. SavingLog(Idle, c, "idle") \in Locals
  BY <1>2, IdleOK, SavingLogOK
<1>4. th' \in [Thread -> Locals]
  BY <1>3, IdleOK, BecomesOK DEF Finish, TypeInv
<1>5. lastApplied' \in Nat
  BY <1>1 DEF Finish, TypeInv, Memory, Fields
<1> QED
  BY <1>4, <1>5 DEF Finish, TypeInv, Files, Memory

LEMMA CrashTyped == ASSUME TypeInv, Crash PROVE TypeInv'
<1>1. th' \in [Thread -> Locals]
  BY IdleOK DEF Crash
<1>2. Memory'
  <2>1. CASE ~up'
    BY <2>1 DEF Crash, TypeInv, Memory
  <2>2. CASE up'
    <3>1. PICK theirs \in LastListed :
             /\ Startable(theirs)
             /\ log' = disk.log.entries /\ commitIndex' = disk.log.commit
             /\ lastApplied' = IF theirs = MissingKey THEN disk.log.commit
                               ELSE theirs
             /\ applied' = AppliedOnDisk
      BY <2>2 DEF Crash
    <3>2. disk.log \in Contents /\ disk.applied \in SUBSET Nat
      BY <3>1 DEF Startable, TypeInv, Files
    <3>3. log' \in Seq(BOOLEAN) /\ commitIndex' \in Nat
      BY <3>1, <3>2 DEF Contents
    <3>4. lastApplied' \in Nat
      BY <3>1, <3>2, LastListedType DEF Contents, Startable
    <3>5. applied' \subseteq Nat
      BY <3>1, <3>2 DEF AppliedOnDisk
    <3> QED
      BY <3>3, <3>4, <3>5 DEF Memory
  <2> QED
    BY <2>1, <2>2 DEF Crash, Startable
<1> QED
  BY <1>1, <1>2 DEF Crash, TypeInv, Files

LEMMA TypeStep == ASSUME TypeInv, [Next]_vars PROVE TypeInv'
<1>1. ASSUME NEW t \in Thread, Apply(t) PROVE TypeInv'
  <2>1. ASSUME Note(t) PROVE TypeInv'
    <3>1. th[t].at + 1 \in Nat
      BY LocalsFacts DEF Fields
    <3> QED
      BY <2>1, <3>1, RecordTyped DEF Note
  <2> QED
    BY <1>1, <2>1, ScanTyped, GetBalanceTyped, ReadRowsTyped, StoreIndicesTyped,
       FinishTyped DEF Apply
<1>2. CASE UNCHANGED vars
  BY <1>2 DEF vars, memory, TypeInv, Files, Memory
<1> QED
  BY <1>1, <1>2, RequestTyped, ReceiveTyped, AppendEntryTyped, FollowCommitTyped,
     DecideTyped, ApplyDecisionTyped, LeadTyped, OpenTyped, PutTyped, CrashTyped
     DEF Next

\* No account is ever overdrawn (server.py:792-801, shard_manager.py:107),
\* although a balance is written from one that was read two steps before.
THEOREM TypeCorrect == Spec => []TypeOK
<1>1. TypeInv => TypeOK
  BY DEF TypeInv, Files, Memory, TypeOK, Locals
<1>2. Init => TypeInv
  BY TypeInit
<1>3. TypeInv /\ [Next]_vars => TypeInv'
  BY TypeStep
<1> QED
  BY <1>1, <1>2, <1>3, PTL DEF Spec

-----------------------------------------------------------------------------
(* What counts as applied was done, however the threads and crashes fall. *)

\* What thread locals r promise when m counts the writes: the sides no longer
\* in left are written, and all are when the entry is about to be recorded.
Doing(r, m) ==
    /\ r.pc \in {"open", "put"} /\ r.file = "rows" => r.then = "get"
    /\ At(r, "note") => r.at + 1 \in Index
    /\ At(r, "get") \/ r.pc = "rows" =>
          \A f \in Sides(r.at + 1) \ r.left : m[r.at + 1][f] > 0
    /\ At(r, "note") => \A f \in Sides(r.at + 1) : m[r.at + 1][f] > 0

Recorded(is) == \A i \in is : i \in Index /\ Finished(i)

DoneInv ==
    /\ moved \in [Index -> [Side -> Nat]]
    /\ Recorded(applied)
    /\ disk.applied # Torn => Recorded(disk.applied)
    /\ \A t \in Thread : Doing(th[t], moved)

\* Locals of a thread that is not inside execute_transaction.
Outside(r) ==
    /\ ~At(r, "get") /\ ~At(r, "note") /\ r.pc # "rows"
    /\ r.pc \in {"open", "put"} => r.file # "rows"

LEMMA OutsideOK == ASSUME NEW r, NEW m, Outside(r) PROVE Doing(r, m)
BY DEF Outside, Doing

LEMMA IdleOutside == Outside(Idle) /\ Outside(Dead)
BY DEF Outside, Idle, Dead, At

LEMMA SavingLogOutside ==
    ASSUME NEW r \in Fields, NEW c, NEW p \in {"idle", "append", "apply"}
    PROVE  Outside(SavingLog(r, c, p))
<1>1. CASE disk.log = Torn
  BY <1>1, IdleOutside DEF SavingLog
<1>2. CASE disk.log # Torn
  BY <1>2 DEF SavingLog, Saving, Fields, Outside, At
<1> QED
  BY <1>1, <1>2

LEMMA ApplyingOutside ==
    ASSUME NEW r \in Fields, NEW n PROVE Outside(Applying(r, n))
BY DEF Applying, Fields, Outside, At

-----------------------------------------------------------------------------
\* A step that writes no row.

\* The history of writes and the record of them stay; one thread moves.
LEMMA OneMoves ==
    ASSUME TypeInv, DoneInv, NEW t \in Thread, NEW q, Becomes(t, q),
           Doing(q, moved), UNCHANGED moved, passed \subseteq passed',
           applied' = applied, disk'.applied \in {disk.applied, Torn}
    PROVE  DoneInv'
<1>1. \A u \in Thread : th'[u] = IF u = t THEN q ELSE th[u]
  BY DEF Becomes, TypeInv
<1>2. \A u \in Thread : Doing(th'[u], moved')
  BY <1>1 DEF DoneInv
<1>3. \A i : Finished(i) => Finished(i)'
  BY DEF Finished
<1> QED
  BY <1>2, <1>3 DEF DoneInv, Recorded

\* Entry i, which is finished, is recorded.
LEMMA RecordDone ==
    ASSUME TypeInv, DoneInv, NEW t \in Thread, NEW i \in Index, Record(t, i),
           UNCHANGED moved, passed \subseteq passed', Finished(i)'
    PROVE  DoneInv'
<1> DEFINE q == [Saving(Turned(th[t], i), "applied", Torn, "scan")
                   EXCEPT !.pc = "put"]
<1>1. Outside(q)
  BY LocalsFacts DEF Saving, Turned, Fields, Outside, At
<1>2. \A u \in Thread : th'[u] = IF u = t THEN q ELSE th[u]
  BY DEF Record, Becomes, TypeInv
<1> HIDE DEF q
<1>3. \A u \in Thread : Doing(th'[u], moved')
  BY <1>1, <1>2, OutsideOK DEF DoneInv
<1>4. \A j : Finished(j) => Finished(j)'
  BY DEF Finished
<1>5. disk'.applied = Torn
  BY DEF Record, TypeInv, Files
<1>6. Recorded(applied)'
  BY <1>4 DEF Record, DoneInv, Recorded
<1> QED
  BY <1>3, <1>5, <1>6 DEF DoneInv

-----------------------------------------------------------------------------
\* The step that writes a row, and the actions that write none.

LEMMA PutDone ==
    ASSUME TypeInv, DoneInv, NEW t \in Thread, Put(t) PROVE DoneInv'
<1> DEFINE r == th[t]
           i == r.at + 1
           f == SideOf(r)
           content == IF r.file = "applied" THEN applied ELSE r.put
           next == [r EXCEPT !.pc = r.then, !.put = Torn,
                      !.left = IF r.file = "rows" THEN @ \ {f} ELSE @]
           q == IF r.then = "idle" THEN Idle ELSE next
<1>1. r \in Fields /\ r.pc = "put" /\ f \in Side /\ Doing(r, moved)
  BY LocalsFacts DEF Put, SideOf, Side, DoneInv
<1>2. r.file = "rows" => r.then = "get" /\ i \in Index
  BY <1>1, LocalsFacts DEF Doing, At
<1>3. /\ moved' \in [Index -> [Side -> Nat]]
      /\ \A j \in Index, g \in Side : moved'[j][g] >= moved[j][g]
      /\ r.file = "rows" => moved'[i][f] > 0
  BY <1>1, <1>2 DEF Put, DoneInv
<1>4. \A j \in Index : Finished(j) => Finished(j)'
  BY <1>3 DEF Finished, Sides, Put, DoneInv
<1>5. disk'.applied \in {disk.applied, applied, Torn}
  BY <1>1 DEF Put, Written, TypeInv, Files, Fields
<1>6. \A u \in Thread : th'[u] = IF u = t THEN q ELSE th[u]
  BY DEF Put, Becomes, TypeInv
<1>7. Doing(q, moved')
  <2>1. CASE r.then = "idle"
    BY <2>1, IdleOutside, OutsideOK
  <2>2. CASE r.then # "idle"
    <3>1. /\ next.pc = r.then /\ next.at = r.at
          /\ next.left = IF r.file = "rows" THEN r.left \ {f} ELSE r.left
          /\ r.then \in Pc \ {"rows", "open", "put"}
      BY <1>1 DEF Fields
    <3>2. At(r, r.then)
      BY <1>1 DEF At
    <3> HIDE DEF next
    <3>3. ASSUME r.then = "get", NEW g \in Sides(i) \ next.left
          PROVE  moved'[i][g] > 0
      <4>1. i \in Index /\ g \in Side /\ moved[i] \in [Side -> Nat]
        BY <3>2, <3>3, LocalsFacts DEF Sides, DoneInv
      <4>2. CASE g = f /\ r.file = "rows"
        BY <1>3, <4>2
      <4>3. CASE ~(g = f /\ r.file = "rows")
        <5>1. g \in Sides(i) \ r.left
          BY <3>1, <3>3, <4>3
        <5>2. moved[i][g] > 0
          BY <1>1, <3>2, <3>3, <5>1 DEF Doing
        <5> QED
          BY <1>3, <4>1, <5>2
      <4> QED
        BY <4>2, <4>3
    <3>4. ASSUME r.then = "note"
          PROVE  i \in Index /\ \A g \in Sides(i) : moved'[i][g] > 0
      BY <1>1, <1>3, <3>2, <3>4 DEF Doing, Sides, DoneInv
    <3> QED
      BY <2>2, <3>1, <3>3, <3>4 DEF Doing, At, Pc
  <2> QED
    BY <2>1, <2>2
<1>8. ASSUME NEW u \in Thread, u # t PROVE Doing(th[u], moved')
  <2> DEFINE v == th[u]
             j == v.at + 1
  <2>1. Doing(v, moved)
    BY DEF DoneInv
  <2>2. At(v, "get") \/ v.pc = "rows" \/ At(v, "note") => j \in Index
    BY <2>1, LocalsFacts DEF Doing
  <2>3. ASSUME j \in Index, NEW g \in Sides(j), moved[j][g] > 0
        PROVE  moved'[j][g] > 0
    BY <1>3, <2>3 DEF Sides, DoneInv
  <2> QED
    BY <2>1, <2>2, <2>3 DEF Doing
<1> HIDE DEF q
<1>9. \A u \in Thread : Doing(th'[u], moved')
  BY <1>6, <1>7, <1>8
<1>10. applied' = applied
  BY DEF Put, memory
<1> QED
  BY <1>3, <1>4, <1>5, <1>9, <1>10 DEF DoneInv, Recorded

LEMMA ListenerDone ==
    ASSUME TypeInv, DoneInv,
           Receive \/ AppendEntry \/ FollowCommit \/ Decide \/ ApplyDecision
    PROVE  DoneInv'
<1> DEFINE r == th["listener"]
<1>1. r \in Fields /\ "listener" \in Thread
  BY LocalsFacts DEF Thread
<1>2. ASSUME NEW q, Becomes("listener", q), Outside(q),
             UNCHANGED <<disk, moved, passed, applied>>
      PROVE  DoneInv'
  BY <1>1, <1>2, OutsideOK, OneMoves
<1>3. CASE Receive
  <2> PICK k \in 0..Len(log) :
         \E m \in k .. Least(k + MaxEntries, Len(Order)) : \E c \in 0..Len(Order) :
            ReceiveFrom(k, m, c)
    BY <1>3 DEF Receive
  <2> PICK m \in k .. Least(k + MaxEntries, Len(Order)) :
         \E c \in 0..Len(Order) : ReceiveFrom(k, m, c)
    OBVIOUS
  <2> PICK c \in 0..Len(Order) : ReceiveFrom(k, m, c)
    OBVIOUS
  <2> DEFINE p == [Idle EXCEPT !.at = k, !.last = m, !.ci = c]
             direct == [p EXCEPT !.pc = "append"]
             kept == WithEntries(SubSeq(disk.log.entries, 1, k))
  <2>1. Outside(direct)
    BY DEF Idle, Outside, At
  <2>2. Outside(SavingLog(p, kept, "append"))
    <3>1. CASE disk.log = Torn
      BY <3>1, IdleOutside DEF SavingLog
    <3>2. CASE disk.log # Torn
      BY <3>2 DEF SavingLog, Saving, Idle, Outside, At
    <3> QED
      BY <3>1, <3>2
  <2>3. \/ Becomes("listener", direct)
        \/ Becomes("listener", SavingLog(p, kept, "append"))
    BY DEF ReceiveFrom
  <2> QED
    BY <1>2, <1>3, <2>1, <2>2, <2>3 DEF Receive, history
<1>4. CASE AppendEntry
  <2>1. [r EXCEPT !.at = r.at + 1] \in Fields
    BY <1>1 DEF Fields
  <2> QED
    BY <1>2, <1>4, <2>1, SavingLogOutside DEF AppendEntry, history
<1>5. CASE FollowCommit
  <2>1. Idle \in Fields
    BY IdleOK DEF Locals
  <2> QED
    BY <1>2, <1>5, <2>1, IdleOutside, ApplyingOutside DEF FollowCommit, history
<1>6. CASE Decide
  <2>1. Idle \in Fields
    BY IdleOK DEF Locals
  <2>2. Outside([Idle EXCEPT !.pc = "apply"])
    BY DEF Idle, Outside, At
  <2> QED
    BY <1>2, <1>6, <2>1, <2>2, SavingLogOutside DEF Decide, history
<1>7. CASE ApplyDecision
  BY <1>1, <1>2, <1>7, ApplyingOutside DEF ApplyDecision, memory, history
<1> QED
  BY <1>3, <1>4, <1>5, <1>6, <1>7

LEMMA WorkerDone ==
    ASSUME TypeInv, DoneInv, Request \/ \E t \in Thread : Lead(t) \/ Open(t)
    PROVE  DoneInv'
<1>0. Idle \in Fields
  BY IdleOK DEF Locals
<1>1. CASE Request
  <2>1. Outside(SavingLog(Idle, WithEntries(Append(disk.log.entries, FALSE)), "idle"))
    BY <1>0, SavingLogOutside
  <2> QED
    BY <1>1, <2>1, IdleOutside, OutsideOK, OneMoves DEF Request, Thread, history
<1>2. ASSUME NEW t \in Thread, Lead(t) PROVE DoneInv'
  <2>1. \E q : Becomes(t, q) /\ Outside(q)
    BY <1>0, <1>2, IdleOutside, ApplyingOutside DEF Lead
  <2> QED
    BY <1>2, <2>1, OutsideOK, OneMoves DEF Lead, history
<1>3. ASSUME NEW t \in Thread, Open(t) PROVE DoneInv'
  <2> DEFINE q == [th[t] EXCEPT !.pc = "put"]
  <2>1. Doing(q, moved)
    BY <1>3, LocalsFacts DEF Open, Fields, DoneInv, Doing, At
  <2>2. disk'.applied \in {disk.applied, Torn}
    BY <1>3, LocalsFacts DEF Open, TypeInv, Files, Fields
  <2> QED
    BY <1>3, <2>1, <2>2, OneMoves DEF Open, memory, history
<1> QED
  BY <1>1, <1>2, <1>3

LEMMA ApplyDone ==
    ASSUME TypeInv, DoneInv, NEW t \in Thread, Apply(t)
    PROVE  DoneInv'
<1> DEFINE r == th[t]
           i == r.at + 1
<1>1. r \in Fields /\ Doing(r, moved)
  BY LocalsFacts DEF DoneInv
<1>2. ASSUME NEW q, Becomes(t, q), Doing(q, moved),
             UNCHANGED <<disk, moved, passed, applied>>
      PROVE  DoneInv'
  BY <1>2, OneMoves
<1>3. ASSUME NEW j \in Index, Skip(t, j) PROVE DoneInv'
  <2>1. Outside(Turned(r, j))
    BY <1>1, <1>3 DEF Skip, AtEntry, Turned, Fields, Outside, At
  <2> QED
    BY <1>2, <1>3, <2>1, OutsideOK DEF Skip, memory, history
<1>4. ASSUME NEW j \in Index, Pass(t, j) PROVE DoneInv'
  BY <1>4, RecordDone DEF Pass, Finished
<1>5. ASSUME NEW j \in Index, Check(t, j) PROVE DoneInv'
  <2> DEFINE q == [r EXCEPT !.pc = "get", !.left = Sides(j), !.ci = commitIndex]
  <2>1. Doing(q, moved)
    BY <1>1, <1>5 DEF Check, AtEntry, Fields, Doing, At
  <2> QED
    BY <1>2, <1>5, <2>1, IdleOutside, OutsideOK DEF Check, memory, history
<1>6. CASE GetBalance(t)
  <2> DEFINE q == [r EXCEPT !.pc = "rows",
                     !.value = disk.rows[Order[i][SideOf(r)]]]
  <2>1. Doing(q, moved)
    BY <1>1, <1>6 DEF GetBalance, Fields, Doing, At
  <2> QED
    BY <1>2, <1>6, <2>1, IdleOutside, OutsideOK DEF GetBalance, memory, history
<1>7. CASE ReadRows(t)
  <2> DEFINE q(rows) == Saving([r EXCEPT !.value = 0], "rows", rows, "get")
  <2>1. ASSUME NEW rows PROVE Doing(q(rows), moved)
    BY <1>1, <1>7 DEF ReadRows, Saving, Fields, Doing, At
  <2> QED
    BY <1>2, <1>7, <2>1, IdleOutside, OutsideOK DEF ReadRows, memory, history
<1>8. CASE StoreIndices(t)
  <2> DEFINE c == WithIndices(r.ci, i)
             q == SavingLog([r EXCEPT !.ci = 0], c, "note")
  <2>1. /\ r.pc = "get" /\ i \in Index
        /\ \A f \in Sides(i) : moved[i][f] > 0
    BY <1>1, <1>8, LocalsFacts DEF StoreIndices, Doing, At
  <2>2. ASSUME disk.log = Torn PROVE Doing(q, moved)
    BY <2>2, IdleOutside, OutsideOK DEF SavingLog
  <2>3. ASSUME disk.log # Torn PROVE Doing(q, moved)
    BY <1>1, <2>1, <2>3 DEF SavingLog, Saving, Fields, Doing, At
  <2>4. Doing(q, moved)
    BY <2>2, <2>3
  <2> QED
    BY <1>2, <1>8, <2>4 DEF StoreIndices, memory, history
<1>9. CASE Note(t)
  <2>1. i \in Index /\ \A f \in Sides(i) : moved[i][f] > 0
    BY <1>1, <1>9 DEF Note, Doing, At
  <2> QED
    BY <1>9, <2>1, RecordDone DEF Note, Finished
<1>10. CASE Finish(t)
  <2> DEFINE q == SavingLog(Idle, WithIndices(commitIndex, r.upto), "idle")
  <2>1. Outside(q)
    BY IdleOK, SavingLogOutside DEF Locals
  <2> QED
    BY <1>2, <1>10, <2>1, IdleOutside, OutsideOK DEF Finish, history
<1> QED
  BY <1>3, <1>4, <1>5, <1>6, <1>7, <1>8, <1>9, <1>10 DEF Apply

\* The set comes back from the file, or the process does not come back.
LEMMA CrashDone == ASSUME TypeInv, DoneInv, Crash PROVE DoneInv'
<1>1. \A u \in Thread : Doing(th'[u], moved')
  BY IdleOutside, OutsideOK DEF Crash
<1>2. \A j : Finished(j) => Finished(j)'
  BY DEF Crash, Finished
<1>3. applied' = applied \/ (disk.applied # Torn /\ applied' = disk.applied)
  BY DEF Crash, AppliedOnDisk, Startable
<1> QED
  BY <1>1, <1>2, <1>3 DEF Crash, DoneInv, Recorded

LEMMA DoneInit == Init => DoneInv
BY IdleOutside, OutsideOK DEF Init, DoneInv, Recorded

LEMMA DoneStep == ASSUME TypeInv, DoneInv, [Next]_vars PROVE DoneInv'
<1>1. CASE UNCHANGED vars
  BY <1>1 DEF vars, memory, history, DoneInv, Recorded, Finished
<1> QED
  BY <1>1, PutDone, ListenerDone, WorkerDone, ApplyDone, CrashDone DEF Next

\* An index that counts as applied (server.py:745), in memory or in the file
\* __init__ reads (server.py:96), was executed in full or rightly passed over.
THEOREM AppliedMeansDoneHolds == Spec => []AppliedMeansDone
<1>1. DoneInv => AppliedMeansDone
  BY DEF DoneInv, Recorded, AppliedMeansDone
<1>2. Init => DoneInv
  BY DoneInit
<1>3. TypeInv /\ DoneInv /\ [Next]_vars => DoneInv'
  BY DoneStep
<1>4. Spec => []TypeInv
  BY TypeInit, TypeStep, PTL DEF Spec
<1> QED
  BY <1>1, <1>2, <1>3, <1>4, PTL DEF Spec

-----------------------------------------------------------------------------
(* The ranges of accounts in client.py, shard_manager.py and server.py. *)

\* The client sends a transfer to a cluster that takes the account for its
\* own, and no other cluster does (client.py:128-149, shard_manager.py:120-128).
THEOREM ClustersAgree ==
    \A a \in Issued, c \in 1..3 :
        IsAccountInCluster(c, a) <=> ClusterOfAccount(a) = c
  BY DEF Issued, IsAccountInCluster, ClusterOfAccount

\* Every account the client lets through, except 0 and 1000, has a balance
\* and a lock in the cluster it is sent to (shard_manager.py:41-46,
\* server.py:75-76, 106).
THEOREM ServedAccounts ==
    \A a \in Issued \ {0, 1000} :
        a \in Rows(ClusterOfAccount(a)) \cap LockTable(ClusterOfAccount(a))
<1> SUFFICES ASSUME NEW a \in Issued \ {0, 1000}
             PROVE  a \in Rows(ClusterOfAccount(a)) \cap LockTable(ClusterOfAccount(a))
  OBVIOUS
<1>1. CASE a \in 1..999
  <2>1. ClusterOfAccount(a) = 1
    BY <1>1 DEF ClusterOfAccount
  <2> QED
    BY <1>1, <2>1 DEF Rows, AccountOffset, LockTable
<1>2. CASE a \in 1001..2000
  <2>1. ClusterOfAccount(a) = 2
    BY <1>2 DEF ClusterOfAccount
  <2> QED
    BY <1>2, <2>1 DEF Rows, AccountOffset, LockTable
<1>3. CASE a \in 2001..3000
  <2>1. ClusterOfAccount(a) = 3
    BY <1>3 DEF ClusterOfAccount
  <2> QED
    BY <1>3, <2>1 DEF Rows, AccountOffset, LockTable
<1> QED
  BY <1>1, <1>2, <1>3 DEF Issued

\* Account 1000 of cluster 1 is locked like any other and has no balance;
\* account 0 has a balance and no lock.
THEOREM UnservedAccounts ==
    /\ IsAccountInCluster(1, 1000) /\ 1000 \in LockTable(1) \ Rows(1)
    /\ IsAccountInCluster(1, 0) /\ 0 \in Rows(1) \ LockTable(1)
  BY DEF IsAccountInCluster, Rows, AccountOffset, LockTable
=============================================================================
