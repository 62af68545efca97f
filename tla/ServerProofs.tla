---------------------------- MODULE ServerProofs ----------------------------
(***************************************************************************)
(* The types of servers and client, for any number of clusters, whatever   *)
(* elections, restarts and losses befall them, and what the client counts  *)
(* and remembers.                                                          *)
(***************************************************************************)
EXTENDS Bank, FiniteSetTheorems, SequenceTheorems, WellFoundedInduction, TLAPS

-----------------------------------------------------------------------------
(* Induction over the natural numbers, for the members of a set. *)

\* A set of natural numbers has a least member.
LEMMA LeastMember ==
    ASSUME NEW T \in SUBSET Nat, T # {}
    PROVE  \E n \in T : \A m \in T : n <= m
<1> DEFINE R == {p \in Nat \X Nat : p[1] < p[2]}
<1>1. IsWellFoundedOn(R, Nat)
  BY NatLessThanWellFounded DEF OpToRel
<1>2. PICK n \in T : \A m \in T : ~ (<<m, n>> \in R)
  BY <1>1, WFMin
<1>3. \A m \in T : ~ (m < n)
  BY <1>2
<1> QED
  BY <1>3

\* A set with 0 that has the successor of each of its numbers has them all.
LEMMA SetInduction ==
    ASSUME NEW T, 0 \in T, \A n \in Nat : n \in T => n + 1 \in T
    PROVE  Nat \subseteq T
<1> SUFFICES ASSUME Nat \ T # {} PROVE FALSE
  OBVIOUS
<1>1. PICK n \in Nat \ T : \A m \in Nat \ T : n <= m
  BY LeastMember
<1>2. n # 0 /\ n - 1 \in Nat /\ n - 1 \notin Nat \ T
  BY <1>1
<1>3. (n - 1) + 1 \in T
  BY <1>2
<1> QED
  BY <1>3

\* A set of numbers up to n has a greatest member, and Max returns it.
LEMMA MaxMember ==
    ASSUME NEW n \in Nat, NEW S, S \subseteq 0..n, S # {}
    PROVE  Max(S) \in S /\ \A i \in S : i <= Max(S)
<1> DEFINE T == {n - i : i \in S}
<1>1. T \in SUBSET Nat /\ T # {}
  OBVIOUS
<1> HIDE DEF T
<1>2. PICK k \in T : \A m \in T : k <= m
  BY <1>1, LeastMember
<1>3. PICK j \in S : k = n - j
  BY <1>2 DEF T
<1>4. ASSUME NEW i \in S PROVE j >= i
  <2>1. n - i \in T
    BY DEF T
  <2> QED
    BY <1>2, <1>3, <2>1
<1>5. \E x \in S : \A y \in S : x >= y
  BY <1>4
<1>6. Max(S) \in S /\ \A y \in S : Max(S) >= y
  BY <1>5 DEF Max
<1> QED
  BY <1>6

LEMMA MinMember ==
    ASSUME NEW S \in SUBSET Nat, S # {}
    PROVE  Min(S) \in S /\ \A i \in S : Min(S) <= i
<1>1. \E x \in S : \A y \in S : x <= y
  BY LeastMember
<1> QED
  BY <1>1 DEF Min

-----------------------------------------------------------------------------
(* The loop of apply_committed_entries. *)

LoopStart(sh) ==
    [sh |-> sh, upto |-> sh.lastApplied, out |-> {}, failed |-> FALSE]

\* The recursion of ApplyTurns is well defined: it starts as it should, and
\* each turn continues the one before it.
LEMMA TurnByTurn ==
    ASSUME NEW s, NEW sh, NEW lg, NEW ci, NEW b,
           NEW f, f = ApplyTurns(s, sh, lg, ci, b)
    PROVE  /\ f[0] = LoopStart(sh)
           /\ \A n \in Nat : f[n + 1] = ApplyEntry(s, lg, ci, b, f[n],
                                                   sh.lastApplied + (n + 1))
<1> DEFINE E(m, n) == ApplyEntry(s, lg, ci, b, m, sh.lastApplied + n)
           Goes(g, n) == g[0] = LoopStart(sh) /\ \A k \in 1..n : g[k] = E(g[k - 1], k)
           Has == {n \in Nat : \E g : Goes(g, n)}
<1> HIDE DEF E
<1>1. Nat \subseteq Has
  <2>1. 0 \in Has
    <3>1. Goes([k \in {0} |-> LoopStart(sh)], 0)
      OBVIOUS
    <3> QED
      BY <3>1
  <2>2. ASSUME NEW n \in Nat, n \in Has PROVE n + 1 \in Has
    <3>1. PICK g : Goes(g, n)
      BY <2>2
    <3> DEFINE h == [k \in 0..(n + 1) |-> IF k = n + 1 THEN E(g[n], k) ELSE g[k]]
    <3>2. h[0] = LoopStart(sh)
      BY <3>1
    <3>3. ASSUME NEW k \in 1..(n + 1) PROVE h[k] = E(h[k - 1], k)
      BY <3>1
    <3>4. Goes(h, n + 1)
      BY <3>2, <3>3
    <3> HIDE DEF Goes, h
    <3> QED
      BY <3>4
  <2> QED
    BY <2>1, <2>2, SetInduction
<1>2. ASSUME NEW n \in Nat, NEW g, NEW h, Goes(g, n), Goes(h, n)
      PROVE  \A k \in 0..n : g[k] = h[k]
  <2> DEFINE Same == {k \in Nat : k <= n => g[k] = h[k]}
  <2>1. 0 \in Same
    BY <1>2
  <2>2. ASSUME NEW k \in Nat, k \in Same PROVE k + 1 \in Same
    <3>1. k + 1 <= n => g[k + 1] = E(g[(k + 1) - 1], k + 1) /\ h[k + 1] = E(h[(k + 1) - 1], k + 1)
      BY <1>2
    <3> QED
      BY <2>2, <3>1
  <2>3. Nat \subseteq Same
    BY <2>1, <2>2, SetInduction
  <2> QED
    BY <2>3
<1> DEFINE G(n) == CHOOSE g : Goes(g, n)
           F == [n \in Nat |-> G(n)[n]]
<1>3. \A n \in Nat : Goes(G(n), n)
  BY <1>1
<1>4. F[0] = LoopStart(sh)
  BY <1>3
<1>5. ASSUME NEW n \in Nat, n # 0 PROVE F[n] = E(F[n - 1], n)
  <2>0. n - 1 \in Nat
    BY <1>5
  <2>1. Goes(G(n), n) /\ Goes(G(n), n - 1) /\ Goes(G(n - 1), n - 1)
    <3>1. Goes(G(n), n) /\ Goes(G(n - 1), n - 1)
      <4> HIDE DEF Goes, G
      <4> QED
        BY <1>3, <2>0
    <3>2. \A g : Goes(g, n) => Goes(g, n - 1)
      OBVIOUS
    <3> QED
      BY <3>1, <3>2
  <2>2. G(n)[n - 1] = G(n - 1)[n - 1]
    BY <1>2, <2>0, <2>1
  <2>3. G(n)[n] = E(G(n)[n - 1], n)
    BY <1>5, <2>1
  <2> QED
    BY <1>5, <2>2, <2>3
<1> DEFINE Loop(g) ==
        g = [n \in Nat |-> IF n = 0 THEN LoopStart(sh) ELSE E(g[n - 1], n)]
<1>6. Loop(F)
  <2> HIDE DEF F
  <2>1. F = [n \in Nat |-> F[n]]
    BY DEF F
  <2> QED
    BY <1>4, <1>5, <2>1
<1>7. f = CHOOSE g : Loop(g)
  BY DEF ApplyTurns, E, LoopStart
<1>8. Loop(f)
  <2> HIDE DEF Loop
  <2> QED
    BY <1>6, <1>7
<1>9. f[0] = LoopStart(sh)
  BY <1>8
<1>10. ASSUME NEW n \in Nat PROVE f[n + 1] = E(f[n], n + 1)
  <2>1. n + 1 \in Nat /\ n + 1 # 0 /\ (n + 1) - 1 = n
    OBVIOUS
  <2>2. f[n + 1] = E(f[(n + 1) - 1], n + 1)
    BY <1>8, <2>1
  <2> QED
    BY <2>1, <2>2
<1> QED
  BY <1>9, <1>10 DEF E

\* What holds at the start of the loop and survives a turn holds after it.
LEMMA LoopStays ==
    ASSUME NEW s, NEW sh, NEW lg, NEW ci, NEW b, NEW T, LoopStart(sh) \in T,
           \A m \in T, n \in Nat :
               ApplyEntry(s, lg, ci, b, m, sh.lastApplied + (n + 1)) \in T
    PROVE  \A n \in Nat : ApplyTurns(s, sh, lg, ci, b)[n] \in T
<1> DEFINE f == ApplyTurns(s, sh, lg, ci, b)
           In == {n \in Nat : f[n] \in T}
<1> HIDE DEF f
<1>1. /\ f[0] = LoopStart(sh)
      /\ \A n \in Nat : f[n + 1] = ApplyEntry(s, lg, ci, b, f[n],
                                              sh.lastApplied + (n + 1))
  BY TurnByTurn DEF f
<1>2. 0 \in In
  BY <1>1
<1>3. ASSUME NEW n \in Nat, n \in In PROVE n + 1 \in In
  BY <1>1, <1>3
<1>4. Nat \subseteq In
  BY <1>2, <1>3, SetInduction
<1> QED
  BY <1>4 DEF f

-----------------------------------------------------------------------------
(* Types. *)

Node == Server \cup Remote
AccountOf(s) == {a \in Account : ShardOf[a] = ClusterOf[s]}
CrossTx == {x \in Tx : Cross(x)}

ShardT(s) ==
    [balance : [AccountOf(s) -> Nat], locks : SUBSET AccountOf(s),
     applied : SUBSET Nat, lastApplied : Nat, pending : SUBSET CrossTx,
     savedCommit : Nat, savedApplied : Nat \cup {MissingKey}, ledger : Seq(Tx)]

ResponseT ==
    [type : {"CLIENT_RESPONSE"}, to : {"client"}, tx : Tx, success : BOOLEAN]
LoopT(s) ==
    [sh : ShardT(s), upto : Nat, out : SUBSET ResponseT, failed : BOOLEAN]

LEMMA TransferFacts ==
    ASSUME NEW x \in Tx
    PROVE  /\ x \in Nat \ {0} /\ x # NoTx
           /\ Payer(x) \in Account /\ Payee(x) \in Account /\ Amount(x) \in Nat
           /\ \A s : Touched(s, x) \subseteq AccountOf(s)
<1>1. x \in 1..Len(TxList) /\ Len(TxList) \in Nat
  BY TxListType DEF Tx
<1>2. TxList[x] \in [payer : Account, payee : Account, amount : Nat]
  BY <1>1, TxListType, ElementOfSeq
<1> QED
  BY <1>1, <1>2 DEF Payer, Payee, Amount, Touched, AccountOf, NoTx

LEMMA PassedTyped ==
    ASSUME NEW s, NEW m \in LoopT(s), NEW i \in Nat
    PROVE  /\ Passed(m, i) \in LoopT(s)
           /\ Passed(m, i).out = m.out /\ Passed(m, i).failed = m.failed
           /\ Passed(m, i).sh.applied = m.sh.applied \cup {i}
           /\ Passed(m, i).sh.locks = m.sh.locks
           /\ Passed(m, i).sh.lastApplied = m.sh.lastApplied
           /\ Passed(m, i).sh.ledger = m.sh.ledger
BY DEF Passed, LoopT, ShardT

LEMMA ExecutedTyped ==
    ASSUME NEW s, NEW sh \in ShardT(s), NEW x \in Tx, NEW ci \in Nat, NEW i \in Nat,
           ~Overdrawn(s, sh, x)
    PROVE  LET new == Executed(s, sh, x, ci, i)
           IN  /\ new \in ShardT(s)
               /\ new.ledger = Append(sh.ledger, x)
               /\ new.lastApplied = sh.lastApplied /\ new.applied = sh.applied
               /\ new.locks \subseteq sh.locks
<1> DEFINE st == Stored(sh, ci, i)
           bal == [a \in DOMAIN st.balance |->
                      st.balance[a] - (IF a = Payer(x) THEN Amount(x) ELSE 0)
                                    + (IF a = Payee(x) THEN Amount(x) ELSE 0)]
<1>1. /\ st \in ShardT(s) /\ st.balance = sh.balance /\ st.locks = sh.locks
      /\ st.ledger = sh.ledger /\ st.pending = sh.pending
      /\ st.lastApplied = sh.lastApplied /\ st.applied = sh.applied
  BY DEF Stored, ShardT
<1>2. bal \in [AccountOf(s) -> Nat]
  <2>1. DOMAIN sh.balance = AccountOf(s) /\ \A a \in AccountOf(s) : sh.balance[a] \in Nat
    BY DEF ShardT
  <2>2. Payer(x) \in AccountOf(s) => sh.balance[Payer(x)] >= Amount(x)
    BY <2>1, TransferFacts DEF Overdrawn, Touched, AccountOf
  <2>3. ASSUME NEW a \in AccountOf(s) PROVE bal[a] \in Nat
    BY <1>1, <2>1, <2>2, TransferFacts
  <2> QED
    BY <1>1, <2>1, <2>3
<1>3. Append(st.ledger, x) \in Seq(Tx)
  BY <1>1, AppendProperties DEF ShardT
<1>4. Executed(s, sh, x, ci, i) =
        [st EXCEPT !.balance = bal, !.locks = @ \ Touched(s, x),
                   !.pending = IF Cross(x) THEN @ \ {x} ELSE @,
                   !.ledger = Append(@, x)]
  BY DEF Executed
<1> DEFINE lk == st.locks \ Touched(s, x)
           pn == IF Cross(x) THEN st.pending \ {x} ELSE st.pending
           ld == Append(st.ledger, x)
<1>5. lk \subseteq st.locks /\ pn \subseteq st.pending
  OBVIOUS
<1>6. Executed(s, sh, x, ci, i) =
        [st EXCEPT !.balance = bal, !.locks = lk, !.pending = pn, !.ledger = ld]
  BY <1>4
<1> HIDE DEF st, bal, lk, pn, ld
<1>7. [st EXCEPT !.balance = bal, !.locks = lk, !.pending = pn, !.ledger = ld]
         \in ShardT(s)
  BY <1>1, <1>2, <1>3, <1>5 DEF ShardT, ld
<1>8. /\ Executed(s, sh, x, ci, i).ledger = Append(sh.ledger, x)
      /\ Executed(s, sh, x, ci, i).lastApplied = sh.lastApplied
      /\ Executed(s, sh, x, ci, i).applied = sh.applied
      /\ Executed(s, sh, x, ci, i).locks \subseteq sh.locks
  BY <1>1, <1>5, <1>6 DEF ShardT, ld
<1> QED
  BY <1>6, <1>7, <1>8

\* What one turn, for entry e at index i, may make of m.
Turned(s, m, r, e, i) ==
    /\ r \in LoopT(s)
    /\ r.sh.lastApplied = m.sh.lastApplied
    /\ r.sh.locks \subseteq m.sh.locks
    /\ m.sh.applied \subseteq r.sh.applied
    /\ \/ r.sh.ledger = m.sh.ledger
       \/ /\ r.sh.ledger = Append(m.sh.ledger, e.tx)
          /\ i \in r.sh.applied
          /\ Cross(e.tx) => e.committed

LEMMA ApplyNewTyped ==
    ASSUME NEW s, NEW e \in Entry, NEW ci \in Nat, NEW b, NEW m \in LoopT(s),
           NEW i \in Nat
    PROVE  Turned(s, m, ApplyNew(s, e, ci, b, m, i), e, i)
<1> USE DEF Turned
<1> DEFINE r == ApplyNew(s, e, ci, b, m, i)
<1>0. /\ e.tx \in Tx /\ e.committed \in BOOLEAN
      /\ m.sh \in ShardT(s) /\ m.out \subseteq ResponseT
  BY DEF Entry, LoopT
<1>1. CASE Cross(e.tx) /\ ~e.committed
  <2> DEFINE n == [m EXCEPT !.sh.locks = IF e.body = "none" THEN @
                                         ELSE @ \ Touched(s, e.tx)]
  <2>1. r = Passed(n, i)
    BY <1>1 DEF ApplyNew
  <2>2. /\ n \in LoopT(s) /\ n.sh.ledger = m.sh.ledger
        /\ n.sh.lastApplied = m.sh.lastApplied /\ n.sh.applied = m.sh.applied
        /\ n.sh.locks \subseteq m.sh.locks
    BY DEF LoopT, ShardT
  <2> HIDE DEF n
  <2>3. n.sh \in ShardT(s)
    BY <2>2 DEF LoopT
  <2> HIDE DEF Turned
  <2>4. /\ r \in LoopT(s) /\ r.sh.lastApplied = n.sh.lastApplied
        /\ r.sh.locks = n.sh.locks /\ n.sh.applied \subseteq r.sh.applied
        /\ r.sh.ledger = n.sh.ledger
    BY <2>1, <2>2, <2>3, PassedTyped
  <2> HIDE DEF r
  <2>5. Turned(s, m, r, e, i)
    BY <2>2, <2>4 DEF Turned
  <2> QED
    BY <2>5 DEF r
<1>2. CASE Cross(e.tx) /\ e.committed /\ e.body = "none"
  <2>1. r = [m EXCEPT !.failed = TRUE]
    BY <1>2 DEF ApplyNew
  <2> QED
    BY <2>1, <1>2 DEF LoopT
<1>3. CASE (Cross(e.tx) => e.committed /\ e.body # "none") /\ Overdrawn(s, m.sh, e.tx)
  <2>1. r = Passed(m, i)
    BY <1>3 DEF ApplyNew
  <2> QED
    BY <2>1, <1>0, PassedTyped
<1>4. CASE (Cross(e.tx) => e.committed /\ e.body # "none") /\ ~Overdrawn(s, m.sh, e.tx)
  <2> DEFINE n == [m EXCEPT
                    !.sh = Executed(s, @, e.tx, ci, i),
                    !.out = IF ~Cross(e.tx) /\ b
                            THEN @ \cup {ClientResponse(e.tx, TRUE)} ELSE @]
  <2>1. r = Passed(n, i)
    BY <1>4 DEF ApplyNew
  <2>2. Executed(s, m.sh, e.tx, ci, i) \in ShardT(s)
    BY <1>0, <1>4, ExecutedTyped
  <2>3. ClientResponse(e.tx, TRUE) \in ResponseT
    BY <1>0 DEF ClientResponse, ResponseT
  <2>4. n \in LoopT(s) /\ n.sh = Executed(s, m.sh, e.tx, ci, i)
    BY <1>0, <2>2, <2>3 DEF LoopT
  <2>5. /\ n.sh.ledger = Append(m.sh.ledger, e.tx)
        /\ n.sh.lastApplied = m.sh.lastApplied /\ n.sh.applied = m.sh.applied
        /\ n.sh.locks \subseteq m.sh.locks
    BY <1>0, <1>4, <2>4, ExecutedTyped
  <2> HIDE DEF n
  <2>6. /\ r \in LoopT(s)
        /\ r.sh.applied = n.sh.applied \cup {i} /\ r.sh.locks = n.sh.locks
        /\ r.sh.lastApplied = n.sh.lastApplied /\ r.sh.ledger = n.sh.ledger
    BY <2>1, <2>4, PassedTyped
  <2> HIDE DEF r
  <2>7. Turned(s, m, r, e, i)
    BY <1>0, <1>4, <2>5, <2>6
  <2> QED
    BY <2>7 DEF r
<1> QED
  BY <1>0, <1>1, <1>2, <1>3, <1>4

LEMMA ApplyEntryTyped ==
    ASSUME NEW s, NEW lg \in Seq(Entry), NEW ci \in Nat, NEW b, NEW m \in LoopT(s),
           NEW i \in Nat \ {0}
    PROVE  LET r == ApplyEntry(s, lg, ci, b, m, i)
           IN  Turned(s, m, r, lg[i], i)
               /\ (r.sh.ledger # m.sh.ledger => i \in DOMAIN lg /\ i \notin m.sh.applied)
<1> DEFINE r == ApplyEntry(s, lg, ci, b, m, i)
<1>1. CASE m.failed \/ i > Len(lg)
  BY <1>1 DEF ApplyEntry, Turned
<1>2. CASE ~(m.failed \/ i > Len(lg)) /\ i \in m.sh.applied
  <2>1. r = Passed(m, i)
    BY <1>2 DEF ApplyEntry
  <2> HIDE DEF r
  <2>2. Turned(s, m, r, lg[i], i) /\ r.sh.ledger = m.sh.ledger
    BY <2>1, PassedTyped DEF Turned
  <2> QED
    BY <2>2 DEF r
<1>3. CASE ~(m.failed \/ i > Len(lg)) /\ i \notin m.sh.applied
  <2>1. r = ApplyNew(s, lg[i], ci, b, m, i)
    BY <1>3 DEF ApplyEntry
  <2>2. i \in DOMAIN lg /\ lg[i] \in Entry
    BY <1>3, LenProperties, ElementOfSeq
  <2>3. Turned(s, m, r, lg[i], i)
    BY <2>1, <2>2, ApplyNewTyped
  <2> QED
    BY <1>3, <2>2, <2>3
<1> QED
  BY <1>1, <1>2, <1>3

\* The result of apply_committed_entries on the shard sh.
LEMMA ApplyCommittedTyped ==
    ASSUME NEW s, NEW sh \in ShardT(s), NEW lg \in Seq(Entry), NEW ci \in Nat, NEW b
    PROVE  LET r == ApplyCommitted(s, sh, lg, ci, b)
           IN  /\ r.sh \in ShardT(s) /\ r.ci = ci /\ r.out \subseteq ResponseT
               /\ r.failed \in BOOLEAN
               /\ sh.applied \subseteq r.sh.applied
<1> DEFINE T == {m \in LoopT(s) : /\ m.sh.lastApplied = sh.lastApplied
                                  /\ sh.applied \subseteq m.sh.applied}
           turns == Max({0, ci - sh.lastApplied})
           end == ApplyTurns(s, sh, lg, ci, b)[turns]
           r == ApplyCommitted(s, sh, lg, ci, b)
<1>0. sh.lastApplied \in Nat
  BY DEF ShardT
<1>1. turns \in Nat
  <2> DEFINE S == {0, ci - sh.lastApplied}
  <2>1. \E k \in S : \A l \in S : k >= l
    BY <1>0
  <2>2. turns \in S /\ \A l \in S : turns >= l
    BY <2>1 DEF Max
  <2> QED
    BY <1>0, <2>2
<1>2. LoopStart(sh) \in T
  BY <1>0 DEF LoopStart, LoopT
<1>3. ASSUME NEW m \in T, NEW n \in Nat
      PROVE  ApplyEntry(s, lg, ci, b, m, sh.lastApplied + (n + 1)) \in T
  <2> DEFINE i == sh.lastApplied + (n + 1)
             q == ApplyEntry(s, lg, ci, b, m, i)
  <2>1. i \in Nat \ {0}
    BY <1>0
  <2>2. /\ m \in LoopT(s) /\ m.sh.lastApplied = sh.lastApplied
        /\ sh.applied \subseteq m.sh.applied
    OBVIOUS
  <2> HIDE DEF i
  <2>3. Turned(s, m, q, lg[i], i)
    BY <2>1, <2>2, ApplyEntryTyped
  <2> HIDE DEF q
  <2>4. q \in T
    BY <2>2, <2>3 DEF Turned
  <2> QED
    BY <2>4 DEF q, i
<1>4. end \in T
  <2> HIDE DEF T, turns
  <2> QED
    BY <1>1, <1>2, <1>3, LoopStays
<1>5. r = [sh |-> IF ~end.failed /\ end.upto > sh.lastApplied
                  THEN Stored([end.sh EXCEPT !.lastApplied = end.upto],
                              ci, end.upto)
                  ELSE end.sh,
           ci |-> ci, out |-> end.out, failed |-> end.failed]
  BY DEF ApplyCommitted
<1> HIDE DEF end, r, turns
<1>6. end.sh \in ShardT(s) /\ end.upto \in Nat /\ sh.applied \subseteq end.sh.applied
      /\ end.out \subseteq ResponseT /\ end.failed \in BOOLEAN
  BY <1>4 DEF LoopT
<1>7. LET l == Stored([end.sh EXCEPT !.lastApplied = end.upto], ci, end.upto)
      IN  l \in ShardT(s) /\ l.applied = end.sh.applied
  BY <1>6 DEF Stored, ShardT
<1> QED
  BY <1>5, <1>6, <1>7 DEF r

-----------------------------------------------------------------------------
(* The type invariant. *)

Role == {"follower", "candidate", "leader"}
Index == Nat \cup {MissingKey}
RaftType == {"REQUEST_VOTE", "VOTE_RESPONSE", "APPEND_ENTRIES", "APPEND_ACK"}
AckT(s) ==
    [type : {"APPEND_ACK"}, from : Peers[s], to : {s}, success : BOOLEAN]
RequestT == [type : {"CLIENT_REQUEST", "PREPARE"}, to : Node, tx : Tx]
DecisionT == [type : {"COMMIT", "ABORT"}, to : Node, tx : Tx]
VoteT ==
    [type : {"VOTE"}, to : {"client"}, from : Node, tx : Tx, vote : {"yes", "no"}]
AppendT ==
    [type : {"APPEND_ENTRIES"}, term : Nat, from : Server, to : Server,
     prev : Nat, prevTerm : Nat, entries : Seq(Entry), commit : Nat]

\* A datagram has the fields of its type.
Fits(m) ==
    /\ m.type \in RaftType \cup {"CLIENT_REQUEST", "PREPARE", "COMMIT", "ABORT",
                                 "VOTE", "ACK", "CLIENT_RESPONSE"}
    /\ m.type \in RaftType => m.to \in Server /\ m.from \in Peers[m.to]
    /\ m.type = "REQUEST_VOTE" =>
         m.term \in Nat /\ m.lastLog \in [term : Nat, index : Nat]
    /\ m.type = "VOTE_RESPONSE" => m.term \in Nat
    /\ m.type = "APPEND_ENTRIES" => m \in AppendT
    /\ m.type = "APPEND_ACK" => m \in AckT(m.to)
    /\ m.type \in {"CLIENT_REQUEST", "PREPARE"} => m \in RequestT
    /\ m.type \in {"COMMIT", "ABORT"} => m \in DecisionT
    /\ m.type = "VOTE" => m \in VoteT
    /\ m.type = "ACK" => m.from \in Node /\ m.tx \in Tx
    /\ m.type = "CLIENT_RESPONSE" => m \in ResponseT

NetInv == \A m \in net : Fits(m)
ElectionInv ==
    /\ role \in [Server -> Role]
    /\ currentTerm \in [Server -> Nat]
    /\ votedFor \in [Server -> Server \cup {NoServer}]
    /\ currentLeader \in [Server -> Server \cup {NoServer}]
    /\ \A s \in Server : currentLeader[s] \in Peers[s] \cup {NoServer}
LogInv == log \in [Server -> Seq(Entry)] /\ commitIndex \in [Server -> Nat]
LeaderInv ==
    /\ nextIndex = [s \in Server |-> nextIndex[s]]
    /\ matchIndex = [s \in Server |-> matchIndex[s]]
    /\ \A s \in Server : /\ nextIndex[s] \in [Peers[s] -> Index]
                         /\ matchIndex[s] \in [Peers[s] -> Index]
ShardInv ==
    /\ shard = [s \in Server |-> shard[s]]
    /\ \A s \in Server : shard[s] \in ShardT(s)
QueueInv ==
    /\ txQueue \in [Server -> Seq(Tx)]
    /\ ackQueue = [s \in Server |-> ackQueue[s]]
    /\ counting = [s \in Server |-> counting[s]]
    /\ \A s \in Server : /\ ackQueue[s] \in Seq(AckT(s))
                         /\ counting[s] \subseteq AckT(s)
WorkerInv ==
    /\ worker \in [Server -> [pc : {"idle", "wait", "append", "repl", "dead"},
                              tx : Tx \cup {NoTx}]]
    /\ \A s \in Server : (worker[s].pc = "idle") <=> (worker[s].tx = NoTx)
DecisionInv ==
    /\ processed \in [Server -> SUBSET (Tx \X {"COMMIT", "ABORT"})]
    /\ timedOut \in [Server -> SUBSET Tx]
    /\ halted \subseteq Server /\ heartbeats \subseteq Server
    /\ restarted \subseteq Server
ClientInv ==
    /\ nextTx \in Nat \ {0} /\ open \subseteq CrossTx
    /\ votes = [x \in Tx |-> votes[x]]
    /\ \A x \in Tx : votes[x] \in [DOMAIN votes[x] -> {"yes", "no"}]
                     /\ DOMAIN votes[x] \subseteq Node
    /\ acks \in [Tx -> SUBSET Node]
    /\ decided \in [Tx -> SUBSET {"COMMIT", "ABORT"}]

TypeInv ==
    /\ NetInv /\ ElectionInv /\ LogInv /\ LeaderInv /\ ShardInv
    /\ QueueInv /\ WorkerInv /\ DecisionInv /\ ClientInv

\* Peers are peers of each other, and modelled in full.
LEMMA PeerFacts ==
    ASSUME NEW s \in Server, NEW p \in Peers[s]
    PROVE  p \in Server /\ s \in Peers[p] /\ p # s /\ ClusterOf[p] = ClusterOf[s]
<1>1. p \in Server \cup Remote /\ ClusterOf[p] = ClusterOf[s] /\ p # s
  BY DEF Peers, Members
<1>2. p \in Server
  BY <1>1, ClustersAndShards
<1> QED
  BY <1>1, <1>2 DEF Peers, Members

LEMMA FitsFacts ==
    ASSUME NEW s \in Server, NEW p \in Peers[s], NEW x \in Tx
    PROVE  /\ \A ok \in BOOLEAN : Fits(AppendAck(s, p, ok)) /\ Fits(ClientResponse(x, ok))
           /\ \A t \in Nat : Fits(VoteResponse(s, t, p))
           /\ \A v \in {"yes", "no"} : Fits(Vote(s, x, v))
           /\ Fits(Ack(s, x))
BY PeerFacts DEF Fits, AppendAck, ClientResponse, VoteResponse, Vote, Ack,
                 RaftType, AckT, ResponseT, VoteT, Node

LEMMA FitsRest ==
    /\ \A m \in ResponseT : Fits(m)
    /\ \A m \in RequestT : Fits(m)
    /\ \A m \in DecisionT : Fits(m)
    /\ \A m \in VoteT : Fits(m)
BY DEF Fits, RaftType, ResponseT, RequestT, DecisionT, VoteT

LEMMA FitsAppend ==
    ASSUME TypeInv, NEW s \in Server, NEW p \in Peers[s], NEW lg \in Seq(Entry),
           NEW n \in 0..Len(lg)
    PROVE  LET m == AppendEntries(s, p, lg, n)
           IN  /\ Fits(m) /\ m.type = "APPEND_ENTRIES" /\ m \in AppendT
               /\ m.to = p /\ m.from = s /\ m.prev = n
               /\ Len(m.entries) = Len(lg) - n
               /\ \A i \in 1..(Len(lg) - n) :
                     /\ m.entries[i].tx = lg[n + i].tx
                     /\ m.entries[i].term = lg[n + i].term
                     /\ m.entries[i].committed = lg[n + i].committed
                     /\ lg[n + i].body = "object" => m.entries[i].body # "none"
<1> DEFINE m == AppendEntries(s, p, lg, n)
           k == Len(lg) - n
<1>1. k \in Nat /\ \A i \in 1..k : lg[n + i] \in Entry
  BY LenProperties, ElementOfSeq
<1>2. \A e \in Entry : /\ OnWire(e) \in Entry /\ OnWire(e).tx = e.tx
                       /\ OnWire(e).term = e.term /\ OnWire(e).committed = e.committed
                       /\ e.body = "object" => OnWire(e).body # "none"
  BY DEF OnWire, Entry
<1>3. m.entries = [i \in 1..k |-> OnWire(lg[n + i])]
  BY DEF AppendEntries
<1>4. m.entries \in Seq(Entry) /\ Len(m.entries) = k
  <2>1. m.entries \in [1..k -> Entry]
    BY <1>1, <1>2, <1>3
  <2>2. m.entries \in Seq(Entry)
    <3>1. Seq(Entry) = UNION {[1..j -> Entry] : j \in Nat}
      BY SeqDef
    <3> HIDE DEF m, k
    <3> QED
      BY <1>1, <2>1, <3>1
  <2>3. DOMAIN m.entries = 1..k
    BY <1>3
  <2> QED
    BY <1>1, <2>2, <2>3, LenProperties
<1>5. m.prevTerm \in Nat
  <2>1. ASSUME n > 0 PROVE lg[n].term \in Nat
    <3>1. n \in 1..Len(lg)
      BY <2>1, LenProperties
    <3>2. lg[n] \in Entry
      BY <3>1, ElementOfSeq
    <3> QED
      BY <3>2 DEF Entry
  <2> QED
    BY <2>1 DEF AppendEntries
<1>6. currentTerm[s] \in Nat /\ commitIndex[s] \in Nat
  BY DEF TypeInv, ElectionInv, LogInv
<1>7. m \in AppendT
  BY <1>4, <1>5, <1>6, PeerFacts DEF AppendEntries, AppendT
<1>8. Fits(m) /\ m.type = "APPEND_ENTRIES" /\ m.to = p /\ m.from = s /\ m.prev = n
  BY <1>7, PeerFacts DEF AppendEntries, Fits, RaftType
<1> QED
  BY <1>1, <1>2, <1>3, <1>4, <1>7, <1>8

LEMMA NetReply ==
    ASSUME TypeInv, NEW m, NEW out, Reply(m, out), \A n \in out : Fits(n)
    PROVE  NetInv'
BY DEF TypeInv, NetInv, Reply

LEMMA NetSend ==
    ASSUME TypeInv, NEW out, Send(out), \A n \in out : Fits(n)
    PROVE  NetInv'
BY DEF TypeInv, NetInv, Send

\* What update_commit_index may come to: nothing, a vote on the entry that is
\* newly committed, or the execution of what is committed.
Voted(s, sh, r) ==
    /\ r.ci \in DOMAIN log[s] /\ r.ci > commitIndex[s] /\ r.failed = FALSE
    /\ Cross(log[s][r.ci].tx)
    /\ \E v \in {"yes", "no"} :
          /\ r.out = {Vote(s, log[s][r.ci].tx, v)}
          /\ v = "yes" => ~Overdrawn(s, sh, log[s][r.ci].tx)
    /\ r.sh = [sh EXCEPT !.pending = @ \cup {log[s][r.ci].tx}]

LEMMA UpdateCommitCases ==
    ASSUME TypeInv, NEW s \in Server, NEW sh \in ShardT(s), NEW mi
    PROVE  LET r == UpdateCommitIndex(s, sh, mi)
           IN  /\ r.ci \in Nat /\ r.ci >= commitIndex[s]
               /\ r.ci = commitIndex[s] \/ r.ci \in DOMAIN log[s]
               /\ r.ci # commitIndex[s] \/ r = NothingDone(s, sh)
               /\ \/ r = NothingDone(s, sh)
                  \/ Voted(s, sh, r)
                  \/ r = ApplyCommitted(s, sh, log[s], r.ci, role[s] = "leader")
<1> DEFINE copies(i) == 1 + Cardinality({p \in Peers[s] : mi[p] >= i})
           ok == {i \in commitIndex[s] + 1 .. Len(log[s]) :
                    /\ copies(i) >= Majority(s)
                    /\ log[s][i].term = currentTerm[s]}
           r == UpdateCommitIndex(s, sh, mi)
<1>0. /\ commitIndex[s] \in Nat /\ log[s] \in Seq(Entry) /\ Len(log[s]) \in Nat
      /\ DOMAIN log[s] = 1..Len(log[s])
  BY LenProperties DEF TypeInv, LogInv
<1>1. CASE ok = {}
  <2>1. r = NothingDone(s, sh)
    BY <1>1 DEF UpdateCommitIndex
  <2>2. r.ci = commitIndex[s]
    BY <2>1 DEF NothingDone
  <2> QED
    BY <1>0, <2>1, <2>2
<1>2. CASE ok # {}
  <2> DEFINE ci == Max(ok)
             e == log[s][ci]
  <2>1. ci \in ok
    <3>1. ok \subseteq 0..Len(log[s])
      BY <1>0
    <3> HIDE DEF ok
    <3> QED
      BY <1>0, <1>2, <3>1, MaxMember
  <2>2. ci \in DOMAIN log[s] /\ ci > commitIndex[s] /\ ci \in Nat
    BY <1>0, <2>1
  <2> HIDE DEF ok
  <2>3. CASE Cross(e.tx) /\ e.body # "none"
    <3>1. r = [ci |-> ci, failed |-> FALSE,
               sh |-> [sh EXCEPT !.pending = @ \cup {e.tx}],
               out |-> {Vote(s, e.tx, IF Overdrawn(s, sh, e.tx)
                                      THEN "no" ELSE "yes")}]
      BY <1>2, <2>3 DEF UpdateCommitIndex, Prepared, ok
    <3> HIDE DEF ci, r
    <3>2. /\ r.ci = ci /\ r.failed = FALSE /\ r.sh = [sh EXCEPT !.pending = @ \cup {e.tx}]
          /\ r.out = {Vote(s, e.tx, IF Overdrawn(s, sh, e.tx) THEN "no" ELSE "yes")}
      BY <3>1
    <3>4. \E v \in {"yes", "no"} : /\ r.out = {Vote(s, e.tx, v)}
                                  /\ v = "yes" => ~Overdrawn(s, sh, e.tx)
      BY <3>2
    <3>3. Voted(s, sh, r)
      BY <2>2, <2>3, <3>2, <3>4 DEF Voted
    <3> QED
      BY <1>0, <2>2, <3>2, <3>3 DEF r
  <2>4. CASE ~(Cross(e.tx) /\ e.body # "none")
    <3>1. r = ApplyCommitted(s, sh, log[s], ci, role[s] = "leader")
      BY <1>2, <2>4 DEF UpdateCommitIndex, ok
    <3>2. r.ci = ci
      BY <3>1 DEF ApplyCommitted
    <3> QED
      BY <1>0, <2>2, <3>1, <3>2
  <2> QED
    BY <2>3, <2>4
<1> QED
  BY <1>1, <1>2

LEMMA UpdateCommitTyped ==
    ASSUME TypeInv, NEW s \in Server, NEW sh \in ShardT(s), NEW mi
    PROVE  LET r == UpdateCommitIndex(s, sh, mi)
           IN  /\ r.sh \in ShardT(s) /\ r.ci \in Nat /\ r.failed \in BOOLEAN
               /\ \A m \in r.out : Fits(m)
<1> DEFINE r == UpdateCommitIndex(s, sh, mi)
<1>0. commitIndex[s] \in Nat /\ log[s] \in Seq(Entry) /\ r.ci \in Nat
  BY UpdateCommitCases DEF TypeInv, LogInv
<1> HIDE DEF r
<1>1. CASE r = NothingDone(s, sh)
  BY <1>0, <1>1 DEF NothingDone, r
<1>2. CASE Voted(s, sh, r)
  <2>1. log[s][r.ci].tx \in CrossTx
    <3>1. log[s][r.ci] \in Entry
      BY <1>0, <1>2, LenProperties, ElementOfSeq DEF Voted
    <3> QED
      BY <1>2, <3>1 DEF Voted, Entry, CrossTx
  <2>2. r.sh \in ShardT(s)
    <3>1. PICK pn : pn = sh.pending \cup {log[s][r.ci].tx}
      OBVIOUS
    <3>2. pn \subseteq CrossTx
      BY <2>1, <3>1 DEF ShardT
    <3>3. r.sh = [sh EXCEPT !.pending = pn]
      BY <1>2, <3>1 DEF Voted
    <3> QED
      BY <3>2, <3>3 DEF ShardT
  <2>3. \A m \in r.out : Fits(m)
    <3>1. \A v \in {"yes", "no"} : Vote(s, log[s][r.ci].tx, v) \in VoteT
      BY <2>1 DEF Vote, VoteT, CrossTx, Node
    <3> QED
      BY <1>2, <3>1, FitsRest DEF Voted
  <2> QED
    BY <1>0, <1>2, <2>2, <2>3 DEF Voted, r
<1>3. CASE r = ApplyCommitted(s, sh, log[s], r.ci, role[s] = "leader")
  BY <1>0, <1>3, ApplyCommittedTyped, FitsRest DEF r
<1>4. Voted(s, sh, r) \/ r = NothingDone(s, sh)
      \/ r = ApplyCommitted(s, sh, log[s], r.ci, role[s] = "leader")
  BY UpdateCommitCases DEF r
<1> QED
  BY <1>1, <1>2, <1>3, <1>4

-----------------------------------------------------------------------------
(* Every action of a server keeps the types. *)

ServerInv ==
    /\ NetInv /\ ElectionInv /\ LogInv /\ LeaderInv /\ ShardInv
    /\ QueueInv /\ WorkerInv /\ DecisionInv

LEMMA LastLogTyped ==
    ASSUME TypeInv, NEW s \in Server
    PROVE  LastLog(s) \in [term : Nat, index : Nat]
<1>1. log[s] \in Seq(Entry)
  BY DEF TypeInv, LogInv
<1>2. Len(log[s]) \in Nat /\ (log[s] # <<>> => Len(log[s]) \in 1..Len(log[s]))
  BY <1>1, EmptySeq, LenProperties
<1>3. log[s] # <<>> => log[s][Len(log[s])] \in Entry
  BY <1>1, <1>2, ElementOfSeq
<1> QED
  BY <1>2, <1>3 DEF LastLog, Entry

LEMMA MessageFacts ==
    ASSUME TypeInv, NEW m \in net, m.to \in Server
    PROVE  /\ m.type \in RaftType => m.from \in Peers[m.to] /\ m.from \in Server
           /\ m.type \in {"REQUEST_VOTE", "VOTE_RESPONSE", "APPEND_ENTRIES"} =>
                 m.term \in Nat
           /\ m.type = "APPEND_ENTRIES" => m \in AppendT
           /\ m.type = "APPEND_ACK" => m \in AckT(m.to)
           /\ m.type \in {"CLIENT_REQUEST", "PREPARE"} => m \in RequestT
           /\ m.type \in {"COMMIT", "ABORT"} => m \in DecisionT
BY PeerFacts DEF TypeInv, NetInv, Fits, RaftType, AppendT

LEMMA StartElectionTyped ==
    ASSUME TypeInv, NEW s \in Server,
           StartElection(s)
    PROVE  ServerInv'
<1>1. LogInv' /\ LeaderInv' /\ ShardInv' /\ QueueInv' /\ WorkerInv' /\ DecisionInv'
  BY DEF StartElection, TypeInv, LogInv, LeaderInv, ShardInv, QueueInv, WorkerInv, DecisionInv, serverVars, electionVars, logVars, leaderVars, decisionVars, threadVars, counters
<1>2. ElectionInv'
  BY DEF StartElection, TypeInv, ElectionInv, Role
<1>3. NetInv'
  <2> DEFINE out == {RequestVote(s, currentTerm[s] + 1, p) : p \in Peers[s]}
  <2>1. ASSUME NEW p \in Peers[s] PROVE Fits(RequestVote(s, currentTerm[s] + 1, p))
    <3>1. LastLog(s) \in [term : Nat, index : Nat]
      BY LastLogTyped
    <3>2. currentTerm[s] \in Nat
      BY DEF TypeInv, ElectionInv
    <3> QED
      BY <3>1, <3>2, PeerFacts DEF RequestVote, Fits, RaftType
  <2>2. Send(out)
    BY DEF StartElection
  <2> QED
    BY <2>1, <2>2, NetSend
<1> QED
  BY <1>1, <1>2, <1>3 DEF ServerInv

LEMMA AbandonElectionTyped ==
    ASSUME TypeInv, NEW s \in Server, NEW m \in net, m.to = s,
           AbandonElection(s, m)
    PROVE  ServerInv'
<1>1. LogInv' /\ LeaderInv' /\ ShardInv' /\ QueueInv' /\ WorkerInv' /\ DecisionInv'
  BY DEF AbandonElection, TypeInv, LogInv, LeaderInv, ShardInv, QueueInv, WorkerInv, DecisionInv, serverVars, electionVars, logVars, leaderVars, decisionVars, threadVars, counters
<1>2. NetInv'
  <2>1. Reply(m, {})
    BY DEF AbandonElection
  <2> QED
    BY <2>1, NetReply
<1>3. ElectionInv'
  BY MessageFacts DEF AbandonElection, EndsElection, TypeInv, ElectionInv, Role
<1> QED
  BY <1>1, <1>2, <1>3 DEF ServerInv

LEMMA BecomeLeaderTyped ==
    ASSUME TypeInv, NEW s \in Server, NEW m \in net, m.to = s,
           BecomeLeader(s, m)
    PROVE  ServerInv'
<1>1. LogInv' /\ ShardInv' /\ QueueInv' /\ WorkerInv' /\ DecisionInv'
  BY DEF BecomeLeader, TypeInv, LogInv, ShardInv, QueueInv, WorkerInv, DecisionInv, serverVars, electionVars, logVars, leaderVars, decisionVars, threadVars, counters
<1>2. NetInv'
  <2>1. Reply(m, {})
    BY DEF BecomeLeader
  <2> QED
    BY <2>1, NetReply
<1>3. ElectionInv'
  BY DEF BecomeLeader, TypeInv, ElectionInv, Role
<1>4. LeaderInv'
  <2>1. NextAtEnd(s) \in [Peers[s] -> Index]
    BY LenProperties DEF NextAtEnd, Index, TypeInv, LogInv
  <2> QED
    BY <2>1 DEF BecomeLeader, TypeInv, LeaderInv
<1> QED
  BY <1>1, <1>2, <1>3, <1>4 DEF ServerInv

LEMMA DropTyped ==
    ASSUME TypeInv, NEW s \in Server, NEW m \in net, m.to = s,
           Drop(s, m)
    PROVE  ServerInv'
<1>1. ElectionInv' /\ LogInv' /\ LeaderInv' /\ ShardInv' /\ QueueInv' /\ WorkerInv' /\ DecisionInv'
  BY DEF Drop, TypeInv, ElectionInv, LogInv, LeaderInv, ShardInv, QueueInv, WorkerInv, DecisionInv, serverVars, electionVars, logVars, leaderVars, decisionVars, threadVars, counters
<1>2. NetInv'
  <2>1. Reply(m, {})
    BY DEF Drop
  <2> QED
    BY <2>1, NetReply
<1> QED
  BY <1>1, <1>2 DEF ServerInv

LEMMA HandleVoteRequestTyped ==
    ASSUME TypeInv, NEW s \in Server, NEW m \in net, m.to = s,
           HandleVoteRequest(s, m)
    PROVE  ServerInv'
<1>1. LogInv' /\ LeaderInv' /\ ShardInv' /\ QueueInv' /\ WorkerInv' /\ DecisionInv'
  BY DEF HandleVoteRequest, TypeInv, LogInv, LeaderInv, ShardInv, QueueInv, WorkerInv, DecisionInv, serverVars, electionVars, logVars, leaderVars, decisionVars, threadVars, counters
<1>2. NetInv'
  <2> DEFINE v == VoteResponse(s, TermOf(s, m.term), m.from)
  <2>1. m.from \in Peers[s] /\ TermOf(s, m.term) \in Nat
    BY MessageFacts DEF HandleVoteRequest, TermOf, TypeInv, ElectionInv, RaftType
  <2>2. Fits(v)
    BY <2>1, PeerFacts DEF VoteResponse, Fits, RaftType
  <2>3. Reply(m, {v}) \/ Reply(m, {})
    BY DEF HandleVoteRequest
  <2> HIDE DEF v
  <2> QED
    BY <2>2, <2>3, NetReply
<1>3. ElectionInv'
  BY MessageFacts DEF HandleVoteRequest, RoleAt, TermOf, VoteAt, TypeInv, ElectionInv, Role, RaftType
<1> QED
  BY <1>1, <1>2, <1>3 DEF ServerInv

LEMMA CurrentTyped ==
    ASSUME TypeInv, NEW s \in Server
    PROVE  /\ log[s] \in Seq(Entry) /\ Len(log[s]) \in Nat
           /\ DOMAIN log[s] = 1..Len(log[s])
           /\ \A i \in DOMAIN log[s] : log[s][i] \in Entry
           /\ commitIndex[s] \in Nat /\ currentTerm[s] \in Nat
           /\ shard[s] \in ShardT(s)
           /\ nextIndex[s] \in [Peers[s] -> Index]
           /\ matchIndex[s] \in [Peers[s] -> Index]
           /\ txQueue[s] \in Seq(Tx) /\ ackQueue[s] \in Seq(AckT(s))
           /\ counting[s] \subseteq AckT(s)
           /\ worker[s].pc \in {"idle", "wait", "append", "repl", "dead"}
           /\ worker[s].tx \in Tx \cup {NoTx}
<1>1. log[s] \in Seq(Entry)
  BY DEF TypeInv, LogInv
<1>2. /\ Len(log[s]) \in Nat /\ DOMAIN log[s] = 1..Len(log[s])
      /\ \A i \in DOMAIN log[s] : log[s][i] \in Entry
  BY <1>1, LenProperties, ElementOfSeq
<1> QED
  BY <1>1, <1>2 DEF TypeInv, LogInv, ElectionInv, ShardInv, LeaderInv, QueueInv, WorkerInv

\* The log a request leaves: each entry is where the log or the request had it.
LEMMA MergedTyped ==
    ASSUME TypeInv, NEW s \in Server, NEW m \in AppendT, Consistent(s, m)
    PROVE  LET lg == Merged(s, m)
           IN  /\ lg \in Seq(Entry)
               /\ Len(lg) = IF m.entries = <<>> THEN Len(log[s])
                            ELSE m.prev + Len(m.entries)
               /\ \A i \in DOMAIN lg :
                     \/ i \in DOMAIN log[s] /\ lg[i] = log[s][i]
                        /\ (m.entries # <<>> => i <= m.prev)
                     \/ /\ i > m.prev /\ i - m.prev \in DOMAIN m.entries
                        /\ lg[i] = m.entries[i - m.prev]
<1>1. m.entries \in Seq(Entry) /\ m.prev \in Nat /\ m.prev <= Len(log[s])
  BY DEF AppendT, Consistent
<1>2. CASE m.entries = <<>>
  BY <1>2, CurrentTyped DEF Merged
<1>3. CASE m.entries # <<>>
  <2> DEFINE f == SubSeq(log[s], 1, m.prev)
  <2>1. /\ f \in Seq(Entry) /\ Len(f) = m.prev
        /\ \A i \in 1..m.prev : f[i] = log[s][i]
    <3>1. \A i \in 1..m.prev : log[s][i] \in Entry
      BY <1>1, CurrentTyped
    <3> QED
      BY <1>1, <3>1, SubSeqProperties
  <2> HIDE DEF f
  <2>2. /\ f \o m.entries \in Seq(Entry)
        /\ Len(f \o m.entries) = m.prev + Len(m.entries)
        /\ \A i \in 1..m.prev + Len(m.entries) : (f \o m.entries)[i] =
              IF i <= m.prev THEN f[i] ELSE m.entries[i - m.prev]
    <3> DEFINE e == m.entries
    <3>1. e \in Seq(Entry)
      BY <1>1
    <3> HIDE DEF e
    <3>2. /\ f \o e \in Seq(Entry) /\ Len(f \o e) = Len(f) + Len(e)
          /\ \A i \in 1..Len(f) + Len(e) : (f \o e)[i] =
                IF i <= Len(f) THEN f[i] ELSE e[i - Len(f)]
      BY <2>1, <3>1, ConcatProperties
    <3> QED
      BY <2>1, <3>2 DEF e
  <2>3. Merged(s, m) = f \o m.entries
    BY <1>3 DEF Merged, f
  <2>4. Len(m.entries) \in Nat /\ DOMAIN m.entries = 1..Len(m.entries)
        /\ DOMAIN Merged(s, m) = 1..m.prev + Len(m.entries)
    BY <1>1, <2>2, <2>3, LenProperties
  <2> QED
    BY <1>1, <1>3, <2>1, <2>2, <2>3, <2>4, CurrentTyped
<1> QED
  BY <1>2, <1>3

LEMMA ReceivedTyped ==
    ASSUME TypeInv, NEW s \in Server, NEW m \in AppendT
    PROVE  /\ Received(s, m) \in ShardT(s)
           /\ Received(s, m).ledger = shard[s].ledger
           /\ Received(s, m).applied = shard[s].applied
<1> DEFINE at == {j \in DOMAIN m.entries : m.entries[j].body # "none"}
           txs == {e.tx : e \in {m.entries[i] : i \in at}}
           lk == UNION {Touched(s, x) : x \in txs}
           pn == {x \in txs : Cross(x)}
<1>1. txs \subseteq Tx
  <2>1. m.entries \in Seq(Entry)
    BY DEF AppendT
  <2>2. \A i \in DOMAIN m.entries : m.entries[i].tx \in Tx
    <3>1. \A i \in DOMAIN m.entries : m.entries[i] \in Entry
      BY <2>1, LenProperties, ElementOfSeq
    <3> QED
      BY <3>1 DEF Entry
  <2> QED
    BY <2>2
<1>2. lk \subseteq AccountOf(s) /\ pn \subseteq CrossTx
  BY <1>1, TransferFacts DEF CrossTx
<1>3. Received(s, m) =
        [shard[s] EXCEPT !.locks = @ \cup lk, !.pending = @ \cup pn,
                         !.savedApplied = IF m.entries = <<>> THEN @ ELSE MissingKey]
  BY DEF Received
<1>4. shard[s] \in ShardT(s)
  BY CurrentTyped
<1> HIDE DEF lk, pn
<1> QED
  BY <1>2, <1>3, <1>4 DEF ShardT

LEMMA CommitAfterTyped ==
    ASSUME TypeInv, NEW s \in Server, NEW m \in AppendT, Consistent(s, m)
    PROVE  CommitAfter(s, m) \in Nat
<1>1. m.commit \in Nat /\ commitIndex[s] \in Nat /\ Len(Merged(s, m)) \in Nat
  BY CurrentTyped, MergedTyped, LenProperties DEF AppendT
<1>2. Min({m.commit, Len(Merged(s, m))}) \in Nat
  <2> DEFINE S == {m.commit, Len(Merged(s, m))}
  <2>1. S \in SUBSET Nat /\ S # {}
    BY <1>1
  <2> HIDE DEF S
  <2>2. Min(S) \in S
    BY <2>1, MinMember
  <2> QED
    BY <2>1, <2>2 DEF S
<1> QED
  BY <1>1, <1>2 DEF CommitAfter

LEMMA SeeLeaderTyped ==
    ASSUME TypeInv, NEW s \in Server, NEW m \in net, m.to = s, SeeLeader(s, m)
    PROVE  ElectionInv' /\ m \in AppendT /\ m.from \in Peers[s]
<1>1. m.from \in Peers[s] /\ m.from \in Server /\ m.term \in Nat /\ m \in AppendT
  BY MessageFacts DEF SeeLeader, RaftType
<1> QED
  BY <1>1 DEF SeeLeader, RoleAt, TermOf, VoteAt, TypeInv, ElectionInv, Role

LEMMA AckFits ==
    ASSUME NEW s \in Server, NEW p \in Peers[s], NEW ok \in BOOLEAN
    PROVE  Fits(AppendAck(s, p, ok))
BY PeerFacts DEF Fits, RaftType, AppendAck, AckT

LEMMA StaleAppendTyped ==
    ASSUME TypeInv, NEW s \in Server, NEW m \in net, m.to = s,
           StaleAppend(s, m)
    PROVE  ServerInv'
<1>1. ElectionInv' /\ LogInv' /\ LeaderInv' /\ ShardInv' /\ QueueInv' /\ WorkerInv' /\ DecisionInv'
  BY DEF StaleAppend, TypeInv, ElectionInv, LogInv, LeaderInv, ShardInv, QueueInv, WorkerInv, DecisionInv, serverVars, electionVars, logVars, leaderVars, decisionVars, threadVars, counters
<1>2. NetInv'
  <2> DEFINE a == AppendAck(s, m.from, FALSE)
  <2>1. Fits(a) /\ Reply(m, {a})
    BY MessageFacts, AckFits DEF StaleAppend, RaftType
  <2> HIDE DEF a
  <2> QED
    BY <2>1, NetReply
<1> QED
  BY <1>1, <1>2 DEF ServerInv

LEMMA RefuseAppendTyped ==
    ASSUME TypeInv, NEW s \in Server, NEW m \in net, m.to = s,
           RefuseAppend(s, m)
    PROVE  ServerInv'
<1>1. LogInv' /\ LeaderInv' /\ ShardInv' /\ QueueInv' /\ WorkerInv' /\ DecisionInv'
  BY DEF RefuseAppend, TypeInv, LogInv, LeaderInv, ShardInv, QueueInv, WorkerInv, DecisionInv, serverVars, electionVars, logVars, leaderVars, decisionVars, threadVars, counters
<1>2. ElectionInv'
  BY SeeLeaderTyped DEF RefuseAppend
<1>3. NetInv'
  <2>1. Reply(m, {AppendAck(s, m.from, FALSE)}) /\ m.from \in Peers[s]
    BY SeeLeaderTyped DEF RefuseAppend
  <2> QED
    BY <2>1, AckFits, NetReply
<1> QED
  BY <1>1, <1>2, <1>3 DEF ServerInv

LEMMA AcceptAppendTyped ==
    ASSUME TypeInv, NEW s \in Server, NEW m \in net, m.to = s,
           AcceptAppend(s, m)
    PROVE  ServerInv'
<1> DEFINE ci == CommitAfter(s, m)
           r == IF ci > commitIndex[s]
                THEN ApplyCommitted(s, Received(s, m), Merged(s, m), ci,
                                    RoleAt(s, m.term) = "leader")
                ELSE NothingDone(s, Received(s, m))
<1>0. /\ r.sh \in ShardT(s) /\ r.out \subseteq ResponseT /\ r.failed \in BOOLEAN
      /\ ci \in Nat /\ Merged(s, m) \in Seq(Entry)
      /\ shard' = [shard EXCEPT ![s] = r.sh]
      /\ halted' = IF r.failed THEN halted \cup {s} ELSE halted
  <2>1. m \in AppendT /\ Consistent(s, m)
    BY SeeLeaderTyped DEF AcceptAppend
  <2>2. /\ ci \in Nat /\ Merged(s, m) \in Seq(Entry)
        /\ Received(s, m) \in ShardT(s)
    BY <2>1, CommitAfterTyped, MergedTyped, ReceivedTyped
  <2>3. CASE ci > commitIndex[s]
    BY <2>2, <2>3, ApplyCommittedTyped DEF AcceptAppend
  <2>4. CASE ~(ci > commitIndex[s])
    BY <2>2, <2>4 DEF NothingDone, AcceptAppend
  <2> QED
    BY <2>3, <2>4
<1>1. LeaderInv' /\ QueueInv' /\ WorkerInv'
  BY DEF AcceptAppend, TypeInv, LeaderInv, QueueInv, WorkerInv, serverVars, electionVars, logVars, leaderVars, decisionVars, threadVars, counters
<1>2. ElectionInv'
  BY SeeLeaderTyped DEF AcceptAppend
<1>3. LogInv'
  BY <1>0 DEF AcceptAppend, TypeInv, LogInv
<1>4. ShardInv'
  BY <1>0 DEF TypeInv, ShardInv
<1>5. DecisionInv'
  BY <1>0 DEF AcceptAppend, TypeInv, DecisionInv, decisionVars, counters
<1>6. NetInv'
  <2> DEFINE out == r.out \cup IF r.failed THEN {} ELSE {AppendAck(s, m.from, TRUE)}
  <2>1. Reply(m, out)
    BY DEF AcceptAppend
  <2>2. \A n \in out : Fits(n)
    <3>1. m.from \in Peers[s]
      BY SeeLeaderTyped DEF AcceptAppend
    <3>2. Fits(AppendAck(s, m.from, TRUE))
      BY <3>1, AckFits
    <3> HIDE DEF r
    <3> QED
      BY <1>0, <3>2, FitsRest
  <2> HIDE DEF out
  <2> QED
    BY <2>1, <2>2, NetReply
<1> QED
  BY <1>1, <1>2, <1>3, <1>4, <1>5, <1>6 DEF ServerInv

LEMMA QueueAckTyped ==
    ASSUME TypeInv, NEW s \in Server, NEW m \in net, m.to = s,
           QueueAck(s, m)
    PROVE  ServerInv'
<1>1. ElectionInv' /\ LogInv' /\ LeaderInv' /\ ShardInv' /\ WorkerInv' /\ DecisionInv'
  BY DEF QueueAck, TypeInv, ElectionInv, LogInv, LeaderInv, ShardInv, WorkerInv, DecisionInv, serverVars, electionVars, logVars, leaderVars, decisionVars, threadVars, counters
<1>2. NetInv'
  <2>1. Reply(m, {})
    BY DEF QueueAck
  <2> QED
    BY <2>1, NetReply
<1>3. QueueInv'
  <2>1. m \in AckT(s) /\ ackQueue[s] \in Seq(AckT(s))
    BY MessageFacts, CurrentTyped DEF QueueAck
  <2>2. Append(ackQueue[s], m) \in Seq(AckT(s))
    BY <2>1, AppendProperties
  <2> QED
    BY <2>2 DEF QueueAck, TypeInv, QueueInv
<1> QED
  BY <1>1, <1>2, <1>3 DEF ServerInv

LEMMA TakeAckTyped ==
    ASSUME TypeInv, NEW s \in Server, NEW m \in net, m.to = s,
           TakeAck(s, m)
    PROVE  ServerInv'
<1>1. ElectionInv' /\ LogInv' /\ LeaderInv' /\ ShardInv' /\ WorkerInv' /\ DecisionInv'
  BY DEF TakeAck, TypeInv, ElectionInv, LogInv, LeaderInv, ShardInv, WorkerInv, DecisionInv, serverVars, electionVars, logVars, leaderVars, decisionVars, threadVars, counters
<1>2. NetInv'
  <2>1. Reply(m, {})
    BY DEF TakeAck
  <2> QED
    BY <2>1, NetReply
<1>3. QueueInv'
  <2>1. m \in AckT(s)
    BY MessageFacts DEF TakeAck
  <2> QED
    BY <2>1 DEF TakeAck, TypeInv, QueueInv
<1> QED
  BY <1>1, <1>2, <1>3 DEF ServerInv

LEMMA MatchTyped ==
    ASSUME TypeInv, NEW s \in Server, NEW p \in Peers[s]
    PROVE  /\ Len(log[s]) \in Index
           /\ [matchIndex[s] EXCEPT ![p] = Len(log[s])] \in [Peers[s] -> Index]
           /\ \A n \in Index :
                 [nextIndex[s] EXCEPT ![p] = n] \in [Peers[s] -> Index]
BY CurrentTyped DEF Index

LEMMA NothingTyped ==
    ASSUME TypeInv, NEW s \in Server
    PROVE  LET r == NothingDone(s, shard[s])
           IN  /\ r.sh \in ShardT(s) /\ r.ci \in Nat /\ r.failed \in BOOLEAN
               /\ r.out = {} /\ r.ci = commitIndex[s] /\ r.sh = shard[s]
               /\ r.failed = FALSE
BY CurrentTyped DEF NothingDone

LEMMA CountAckTyped ==
    ASSUME TypeInv, NEW s \in Server, NEW m \in counting[s], CountAck(s, m)
    PROVE  ServerInv'
<1> DEFINE mi == [matchIndex[s] EXCEPT ![m.from] = Len(log[s])]
           some == {p \in Peers[s] : mi[p] >= commitIndex[s]}
           r == IF Cardinality(some) > Cardinality(Peers[s]) \div 2
                THEN UpdateCommitIndex(s, shard[s], mi)
                ELSE NothingDone(s, shard[s])
<1>a. m.from \in Peers[s] /\ mi \in [Peers[s] -> Index]
      /\ [nextIndex[s] EXCEPT ![m.from] = Len(log[s])] \in [Peers[s] -> Index]
  BY CurrentTyped, MatchTyped DEF AckT
<1>b. /\ r.sh \in ShardT(s) /\ r.ci \in Nat /\ r.failed \in BOOLEAN
      /\ \A n \in r.out : Fits(n)
      /\ shard' = [shard EXCEPT ![s] = r.sh]
      /\ halted' = IF r.failed THEN halted \cup {s} ELSE halted
      /\ commitIndex' = [commitIndex EXCEPT ![s] = r.ci]
      /\ Send(r.out)
  <2>1. /\ shard' = [shard EXCEPT ![s] = r.sh]
        /\ halted' = IF r.failed THEN halted \cup {s} ELSE halted
        /\ commitIndex' = [commitIndex EXCEPT ![s] = r.ci]
        /\ Send(r.out)
    BY DEF CountAck
  <2>2. r = UpdateCommitIndex(s, shard[s], mi) \/ r = NothingDone(s, shard[s])
    OBVIOUS
  <2> HIDE DEF r
  <2>3. CASE r = UpdateCommitIndex(s, shard[s], mi)
    BY <2>1, <2>3, CurrentTyped, UpdateCommitTyped
  <2>4. CASE r = NothingDone(s, shard[s])
    BY <2>1, <2>4, NothingTyped
  <2> QED
    BY <2>2, <2>3, <2>4
<1> HIDE DEF r
<1>1. ElectionInv' /\ QueueInv' /\ WorkerInv'
  BY DEF CountAck, Counted, TypeInv, ElectionInv, QueueInv, WorkerInv, serverVars, electionVars, logVars, leaderVars, decisionVars, threadVars, counters
<1>2. LogInv'
  BY <1>b DEF CountAck, Counted, TypeInv, LogInv
<1>3. LeaderInv'
  <2>1. nextIndex' = [nextIndex EXCEPT ![s] = [nextIndex[s] EXCEPT ![m.from] = Len(log[s])]]
    BY DEF CountAck, TypeInv, LeaderInv
  <2>2. matchIndex' = [matchIndex EXCEPT ![s] = mi]
    BY DEF CountAck
  <2> HIDE DEF mi
  <2> QED
    BY <1>a, <2>1, <2>2 DEF TypeInv, LeaderInv
<1>4. ShardInv'
  BY <1>b DEF TypeInv, ShardInv
<1>5. DecisionInv'
  BY <1>b DEF CountAck, Counted, TypeInv, DecisionInv, decisionVars, counters
<1>6. NetInv'
  BY <1>b, NetSend
<1> QED
  BY <1>1, <1>2, <1>3, <1>4, <1>5, <1>6 DEF ServerInv

LEMMA SteppedTyped ==
    ASSUME TypeInv, NEW s \in Server, NEW p \in Peers[s]
    PROVE  /\ SteppedBack(nextIndex[s][p]) \in Nat
           /\ CanSend(log[s], SteppedBack(nextIndex[s][p])) =>
                 Fits(AppendEntries(s, p, log[s], SteppedBack(nextIndex[s][p])))
<1> DEFINE n == SteppedBack(nextIndex[s][p])
<1>1. n \in Nat
  <2>1. nextIndex[s][p] \in Index
    BY CurrentTyped
  <2> QED
    BY <2>1 DEF SteppedBack, Index, MissingKey
<1> HIDE DEF n
<1>2. ASSUME CanSend(log[s], n) PROVE n \in 0..Len(log[s]) /\ log[s] \in Seq(Entry)
  BY <1>1, <1>2, CurrentTyped DEF CanSend
<1>3. CanSend(log[s], n) => Fits(AppendEntries(s, p, log[s], n))
  BY <1>2, FitsAppend
<1> QED
  BY <1>1, <1>3 DEF n

LEMMA RepairFollowerTyped ==
    ASSUME TypeInv, NEW s \in Server, NEW m \in counting[s], RepairFollower(s, m)
    PROVE  ServerInv'
<1> DEFINE next == SteppedBack(nextIndex[s][m.from])
<1>a. m.from \in Peers[s] /\ next \in Nat
      /\ (CanSend(log[s], next) => Fits(AppendEntries(s, m.from, log[s], next)))
  BY CurrentTyped, SteppedTyped DEF AckT
<1>1. ElectionInv' /\ LogInv' /\ ShardInv' /\ QueueInv' /\ WorkerInv'
  BY DEF RepairFollower, Counted, TypeInv, ElectionInv, LogInv, ShardInv, QueueInv, WorkerInv, serverVars, electionVars, logVars, leaderVars, decisionVars, threadVars, counters
<1>2. LeaderInv'
  <2>1. \/ nextIndex' = nextIndex
        \/ nextIndex' = [nextIndex EXCEPT ![s] = [nextIndex[s] EXCEPT ![m.from] = next]]
    BY DEF RepairFollower, TypeInv, LeaderInv
  <2>2. [nextIndex[s] EXCEPT ![m.from] = next] \in [Peers[s] -> Index]
    BY <1>a, MatchTyped DEF Index
  <2>3. matchIndex' = matchIndex
    BY DEF RepairFollower
  <2> HIDE DEF next
  <2> QED
    BY <2>1, <2>2, <2>3 DEF TypeInv, LeaderInv
<1>3. DecisionInv'
  BY DEF RepairFollower, Counted, TypeInv, DecisionInv, decisionVars, counters
<1>4. NetInv'
  <2> DEFINE a == AppendEntries(s, m.from, log[s], next)
  <2>1. \/ Send({})
        \/ Send({a}) /\ CanSend(log[s], next)
    BY DEF RepairFollower
  <2>2. CanSend(log[s], next) => Fits(a)
    BY <1>a
  <2> HIDE DEF a
  <2> QED
    BY <2>1, <2>2, NetSend
<1> QED
  BY <1>1, <1>2, <1>3, <1>4 DEF ServerInv

LEMMA TakeRequestTyped ==
    ASSUME TypeInv, NEW s \in Server, NEW m \in net, m.to = s,
           TakeRequest(s, m)
    PROVE  ServerInv'
<1>1. ElectionInv' /\ LogInv' /\ LeaderInv' /\ ShardInv' /\ WorkerInv' /\ DecisionInv'
  BY DEF TakeRequest, TypeInv, ElectionInv, LogInv, LeaderInv, ShardInv, WorkerInv, DecisionInv, serverVars, electionVars, logVars, leaderVars, decisionVars, threadVars, counters
<1>2. QueueInv'
  <2>1. m.tx \in Tx /\ txQueue[s] \in Seq(Tx)
    BY MessageFacts, CurrentTyped DEF TakeRequest, RequestT
  <2>2. Append(txQueue[s], m.tx) \in Seq(Tx)
    BY <2>1, AppendProperties
  <2> QED
    BY <2>2 DEF TakeRequest, TypeInv, QueueInv
<1>3. NetInv'
  <2> DEFINE f == [m EXCEPT !.to = currentLeader[s]]
  <2>1. Reply(m, {}) \/ (Reply(m, {f}) /\ currentLeader[s] # NoServer)
    BY DEF TakeRequest
  <2>2. m \in RequestT /\ currentLeader[s] \in Server \cup {NoServer}
    BY MessageFacts DEF TakeRequest, TypeInv, ElectionInv
  <2>3. currentLeader[s] # NoServer => f \in RequestT
    BY <2>2 DEF RequestT, Node
  <2> HIDE DEF f
  <2> QED
    BY <2>1, <2>3, FitsRest, NetReply
<1> QED
  BY <1>1, <1>2, <1>3 DEF ServerInv

LEMMA IgnoreDecisionTyped ==
    ASSUME TypeInv, NEW s \in Server, NEW m \in net, m.to = s,
           IgnoreDecision(s, m)
    PROVE  ServerInv'
<1>1. ElectionInv' /\ LogInv' /\ LeaderInv' /\ ShardInv' /\ QueueInv' /\ WorkerInv'
  BY DEF IgnoreDecision, TypeInv, ElectionInv, LogInv, LeaderInv, ShardInv, QueueInv, WorkerInv, serverVars, electionVars, logVars, leaderVars, decisionVars, threadVars, counters
<1>2. DecisionInv'
  BY MessageFacts DEF IgnoreDecision, TypeInv, DecisionInv, DecisionT, counters
<1>3. NetInv'
  <2>1. Reply(m, {})
    BY DEF IgnoreDecision
  <2> QED
    BY <2>1, NetReply
<1> QED
  BY <1>1, <1>2, <1>3 DEF ServerInv

\* A decision changes nothing but the flag of one entry.
DecidedLog(s, m) ==
    LET at == Decidable(s, m.tx)
    IN  IF at = {} THEN log[s]
        ELSE [log[s] EXCEPT ![Min(at)].committed = (m.type = "COMMIT")]

LEMMA DecidedTyped ==
    ASSUME TypeInv, NEW s \in Server, NEW m \in DecisionT
    PROVE  LET lg == DecidedLog(s, m)
           IN  /\ lg \in Seq(Entry) /\ Len(lg) = Len(log[s])
               /\ DOMAIN lg = DOMAIN log[s]
               /\ \A i \in DOMAIN lg :
                     /\ lg[i].tx = log[s][i].tx
                     /\ lg[i].term = log[s][i].term
                     /\ lg[i].body = log[s][i].body
                     /\ \/ lg[i].committed = log[s][i].committed
                        \/ /\ lg[i].committed = (m.type = "COMMIT")
                           /\ lg[i].tx = m.tx
<1> DEFINE at == Decidable(s, m.tx)
           k == Min(at)
           b == (m.type = "COMMIT")
           lg == DecidedLog(s, m)
<1>1. CASE at = {}
  <2>1. lg = log[s]
    BY <1>1 DEF DecidedLog
  <2> QED
    BY <2>1, CurrentTyped
<1>2. CASE at # {}
  <2>1. k \in at
    <3>1. at \in SUBSET Nat
      BY CurrentTyped DEF Decidable
    <3> HIDE DEF at
    <3> QED
      BY <1>2, <3>1, MinMember
  <2>2. k \in DOMAIN log[s] /\ log[s][k].tx = m.tx
    BY <2>1 DEF Decidable
  <2>3. lg = [log[s] EXCEPT ![k].committed = b]
    BY <1>2 DEF DecidedLog
  <2> HIDE DEF k, lg
  <2>4. log[s] \in Seq(Entry) /\ \A i \in DOMAIN log[s] : log[s][i] \in Entry
    BY CurrentTyped
  <2> DEFINE e == [log[s][k] EXCEPT !.committed = b]
  <2>5. /\ e \in Entry /\ e.tx = log[s][k].tx /\ e.term = log[s][k].term
        /\ e.body = log[s][k].body /\ e.committed = b
    <3>1. log[s][k] \in Entry /\ b \in BOOLEAN
      BY <2>2, <2>4
    <3> HIDE DEF b
    <3> QED
      BY <3>1 DEF Entry
  <2>6. lg = [log[s] EXCEPT ![k] = e]
    BY <2>3
  <2> HIDE DEF e
  <2>7. lg \in Seq(Entry) /\ Len(lg) = Len(log[s])
        /\ \A i \in 1..Len(log[s]) : lg[i] = IF i = k THEN e ELSE log[s][i]
    BY <2>2, <2>4, <2>5, <2>6, CurrentTyped, ExceptSeq
  <2>8. DOMAIN lg = DOMAIN log[s]
    BY <2>6
  <2>9. DOMAIN log[s] = 1..Len(log[s])
    BY CurrentTyped
  <2>10. ASSUME NEW i \in DOMAIN lg
         PROVE  lg[i] = log[s][i] \/ (i = k /\ lg[i] = e)
    BY <2>7, <2>8, <2>9
  <2> HIDE DEF b
  <2>11. ASSUME NEW i \in DOMAIN lg
         PROVE  /\ lg[i].tx = log[s][i].tx
                /\ lg[i].term = log[s][i].term
                /\ lg[i].body = log[s][i].body
                /\ \/ lg[i].committed = log[s][i].committed
                   \/ lg[i].committed = b /\ lg[i].tx = m.tx
    <3>1. CASE lg[i] = log[s][i]
      BY <3>1
    <3>2. CASE i = k /\ lg[i] = e
      BY <2>2, <2>5, <3>2
    <3> QED
      BY <2>10, <3>1, <3>2
  <2> QED
    BY <2>7, <2>8, <2>11 DEF b, lg
<1> QED
  BY <1>1, <1>2

LEMMA HandleDecisionTyped ==
    ASSUME TypeInv, NEW s \in Server, NEW m \in net, m.to = s,
           HandleDecision(s, m)
    PROVE  ServerInv'
<1> DEFINE lg == DecidedLog(s, m)
           sh == IF Decidable(s, m.tx) = {} THEN shard[s] ELSE LogSaved(shard[s])
           sh2 == [sh EXCEPT !.pending = @ \ {m.tx}]
           r == ApplyCommitted(s, sh2, lg, commitIndex[s], role[s] = "leader")
<1>a. /\ m \in DecisionT /\ lg \in Seq(Entry)
      /\ r.sh \in ShardT(s) /\ r.out \subseteq ResponseT /\ r.failed \in BOOLEAN
      /\ shard' = [shard EXCEPT ![s] = r.sh]
      /\ log' = [log EXCEPT ![s] = lg]
      /\ halted' = IF r.failed THEN halted \cup {s} ELSE halted
  <2>1. m \in DecisionT
    BY MessageFacts DEF HandleDecision
  <2>2. lg \in Seq(Entry)
    BY <2>1, DecidedTyped
  <2>3. sh2 \in ShardT(s)
    <3>1. shard[s] \in ShardT(s)
      BY CurrentTyped
    <3>2. sh \in ShardT(s)
      BY <3>1 DEF LogSaved, ShardT
    <3> HIDE DEF sh
    <3> QED
      BY <3>2 DEF ShardT
  <2>4. commitIndex[s] \in Nat
    BY CurrentTyped
  <2>5. r.sh \in ShardT(s) /\ r.out \subseteq ResponseT /\ r.failed \in BOOLEAN
    <3> HIDE DEF sh2, lg
    <3> QED
      BY <2>2, <2>3, <2>4, ApplyCommittedTyped
  <2> QED
    BY <2>1, <2>2, <2>5 DEF HandleDecision, DecidedLog
<1> HIDE DEF lg, r
<1>1. ElectionInv' /\ LeaderInv' /\ QueueInv' /\ WorkerInv'
  BY DEF HandleDecision, TypeInv, ElectionInv, LeaderInv, QueueInv, WorkerInv, serverVars, electionVars, logVars, leaderVars, decisionVars, threadVars, counters
<1>2. LogInv'
  <2>1. commitIndex' = commitIndex
    BY DEF HandleDecision
  <2> QED
    BY <1>a, <2>1 DEF TypeInv, LogInv
<1>3. ShardInv'
  BY <1>a DEF TypeInv, ShardInv
<1>4. DecisionInv'
  <2>1. /\ processed' = [processed EXCEPT ![s] = @ \cup {<<m.tx, m.type>>}]
        /\ timedOut' = timedOut /\ heartbeats' = heartbeats /\ restarted' = restarted
    BY DEF HandleDecision, counters
  <2> QED
    BY <1>a, <2>1 DEF TypeInv, DecisionInv, DecisionT
<1>5. NetInv'
  <2> DEFINE o == r.out \cup IF r.failed THEN {} ELSE {Ack(s, m.tx)}
  <2>1. Reply(m, o)
    BY DEF HandleDecision, DecidedLog, lg, r
  <2>2. Fits(Ack(s, m.tx))
    BY <1>a DEF DecisionT, Fits, Ack, RaftType, Node
  <2>3. \A n \in o : Fits(n)
    BY <1>a, <2>2, FitsRest
  <2> HIDE DEF o
  <2> QED
    BY <2>1, <2>3, NetReply
<1> QED
  BY <1>1, <1>2, <1>3, <1>4, <1>5 DEF ServerInv

\* The worker's steps.
LEMMA HeadTyped ==
    ASSUME TypeInv, NEW s \in Server, txQueue[s] # <<>>
    PROVE  Head(txQueue[s]) \in Tx /\ Tail(txQueue[s]) \in Seq(Tx)
BY CurrentTyped, HeadTailProperties

LEMMA AckHeadTyped ==
    ASSUME TypeInv, NEW s \in Server, ackQueue[s] # <<>>
    PROVE  Head(ackQueue[s]) \in AckT(s) /\ Tail(ackQueue[s]) \in Seq(AckT(s))
BY CurrentTyped, HeadTailProperties

\* What Replicate sends: what each follower is believed to miss of the log.
LEMMA ReplicateNet ==
    ASSUME TypeInv, NEW s \in Server, Replicate(s)
    PROVE  /\ nextIndex' = [nextIndex EXCEPT ![s] = nextIndex'[s]]
           /\ nextIndex'[s] \in [Peers[s] -> Nat]
           /\ \E to \in SUBSET {p \in Peers[s] : nextIndex'[s][p] <= Len(log[s])} :
                 Send({AppendEntries(s, p, log[s], nextIndex'[s][p]) : p \in to})
<1> DEFINE next == [p \in Peers[s] |-> IF nextIndex[s][p] = MissingKey
                                       THEN Len(log[s]) ELSE nextIndex[s][p]]
<1>1. nextIndex' = [nextIndex EXCEPT ![s] = next]
  BY DEF Replicate
<1>2. \E to \in SUBSET {p \in Peers[s] : CanSend(log[s], next[p])} :
         Send({AppendEntries(s, p, log[s], next[p]) : p \in to})
  BY DEF Replicate
<1>3. next \in [Peers[s] -> Nat]
  <2>1. Len(log[s]) \in Nat /\ \A p \in Peers[s] : nextIndex[s][p] \in Index
    BY CurrentTyped
  <2> QED
    BY <2>1 DEF Index
<1>4. nextIndex'[s] = next
  BY <1>1 DEF TypeInv, LeaderInv
<1> HIDE DEF next
<1>5. \E to \in SUBSET {p \in Peers[s] : nextIndex'[s][p] <= Len(log[s])} :
         Send({AppendEntries(s, p, log[s], nextIndex'[s][p]) : p \in to})
  BY <1>2, <1>4 DEF CanSend
<1> QED
  BY <1>1, <1>3, <1>4, <1>5

LEMMA ReplicateTyped ==
    ASSUME TypeInv, NEW s \in Server, Replicate(s)
    PROVE  ServerInv'
<1>1. ElectionInv' /\ LogInv' /\ ShardInv' /\ QueueInv' /\ DecisionInv'
  BY DEF Replicate, TypeInv, ElectionInv, LogInv, ShardInv, QueueInv, DecisionInv, electionVars, logVars, decisionVars, counters
<1>2. LeaderInv'
  <2>1. /\ nextIndex' = [nextIndex EXCEPT ![s] = nextIndex'[s]]
        /\ nextIndex'[s] \in [Peers[s] -> Nat]
    BY ReplicateNet
  <2>2. matchIndex' = matchIndex /\ nextIndex'[s] \in [Peers[s] -> Index]
    BY <2>1 DEF Replicate, Index
  <2> DEFINE n == nextIndex'[s]
  <2>3. nextIndex' = [nextIndex EXCEPT ![s] = n] /\ n \in [Peers[s] -> Index]
    BY <2>1, <2>2
  <2> HIDE DEF n
  <2> QED
    BY <2>2, <2>3 DEF TypeInv, LeaderInv
<1>3. WorkerInv'
  BY DEF Replicate, TypeInv, WorkerInv
<1>4. NetInv'
  <2>1. PICK to \in SUBSET {p \in Peers[s] : nextIndex'[s][p] <= Len(log[s])} :
           Send({AppendEntries(s, p, log[s], nextIndex'[s][p]) : p \in to})
    BY ReplicateNet
  <2>2. ASSUME NEW p \in to PROVE Fits(AppendEntries(s, p, log[s], nextIndex'[s][p]))
    <3>1. /\ p \in Peers[s] /\ log[s] \in Seq(Entry)
          /\ nextIndex'[s][p] \in 0..Len(log[s])
      BY <2>1, ReplicateNet, CurrentTyped
    <3> QED
      BY <3>1, FitsAppend
  <2> DEFINE o == {AppendEntries(s, p, log[s], nextIndex'[s][p]) : p \in to}
  <2>3. Send(o) /\ \A n \in o : Fits(n)
    BY <2>1, <2>2
  <2> HIDE DEF o
  <2> QED
    BY <2>3, NetSend
<1> QED
  BY <1>1, <1>2, <1>3, <1>4 DEF ServerInv

\* The log that AppendTransfer leaves.
LEMMA AppendedLog ==
    ASSUME TypeInv, NEW s \in Server, NEW x \in Tx
    PROVE  LET lg == Append(log[s], NewEntry(s, x))
           IN  /\ NewEntry(s, x) \in Entry /\ lg \in Seq(Entry)
               /\ Len(lg) = Len(log[s]) + 1
               /\ \A i \in 1..Len(log[s]) : lg[i] = log[s][i]
               /\ lg[Len(log[s]) + 1] = NewEntry(s, x)
               /\ DOMAIN lg = 1..(Len(log[s]) + 1)
<1> DEFINE lg == Append(log[s], NewEntry(s, x))
<1>1. NewEntry(s, x) \in Entry
  BY CurrentTyped DEF NewEntry, Entry
<1>2. /\ lg \in Seq(Entry) /\ Len(lg) = Len(log[s]) + 1
      /\ \A i \in 1..Len(log[s]) : lg[i] = log[s][i]
      /\ lg[Len(log[s]) + 1] = NewEntry(s, x)
  BY <1>1, CurrentTyped, AppendProperties
<1>3. DOMAIN lg = 1..(Len(log[s]) + 1)
  <2> HIDE DEF lg
  <2> QED
    BY <1>2, LenProperties
<1> QED
  BY <1>1, <1>2, <1>3

LEMMA AppendTransferTyped ==
    ASSUME TypeInv, NEW s \in Server, NEW x \in Tx, AppendTransfer(s, x)
    PROVE  /\ NetInv' /\ ElectionInv' /\ LogInv' /\ LeaderInv' /\ ShardInv'
           /\ WorkerInv' /\ DecisionInv' /\ UNCHANGED <<ackQueue, counting>>
<1>1. /\ NetInv' /\ ElectionInv' /\ LeaderInv' /\ DecisionInv'
      /\ UNCHANGED <<ackQueue, counting>>
  BY DEF AppendTransfer, TypeInv, NetInv, ElectionInv, LeaderInv, DecisionInv, electionVars, leaderVars, decisionVars, counters
<1>2. LogInv'
  BY AppendedLog DEF AppendTransfer, TypeInv, LogInv
<1>3. ShardInv'
  <2> DEFINE sh == LogSaved([shard[s] EXCEPT !.locks = @ \cup Touched(s, x)])
  <2>1. sh \in ShardT(s)
    BY CurrentTyped, TransferFacts DEF LogSaved, ShardT
  <2>2. shard' = [shard EXCEPT ![s] = sh]
    BY DEF AppendTransfer
  <2> HIDE DEF sh
  <2> QED
    BY <2>1, <2>2 DEF TypeInv, ShardInv
<1>4. WorkerInv'
  BY TransferFacts DEF AppendTransfer, TypeInv, WorkerInv
<1> QED
  BY <1>1, <1>2, <1>3, <1>4

LEMMA RejectTransferTyped ==
    ASSUME TypeInv, NEW s \in Server,
           RejectTransfer(s)
    PROVE  ServerInv'
<1>1. ElectionInv' /\ LogInv' /\ LeaderInv' /\ ShardInv' /\ WorkerInv' /\ DecisionInv'
  BY DEF RejectTransfer, TypeInv, ElectionInv, LogInv, LeaderInv, ShardInv, WorkerInv, DecisionInv, serverVars, electionVars, logVars, leaderVars, decisionVars, threadVars, counters
<1>2. QueueInv'
  <2>1. txQueue[s] # <<>> /\ txQueue' = [txQueue EXCEPT ![s] = Tail(@)]
        /\ UNCHANGED <<ackQueue, counting>>
    BY DEF RejectTransfer, NextInQueue, Taken
  <2> QED
    BY <2>1, HeadTyped DEF TypeInv, QueueInv
<1>3. NetInv'
  <2>1. PICK x \in Tx : Send({IF Cross(x) THEN Vote(s, x, "no")
                              ELSE ClientResponse(x, FALSE)})
    BY DEF RejectTransfer
  <2>2. Vote(s, x, "no") \in VoteT /\ ClientResponse(x, FALSE) \in ResponseT
    BY DEF Vote, VoteT, ClientResponse, ResponseT, Node
  <2> DEFINE o == {IF Cross(x) THEN Vote(s, x, "no") ELSE ClientResponse(x, FALSE)}
  <2>3. Send(o) /\ \A n \in o : Fits(n)
    BY <2>1, <2>2, FitsRest
  <2> HIDE DEF o
  <2> QED
    BY <2>3, NetSend
<1> QED
  BY <1>1, <1>2, <1>3 DEF ServerInv

LEMMA AwaitLocksTyped ==
    ASSUME TypeInv, NEW s \in Server,
           AwaitLocks(s)
    PROVE  ServerInv'
<1>1. ElectionInv' /\ LogInv' /\ LeaderInv' /\ ShardInv' /\ DecisionInv'
  BY DEF AwaitLocks, TypeInv, ElectionInv, LogInv, LeaderInv, ShardInv, DecisionInv, serverVars, electionVars, logVars, leaderVars, decisionVars, threadVars, counters
<1>2. NetInv'
  BY DEF AwaitLocks, TypeInv, NetInv
<1>3. QueueInv'
  <2>1. txQueue[s] # <<>> /\ txQueue' = [txQueue EXCEPT ![s] = Tail(@)]
        /\ UNCHANGED <<ackQueue, counting>>
    BY DEF AwaitLocks, NextInQueue, Taken
  <2> QED
    BY <2>1, HeadTyped DEF TypeInv, QueueInv
<1>4. WorkerInv'
  <2>1. PICK x \in Tx :
           worker' = [worker EXCEPT ![s] = [Idle EXCEPT !.pc = "wait", !.tx = x]]
    BY DEF AwaitLocks
  <2> DEFINE w == [Idle EXCEPT !.pc = "wait", !.tx = x]
  <2>2. /\ w \in [pc : {"idle", "wait", "append", "repl", "dead"}, tx : Tx \cup {NoTx}]
        /\ w.pc = "wait" /\ w.tx # NoTx
    BY TransferFacts DEF Idle
  <2>3. worker' = [worker EXCEPT ![s] = w]
    BY <2>1
  <2> HIDE DEF w
  <2> QED
    BY <2>2, <2>3 DEF TypeInv, WorkerInv
<1> QED
  BY <1>1, <1>2, <1>3, <1>4 DEF ServerInv

LEMMA AppendIntraTyped ==
    ASSUME TypeInv, NEW s \in Server, AppendIntra(s)
    PROVE  ServerInv'
<1>1. worker[s].tx \in Tx /\ AppendTransfer(s, worker[s].tx) /\ txQueue' = txQueue
  BY DEF AppendIntra, TypeInv, WorkerInv
<1>2. QueueInv'
  BY <1>1, AppendTransferTyped DEF TypeInv, QueueInv
<1> QED
  BY <1>1, <1>2, AppendTransferTyped DEF ServerInv

LEMMA AppendCrossTyped ==
    ASSUME TypeInv, NEW s \in Server, AppendCross(s)
    PROVE  ServerInv'
<1>1. PICK x \in Tx : NextInQueue(s, x) /\ AppendTransfer(s, x) /\ Taken(s)
  BY DEF AppendCross
<1>2. QueueInv'
  <2>1. txQueue[s] # <<>> /\ txQueue' = [txQueue EXCEPT ![s] = Tail(@)]
        /\ UNCHANGED <<ackQueue, counting>>
    BY <1>1, AppendTransferTyped DEF NextInQueue, Taken
  <2> QED
    BY <2>1, HeadTyped DEF TypeInv, QueueInv
<1> QED
  BY <1>1, <1>2, AppendTransferTyped DEF ServerInv

LEMMA LockTimeoutTyped ==
    ASSUME TypeInv, NEW s \in Server,
           LockTimeout(s)
    PROVE  ServerInv'
<1>1. ElectionInv' /\ LogInv' /\ LeaderInv' /\ ShardInv' /\ QueueInv' /\ DecisionInv'
  BY DEF LockTimeout, TypeInv, ElectionInv, LogInv, LeaderInv, ShardInv, QueueInv, DecisionInv, serverVars, electionVars, logVars, leaderVars, decisionVars, threadVars, counters
<1>2. WorkerInv'
  BY DEF LockTimeout, TypeInv, WorkerInv, Idle, NoTx
<1>3. NetInv'
  <2>1. worker[s].tx \in Tx /\ Send({ClientResponse(worker[s].tx, FALSE)})
    BY DEF LockTimeout, TypeInv, WorkerInv
  <2>2. ClientResponse(worker[s].tx, FALSE) \in ResponseT
    BY <2>1 DEF ClientResponse, ResponseT
  <2> QED
    BY <2>1, <2>2, FitsRest, NetSend
<1> QED
  BY <1>1, <1>2, <1>3 DEF ServerInv

LEMMA CountWorkerAckTyped ==
    ASSUME TypeInv, NEW s \in Server, ackQueue[s] # <<>>,
           CountWorkerAck(s, Head(ackQueue[s]))
    PROVE  ServerInv'
<1> DEFINE a == Head(ackQueue[s])
           mi == [matchIndex[s] EXCEPT ![a.from] = Len(log[s])]
           r == UpdateCommitIndex(s, shard[s], mi)
<1>a. a.from \in Peers[s] /\ mi \in [Peers[s] -> Index]
      /\ [nextIndex[s] EXCEPT ![a.from] = Len(log[s])] \in [Peers[s] -> Index]
  BY AckHeadTyped, MatchTyped DEF AckT
<1>b. /\ r.sh \in ShardT(s) /\ r.ci \in Nat /\ r.failed \in BOOLEAN
      /\ \A n \in r.out : Fits(n)
      /\ shard' = [shard EXCEPT ![s] = r.sh]
      /\ commitIndex' = [commitIndex EXCEPT ![s] = r.ci]
      /\ Send(r.out) /\ PoppedAck(s)
  <2>1. /\ shard' = [shard EXCEPT ![s] = r.sh]
        /\ commitIndex' = [commitIndex EXCEPT ![s] = r.ci]
        /\ Send(r.out) /\ PoppedAck(s)
    BY DEF CountWorkerAck
  <2> HIDE DEF mi
  <2> QED
    BY <2>1, CurrentTyped, UpdateCommitTyped
<1> HIDE DEF r
<1>1. ElectionInv' /\ DecisionInv'
  BY DEF CountWorkerAck, PoppedAck, TypeInv, ElectionInv, DecisionInv, serverVars, electionVars, logVars, leaderVars, decisionVars, threadVars, counters
<1>2. LogInv'
  BY <1>b DEF PoppedAck, TypeInv, LogInv
<1>3. LeaderInv'
  <2>1. nextIndex' = [nextIndex EXCEPT ![s] = [nextIndex[s] EXCEPT ![a.from] = Len(log[s])]]
    BY DEF CountWorkerAck, TypeInv, LeaderInv
  <2>2. matchIndex' = [matchIndex EXCEPT ![s] = mi]
    BY DEF CountWorkerAck
  <2> HIDE DEF mi
  <2> QED
    BY <1>a, <2>1, <2>2 DEF TypeInv, LeaderInv
<1>4. ShardInv'
  BY <1>b DEF TypeInv, ShardInv
<1>5. WorkerInv'
  <2>1. worker' = [worker EXCEPT ![s] = [worker[s] EXCEPT !.pc = "dead"]]
        \/ worker' = [worker EXCEPT ![s] = Idle]
    BY DEF CountWorkerAck
  <2>2. worker[s].pc = "repl"
    BY <1>b DEF PoppedAck
  <2> QED
    BY <2>1, <2>2 DEF TypeInv, WorkerInv, Idle, NoTx
<1>6. QueueInv'
  BY <1>b, AckHeadTyped DEF PoppedAck, TypeInv, QueueInv
<1>7. NetInv'
  BY <1>b, NetSend
<1> QED
  BY <1>1, <1>2, <1>3, <1>4, <1>5, <1>6, <1>7 DEF ServerInv

LEMMA RetryFollowerTyped ==
    ASSUME TypeInv, NEW s \in Server, ackQueue[s] # <<>>,
           RetryFollower(s, Head(ackQueue[s]))
    PROVE  ServerInv'
<1> DEFINE a == Head(ackQueue[s])
           next == SteppedBack(nextIndex[s][a.from])
<1>a. a.from \in Peers[s] /\ next \in Nat
      /\ (CanSend(log[s], next) => Fits(AppendEntries(s, a.from, log[s], next)))
  <2>1. a.from \in Peers[s]
    BY AckHeadTyped DEF AckT
  <2> HIDE DEF a
  <2> QED
    BY <2>1, SteppedTyped
<1>1. ElectionInv' /\ ShardInv' /\ DecisionInv'
  BY DEF RetryFollower, PoppedAck, TypeInv, ElectionInv, ShardInv, DecisionInv, serverVars, electionVars, logVars, leaderVars, decisionVars, threadVars, counters
<1>2. LogInv'
  BY DEF RetryFollower, PoppedAck, TypeInv, LogInv
<1>3. LeaderInv'
  <2>1. nextIndex' = [nextIndex EXCEPT ![s] = [nextIndex[s] EXCEPT ![a.from] = next]]
    BY DEF RetryFollower, TypeInv, LeaderInv
  <2>2. [nextIndex[s] EXCEPT ![a.from] = next] \in [Peers[s] -> Index]
    BY <1>a, MatchTyped DEF Index
  <2>3. matchIndex' = matchIndex
    BY DEF RetryFollower
  <2> HIDE DEF next
  <2> QED
    BY <2>1, <2>2, <2>3 DEF TypeInv, LeaderInv
<1>4. WorkerInv'
  <2>1. worker' = worker \/ worker' = [worker EXCEPT ![s].pc = "dead"]
    BY DEF RetryFollower
  <2>2. worker[s].pc = "repl"
    BY DEF RetryFollower, PoppedAck
  <2> QED
    BY <2>1, <2>2 DEF TypeInv, WorkerInv, NoTx
<1>5. QueueInv'
  BY AckHeadTyped DEF RetryFollower, PoppedAck, TypeInv, QueueInv
<1>6. NetInv'
  <2> DEFINE d == AppendEntries(s, a.from, log[s], next)
  <2>1. Send({}) \/ (Send({d}) /\ CanSend(log[s], next))
    BY DEF RetryFollower
  <2>2. CanSend(log[s], next) => Fits(d)
    BY <1>a
  <2> HIDE DEF d
  <2> QED
    BY <2>1, <2>2, NetSend
<1> QED
  BY <1>1, <1>2, <1>3, <1>4, <1>5, <1>6 DEF ServerInv

LEMMA GiveUpTyped ==
    ASSUME TypeInv, NEW s \in Server,
           GiveUp(s)
    PROVE  ServerInv'
<1>1. ElectionInv' /\ LogInv' /\ LeaderInv' /\ QueueInv' /\ DecisionInv'
  BY DEF GiveUp, TypeInv, ElectionInv, LogInv, LeaderInv, QueueInv, DecisionInv, serverVars, electionVars, logVars, leaderVars, decisionVars, threadVars, counters
<1>2. ShardInv'
  <2> DEFINE lk == shard[s].locks \ UNION {Touched(s, x) : x \in Undone(s)}
             sh == [shard[s] EXCEPT !.locks = lk]
  <2>1. lk \subseteq shard[s].locks
    OBVIOUS
  <2>2. shard' = [shard EXCEPT ![s] = sh]
    BY DEF GiveUp, TypeInv, ShardInv
  <2> HIDE DEF lk
  <2>3. sh \in ShardT(s)
    BY <2>1, CurrentTyped DEF ShardT
  <2> HIDE DEF sh
  <2> QED
    BY <2>2, <2>3 DEF TypeInv, ShardInv
<1>3. WorkerInv'
  BY DEF GiveUp, TypeInv, WorkerInv, Idle, NoTx
<1>4. NetInv'
  <2> DEFINE o == {ClientResponse(x, FALSE) : x \in Undone(s)}
  <2>1. \A i \in DOMAIN log[s] : log[s][i].tx \in Tx
    BY CurrentTyped DEF Entry
  <2>2. Undone(s) \subseteq Tx
    BY <2>1 DEF Undone
  <2>3. Send(o) /\ \A n \in o : Fits(n)
    BY <2>2, FitsRest DEF GiveUp, ClientResponse, ResponseT
  <2> HIDE DEF o
  <2> QED
    BY <2>3, NetSend
<1> QED
  BY <1>1, <1>2, <1>3, <1>4 DEF ServerInv

LEMMA SendHeartbeatsTyped ==
    ASSUME TypeInv, NEW s \in Server,
           SendHeartbeats(s)
    PROVE  ServerInv'
<1>1. ElectionInv' /\ LogInv' /\ LeaderInv' /\ ShardInv' /\ QueueInv' /\ WorkerInv'
  BY DEF SendHeartbeats, TypeInv, ElectionInv, LogInv, LeaderInv, ShardInv, QueueInv, WorkerInv, serverVars, electionVars, logVars, leaderVars, decisionVars, threadVars, counters
<1>2. DecisionInv'
  BY DEF SendHeartbeats, TypeInv, DecisionInv, decisionVars
<1>3. NetInv'
  <2> DEFINE o == {AppendEntries(s, p, log[s], Len(log[s])) : p \in Peers[s]}
  <2>1. ASSUME NEW p \in Peers[s] PROVE Fits(AppendEntries(s, p, log[s], Len(log[s])))
    <3>1. log[s] \in Seq(Entry) /\ Len(log[s]) \in 0..Len(log[s])
      BY CurrentTyped
    <3> QED
      BY <3>1, FitsAppend
  <2>2. Send(o) /\ \A n \in o : Fits(n)
    BY <2>1 DEF SendHeartbeats
  <2> HIDE DEF o
  <2> QED
    BY <2>2, NetSend
<1> QED
  BY <1>1, <1>2, <1>3 DEF ServerInv

LEMMA CheckPendingTyped ==
    ASSUME TypeInv, NEW s \in Server, NEW x \in Tx,
           CheckPending(s, x)
    PROVE  ServerInv'
<1>1. ElectionInv' /\ LogInv' /\ LeaderInv' /\ QueueInv' /\ WorkerInv'
  BY DEF CheckPending, TypeInv, ElectionInv, LogInv, LeaderInv, QueueInv, WorkerInv, serverVars, electionVars, logVars, leaderVars, decisionVars, threadVars, counters
<1>2. DecisionInv'
  BY DEF CheckPending, TypeInv, DecisionInv, counters
<1>3. ShardInv'
  <2> DEFINE sh == [shard[s] EXCEPT !.pending = @ \ {x}]
             sh2 == [shard[s] EXCEPT !.pending = @ \ {x}, !.locks = @ \ Touched(s, x)]
  <2>1. shard' = [shard EXCEPT ![s] = sh] \/ shard' = [shard EXCEPT ![s] = sh2]
    <3>1. \/ shard' = [shard EXCEPT ![s].pending = @ \ {x}]
          \/ shard' = [shard EXCEPT ![s] = sh2]
      BY DEF CheckPending
    <3>2. [shard EXCEPT ![s].pending = @ \ {x}] = [shard EXCEPT ![s] = sh]
      OBVIOUS
    <3> QED
      BY <3>1, <3>2, Zenon
  <2>2. sh \in ShardT(s) /\ sh2 \in ShardT(s)
    BY CurrentTyped DEF ShardT
  <2> HIDE DEF sh, sh2
  <2> QED
    BY <2>1, <2>2 DEF TypeInv, ShardInv
<1>4. NetInv'
  <2>1. Send({}) \/ Send({Ack(s, x)})
    BY DEF CheckPending
  <2>2. Fits(Ack(s, x))
    BY DEF Fits, Ack, RaftType, Node
  <2> QED
    BY <2>1, <2>2, NetSend
<1> QED
  BY <1>1, <1>2, <1>3, <1>4 DEF ServerInv

\* A restart reads the log back with every transfer it can.
LEMMA RestartLog ==
    ASSUME TypeInv, NEW s \in Server, Restart(s)
    PROVE  /\ log' = [log EXCEPT ![s] = log'[s]]
           /\ log'[s] \in Seq(Entry) /\ Len(log'[s]) = Len(log[s])
           /\ DOMAIN log'[s] = DOMAIN log[s]
           /\ \A i \in DOMAIN log[s] :
                 /\ log'[s][i].tx = log[s][i].tx
                 /\ log'[s][i].term = log[s][i].term
                 /\ log'[s][i].committed = log[s][i].committed
<1> DEFINE e(i) == [log[s][i] EXCEPT !.body = IF @ = "dict" THEN "object" ELSE @]
           lg == [i \in DOMAIN log[s] |-> e(i)]
           n == Len(log[s])
<1>1. log' = [log EXCEPT ![s] = lg]
  BY DEF Restart
<1>2. log'[s] = lg
  BY <1>1 DEF TypeInv, LogInv
<1>3. \A i \in DOMAIN log[s] : /\ e(i) \in Entry /\ e(i).tx = log[s][i].tx
                               /\ e(i).term = log[s][i].term
                               /\ e(i).committed = log[s][i].committed
  <2>1. ASSUME NEW d \in Entry
        PROVE  LET f == [d EXCEPT !.body = IF @ = "dict" THEN "object" ELSE @]
               IN  /\ f \in Entry /\ f.tx = d.tx /\ f.term = d.term
                   /\ f.committed = d.committed
    BY DEF Entry
  <2> QED
    BY <2>1, CurrentTyped
<1> HIDE DEF e
<1>4. lg \in [1..n -> Entry] /\ n \in Nat /\ DOMAIN log[s] = 1..n
  BY <1>3, CurrentTyped
<1>5. lg \in Seq(Entry)
  <2>1. Seq(Entry) = UNION {[1..j -> Entry] : j \in Nat}
    BY SeqDef
  <2> HIDE DEF lg, n
  <2> QED
    BY <1>4, <2>1
<1>6. Len(lg) = n
  BY <1>4, <1>5, LenProperties
<1> QED
  BY <1>1, <1>2, <1>3, <1>4, <1>5, <1>6

LEMMA RestartTyped ==
    ASSUME TypeInv, NEW s \in Server, Restart(s)
    PROVE  ServerInv'
<1>1. NetInv'
  <2>1. Send({})
    BY DEF Restart
  <2> QED
    BY <2>1, NetSend
<1>2. ElectionInv'
  BY DEF Restart, TypeInv, ElectionInv, Role
<1>3. LogInv'
  <2>1. commitIndex' = [commitIndex EXCEPT ![s] = shard[s].savedCommit]
        /\ shard[s].savedCommit \in Nat
    BY CurrentTyped DEF Restart, ShardT
  <2> QED
    BY <2>1, RestartLog DEF TypeInv, LogInv
<1>4. LeaderInv'
  <2> DEFINE none == [p \in Peers[s] |-> MissingKey]
  <2>1. /\ nextIndex' = [nextIndex EXCEPT ![s] = none]
        /\ matchIndex' = [matchIndex EXCEPT ![s] = none]
    BY DEF Restart
  <2>2. none \in [Peers[s] -> Index]
    BY DEF Index
  <2> HIDE DEF none
  <2> QED
    BY <2>1, <2>2 DEF TypeInv, LeaderInv
<1>5. ShardInv'
  <2> DEFINE theirs == shard[ConfigLast].savedApplied
             last == IF theirs = MissingKey THEN shard[s].savedCommit ELSE theirs
             sh == [shard[s] EXCEPT !.locks = {}, !.pending = {},
                                    !.lastApplied = last]
  <2>1. shard' = [shard EXCEPT ![s] = sh]
    BY DEF Restart
  <2>2. last \in Nat
    BY CurrentTyped, ServerConstants DEF ShardT
  <2> HIDE DEF last
  <2>3. sh \in ShardT(s)
    BY <2>2, CurrentTyped DEF ShardT
  <2> HIDE DEF sh
  <2> QED
    BY <2>1, <2>3 DEF TypeInv, ShardInv
<1>6. QueueInv'
  <2>1. /\ txQueue' = [txQueue EXCEPT ![s] = <<>>]
        /\ ackQueue' = [ackQueue EXCEPT ![s] = <<>>]
        /\ counting' = [counting EXCEPT ![s] = {}]
    BY DEF Restart
  <2>2. <<>> \in Seq(Tx) /\ <<>> \in Seq(AckT(s))
    BY EmptySeq
  <2> QED
    BY <2>1, <2>2 DEF TypeInv, QueueInv
<1>7. WorkerInv'
  BY DEF Restart, TypeInv, WorkerInv, Idle, NoTx
<1>8. DecisionInv'
  BY DEF Restart, TypeInv, DecisionInv
<1> QED
  BY <1>1, <1>2, <1>3, <1>4, <1>5, <1>6, <1>7, <1>8 DEF ServerInv

\* Every step of a server.
LEMMA ServerTyped ==
    ASSUME TypeInv, ServerNext, UNCHANGED clientVars
    PROVE  TypeInv'
<1>1. PICK s \in Server :
         \/ StartElection(s) \/ Listener(s) \/ Worker(s) \/ SendHeartbeats(s)
         \/ (\E x \in Tx : CheckPending(s, x)) \/ Restart(s)
  BY DEF ServerNext
<1>2. ASSUME Listener(s) PROVE ServerInv'
  <2>1. CASE \E m \in counting[s] : CountAck(s, m) \/ RepairFollower(s, m)
    BY <2>1, CountAckTyped, RepairFollowerTyped
  <2>2. ASSUME NEW m \in net, m.to = s,
             \/ AbandonElection(s, m) \/ BecomeLeader(s, m) \/ Drop(s, m)
             \/ HandleVoteRequest(s, m)
             \/ StaleAppend(s, m) \/ RefuseAppend(s, m) \/ AcceptAppend(s, m)
             \/ QueueAck(s, m) \/ TakeAck(s, m) \/ TakeRequest(s, m)
             \/ IgnoreDecision(s, m) \/ HandleDecision(s, m)
        PROVE ServerInv'
    BY <2>2, AbandonElectionTyped, BecomeLeaderTyped, DropTyped,
       HandleVoteRequestTyped, StaleAppendTyped, RefuseAppendTyped,
       AcceptAppendTyped, QueueAckTyped, TakeAckTyped, TakeRequestTyped,
       IgnoreDecisionTyped, HandleDecisionTyped
  <2> QED
    BY <1>2, <2>1, <2>2 DEF Listener
<1>3. ASSUME Worker(s) PROVE ServerInv'
  BY <1>3, RejectTransferTyped, AwaitLocksTyped, AppendIntraTyped,
     AppendCrossTyped, LockTimeoutTyped, ReplicateTyped, CountWorkerAckTyped,
     RetryFollowerTyped, GiveUpTyped DEF Worker
<1>4. ServerInv'
  BY <1>1, <1>2, <1>3, StartElectionTyped, SendHeartbeatsTyped,
     CheckPendingTyped, RestartTyped
<1>5. ClientInv'
  BY DEF TypeInv, ClientInv, clientVars
<1> QED
  BY <1>4, <1>5 DEF ServerInv, TypeInv

\* Every step of the client, and a vote of a cluster that is not modelled.
LEMMA ContactFacts ==
    ASSUME NEW x \in Tx, NEW c \in ClustersOfTx(x)
    PROVE  Contact[c] \in Node /\ Members(c) \subseteq Node
BY TransferFacts, ClustersAndShards DEF ClustersOfTx, Members, Node

LEMMA IssueTyped ==
    ASSUME TypeInv, Issue
    PROVE  NetInv' /\ ClientInv'
<1>1. nextTx \in Tx
  BY DEF Issue
<1>2. NetInv'
  <2>1. ASSUME NEW n \in net' PROVE Fits(n)
    <3>1. \A c \in ClustersOfTx(nextTx) :
             Prepare(Contact[c], nextTx) \in RequestT
             /\ ClientRequest(Contact[c], nextTx) \in RequestT
      BY <1>1, ContactFacts DEF Prepare, ClientRequest, RequestT
    <3>2. n \in net \/ n \in RequestT
      BY <2>1, <3>1 DEF Issue
    <3> QED
      BY <3>2, FitsRest DEF TypeInv, NetInv
  <2> QED
    BY <2>1 DEF NetInv
<1>3. ClientInv'
  BY <1>1 DEF Issue, TypeInv, ClientInv, CrossTx
<1> QED
  BY <1>2, <1>3

LEMMA HandleVoteClient ==
    ASSUME TypeInv, NEW m \in net, HandleVote(m)
    PROVE  NetInv' /\ ClientInv'
<1> DEFINE now == VotesWith(m.tx, m.from, m.vote)
<1>1. m \in VoteT
  BY DEF HandleVote, TypeInv, NetInv, Fits
<1>2. /\ m.tx \in Tx /\ m.from \in Node /\ m.vote \in {"yes", "no"}
  BY <1>1 DEF VoteT
<1>3. now \in [DOMAIN now -> {"yes", "no"}] /\ DOMAIN now \subseteq Node
  BY <1>2 DEF VotesWith, TypeInv, ClientInv
<1>4. NetInv'
  <2>1. ASSUME NEW n \in net' PROVE Fits(n)
    <3>1. \A c \in ClustersOfTx(m.tx) : \A s \in Members(c) :
             Decision(DecisionOn(now), s, m.tx) \in DecisionT
      BY <1>2, ContactFacts DEF Decision, DecisionOn, DecisionT
    <3>2. n \in net \/ n \in DecisionT
      BY <2>1, <3>1 DEF HandleVote
    <3> QED
      BY <3>2, FitsRest DEF TypeInv, NetInv
  <2> QED
    BY <2>1 DEF NetInv
<1>5. ClientInv'
  <2>1. UNCHANGED <<nextTx, open, acks>>
    BY DEF HandleVote
  <2>2. votes' = votes \/ votes' = [votes EXCEPT ![m.tx] = now]
    BY DEF HandleVote
  <2>3. decided' = decided
        \/ decided' = [decided EXCEPT ![m.tx] = @ \cup {DecisionOn(now)}]
    BY DEF HandleVote
  <2>4. DecisionOn(now) \in {"COMMIT", "ABORT"}
    BY DEF DecisionOn
  <2> HIDE DEF now
  <2>5. decided' \in [Tx -> SUBSET {"COMMIT", "ABORT"}]
    BY <1>2, <2>3, <2>4 DEF TypeInv, ClientInv
  <2> QED
    BY <1>2, <1>3, <2>1, <2>2, <2>5 DEF TypeInv, ClientInv
<1> QED
  BY <1>4, <1>5

LEMMA HandleAckClient ==
    ASSUME TypeInv, NEW m \in net, HandleAck(m)
    PROVE  NetInv' /\ ClientInv'
<1>1. m.from \in Node /\ m.tx \in Tx
  BY DEF HandleAck, TypeInv, NetInv, Fits
<1>2. NetInv'
  BY DEF HandleAck, TypeInv, NetInv
<1>3. acks' \in [Tx -> SUBSET Node] /\ open' \subseteq open
      /\ UNCHANGED <<nextTx, votes, decided>>
  <2>1. acks' = acks \/ acks' = [acks EXCEPT ![m.tx] = @ \cup {m.from}]
    BY DEF HandleAck
  <2>2. acks' \in [Tx -> SUBSET Node]
    BY <1>1, <2>1 DEF TypeInv, ClientInv
  <2> QED
    BY <2>2 DEF HandleAck
<1> QED
  BY <1>2, <1>3 DEF TypeInv, ClientInv

LEMMA ClientTyped ==
    ASSUME TypeInv, ClientNext
    PROVE  NetInv' /\ ClientInv'
<1>1. ASSUME NEW m \in net, HandleClientResponse(m) PROVE NetInv' /\ ClientInv'
  BY <1>1 DEF HandleClientResponse, TypeInv, NetInv, ClientInv
<1> QED
  BY <1>1, IssueTyped, HandleVoteClient, HandleAckClient DEF ClientNext

LEMMA TypeInvStep ==
    ASSUME TypeInv, [Next]_vars
    PROVE  TypeInv'
<1>1. ASSUME UNCHANGED serverVars
      PROVE  /\ ElectionInv' /\ LogInv' /\ LeaderInv' /\ ShardInv'
             /\ QueueInv' /\ WorkerInv' /\ DecisionInv'
  BY <1>1 DEF TypeInv, ElectionInv, LogInv, LeaderInv, ShardInv, QueueInv,
     WorkerInv, DecisionInv, serverVars, electionVars, logVars, leaderVars, decisionVars, threadVars, counters
<1>2. CASE ServerNext /\ UNCHANGED clientVars
  BY <1>2, ServerTyped
<1>3. CASE ClientNext /\ UNCHANGED serverVars
  BY <1>1, <1>3, ClientTyped DEF TypeInv
<1>4. CASE RemoteVote
  <2>1. PICK m \in net, v \in RemoteVotes :
           /\ m.type = "PREPARE" /\ m.to \in Remote
           /\ net' = (net \ {m}) \cup {Vote(m.to, m.tx, v)}
           /\ UNCHANGED <<serverVars, clientVars>>
    BY <1>4 DEF RemoteVote
  <2>2. m \in RequestT
    BY <2>1 DEF TypeInv, NetInv, Fits
  <2>3. Vote(m.to, m.tx, v) \in VoteT
    BY <2>1, <2>2, RemoteVotesType DEF Vote, VoteT, RequestT, Node
  <2>4. NetInv'
    BY <2>1, <2>3, FitsRest DEF TypeInv, NetInv
  <2>5. ClientInv'
    BY <2>1 DEF TypeInv, ClientInv, clientVars
  <2> QED
    BY <1>1, <2>1, <2>4, <2>5 DEF TypeInv
<1>5. CASE UNCHANGED vars
  <2>1. NetInv' /\ ClientInv'
    BY <1>5 DEF TypeInv, NetInv, ClientInv, vars, clientVars
  <2> QED
    BY <1>1, <1>5, <2>1 DEF TypeInv, vars
<1> QED
  BY <1>2, <1>3, <1>4, <1>5 DEF Next

LEMMA TypeInvInit ==
    ASSUME Init
    PROVE  TypeInv
<1>1. <<>> \in Seq(Tx) /\ <<>> \in Seq(Entry) /\ \A s : <<>> \in Seq(AckT(s))
  BY EmptySeq
<1>2. NetInv /\ ElectionInv /\ DecisionInv /\ WorkerInv
  BY DEF Init, ServerInit, NoOffice, NoTransfers, NetInv, ElectionInv,
     DecisionInv, WorkerInv, Idle, NoTx, Role
<1>3. LogInv /\ QueueInv
  BY <1>1 DEF Init, ServerInit, NoTransfers, LogInv, QueueInv
<1>4. LeaderInv
  BY DEF Init, ServerInit, NoOffice, NoTransfers, LeaderInv, Index
<1>5. ShardInv
  <2>1. ASSUME NEW s \in Server PROVE ShardInit(s) \in ShardT(s)
    BY <1>1, ServerConstants DEF ShardInit, ShardT, AccountOf
  <2> QED
    BY <2>1 DEF Init, ServerInit, NoTransfers, ShardInv
<1>6. ClientInv
  BY DEF Init, ClientInit, ClientInv
<1> QED
  BY <1>2, <1>3, <1>4, <1>5, <1>6 DEF TypeInv

\* Each variable keeps the type the code gives it, whatever elections, losses
\* and restarts happen: balances stay natural numbers and locks and pending
\* transfers stay in the shard (server.py, shard_manager.py, client.py).
THEOREM TypeCorrect == Spec => []TypeOK
<1>1. TypeInv => TypeOK
  <2> SUFFICES ASSUME TypeInv PROVE TypeOK
    OBVIOUS
  <2>1. ASSUME NEW s \in Server
        PROVE  /\ \A i \in DOMAIN log[s] : log[s][i] \in Entry
               /\ commitIndex[s] \in Nat
               /\ nextIndex[s] \in [Peers[s] -> Nat \cup {MissingKey}]
               /\ matchIndex[s] \in [Peers[s] -> Nat \cup {MissingKey}]
               /\ \A a \in DOMAIN shard[s].balance : shard[s].balance[a] \in Nat
               /\ shard[s].locks \subseteq DOMAIN shard[s].balance
               /\ shard[s].pending \subseteq {x \in Tx : Cross(x)}
               /\ worker[s].pc \in {"idle", "wait", "append", "repl", "dead"}
               /\ (worker[s].pc = "idle") = (worker[s].tx = NoTx)
    <3>1. (worker[s].pc = "idle") <=> (worker[s].tx = NoTx)
      BY DEF TypeInv, WorkerInv
    <3>2. (worker[s].pc = "idle") = (worker[s].tx = NoTx)
      BY <3>1
    <3> QED
      BY <3>2, CurrentTyped DEF ShardT, CrossTx, Index
  <2> QED
    BY <2>1 DEF TypeInv, ElectionInv, DecisionInv, ClientInv, TypeOK, Role, CrossTx
<1> QED
  BY TypeInvInit, TypeInvStep, <1>1, PTL DEF Spec

-----------------------------------------------------------------------------
(* The client: only its own steps reach its variables, and what the servers *)
(* may send it is left open.                                                *)

\* Only the client's own steps change what the client keeps.
LEMMA OnlyClientSteps ==
    ASSUME [Next]_vars
    PROVE  ClientNext \/ UNCHANGED clientVars
<1>1. CASE ServerNext /\ UNCHANGED clientVars
  BY <1>1
<1>2. CASE ClientNext /\ UNCHANGED serverVars
  BY <1>2
<1>3. CASE RemoteVote
  BY <1>3 DEF RemoteVote
<1>4. CASE UNCHANGED vars
  BY <1>4 DEF vars
<1> QED
  BY <1>1, <1>2, <1>3, <1>4 DEF Next

-----------------------------------------------------------------------------
\* CountedOnce counts a finite set.
CountedInv ==
    /\ nextTx \in Nat /\ completed \in Nat
    /\ IsFiniteSet(timing)
    /\ CountedOnce

LEMMA CountedInit == ClientInit => CountedInv
BY FS_EmptySet DEF ClientInit, CountedInv, CountedOnce

\* Deleting the time of a transfer and counting it leave the sum as it is.
LEMMA CountedOff ==
    ASSUME CountedInv, NEW k \in timing,
           completed' = completed + 1, timing' = timing \ {k},
           UNCHANGED nextTx
    PROVE  CountedInv'
<1>1. /\ IsFiniteSet(timing')
      /\ Cardinality(timing') = Cardinality(timing) - 1
  BY FS_RemoveElement DEF CountedInv
<1>2. Cardinality(timing) \in Nat
  BY FS_CardinalityType DEF CountedInv
<1> QED
  BY <1>1, <1>2 DEF CountedInv, CountedOnce

LEMMA CountedStep ==
    ASSUME CountedInv, ClientNext \/ UNCHANGED clientVars
    PROVE  CountedInv'
<1>1. ASSUME Issue PROVE CountedInv'
  <2>0. timing' = timing \cup {TimeKey(nextTx)}
    BY <1>1 DEF Issue
  <2>1. /\ IsFiniteSet(timing')
        /\ \/ Cardinality(timing') = Cardinality(timing)
           \/ Cardinality(timing') = Cardinality(timing) + 1
    BY <2>0, FS_AddElement DEF CountedInv
  <2>2. Cardinality(timing) \in Nat /\ Cardinality(timing') \in Nat
    BY <2>1, FS_CardinalityType DEF CountedInv
  <2> QED
    BY <1>1, <2>1, <2>2 DEF Issue, CountedInv, CountedOnce
<1>2. ASSUME NEW m \in net, HandleVote(m) PROVE CountedInv'
  BY <1>2 DEF HandleVote, CountedInv, CountedOnce
<1>3. ASSUME NEW m \in net, HandleAck(m) PROVE CountedInv'
  <2>1. CASE m.tx \in open /\ TimeKey(m.tx) \in timing
    BY <1>3, <2>1, CountedOff DEF HandleAck
  <2>2. CASE ~(m.tx \in open /\ TimeKey(m.tx) \in timing)
    BY <1>3, <2>2 DEF HandleAck, CountedInv, CountedOnce
  <2> QED
    BY <2>1, <2>2
<1>4. ASSUME NEW m \in net, HandleClientResponse(m) PROVE CountedInv'
  <2>1. CASE TimeKey(m.tx) \in timing
    BY <1>4, <2>1, CountedOff DEF HandleClientResponse
  <2>2. CASE TimeKey(m.tx) \notin timing
    BY <1>4, <2>2 DEF HandleClientResponse, CountedInv, CountedOnce
  <2> QED
    BY <2>1, <2>2
<1>5. CASE UNCHANGED clientVars
  BY <1>5 DEF clientVars, CountedInv, CountedOnce
<1> QED
  BY <1>1, <1>2, <1>3, <1>4, <1>5 DEF ClientNext

\* The client counts a transfer as completed at most once (client.py:53-60,
\* 74-81), whatever acks and answers reach it and in whatever order.
THEOREM CountedOnceHolds == Spec => []CountedOnce
<1>1. Init => CountedInv
  BY CountedInit DEF Init
<1>2. CountedInv /\ [Next]_vars => CountedInv'
  BY OnlyClientSteps, CountedStep
<1>3. CountedInv => CountedOnce
  BY DEF CountedInv
<1> QED
  BY <1>1, <1>2, <1>3, PTL DEF Spec

=============================================================================
