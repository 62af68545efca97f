--------------------------- MODULE ElectionProofs ---------------------------
(***************************************************************************)
(* ElectionSafety and the two action properties of module Election, for    *)
(* any three servers, any bound on terms and a network that may lose,      *)
(* repeat and reorder datagrams.                                           *)
(***************************************************************************)
EXTENDS Election, TLAPS

IsVote(m) == m.type = "VOTE_RESPONSE"

\* A server that runs or leads has its own vote.
RunnersVoteForThemselves ==
    \A s \in Server : role[s] \in {"candidate", "leader"} => votedFor[s] = s

\* No server asks itself for a vote.
RequestsGoToOthers ==
    \A m \in net : m.type = "REQUEST_VOTE" => m.from # m.to

\* A vote once sent stands for another server, and binds its sender as long
\* as it stays in that term.
VotesBind ==
    \A m \in net : IsVote(m) =>
        /\ m.from # m.to
        /\ currentTerm[m.from] >= m.term
        /\ currentTerm[m.from] = m.term => votedFor[m.from] = m.to

\* One vote per server and term.
VotesUnique ==
    \A m, n \in net :
        IsVote(m) /\ IsVote(n) /\ m.term = n.term /\ m.from = n.from
        => m.to = n.to

\* Every leader of a term had the vote of another server.
LeadersBacked ==
    \A e \in elected : \E m \in net :
        IsVote(m) /\ m.term = e[1] /\ m.to = e[2]

\* A server elected in the term it is in still leads.
LeadersStay ==
    \A e \in elected :
        /\ currentTerm[e[2]] >= e[1]
        /\ currentTerm[e[2]] = e[1] => role[e[2]] = "leader"

\* A server elected in a term gives its vote of that term to no other.
LeadersVoteForNoOther ==
    \A e \in elected : \A m \in net :
        IsVote(m) /\ m.from = e[2] => m.term # e[1]

IInv ==
    /\ TypeOK
    /\ RunnersVoteForThemselves
    /\ RequestsGoToOthers
    /\ VotesBind
    /\ VotesUnique
    /\ LeadersBacked
    /\ LeadersStay
    /\ LeadersVoteForNoOther

\* The stamp of a log is a record of Stamp, and so a request holds one.
LEMMA MessagesTyped ==
    ASSUME TypeOK, NEW s \in Server, NEW p \in Server, NEW t \in Nat
    PROVE  /\ RequestVote(s, t, p) \in Message
           /\ VoteResponse(s, t, p) \in Message
           /\ AppendEntries(s, t, p) \in Message
  BY DEF TypeOK, Message, RequestVote, VoteResponse, AppendEntries

\* Every state of the election protocol is well typed.
LEMMA TypeStep == TypeOK /\ [Next]_vars => TypeOK'
<1> SUFFICES ASSUME TypeOK, [Next]_vars PROVE TypeOK'
  OBVIOUS
<1> USE DEF TypeOK
<1>1. CASE UNCHANGED vars
  BY <1>1 DEF vars
<1>2. ASSUME NEW s \in Server, StartElection(s) PROVE TypeOK'
  <2>1. \A p \in Peers(s) : RequestVote(s, currentTerm[s] + 1, p) \in Message
    BY MessagesTyped DEF Peers
  <2> QED
    BY <1>2, <2>1 DEF StartElection
<1>3. ASSUME NEW s \in Server, NEW m \in net, m.to = s, AbandonElection(s, m)
      PROVE TypeOK'
  <2>1. m.term \in Nat
    BY DEF Message
  <2> QED
    BY <1>3, <2>1 DEF AbandonElection, StepDown
<1>4. ASSUME NEW s \in Server, NEW m \in net, m.to = s, BecomeLeader(s, m)
      PROVE TypeOK'
  BY <1>4 DEF BecomeLeader
<1>5. ASSUME NEW s \in Server, NEW m \in net, m.to = s,
             HandleVoteRequest(s, m)
      PROVE TypeOK'
  <2>1. m.term \in Nat /\ m.from \in Server
    BY DEF Message
  <2>2. /\ TermOf(s, m.term) \in Nat
        /\ RoleAt(s, m.term) \in {"follower", "candidate", "leader"}
        /\ VoteAt(s, m.term) \in Server \cup {NoServer}
    BY <2>1 DEF TermOf, RoleAt, VoteAt
  <2>3. VoteResponse(s, TermOf(s, m.term), m.from) \in Message
    BY <2>1, <2>2, MessagesTyped
  <2> QED
    BY <1>5, <2>1, <2>2, <2>3 DEF HandleVoteRequest
<1>6. ASSUME NEW s \in Server, NEW m \in net, m.to = s,
             HandleAppendEntries(s, m)
      PROVE TypeOK'
  <2>1. m.term \in Nat
    BY DEF Message
  <2> QED
    BY <1>6, <2>1 DEF HandleAppendEntries, TermOf, RoleAt, VoteAt
<1>7. ASSUME NEW s \in Server, SendHeartbeats(s) PROVE TypeOK'
  <2>1. \A p \in Peers(s) : AppendEntries(s, currentTerm[s], p) \in Message
    BY MessagesTyped DEF Peers
  <2> QED
    BY <1>7, <2>1 DEF SendHeartbeats
<1>8. ASSUME NEW s \in Server, Replicate(s) PROVE TypeOK'
  <2>1. \A p \in Peers(s) : AppendEntries(s, currentTerm[s], p) \in Message
    BY MessagesTyped DEF Peers
  <2> QED
    BY <1>8, <2>1 DEF Replicate
<1> QED
  BY <1>1, <1>2, <1>3, <1>4, <1>5, <1>6, <1>7, <1>8 DEF Next, Receive

\* TypeOK holds in every state of every behaviour.
THEOREM TypeCorrect == Spec => []TypeOK
<1>1. Init => TypeOK
  BY DEF Init, TypeOK
<1> QED
  BY <1>1, TypeStep, PTL DEF Spec

\* Every step keeps the inductive invariant: one step per action, and under it
\* the parts the action can disturb.
LEMMA InvStep == IInv /\ [Next]_vars => IInv'
<1> SUFFICES ASSUME IInv, [Next]_vars PROVE IInv'
  OBVIOUS
<1>0. TypeOK /\ TypeOK'
  BY TypeStep DEF IInv
<1> USE <1>0, NoServerIsNone
  DEF IInv, RunnersVoteForThemselves, RequestsGoToOthers, VotesBind,
      VotesUnique, LeadersBacked, LeadersStay, LeadersVoteForNoOther, IsVote
<1>1. CASE UNCHANGED vars
  BY <1>1 DEF vars
<1>2. ASSUME NEW s \in Server, StartElection(s) PROVE IInv'
  <2>1. \A m \in net' : IsVote(m) => m \in net
    BY <1>2 DEF StartElection, RequestVote
  <2>2. \A m \in net : m \in net' /\ (IsVote(m) => m.from \in Server)
    BY <1>2 DEF StartElection, TypeOK, Message
  <2>3. \A t \in Server : currentTerm[t] \in Nat
    BY DEF TypeOK
  <2>4. \A t \in Server : currentTerm'[t] =
           IF t = s THEN currentTerm[s] + 1 ELSE currentTerm[t]
    BY <1>2 DEF StartElection, TypeOK
  <2>5. \A e \in elected : e[1] \in Nat /\ e[2] \in Server
    BY DEF TypeOK
  <2>6. \A m \in net : m.term \in Nat
    BY DEF TypeOK, Message
  <2>7. RunnersVoteForThemselves'
    BY <1>2 DEF StartElection, TypeOK
  <2>8. RequestsGoToOthers'
    BY <1>2 DEF StartElection, RequestVote, Peers
  <2>9. VotesBind'
    BY <1>2, <2>1, <2>2, <2>3, <2>4, <2>6 DEF StartElection, TypeOK
  <2>10. LeadersStay'
    BY <1>2, <2>3, <2>4, <2>5 DEF StartElection, TypeOK
  <2>11. VotesUnique' /\ LeadersBacked' /\ LeadersVoteForNoOther'
    BY <1>2, <2>1, <2>2 DEF StartElection
  <2> QED
    BY <2>7, <2>8, <2>9, <2>10, <2>11
<1>3. ASSUME NEW s \in Server, NEW m \in net, m.to = s, AbandonElection(s, m)
      PROVE IInv'
  <2>1. /\ m.term \in Nat /\ currentTerm[s] \in Nat
        /\ m.term >= currentTerm[s]
        /\ votedFor[s] = s /\ role[s] = "candidate"
        /\ net' = net /\ elected' = elected
    BY <1>3 DEF AbandonElection, TypeOK, Message
  <2>2. \A t \in Server :
           /\ currentTerm'[t] = IF t = s THEN m.term ELSE currentTerm[t]
           /\ votedFor'[t] = IF t = s THEN NoServer ELSE votedFor[t]
           /\ role'[t] = IF t = s THEN "follower" ELSE role[t]
    BY <1>3 DEF AbandonElection, StepDown, TypeOK
  <2>3. RunnersVoteForThemselves' /\ RequestsGoToOthers' /\ VotesUnique'
          /\ LeadersBacked' /\ LeadersVoteForNoOther'
    BY <2>1, <2>2
  <2>4. VotesBind'
    BY <2>1, <2>2 DEF TypeOK, Message
  <2>5. LeadersStay'
    BY <2>1, <2>2 DEF TypeOK
  <2> QED
    BY <2>3, <2>4, <2>5
<1>4. ASSUME NEW s \in Server, NEW m \in net, m.to = s, BecomeLeader(s, m)
      PROVE IInv'
  <2>1. /\ currentTerm' = currentTerm /\ votedFor' = votedFor /\ net' = net
        /\ elected' = elected \cup {<<currentTerm[s], s>>}
        /\ role[s] = "candidate" /\ votedFor[s] = s
        /\ IsVote(m) /\ m.term = currentTerm[s] /\ currentTerm[s] \in Nat
    BY <1>4 DEF BecomeLeader, TypeOK
  <2>2. \A t \in Server : role'[t] = IF t = s THEN "leader" ELSE role[t]
    BY <1>4 DEF BecomeLeader, TypeOK
  <2>3. RunnersVoteForThemselves' /\ RequestsGoToOthers' /\ VotesBind'
          /\ VotesUnique'
    BY <2>1, <2>2
  <2>4. LeadersBacked'
    BY <1>4, <2>1
  <2>5. LeadersStay'
    BY <2>1, <2>2 DEF TypeOK
  <2>6. LeadersVoteForNoOther'
    BY <2>1
  <2> QED
    BY <2>3, <2>4, <2>5, <2>6
<1>5. ASSUME NEW s \in Server, NEW m \in net, m.to = s,
             HandleVoteRequest(s, m)
      PROVE IInv'
  <2> DEFINE T == TermOf(s, m.term)
  <2> DEFINE r == VoteResponse(s, T, m.from)
  <2>1. /\ m.term \in Nat /\ m.from \in Server /\ m.from # s
        /\ currentTerm[s] \in Nat /\ T \in Nat /\ T >= currentTerm[s]
        /\ role[s] # "candidate" /\ elected' = elected
        /\ T = currentTerm[s] => VoteAt(s, m.term) = votedFor[s]
                                 /\ RoleAt(s, m.term) = role[s]
        /\ T # currentTerm[s] => RoleAt(s, m.term) = "follower"
    BY <1>5 DEF HandleVoteRequest, TypeOK, Message, TermOf, VoteAt, RoleAt
  <2>2. \A t \in Server :
           /\ currentTerm'[t] = IF t = s THEN T ELSE currentTerm[t]
           /\ role'[t] = IF t = s THEN RoleAt(s, m.term) ELSE role[t]
           /\ t # s => votedFor'[t] = votedFor[t]
    BY <1>5 DEF HandleVoteRequest, TypeOK
  <2>3. CASE VoteAt(s, m.term) = NoServer /\ AsComplete(m.lastLog, lastLog[s])
    <3>1. /\ votedFor'[s] = m.from /\ net' = net \cup {r}
      BY <1>5, <2>3 DEF HandleVoteRequest, TypeOK
    <3>2. IsVote(r) /\ r.term = T /\ r.from = s /\ r.to = m.from
          /\ r.type # "REQUEST_VOTE"
      BY DEF VoteResponse
    <3>3. RunnersVoteForThemselves' /\ RequestsGoToOthers'
      BY <2>1, <2>2, <2>3, <3>1, <3>2 DEF TypeOK
    <3>4. \A n \in net : IsVote(n) /\ n.from = s => n.term < T
      BY <2>1, <2>3 DEF TypeOK, Message
    <3>5. VotesBind'
      BY <2>1, <2>2, <3>1, <3>2, <3>4 DEF TypeOK, Message
    <3>6. VotesUnique'
      BY <2>1, <3>1, <3>2, <3>4 DEF TypeOK, Message
    <3>7. LeadersBacked'
      BY <2>1, <3>1
    <3>8. LeadersStay'
      BY <2>1, <2>2 DEF TypeOK
    <3>9. \A e \in elected : e[2] = s => e[1] # T
      BY <2>1, <2>3 DEF TypeOK
    <3>10. LeadersVoteForNoOther'
      BY <2>1, <3>1, <3>2, <3>9
    <3> QED
      BY <3>3, <3>5, <3>6, <3>7, <3>8, <3>10
  <2>4. CASE ~(VoteAt(s, m.term) = NoServer
               /\ AsComplete(m.lastLog, lastLog[s]))
    <3>1. votedFor'[s] = VoteAt(s, m.term) /\ net' = net
      BY <1>5, <2>4 DEF HandleVoteRequest, TypeOK
    <3>2. RunnersVoteForThemselves' /\ RequestsGoToOthers' /\ VotesUnique'
            /\ LeadersBacked' /\ LeadersVoteForNoOther'
      BY <2>1, <2>2, <3>1
    <3>3. VotesBind'
      BY <2>1, <2>2, <3>1 DEF TypeOK, Message
    <3>4. LeadersStay'
      BY <2>1, <2>2 DEF TypeOK
    <3> QED
      BY <3>2, <3>3, <3>4
  <2> QED
    BY <2>3, <2>4
<1>6. ASSUME NEW s \in Server, NEW m \in net, m.to = s,
             HandleAppendEntries(s, m)
      PROVE IInv'
  <2>1. /\ m.term \in Nat /\ currentTerm[s] \in Nat
        /\ m.term >= currentTerm[s] /\ role[s] # "candidate"
        /\ net' = net /\ elected' = elected
    BY <1>6 DEF HandleAppendEntries, TypeOK, Message
  <2>2. \A t \in Server :
           /\ currentTerm'[t] = IF t = s THEN m.term ELSE currentTerm[t]
           /\ votedFor'[t] = IF t = s /\ m.term > currentTerm[s]
                             THEN NoServer ELSE votedFor[t]
           /\ role'[t] = IF t = s /\ m.term > currentTerm[s]
                         THEN "follower" ELSE role[t]
    BY <1>6, <2>1 DEF HandleAppendEntries, TermOf, RoleAt, VoteAt, TypeOK
  <2>3. RunnersVoteForThemselves' /\ RequestsGoToOthers' /\ VotesUnique'
          /\ LeadersBacked' /\ LeadersVoteForNoOther'
    BY <2>1, <2>2
  <2>4. VotesBind'
    BY <2>1, <2>2 DEF TypeOK, Message
  <2>5. LeadersStay'
    BY <2>1, <2>2 DEF TypeOK
  <2> QED
    BY <2>3, <2>4, <2>5
<1>7. ASSUME NEW s \in Server, SendHeartbeats(s) \/ Replicate(s) PROVE IInv'
  <2>1. /\ UNCHANGED <<role, currentTerm, votedFor, elected>>
        /\ net \subseteq net'
        /\ \A m \in net' : m \notin net => m.type = "APPEND_ENTRIES"
    BY <1>7 DEF SendHeartbeats, Replicate, AppendEntries
  <2> QED
    BY <2>1
<1> QED
  BY <1>1, <1>2, <1>3, <1>4, <1>5, <1>6, <1>7 DEF Next, Receive

\* The inductive invariant holds in every state of every behaviour.
THEOREM InductiveInvariant == Spec => []IInv
<1>1. Init => IInv
  <2>1. Init => TypeOK
    BY DEF Init, TypeOK
  <2> QED
    BY <2>1 DEF Init, IInv, RunnersVoteForThemselves, RequestsGoToOthers,
           VotesBind, VotesUnique, LeadersBacked, LeadersStay,
           LeadersVoteForNoOther
<1> QED
  BY <1>1, InvStep, PTL DEF Spec

\* Two leaders of one term would each have the vote of a server outside the
\* pair; with three servers it is the same one, and it votes once.
LEMMA InvImpliesElectionSafety == IInv => ElectionSafety
<1> SUFFICES ASSUME IInv, NEW e \in elected, NEW f \in elected,
                    e[1] = f[1], e[2] # f[2]
             PROVE FALSE
  BY DEF ElectionSafety
<1>1. PICK m \in net : IsVote(m) /\ m.term = e[1] /\ m.to = e[2]
  BY DEF IInv, LeadersBacked
<1>2. PICK n \in net : IsVote(n) /\ n.term = f[1] /\ n.to = f[2]
  BY DEF IInv, LeadersBacked
<1>3. /\ e[2] \in Server /\ f[2] \in Server
      /\ m.from \in Server /\ n.from \in Server
  BY <1>1, <1>2 DEF IInv, TypeOK, Message, IsVote
<1>4. m.from \notin {e[2], f[2]} /\ n.from \notin {e[2], f[2]}
  BY <1>1, <1>2 DEF IInv, VotesBind, LeadersVoteForNoOther
<1>5. m.from = n.from
  BY <1>3, <1>4, AtMostThreeServers
<1> QED
  BY <1>1, <1>2, <1>5 DEF IInv, VotesUnique

\* No term has two leaders, whatever the network does.
THEOREM ElectionSafe == Spec => []ElectionSafety
  BY InductiveInvariant, InvImpliesElectionSafety, PTL

\* A vote for another server is kept for the rest of the term.
THEOREM VotesKept == Spec => VoteOutlivesTerm
<1>1. IInv /\ [Next]_vars =>
        [\A s \in Server :
            /\ votedFor[s] \notin {NoServer, s}
            /\ currentTerm'[s] = currentTerm[s]
            => votedFor'[s] = votedFor[s]]_vars
  <2> SUFFICES ASSUME IInv, Next, NEW s \in Server,
                      votedFor[s] \notin {NoServer, s},
                      currentTerm'[s] = currentTerm[s]
               PROVE  votedFor'[s] = votedFor[s]
    OBVIOUS
  <2> USE DEF IInv, TypeOK, Message
  <2>1. ASSUME NEW x \in Server, StartElection(x) PROVE votedFor'[s] = votedFor[s]
    BY <2>1 DEF StartElection
  <2>2. ASSUME NEW x \in Server, NEW m \in net, AbandonElection(x, m)
        PROVE  votedFor'[s] = votedFor[s]
    BY <2>2 DEF AbandonElection, StepDown, RunnersVoteForThemselves
  <2>3. ASSUME NEW x \in Server, NEW m \in net,
               HandleVoteRequest(x, m) \/ HandleAppendEntries(x, m)
        PROVE  votedFor'[s] = votedFor[s]
    BY <2>3 DEF HandleVoteRequest, HandleAppendEntries, TermOf, VoteAt
  <2>4. ASSUME NEW x \in Server, NEW m \in net,
               BecomeLeader(x, m)
        PROVE  votedFor'[s] = votedFor[s]
    BY <2>4 DEF BecomeLeader
  <2>5. ASSUME NEW x \in Server, SendHeartbeats(x) \/ Replicate(x)
        PROVE  votedFor'[s] = votedFor[s]
    BY <2>5 DEF SendHeartbeats, Replicate
  <2> QED
    BY <2>1, <2>2, <2>3, <2>4, <2>5 DEF Next, Receive
<1> QED
  BY <1>1, InductiveInvariant, PTL DEF Spec, VoteOutlivesTerm

\* Terms never go back, and only a higher one ends a leader's office.
THEOREM LeadersStepDownForHigherTerms == Spec => LeaderOnlyDeposedByHigherTerm
<1>1. TypeOK /\ [Next]_vars =>
        [\A s \in Server :
            /\ currentTerm'[s] >= currentTerm[s]
            /\ role[s] = "leader" /\ role'[s] # "leader"
               => currentTerm'[s] > currentTerm[s]]_vars
  <2> SUFFICES ASSUME TypeOK, Next, NEW s \in Server
               PROVE  /\ currentTerm'[s] >= currentTerm[s]
                      /\ role[s] = "leader" /\ role'[s] # "leader"
                         => currentTerm'[s] > currentTerm[s]
    OBVIOUS
  <2> DEFINE Goal == /\ currentTerm'[s] >= currentTerm[s]
                     /\ role[s] = "leader" /\ role'[s] # "leader"
                        => currentTerm'[s] > currentTerm[s]
  <2> USE DEF TypeOK, Message
  <2>1. ASSUME NEW x \in Server, StartElection(x) PROVE Goal
    BY <2>1 DEF StartElection
  <2>2. ASSUME NEW x \in Server, NEW m \in net, AbandonElection(x, m)
        PROVE  Goal
    BY <2>2 DEF AbandonElection, StepDown
  <2>3. ASSUME NEW x \in Server, NEW m \in net,
               HandleVoteRequest(x, m) \/ HandleAppendEntries(x, m)
        PROVE  Goal
    BY <2>3 DEF HandleVoteRequest, HandleAppendEntries, TermOf, RoleAt
  <2>4. ASSUME NEW x \in Server, NEW m \in net, BecomeLeader(x, m) PROVE Goal
    BY <2>4 DEF BecomeLeader
  <2>5. ASSUME NEW x \in Server, SendHeartbeats(x) \/ Replicate(x) PROVE Goal
    BY <2>5 DEF SendHeartbeats, Replicate
  <2> QED
    BY <2>1, <2>2, <2>3, <2>4, <2>5 DEF Next, Receive
<1> QED
  BY <1>1, TypeCorrect, PTL DEF Spec, LeaderOnlyDeposedByHigherTerm
=============================================================================
