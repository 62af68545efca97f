------------------------------ MODULE Election ------------------------------
(***************************************************************************)
(* Leader election in one cluster: start_election, step_down_to_follower,  *)
(* become_leader, handle_vote_request, send_heartbeats, and of             *)
(* handle_append_entries the part that decides terms, roles and votes.     *)
(*                                                                         *)
(* The log is abstracted to the only thing an election reads of it, the    *)
(* term and length of its last entry; whatever a handler does to the log   *)
(* is a free choice of that stamp.  Timers are abstracted to "may expire   *)
(* at any moment".  UDP is the set of all datagrams ever sent: one may be  *)
(* delivered late, out of order, more than once or never.                  *)
(*                                                                         *)
(* Module Server is the detailed specification and implements this one.    *)
(***************************************************************************)
EXTENDS Naturals

CONSTANTS
    Server,    \* the members of the cluster
    NoServer,  \* Python's None where a server is expected
    Stamp,     \* the [term, index] pairs a last log entry may have
    MaxTerm    \* bound: no election starts beyond this term

\* votes_received > 1 wins an election (server.py:223), a majority of three.
ASSUME AtMostThreeServers ==
    \A a, b, c, d \in Server : a \in {b, c, d} \/ b \in {c, d} \/ c = d
ASSUME NoServerIsNone == NoServer \notin Server
ASSUME StampType == Stamp \subseteq [term : Nat, index : Nat]
ASSUME MaxTermType == MaxTerm \in Nat

VARIABLES
    role,         \* self.role
    currentTerm,  \* self.current_term
    votedFor,     \* self.voted_for
    lastLog,      \* (self.log[-1].term, len(self.log)) of each server
    net,          \* every datagram ever sent
    elected       \* history: the <<term, server>> pairs that became leader

vars == <<role, currentTerm, votedFor, lastLog, net, elected>>

Peers(s) == Server \ {s}

\* Mutant: the term of an empty log stays None.
RequestVoteNone(s, t, p) ==
    [type |-> "REQUEST_VOTE", term |-> t, from |-> s, to |-> p,
     lastLog |-> NoServer]

RequestVote(s, t, p) ==
    [type |-> "REQUEST_VOTE", term |-> t, from |-> s, to |-> p,
     lastLog |-> lastLog[s]]

VoteResponse(s, t, p) ==
    [type |-> "VOTE_RESPONSE", term |-> t, from |-> s, to |-> p]

AppendEntries(s, t, p) ==
    [type |-> "APPEND_ENTRIES", term |-> t, from |-> s, to |-> p]

Message ==
    [type : {"REQUEST_VOTE"}, term : Nat, from : Server, to : Server,
     lastLog : Stamp]
    \cup [type : {"VOTE_RESPONSE", "APPEND_ENTRIES"}, term : Nat,
          from : Server, to : Server]

Init ==
    /\ role = [s \in Server |-> "follower"]
    /\ currentTerm = [s \in Server |-> 0]
    /\ votedFor = [s \in Server |-> NoServer]
    /\ lastLog \in [Server -> Stamp]
    /\ net = {}
    /\ elected = {}

\* A log that is missing nothing this one has, as a voter compares them.
AsComplete(theirs, mine) ==
    \/ theirs.term > mine.term
    \/ theirs.term = mine.term /\ theirs.index >= mine.index

\* Follower s hears nothing for its timeout, or candidate s collects no
\* majority and tries again.
StartElection(s) ==
    /\ role[s] \in {"follower", "candidate"}
    /\ currentTerm[s] < MaxTerm
    /\ role' = [role EXCEPT ![s] = "candidate"]
    /\ currentTerm' = [currentTerm EXCEPT ![s] = @ + 1]
    /\ votedFor' = [votedFor EXCEPT ![s] = s]
    /\ net' = net \cup {RequestVote(s, currentTerm[s] + 1, p) : p \in Peers(s)}
    /\ UNCHANGED <<lastLog, elected>>

\* step_down_to_follower forgets the vote even when the term does not change.
StepDown(s, t) ==
    /\ role' = [role EXCEPT ![s] = "follower"]
    /\ currentTerm' = [currentTerm EXCEPT ![s] = t]
    /\ votedFor' = [votedFor EXCEPT ![s] = NoServer]

\* The candidate's receive loop ends on a higher term, or on AppendEntries of
\* its own term.
AbandonElection(s, m) ==
    /\ role[s] = "candidate"
    /\ \/ m.term > currentTerm[s]
       \/ m.type = "APPEND_ENTRIES" /\ m.term = currentTerm[s]
    /\ StepDown(s, m.term)
    /\ UNCHANGED <<lastLog, net, elected>>

\* One vote besides its own makes the candidate leader.
BecomeLeader(s, m) ==
    /\ role[s] = "candidate"
    /\ m.type = "VOTE_RESPONSE"
    /\ m.term = currentTerm[s]
    /\ role' = [role EXCEPT ![s] = "leader"]
    /\ elected' = elected \cup {<<currentTerm[s], s>>}
    /\ UNCHANGED <<currentTerm, votedFor, lastLog, net>>

\* Mutants: a request of the same term clears the vote, or ends the office.
VoteClearedAt(s, t) == IF t >= currentTerm[s] THEN NoServer ELSE votedFor[s]
OfficeEndedAt(s, t) == IF t >= currentTerm[s] THEN "follower" ELSE role[s]

\* The term, role and vote of s once it has seen a request of term t.
TermOf(s, t) == IF t > currentTerm[s] THEN t ELSE currentTerm[s]
RoleAt(s, t) == IF t > currentTerm[s] THEN "follower" ELSE role[s]
VoteAt(s, t) == IF t > currentTerm[s] THEN NoServer ELSE votedFor[s]

\* A request of an older term is not turned away: the reply carries the
\* voter's own term.
HandleVoteRequest(s, m) ==
    /\ role[s] # "candidate"
    /\ m.type = "REQUEST_VOTE"
    /\ role' = [role EXCEPT ![s] = RoleAt(s, m.term)]
    /\ currentTerm' = [currentTerm EXCEPT ![s] = TermOf(s, m.term)]
    /\ IF VoteAt(s, m.term) = NoServer /\ AsComplete(m.lastLog, lastLog[s])
       THEN /\ votedFor' = [votedFor EXCEPT ![s] = m.from]
            /\ net' = net \cup {VoteResponse(s, TermOf(s, m.term), m.from)}
       ELSE /\ votedFor' = [votedFor EXCEPT ![s] = VoteAt(s, m.term)]
            /\ net' = net
    /\ UNCHANGED <<lastLog, elected>>

\* Whatever the request then does to the log is a free choice of the stamp.
HandleAppendEntries(s, m) ==
    /\ role[s] # "candidate"
    /\ m.type = "APPEND_ENTRIES"
    /\ m.term >= currentTerm[s]
    /\ role' = [role EXCEPT ![s] = RoleAt(s, m.term)]
    /\ currentTerm' = [currentTerm EXCEPT ![s] = TermOf(s, m.term)]
    /\ votedFor' = [votedFor EXCEPT ![s] = VoteAt(s, m.term)]
    /\ \E stamp \in Stamp : lastLog' = [lastLog EXCEPT ![s] = stamp]
    /\ UNCHANGED <<net, elected>>

Receive(s, m) ==
    /\ m.to = s
    /\ \/ AbandonElection(s, m)
       \/ BecomeLeader(s, m)
       \/ HandleVoteRequest(s, m)
       \/ HandleAppendEntries(s, m)

SendHeartbeats(s) ==
    /\ role[s] = "leader"
    /\ net' = net \cup {AppendEntries(s, currentTerm[s], p) : p \in Peers(s)}
    /\ UNCHANGED <<role, currentTerm, votedFor, lastLog, elected>>

\* The transaction thread (replicate_log) and the repair of a follower
\* (handle_append_ack) never look at the role: a server that once led sends
\* entries under whatever term it has reached since, and may append to its
\* log first.
Replicate(s) ==
    /\ \E t \in 0..currentTerm[s] : <<t, s>> \in elected
    /\ \E to \in SUBSET Peers(s) :
          net' = net \cup {AppendEntries(s, currentTerm[s], p) : p \in to}
    /\ \E stamp \in Stamp : lastLog' = [lastLog EXCEPT ![s] = stamp]
    /\ UNCHANGED <<role, currentTerm, votedFor, elected>>

Next ==
    \E s \in Server :
        \/ StartElection(s)
        \/ \E m \in net : Receive(s, m)
        \/ SendHeartbeats(s)
        \/ Replicate(s)

Spec == Init /\ [][Next]_vars

-----------------------------------------------------------------------------
\* Roles, terms, votes and datagrams have the shapes the code gives them.
TypeOK ==
    /\ role \in [Server -> {"follower", "candidate", "leader"}]
    /\ currentTerm \in [Server -> Nat]
    /\ votedFor \in [Server -> Server \cup {NoServer}]
    /\ lastLog \in [Server -> Stamp]
    /\ net \subseteq Message
    /\ elected \subseteq Nat \X Server

\* No term ever has two leaders (server.py:218-225), although candidates
\* forget their vote when they step down in the term they voted in
\* (server.py:214), votes are granted to requests of older terms
\* (server.py:396-417), and servers that lost the lead go on sending
\* AppendEntries.
ElectionSafety ==
    \A e, f \in elected : e[1] = f[1] => e[2] = f[2]

\* Within a term a server takes a vote back only if it gave it to itself: a
\* vote for another server outlives every message (server.py:401-404).
VoteOutlivesTerm ==
    [][\A s \in Server :
          /\ votedFor[s] \notin {NoServer, s}
          /\ currentTerm'[s] = currentTerm[s]
          => votedFor'[s] = votedFor[s]]_vars

\* A leader leaves its office only for a higher term, and terms never go
\* back, whichever handler or thread takes the step (server.py:278-281, 396).
LeaderOnlyDeposedByHigherTerm ==
    [][\A s \in Server :
          /\ currentTerm'[s] >= currentTerm[s]
          /\ role[s] = "leader" /\ role'[s] # "leader"
             => currentTerm'[s] > currentTerm[s]]_vars
=============================================================================
