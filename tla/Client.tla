------------------------------- MODULE Client -------------------------------
(***************************************************************************)
(* client.py: issues the transfers of transactions.csv in order and is the *)
(* coordinator of two-phase commit.  There is no timer in the client: it   *)
(* acts on an input line or on a datagram.                                 *)
(***************************************************************************)
EXTENDS Transfers

VARIABLES
    nextTx,     \* tx_index: the next line of transactions.csv
    open,       \* pending_transactions: the cross-shard transfers it knows
    votes,      \* pending_transactions[tx]["votes"]: server -> vote
    acks,       \* pending_transactions[tx]["acks"]
    timing,     \* the keys of transaction_times
    completed,  \* completed_transactions
    decided     \* history: the decisions sent for each transfer

clientVars == <<nextTx, open, votes, acks, timing, completed, decided>>

\* transaction_times is keyed by tx_id for a cross-shard transfer and by the
\* triple itself for an intra-shard one: equal transfers share a key.
TimeKey(x) == IF Cross(x) THEN [tx_id |-> x] ELSE TxList[x]

ClientInit ==
    /\ nextTx = 1
    /\ open = {}
    /\ votes = [x \in Tx |-> <<>>]
    /\ acks = [x \in Tx |-> {}]
    /\ timing = {}
    /\ completed = 0
    /\ decided = [x \in Tx |-> {}]

Issue ==
    /\ nextTx \in Tx
    /\ nextTx' = nextTx + 1
    /\ timing' = timing \cup {TimeKey(nextTx)}
    /\ IF Cross(nextTx)
       THEN /\ open' = open \cup {nextTx}
            /\ net' = net \cup {Prepare(Contact[c], nextTx) :
                                   c \in ClustersOfTx(nextTx)}
       ELSE /\ open' = open
            /\ net' = net \cup {ClientRequest(Contact[c], nextTx) :
                                   c \in ClustersOfTx(nextTx)}
    /\ UNCHANGED <<votes, acks, completed, decided>>

\* The votes of x once server s has voted v: a dict, so a second vote of one
\* server replaces its first.
VotesWith(x, s, v) ==
    [t \in DOMAIN votes[x] \cup {s} |-> IF t = s THEN v ELSE votes[x][t]]

\* Mutant: the first vote decides.
FirstVoteIn(now) == Cardinality(DOMAIN now) >= 1

EveryVoteIn(now) == Cardinality(DOMAIN now) = 2

DecisionOn(now) ==
    IF \A s \in DOMAIN now : now[s] = "yes" THEN "COMMIT" ELSE "ABORT"

\* The decision is taken, and sent to every server of both clusters, each
\* time a vote leaves exactly two voters, whichever clusters they are in.
HandleVote(m) ==
    /\ m.type = "VOTE"
    /\ IF m.tx \in open
       THEN LET now == VotesWith(m.tx, m.from, m.vote)
                to == UNION {Members(c) : c \in ClustersOfTx(m.tx)}
            IN /\ votes' = [votes EXCEPT ![m.tx] = now]
               /\ IF EveryVoteIn(now)
                  THEN /\ net' = (net \ {m}) \cup
                             {Decision(DecisionOn(now), s, m.tx) : s \in to}
                       /\ decided' = [decided EXCEPT
                                         ![m.tx] = @ \cup {DecisionOn(now)}]
                  ELSE net' = net \ {m} /\ decided' = decided
       ELSE net' = net \ {m} /\ UNCHANGED <<votes, decided>>
    /\ UNCHANGED <<nextTx, open, acks, timing, completed>>

\* Mutant: the entry of transaction_times is not deleted.
HandleAckAgain(m) ==
    /\ m.type = "ACK"
    /\ net' = net \ {m}
    /\ IF m.tx \in open /\ TimeKey(m.tx) \in timing
       THEN /\ acks' = [acks EXCEPT ![m.tx] = @ \cup {m.from}]
            /\ completed' = completed + 1
       ELSE UNCHANGED <<acks, completed>>
    /\ UNCHANGED <<nextTx, open, votes, timing, decided>>

\* The transfer leaves pending_transactions only if this first-timed ack is
\* already the second one.
HandleAck(m) ==
    /\ m.type = "ACK"
    /\ net' = net \ {m}
    /\ IF m.tx \in open
       THEN /\ acks' = [acks EXCEPT ![m.tx] = @ \cup {m.from}]
            /\ IF TimeKey(m.tx) \in timing
               THEN /\ completed' = completed + 1
                    /\ timing' = timing \ {TimeKey(m.tx)}
                    /\ open' = IF Cardinality(acks'[m.tx]) >= 2
                               THEN open \ {m.tx} ELSE open
               ELSE UNCHANGED <<completed, timing, open>>
       ELSE UNCHANGED <<acks, completed, timing, open>>
    /\ UNCHANGED <<nextTx, votes, decided>>

HandleClientResponse(m) ==
    /\ m.type = "CLIENT_RESPONSE"
    /\ net' = net \ {m}
    /\ IF TimeKey(m.tx) \in timing
       THEN /\ completed' = completed + 1
            /\ timing' = timing \ {TimeKey(m.tx)}
       ELSE UNCHANGED <<completed, timing>>
    /\ UNCHANGED <<nextTx, open, votes, acks, decided>>

ClientNext ==
    \/ Issue
    \/ \E m \in net : HandleVote(m) \/ HandleAck(m) \/ HandleClientResponse(m)
=============================================================================
