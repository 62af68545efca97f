------------------------------- MODULE MCBank -------------------------------
(* Small instances of Bank: one full cluster, c1, with the accounts ann and  *)
(* bob, and a cluster c2 that only votes, with the account zoe.             *)
EXTENDS Bank

CONSTANTS s1, s2, s3, r1, c1, c2, ann, bob, zoe

MCServer == {s1, s2, s3}
MCRemote == {r1}
MCClusterOf == [s \in {s1, s2, s3, r1} |-> IF s = r1 THEN c2 ELSE c1]
MCContact == [c \in {c1, c2} |-> IF c = c1 THEN s1 ELSE r1]
MCShardOf == [x \in {ann, bob, zoe} |-> IF x = zoe THEN c2 ELSE c1]

Transfer(from, to, n) == [payer |-> from, payee |-> to, amount |-> n]

OneIntra == <<Transfer(ann, bob, 7)>>
\* Both fit, in either order.
TwoSmall == <<Transfer(ann, bob, 3), Transfer(ann, bob, 2)>>
\* The balance allows only one of the two.
TwoIntra == <<Transfer(ann, bob, 3), Transfer(ann, bob, 8)>>
ThreeIntra == <<Transfer(ann, bob, 3), Transfer(ann, bob, 8), Transfer(bob, ann, 1)>>
OneCross == <<Transfer(ann, zoe, 7)>>
CrossTooLarge == <<Transfer(ann, zoe, 20)>>
\* The second transfer needs the account, and the money, of the first.
CrossThenIntra == <<Transfer(ann, zoe, 7), Transfer(ann, bob, 6)>>

\* The elections that may start.
FirstOnly == {<<s1, 1>>}
ThenS2 == {<<s1, 1>>, <<s2, 2>>}

\* s1 has won term 1 with the vote of s2, and the request to s3 was lost.  An
\* instance that starts here leaves out that election and nothing else.
InOffice ==
    /\ net = {}
    /\ role = [s \in Server |-> IF s = s1 THEN "leader" ELSE "follower"]
    /\ currentTerm = [s \in Server |-> IF s = s3 THEN 0 ELSE 1]
    /\ votedFor = [s \in Server |-> IF s = s3 THEN NoServer ELSE s1]
    /\ nextIndex = [s \in Server |->
                      [p \in Peers[s] |-> IF s = s1 THEN 0 ELSE MissingKey]]
    /\ elected = {<<1, s1>>}
    /\ NoTransfers
    /\ ClientInit

SpecInOffice == InOffice /\ [][Next]_vars
FairInOffice == SpecInOffice /\ WorkerFairness
=============================================================================
