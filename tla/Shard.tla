-------------------------------- MODULE Shard --------------------------------
(***************************************************************************)
(* What one server knows of its shard, whether it keeps it in files        *)
(* (module Storage) or in one atomic state (module Ledger): the transfers  *)
(* in the order of the log, and the balances they change.                  *)
(*                                                                         *)
(* The leaders agree on the transfer at each index; logs that conflict are *)
(* the subject of module Server.  An entry is then its committed_2PC flag. *)
(***************************************************************************)
EXTENDS ShardMap, Sequences

CONSTANTS
    Cluster,         \* my_cluster: 1, 2 or 3
    Order,           \* the transfers [payer, payee, amount, commit] of the log;
                     \* commit is the decision on a cross-shard one
    InitialBalance,  \* the balance in a new file
    Torn             \* a file opened for writing whose content is not written

Index == DOMAIN Order
Side == {"payer", "payee"}

\* execute_transaction of a transfer that does not touch the shard is an
\* exception; get_clusters never sends one here.
ASSUME OrderType ==
    /\ Order \in Seq([payer : Issued, payee : Issued, amount : Nat,
                      commit : BOOLEAN])
    /\ \A i \in Index : \E f \in Side : IsAccountInCluster(Cluster, Order[i][f])
ASSUME ClusterType == Cluster \in 1..3
ASSUME BalanceType == InitialBalance \in Nat

Local(i, f) == IsAccountInCluster(Cluster, Order[i][f])
Cross(i) == ClusterOfAccount(Order[i].payer) # ClusterOfAccount(Order[i].payee)

\* The rows some transfer reads or writes.
Held == {a \in Rows(Cluster) : \E i \in Index, f \in Side : Order[i][f] = a}
Balances == [Held -> Nat]

\* An unreadable file is not one that holds balances.
ASSUME TornIsNoFile == Torn \notin [Held -> Int]

\* A cross-shard entry is executed only if it is marked as committed.
Undecided(log, i) == Cross(i) /\ ~log[i]

Short(balance, i) == balance[Order[i].payer] < Order[i].amount

\* The balances after one side of transfer i; the other side may be elsewhere.
Moved(b, i, f) ==
    IF ~Local(i, f) THEN b
    ELSE [b EXCEPT ![Order[i][f]] =
             IF f = "payer" THEN @ - Order[i].amount ELSE @ + Order[i].amount]
=============================================================================
