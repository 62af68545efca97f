------------------------------ MODULE ShardMap ------------------------------
(***************************************************************************)
(* Which cluster an account belongs to, which accounts have a balance and  *)
(* which have a lock.  Client, shard file and server each have ranges of   *)
(* their own; module StorageProofs compares them over all accounts.        *)
(***************************************************************************)
EXTENDS Integers

\* The accounts issue_transaction lets through.
Issued == 0..3000

\* get_clusters and is_intra_shard_transaction of the client.
ClusterOfAccount(a) ==
    IF a <= 1000 THEN 1 ELSE IF a <= 2000 THEN 2 ELSE 3

\* is_account_in_cluster of the shard manager.
IsAccountInCluster(c, a) ==
    \/ c = 1 /\ a \in 0..1000
    \/ c = 2 /\ a \in 1001..2000
    \/ c = 3 /\ a \in 2001..3000

AccountOffset(c) == CASE c = 1 -> 0 [] c = 2 -> 1001 [] c = 3 -> 2001

\* The rows of a new balance file: a thousand accounts from the offset on.
Rows(c) == AccountOffset(c) .. AccountOffset(c) + 999

\* The keys of the lock table: shard_start to shard_end.
LockTable(c) == (c - 1) * 1000 + 1 .. c * 1000
=============================================================================
