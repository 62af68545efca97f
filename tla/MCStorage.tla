------------------------------ MODULE MCStorage ------------------------------
(* Small instances of Storage: a server of cluster 1. *)
EXTENDS Storage

Transfer(from, to, n, decision) ==
    [payer |-> from, payee |-> to, amount |-> n, commit |-> decision]

\* A transfer out of the shard that is decided COMMIT, then one inside it;
\* the balance of 100 allows only one of the two.
CrossThenIntra ==
    <<Transfer(100, 1500, 6, TRUE), Transfer(100, 200, 5, FALSE)>>
\* Then one into the shard, which lets the payer pay again.
ThreeTransfers ==
    <<Transfer(100, 1500, 6, TRUE), Transfer(100, 200, 5, FALSE),
      Transfer(2500, 100, 3, TRUE)>>
\* Both may be executed.
CrossAndIntra ==
    <<Transfer(100, 1500, 6, TRUE), Transfer(300, 200, 5, FALSE)>>
\* Server 9 never applied an entry, did not save how far it is since the last
\* new entry, is ahead, or crashed while it wrote the file.
TheirFile == {0, MissingKey, 2, Torn}
\* The payee is the last account of cluster 1.
ToLastAccount == <<Transfer(10, 1000, 5, FALSE)>>
=============================================================================
