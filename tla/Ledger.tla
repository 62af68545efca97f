------------------------------- MODULE Ledger -------------------------------
(***************************************************************************)
(* The state machine a server promises to be: committed entries are        *)
(* applied one at a time and whole, and a crash leaves at most the one in  *)
(* progress half done, or done and not recorded.  Module Server assumes it *)
(* of apply_committed_entries; module Storage implements it with files.    *)
(***************************************************************************)
EXTENDS Shard

VARIABLES
    log,      \* the flags of the entries, of which
    commit,   \* the first commit may be applied
    applied,  \* the indices that were
    balance   \* of every account, or Torn when the shard is lost

vars == <<log, commit, applied, balance>>

Init ==
    /\ log = <<>>
    /\ commit = 0
    /\ applied = {}
    /\ balance = [a \in Held |-> InitialBalance]

\* Entry i is executed, or passed over for lack of a decision or of balance.
Apply(i) ==
    /\ i \in DOMAIN log \ applied /\ i <= commit
    /\ applied' = applied \cup {i}
    /\ \/ Undecided(log, i) /\ balance' = balance
       \/ /\ ~Undecided(log, i) /\ balance # Torn
          /\ balance' = IF Local(i, "payer") /\ Short(balance, i) THEN balance
                        ELSE Moved(Moved(balance, i, "payer"), i, "payee")
    /\ UNCHANGED <<log, commit>>

\* Consensus and the coordinator: entries come, go and are decided on, and the
\* commit index moves, without any effect on what was applied.
Replicate ==
    /\ log' \in Seq(BOOLEAN) /\ commit' \in Nat
    /\ UNCHANGED <<applied, balance>>

\* What a crash may leave of a transfer that was being executed.
Remains(i) ==
    {Moved(balance, i, "payer"), Moved(Moved(balance, i, "payer"), i, "payee")}

\* A restart on the entries and the commit index that were saved last, which a
\* step back of the index may leave above it, but with every index that was
\* applied; or none ever again.
Crash ==
    /\ \/ balance' \in {balance, Torn}
       \/ \E i \in DOMAIN log \ applied :
             /\ i <= commit /\ ~Undecided(log, i) /\ balance # Torn
             /\ Local(i, "payer") => ~Short(balance, i)
             /\ balance' \in Remains(i)
    /\ log' \in Seq(BOOLEAN) /\ commit' \in Nat
    /\ UNCHANGED applied

Next == (\E i \in DOMAIN log : Apply(i)) \/ Replicate \/ Crash

Spec == Init /\ [][Next]_vars
=============================================================================
