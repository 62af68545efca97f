----------------------------- MODULE MCElection -----------------------------
(* The small instances of Election that TLC checks. *)
EXTENDS Election, TLC

\* A log that is empty and one that holds an entry of the first term.
MCStamp == {[term |-> 0, index |-> 0], [term |-> 1, index |-> 1]}

Symmetry == Permutations(Server)
=============================================================================
