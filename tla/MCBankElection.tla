--------------------------- MODULE MCBankElection ---------------------------
(* The instances of MCBank with the elections of cluster c1 observed. *)
EXTENDS MCBank, BankElection
=============================================================================
