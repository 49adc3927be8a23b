----------------------------- MODULE MCAccounts -----------------------------
(* Symmetry for the model-checking of Accounts.                            *)
EXTENDS Accounts, TLC

Symmetry == Permutations(Requests) \cup Permutations(Sessions)
=============================================================================
