----------------------------- MODULE MCAccounts -----------------------------
(* The values that the runs on accounts give to the constants.             *)
EXTENDS Accounts, TLC

ProcSymmetry == Permutations(Procs)
AllSymmetry == Permutations(Procs) \cup Permutations(Owners)
                 \cup Permutations(Tokens) \cup Permutations(Orders)
=============================================================================
