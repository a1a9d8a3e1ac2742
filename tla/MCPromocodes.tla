---------------------------- MODULE MCPromocodes ----------------------------
(* The values that the runs give to the constants of Promocodes.tla.       *)
EXTENDS Promocodes, TLC

SettingsDef ==
  {[paused |-> p, min |-> 3, freeFrom |-> 5, fee |-> 1, percent |-> 5] : p \in BOOLEAN}
FirstPromoDef ==
  [type |-> "percent", value |-> 50, min |-> 0, from |-> 0, until |-> 2,
   max |-> 2, perUser |-> 1, uses |-> 0, active |-> TRUE]
PatchesDef ==
  {[type |-> "fixed_amount", value |-> 9], [from |-> 1], [until |-> 1],
   [max |-> 1], [perUser |-> 2]}
Symmetry == Permutations(Procs) \cup Permutations(Customers)
=============================================================================
