---------------------------- MODULE MC_ApiKeys ----------------------------
(* Instances of ApiKeys for TLC.  Rows, devices and call slots are          *)
(* interchangeable: only None is told apart from them.                      *)
EXTENDS ApiKeys, TLC

Symmetry == Permutations(Keys) \cup Permutations(Approvals) \cup Permutations(Calls)
              \cup Permutations(Devices)
=============================================================================
