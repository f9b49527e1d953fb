------------------------- MODULE MC_ManagementKeys -------------------------
(* Instances of ManagementKeys for TLC.                                    *)
EXTENDS ManagementKeys, TLC

Symmetry == Permutations(Devices) \cup Permutations(Management) \cup Permutations(Provisioned)
              \cup Permutations(Names) \cup Permutations(Calls)
=============================================================================
