------------------------- MODULE MC_DeviceEnrolment -------------------------
(* Instances of DeviceEnrolment for TLC.                                   *)
EXTENDS DeviceEnrolment, TLC

Symmetry == Permutations(Owners) \cup Permutations(Names) \cup Permutations(Materials)
              \cup Permutations(Devices) \cup Permutations(Challenges)
              \cup Permutations(Proposals) \cup Permutations(Calls)
=============================================================================
