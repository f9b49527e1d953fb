--------------------------- MODULE MC_ZtAccess ---------------------------
(* Instances of ZtAccess for TLC.                                          *)
EXTENDS ZtAccess, TLC

Symmetry == Permutations(Passkeys) \cup Permutations(Entries) \cup Permutations(Challenges)
              \cup Permutations(Tokens) \cup Permutations(Calls)
=============================================================================
