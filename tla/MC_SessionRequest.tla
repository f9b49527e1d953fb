------------------------- MODULE MC_SessionRequest -------------------------
(***************************************************************************)
(* Small instances of SessionRequest for TLC.                              *)
(***************************************************************************)
EXTENDS SessionRequest, TLC

Symmetry == Permutations(Calls) \cup Permutations(Items) \cup Permutations(Challenges)
=============================================================================
