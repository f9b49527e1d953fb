--------------------------- MODULE MC_KvEntries ---------------------------
(* Instances of KvEntries for TLC.                                          *)
EXTENDS KvEntries, TLC

Symmetry == Permutations(Names) \cup Permutations(Devices) \cup Permutations(Calls)
=============================================================================
