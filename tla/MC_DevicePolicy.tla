-------------------------- MODULE MC_DevicePolicy --------------------------
(***************************************************************************)
(* Small instances of DevicePolicy for TLC.                                *)
(***************************************************************************)
EXTENDS DevicePolicy, TLC

\* Requests are interchangeable, and so are the names of KV entries.
RequestSymmetry == Permutations(Requests)
=============================================================================
