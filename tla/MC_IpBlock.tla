---------------------------- MODULE MC_IpBlock ----------------------------
(* Instances of IpBlock for TLC.  Slots and addresses are interchangeable. *)
EXTENDS IpBlock, TLC

Symmetry == Permutations(Requests) \cup Permutations(Tasks) \cup Permutations(Addresses)
=============================================================================
