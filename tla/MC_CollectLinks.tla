-------------------------- MODULE MC_CollectLinks --------------------------
(* Instances of CollectLinks for TLC.                                      *)
EXTENDS CollectLinks, TLC

\* The prefix "p" makes "ppa" of "pa" and "pa" of "a", which the empty prefix
\* makes of "pa".
MCFinal == [p \in {"", "p"} |->
              [n \in {"a", "pa"} |-> CASE p = "" -> n
                                       [] n = "a" -> "pa"
                                       [] OTHER   -> "ppa"]]

Symmetry == Permutations(Requests) \cup Permutations(Shares) \cup Permutations(Calls)
=============================================================================
