------------------------------ MODULE LinkUse ------------------------------
(***************************************************************************)
(* What a link promises to whoever made it: it is used once or never, and  *)
(* not at all once it was withdrawn or has run out.                        *)
(***************************************************************************)
EXTENDS Naturals

CONSTANT Links

VARIABLES
    stage,  \* "absent", "open", "used" or "closed"
    uses    \* how often somebody used the link

Init ==
    /\ stage = [l \in Links |-> "absent"]
    /\ uses = [l \in Links |-> 0]

Make(l) ==
    /\ stage[l] = "absent"
    /\ stage' = [stage EXCEPT ![l] = "open"]
    /\ UNCHANGED uses

Use(l) ==
    /\ stage[l] = "open"
    /\ stage' = [stage EXCEPT ![l] = "used"]
    /\ uses' = [uses EXCEPT ![l] = @ + 1]

\* Several links may run out at once.
Close(gone) ==
    /\ \A l \in gone : stage[l] = "open"
    /\ stage' = [l \in Links |-> IF l \in gone THEN "closed" ELSE stage[l]]
    /\ UNCHANGED uses

Next ==
    \/ \E l \in Links : Make(l) \/ Use(l)
    \/ \E gone \in SUBSET Links : Close(gone)

Spec == Init /\ [][Next]_<<stage, uses>>

=============================================================================
