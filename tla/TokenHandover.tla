--------------------------- MODULE TokenHandover ---------------------------
(***************************************************************************)
(* What a session request promises, without calls, clocks or databases: it *)
(* is decided once; only a grant mints a token, exactly one; the token is  *)
(* handed out at most once.  A request may go away with its device, and    *)
(* its token before it.                                                    *)
(***************************************************************************)
EXTENDS Naturals

CONSTANT Items

VARIABLES
    stage,    \* where each request stands
    tokens,   \* tokens minted for it that still exist
    copies    \* times its token left the server

vars == <<stage, tokens, copies>>

Init ==
    /\ stage = [s \in Items |-> "absent"]
    /\ tokens = [s \in Items |-> 0]
    /\ copies = [s \in Items |-> 0]

Move(s, from, to) == stage[s] = from /\ stage' = [stage EXCEPT ![s] = to]

Open(s)   == Move(s, "absent", "open") /\ UNCHANGED <<tokens, copies>>
Refuse(s) == Move(s, "open", "refused") /\ UNCHANGED <<tokens, copies>>
Grant(s)  == /\ Move(s, "open", "granted")
             /\ tokens' = [tokens EXCEPT ![s] = 1]
             /\ UNCHANGED copies
Hand(s)   == /\ Move(s, "granted", "handed")
             /\ copies' = [copies EXCEPT ![s] = 1]
             /\ UNCHANGED tokens

\* Time refuses the open requests among some; a device takes all of its own.
RefuseSome == \E some \in SUBSET Items :
    /\ \A s \in some : stage[s] = "open"
    /\ stage' = [s \in Items |-> IF s \in some THEN "refused" ELSE stage[s]]
    /\ UNCHANGED <<tokens, copies>>

Vanish == \E some \in SUBSET Items :
    /\ \A s \in some : stage[s] # "absent"
    /\ stage' = [s \in Items |-> IF s \in some THEN "gone" ELSE stage[s]]
    /\ tokens' = [s \in Items |-> IF s \in some THEN 0 ELSE tokens[s]]
    /\ UNCHANGED copies

\* Tokens are taken back; what was decided stands.
Withdraw == \E some \in SUBSET Items :
    /\ tokens' = [s \in Items |-> IF s \in some THEN 0 ELSE tokens[s]]
    /\ UNCHANGED <<stage, copies>>

Next ==
    \/ \E s \in Items : Open(s) \/ Refuse(s) \/ Grant(s) \/ Hand(s)
    \/ RefuseSome
    \/ Vanish
    \/ Withdraw

Spec == Init /\ [][Next]_vars
=============================================================================
