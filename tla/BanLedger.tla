----------------------------- MODULE BanLedger -----------------------------
(***************************************************************************)
(* What device_bans promises: a ledger in which a device that is not       *)
(* banned may offend and is then banned for the next term; the ban ends    *)
(* when the owner lifts it, when its term is over or when the device goes  *)
(* away.  There are no requests here, hence no races: an offence and its   *)
(* ban are one step.                                                       *)
(***************************************************************************)
EXTENDS Integers

CONSTANTS
    Devices,
    Term(_)     \* length of the nth ban

VARIABLES
    now,
    members,    \* the devices that exist
    book        \* per device: banned, until, count

vars == <<now, members, book>>

Clean == [banned |-> FALSE, until |-> 0, count |-> 0]

Serving(d) == book[d].banned /\ book[d].until > now

Init ==
    /\ now = 0
    /\ members = Devices
    /\ book = [d \in Devices |-> Clean]

Offend(d) ==
    /\ d \in members
    /\ ~Serving(d)
    /\ book' = [book EXCEPT ![d] = [banned |-> TRUE,
                                   until  |-> now + Term(@.count + 1),
                                   count  |-> @.count + 1]]
    /\ UNCHANGED <<now, members>>

Lift(d) ==
    /\ d \in members
    /\ Serving(d)
    /\ book' = [book EXCEPT ![d].banned = FALSE, ![d].until = 0]
    /\ UNCHANGED <<now, members>>

\* The bans whose term is over are cleared together; the counts stay.
Sweep ==
    /\ book' = [d \in Devices |->
                  IF book[d].banned /\ book[d].until <= now
                  THEN [book[d] EXCEPT !.banned = FALSE, !.until = 0]
                  ELSE book[d]]
    /\ UNCHANGED <<now, members>>

Remove(d) ==
    /\ d \in members
    /\ members' = members \ {d}
    /\ book' = [book EXCEPT ![d] = Clean]
    /\ UNCHANGED now

Tick ==
    /\ now' = now + 1
    /\ UNCHANGED <<members, book>>

Next ==
    \/ \E d \in Devices : Offend(d) \/ Lift(d) \/ Remove(d)
    \/ Sweep
    \/ Tick

Spec == Init /\ [][Next]_vars
=============================================================================
