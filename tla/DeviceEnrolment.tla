--------------------------- MODULE DeviceEnrolment ---------------------------
(***************************************************************************)
(* Enrolling devices: register_begin, register_finish, delete and the      *)
(* proposals of src/src/devices/handlers.rs, with the challenge map of     *)
(* src/src/state.rs and the expiry of src/src/tasks/ttl_cleanup.rs.        *)
(*                                                                         *)
(* begin stashes the fields of the device under a challenge in memory;     *)
(* finish takes the challenge, verifies the touch and inserts the row; link *)
(* marks a proposal with the device that was enrolled for it.  A call is a *)
(* sequence of statements on a pool; other calls run between any two.      *)
(* An operator XSlip is X with one plausible slip, used by no action.      *)
(***************************************************************************)
EXTENDS FiniteSets

CONSTANTS
    Owners,      \* OIDC subjects that manage devices
    Names,       \* device names
    Materials,   \* a public key with its type
    Devices,     \* ids of devices, never reused
    Challenges,  \* ids of challenges, never reused
    Proposals,   \* ids of proposals, never reused
    Calls,       \* slots for concurrent calls
    None

ASSUME NoneAssumption ==
    None \notin Owners \cup Names \cup Materials \cup Devices \cup Challenges \cup Proposals

VARIABLES
    device,      \* devices
    restricted,  \* devices with a policy other than allow_all
    challenge,   \* device_reg_challenges
    proposal,    \* device_proposals
    call,        \* running calls
    origin       \* history: the challenge a device was enrolled with

vars == <<device, restricted, challenge, proposal, call, origin>>

DeviceRecords == [state : {"absent", "registered", "deleted"}, owner : Owners \cup {None},
                  name : Names \cup {None}, material : Materials \cup {None}]
NoDevice == [state |-> "absent", owner |-> None, name |-> None, material |-> None]

ChallengeRecords == [state : {"absent", "open", "gone"}, owner : Owners \cup {None},
                     name : Names \cup {None}, material : Materials \cup {None}]
NoChallenge == [state |-> "absent", owner |-> None, name |-> None, material |-> None]

Statuses == {"absent", "pending", "confirmed", "rejected", "expired", "deleted"}
ProposalRecords == [status : Statuses, material : Materials \cup {None},
                    device : Devices \cup {None}, by : Owners \cup {None}]
NoProposal == [status |-> "absent", material |-> None, device |-> None, by |-> None]

\* by: the device the caller's credential is attributed to; free, a history field:
\* that device was unrestricted or gone at some time since the request arrived.
Ops == {"begin", "finish", "delete", "link", "reject"}
Pcs == {"check", "name", "passkeys", "take", "again", "insert", "remove", "proposal", "device",
        "mark"}
CallRecords == [pc : {"idle"} \cup Pcs, op : Ops \cup {None}, owner : Owners \cup {None},
                by : Devices \cup {None}, name : Names \cup {None},
                material : Materials \cup {None}, challenge : Challenges \cup {None},
                device : Devices \cup {None}, proposal : Proposals \cup {None},
                free : BOOLEAN]
NoCall == [pc |-> "idle", op |-> None, owner |-> None, by |-> None, name |-> None,
           material |-> None, challenge |-> None, device |-> None, proposal |-> None,
           free |-> FALSE]

Init ==
    /\ device = [d \in Devices |-> NoDevice]
    /\ restricted = {}
    /\ challenge = [h \in Challenges |-> NoChallenge]
    /\ proposal = [p \in Proposals |-> NoProposal]
    /\ call = [c \in Calls |-> NoCall]
    /\ origin = [d \in Devices |-> None]

Registered == {d \in Devices : device[d].state = "registered"}
NameTaken(o, n) == \E d \in Registered : device[d].owner = o /\ device[d].name = n

\* The table devices with its index UNIQUE (owner_id, name).
MayInsertSlip(o, n) == TRUE
MayInsert(o, n)     == ~NameTaken(o, n)

GoTo(c, pc) == call' = [call EXCEPT ![c] = [@ EXCEPT !.pc = pc]]
Return(c)   == call' = [call EXCEPT ![c] = NoCall]

\* The calls of a device whose policy is lifted.
Freed(d) == [c \in Calls |-> IF call[c].by = d THEN [call[c] EXCEPT !.free = TRUE] ELSE call[c]]

\* A challenge taken out of the map; its owner is kept as history.
Gone(h) == [NoChallenge EXCEPT !.state = "gone", !.owner = challenge[h].owner]

UnchangedTables == UNCHANGED <<device, restricted, proposal, origin>>

(***************************************************************************)
(* Requests                                                                *)
(***************************************************************************)
\* Whose credential AdminAuth may have accepted: a browser session of the owner
\* or a device of the owner.
Callers(o) == {None} \cup {d \in Registered : device[d].owner = o}

Request(op, o, b) == [NoCall EXCEPT !.pc = "check", !.op = op, !.owner = o, !.by = b,
                                    !.free = b \notin restricted]
Begun    == {h \in Challenges : challenge[h].state # "absent"}
Proposed == {p \in Proposals : proposal[p].status # "absent"}

Begin(c, request) == call' = [call EXCEPT ![c] = request]

Arrive(c) ==
    /\ call[c].pc = "idle"
    /\ \E o \in Owners : \E b \in Callers(o) :
         \/ \E n \in Names, m \in Materials :
              Begin(c, [Request("begin", o, b) EXCEPT !.name = n, !.material = m])
         \/ \E h \in Begun : Begin(c, [Request("finish", o, b) EXCEPT !.challenge = h])
         \/ \E d \in Registered \ {b} : Begin(c, [Request("delete", o, b) EXCEPT !.device = d])
         \/ \E p \in Proposed, d \in Registered :
              Begin(c, [Request("link", o, b) EXCEPT !.proposal = p, !.device = d])
         \/ \E p \in Proposed : Begin(c, [Request("reject", o, b) EXCEPT !.proposal = p])
    /\ UnchangedTables /\ UNCHANGED challenge

\* ensure_may_manage_credentials; a device without rows is unrestricted.
MayManageSlip(c) == TRUE
MayManage(c)     == call[c].by \notin restricted

FirstStatement == [begin |-> "name", finish |-> "take", delete |-> "remove",
                   link |-> "proposal", reject |-> "mark"]

Check(c) ==
    /\ call[c].pc = "check"
    /\ IF MayManage(c) THEN GoTo(c, FirstStatement[call[c].op]) ELSE Return(c)
    /\ UnchangedTables /\ UNCHANGED challenge

(***************************************************************************)
(* register_begin                                                          *)
(***************************************************************************)
BeginName(c) ==
    /\ call[c].pc = "name"
    /\ IF NameTaken(call[c].owner, call[c].name) THEN Return(c) ELSE GoTo(c, "passkeys")
    /\ UnchangedTables /\ UNCHANGED challenge

\* load_passkeys_for_owner finds a passkey (module ZtAccess; Abort when none),
\* then the challenge is stored with the fields of the request.
BeginChallenge(c, h) ==
    /\ call[c].pc = "passkeys"
    /\ challenge[h].state = "absent"
    /\ challenge' = [challenge EXCEPT ![h] =
                       [state |-> "open", owner |-> call[c].owner, name |-> call[c].name,
                        material |-> call[c].material]]
    /\ Return(c)
    /\ UnchangedTables

(***************************************************************************)
(* register_finish                                                         *)
(***************************************************************************)
\* remove() takes the challenge before the owner and the assertion are looked
\* at; the assertion is verified against the passkeys of begin.
TakenSlip(h) == challenge
Taken(h)     == [challenge EXCEPT ![h] = Gone(h)]

SameOwner(c) == challenge[call[c].challenge].owner = call[c].owner

FinishTake(c) ==
    LET h == call[c].challenge
    IN  /\ call[c].pc = "take"
        /\ challenge[h].state = "open"
        /\ challenge' = Taken(h)
        /\ \/ /\ SameOwner(c)
              /\ call' = [call EXCEPT ![c] =
                            [@ EXCEPT !.pc = "again", !.name = challenge[h].name,
                                      !.material = challenge[h].material]]
           \/ Return(c)
        /\ UnchangedTables

FinishName(c) ==
    /\ call[c].pc = "again"
    /\ IF NameTaken(call[c].owner, call[c].name) THEN Return(c) ELSE GoTo(c, "insert")
    /\ UnchangedTables /\ UNCHANGED challenge

\* A name taken since the SELECT fails on the index.
FinishInsert(c, d) ==
    /\ call[c].pc = "insert"
    /\ device[d].state = "absent"
    /\ MayInsert(call[c].owner, call[c].name)
    /\ device' = [device EXCEPT ![d] =
                    [state |-> "registered", owner |-> call[c].owner, name |-> call[c].name,
                     material |-> call[c].material]]
    /\ origin' = [origin EXCEPT ![d] = call[c].challenge]
    /\ Return(c)
    /\ UNCHANGED <<restricted, challenge, proposal>>

(***************************************************************************)
(* delete                                                                  *)
(***************************************************************************)
\* One transaction: the proposals that name the device, its policy, the device.
ProposalsWithout(d) ==
    [p \in Proposals |->
        IF proposal[p].device = d
        THEN [NoProposal EXCEPT !.status = "deleted"] ELSE proposal[p]]

DeleteDevice(c) ==
    LET d == call[c].device
    IN  /\ call[c].pc = "remove"
        /\ IF d \in Registered /\ device[d].owner = call[c].owner
           THEN /\ device' = [device EXCEPT ![d] = [NoDevice EXCEPT !.state = "deleted"]]
                /\ proposal' = ProposalsWithout(d)
                /\ restricted' = restricted \ {d}
                /\ call' = [Freed(d) EXCEPT ![c] = NoCall]
           ELSE Return(c) /\ UNCHANGED <<device, proposal, restricted>>
        /\ UNCHANGED <<challenge, origin>>

(***************************************************************************)
(* Proposals                                                               *)
(***************************************************************************)
\* propose, which asks for no authentication
Propose(p, m) ==
    /\ proposal[p].status = "absent"
    /\ proposal' = [proposal EXCEPT ![p] =
                      [NoProposal EXCEPT !.status = "pending", !.material = m]]
    /\ UNCHANGED <<device, restricted, challenge, call, origin>>

\* link_proposal reads the row and compares the confirm token.
LinkProposal(c) ==
    LET p == call[c].proposal
    IN  /\ call[c].pc = "proposal"
        /\ IF proposal[p].status = "deleted" THEN Return(c)
           ELSE \/ call' = [call EXCEPT ![c] = [@ EXCEPT !.pc = "device",
                                                         !.material = proposal[p].material]]
                \/ Return(c)
        /\ UnchangedTables /\ UNCHANGED challenge

\* The device is the caller's own and has the proposed key.
BindsSlip(c) == call[c].device \in Registered /\ device[call[c].device].owner = call[c].owner
Binds(c) ==
    /\ call[c].device \in Registered
    /\ device[call[c].device].owner = call[c].owner
    /\ device[call[c].device].material = call[c].material

LinkDevice(c) ==
    /\ call[c].pc = "device"
    /\ IF Binds(c) THEN GoTo(c, "mark") ELSE Return(c)
    /\ UnchangedTables /\ UNCHANGED challenge

\* UPDATE ... WHERE status = 'pending', whether or not expires_at has passed.
OpenSlip(p) == proposal[p].status # "deleted"
Open(p)     == proposal[p].status = "pending"

\* resulting_device_id REFERENCES devices: a device deleted since fails.
LinkMark(c) ==
    LET p == call[c].proposal
    IN  /\ call[c].pc = "mark" /\ call[c].op = "link"
        /\ IF Open(p) /\ call[c].device \in Registered
           THEN proposal' = [proposal EXCEPT ![p] =
                               [@ EXCEPT !.status = "confirmed", !.device = call[c].device,
                                         !.by = call[c].owner]]
           ELSE UNCHANGED proposal
        /\ Return(c)
        /\ UNCHANGED <<device, restricted, challenge, origin>>

RejectMark(c) ==
    LET p == call[c].proposal
    IN  /\ call[c].pc = "mark" /\ call[c].op = "reject"
        /\ proposal' = IF Open(p)
                       THEN [proposal EXCEPT ![p] = [@ EXCEPT !.status = "rejected"]]
                       ELSE proposal
        /\ Return(c)
        /\ UNCHANGED <<device, restricted, challenge, origin>>

(***************************************************************************)
(* Around the calls                                                        *)
(***************************************************************************)
\* A dropped request, a failed statement, a guard that answers an error.
Abort(c) ==
    /\ call[c].pc # "idle"
    /\ Return(c)
    /\ UnchangedTables /\ UNCHANGED challenge

\* put_policy from the owner's browser (module DevicePolicy)
SetPolicy(d) ==
    /\ d \in Registered
    /\ \/ restricted' = restricted \cup {d} /\ UNCHANGED call
       \/ restricted' = restricted \ {d} /\ call' = Freed(d)
    /\ UNCHANGED <<device, challenge, proposal, origin>>

\* ttl_cleanup, when the thirty minutes of some proposals have passed.
Swept(due) ==
    [p \in Proposals |-> IF p \in due /\ Open(p)
                         THEN [proposal[p] EXCEPT !.status = "expired"] ELSE proposal[p]]
Sweep ==
    /\ \E due \in SUBSET Proposals : proposal' = Swept(due)
    /\ UNCHANGED <<device, restricted, challenge, call, origin>>

\* The challenges live in memory.
Restart ==
    /\ challenge' = [h \in Challenges |->
                       IF challenge[h].state = "open" THEN Gone(h) ELSE challenge[h]]
    /\ call' = [c \in Calls |-> NoCall]
    /\ UnchangedTables

(***************************************************************************)
(* The specification                                                       *)
(***************************************************************************)
Step(c) ==
    \/ Arrive(c) \/ Check(c) \/ BeginName(c) \/ FinishTake(c) \/ FinishName(c) \/ DeleteDevice(c)
    \/ \E h \in Challenges : BeginChallenge(c, h)
    \/ \E d \in Devices : FinishInsert(c, d)
    \/ LinkProposal(c) \/ LinkDevice(c) \/ LinkMark(c) \/ RejectMark(c)
    \/ Abort(c)

Next ==
    \/ \E c \in Calls : Step(c)
    \/ \E p \in Proposals, m \in Materials : Propose(p, m)
    \/ \E d \in Devices : SetPolicy(d)
    \/ Sweep \/ Restart

Spec == Init /\ [][Next]_vars

(***************************************************************************)
(* Properties                                                              *)
(***************************************************************************)
\* Types; a name is enrolled once per owner, also when two enrolments both found
\* it unused.
TypeOK ==
    /\ device \in [Devices -> DeviceRecords]
    /\ restricted \subseteq Devices
    /\ challenge \in [Challenges -> ChallengeRecords]
    /\ proposal \in [Proposals -> ProposalRecords]
    /\ call \in [Calls -> CallRecords]
    /\ origin \in [Devices -> Challenges \cup {None}]
    /\ \A d, e \in Registered :
         device[d].owner = device[e].owner /\ device[d].name = device[e].name => d = e

\* One touch of a passkey enrols one device, in the account that began it: however
\* often, in parallel or by whom the finish is sent, and across restarts.
OneDevicePerTouch ==
    \A d \in Devices : device[d].state # "absent" =>
        /\ origin[d] \in Challenges
        /\ d \in Registered => challenge[origin[d]].owner = device[d].owner
        /\ \A e \in Devices : device[e].state # "absent" /\ origin[e] = origin[d] => e = d

\* A confirmed proposal names a device that exists, belongs to the account that
\* confirmed it and has the key the proposer made, also when the device was
\* deleted between link's reads and its UPDATE.
ConfirmedProposalMatches ==
    \A p \in Proposals : proposal[p].status = "confirmed" =>
        /\ proposal[p].device \in Registered
        /\ device[proposal[p].device].owner = proposal[p].by
        /\ device[proposal[p].device].material = proposal[p].material

\* A decided proposal is not decided again: it stays as it is until the device it
\* names is deleted.
DecisionIsFinal ==
    [][\A p \in Proposals : proposal[p].status \in {"confirmed", "rejected", "expired"} =>
          \/ proposal'[p] = proposal[p]
          \/ proposal'[p].status = "deleted" /\ proposal[p].device \notin Registered']_vars

\* A restricted device gets no further than the check, unless its policy was
\* lifted or it was deleted while the call ran.
RestrictedDeviceDoesNotEnrol ==
    \A c \in Calls : call[c].pc \notin {"idle", "check"} /\ call[c].by # None => call[c].free

=============================================================================
