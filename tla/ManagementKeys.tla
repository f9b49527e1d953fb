--------------------------- MODULE ManagementKeys ---------------------------
(***************************************************************************)
(* Management keys and the provider keys made with them:                   *)
(* src/src/management_keys/handlers.rs.  An envelope is a body and one     *)
(* wrapped key for each recipient device; it is stored in one transaction  *)
(* and read in several statements, while policies, links of entries to     *)
(* provider keys and devices change.                                       *)
(* One owner; a key of another owner answers NotFound before anything      *)
(* else.  An operator XSlip is X with one plausible slip, used by no action. *)
(***************************************************************************)
EXTENDS FiniteSets

CONSTANTS
    Devices,      \* devices of the owner, enrolled at the start
    Management,   \* ids of management keys, never reused
    Provisioned,  \* ids of provisioned keys, never reused
    Names,        \* names of key-value entries
    Calls,        \* slots for concurrent calls
    None

ASSUME NoneAssumption == None \notin Devices \cup Management \cup Provisioned \cup Names

VARIABLES
    devices,      \* the devices that are enrolled
    banned,       \* device_bans in force
    restricted,   \* devices with a policy other than allow_all
    permitted,    \* the names the policy of a restricted device allows
    management,   \* management_keys with their bodies and recipients
    provisioned,  \* provisioned_keys with their bodies and recipients
    source,       \* kv_entries.source_*: the provisioned key an entry is made of
    call          \* running calls

vars == <<devices, banned, restricted, permitted, management, provisioned, source, call>>

\* whole: the row has its body; wraps: the devices with a recipient row.
ManagementRows == [status : {"absent", "active", "revoked"}, whole : BOOLEAN,
                   wraps : SUBSET Devices]
ProvisionedRows == [status : {"absent", "active", "deleted"}, whole : BOOLEAN,
                    wraps : SUBSET Devices, of : Management \cup {None}]
NoManagement  == [status |-> "absent", whole |-> FALSE, wraps |-> {}]
NoProvisioned == [status |-> "absent", whole |-> FALSE, wraps |-> {}, of |-> None]

\* by: the device the caller's credential is attributed to; for: the recipients of
\* a key to be stored; todo: names still to be judged.  History: free says
\* that by was unrestricted or gone at some time since the request arrived, seen
\* has the names its policy allowed at some time, linked those it was judged by.
Pcs == {"idle", "check", "change", "body", "wrap", "ban", "policy", "links", "judge"}
Ops == {"create", "defaults", "revoke", "envelope", "provision", "delete", "fetch"}
CallRecords == [pc : Pcs, op : Ops \cup {None}, by : Devices \cup {None},
                for : SUBSET Devices, management : Management \cup {None},
                provisioned : Provisioned \cup {None}, todo : SUBSET Names,
                free : BOOLEAN, seen : SUBSET Names, linked : SUBSET Names]
NoCall == [pc |-> "idle", op |-> None, by |-> None, for |-> {}, management |-> None,
           provisioned |-> None, todo |-> {}, free |-> FALSE, seen |-> {}, linked |-> {}]

Init ==
    /\ devices = Devices
    /\ banned = {}
    /\ restricted = {}
    /\ permitted = [d \in Devices |-> {}]
    /\ management = [m \in Management |-> NoManagement]
    /\ provisioned = [p \in Provisioned |-> NoProvisioned]
    /\ source = [n \in Names |-> None]
    /\ call = [c \in Calls |-> NoCall]

Unrestricted(d) == d \notin restricted
Permits(d, n)   == Unrestricted(d) \/ n \in permitted[d]

GoTo(c, pc) == call' = [call EXCEPT ![c] = [@ EXCEPT !.pc = pc]]
Return(c)   == call' = [call EXCEPT ![c] = NoCall]
UnchangedPolicies == UNCHANGED <<devices, banned, restricted, permitted>>
UnchangedKeys     == UNCHANGED <<management, provisioned, source>>

(***************************************************************************)
(* Requests                                                                *)
(***************************************************************************)
\* get_provisioned_key_envelope checks the caller's device itself; everything
\* else starts with ensure_may_manage_credentials.
FirstCheck(op, by) == CASE op # "fetch" -> "check"
                        [] by = None    -> "body"
                        [] OTHER        -> "ban"

\* AdminAuth passed: by is a device that is not banned, or none.
Request(op, by) ==
    [NoCall EXCEPT !.pc = FirstCheck(op, by), !.op = op, !.by = by,
                   !.free = by = None \/ Unrestricted(by),
                   !.seen = IF by = None THEN {} ELSE {n \in Names : Permits(by, n)}]

Made   == {m \in Management : management[m].status # "absent"}
Stored == {p \in Provisioned : provisioned[p].status # "absent"}
\* The list of recipients; an empty one is refused.
Recipients == SUBSET Devices \ {{}}
Begin(c, request) == call' = [call EXCEPT ![c] = request]

Arrive(c) ==
    /\ call[c].pc = "idle"
    /\ \E by \in {None} \cup (devices \ banned) :
         \/ \E some \in Recipients : Begin(c, [Request("create", by) EXCEPT !.for = some])
         \/ \E m \in Made, op \in {"defaults", "revoke", "envelope"} :
              Begin(c, [Request(op, by) EXCEPT !.management = m])
         \/ \E m \in Made, some \in Recipients :
              Begin(c, [Request("provision", by) EXCEPT !.management = m, !.for = some])
         \/ \E p \in Stored, op \in {"delete", "fetch"} :
              Begin(c, [Request(op, by) EXCEPT !.provisioned = p])
    /\ UnchangedPolicies /\ UnchangedKeys

\* ensure_may_manage_credentials, with the reads of the row that follow it.
MayManage(c) == Unrestricted(call[c].by)

Check(c) ==
    /\ call[c].pc = "check"
    /\ IF MayManage(c) THEN GoTo(c, IF call[c].op = "envelope" THEN "body" ELSE "change")
       ELSE Return(c)
    /\ UnchangedPolicies /\ UnchangedKeys

(***************************************************************************)
(* Writing keys                                                            *)
(***************************************************************************)
\* One transaction for the whole list; a recipient that was deleted fails it on the
\* foreign key (one that is listed twice on the unique index, an Abort).
RecipientsRegisteredSlip(c) == call[c].for \cap devices # {}
RecipientsRegistered(c)     == call[c].for \subseteq devices

CreateManagementKey(c, m) ==
    /\ call[c].pc = "change" /\ call[c].op = "create"
    /\ management[m].status = "absent"
    /\ RecipientsRegistered(c)
    /\ management' = [management EXCEPT ![m] =
                        [status |-> "active", whole |-> TRUE, wraps |-> call[c].for]]
    /\ Return(c)
    /\ UnchangedPolicies /\ UNCHANGED <<provisioned, source>>

\* The limits that are offered for new provider keys; nothing here depends on them.
UpdateDefaults(c) ==
    /\ call[c].pc = "change" /\ call[c].op = "defaults"
    /\ Return(c)
    /\ UnchangedPolicies /\ UnchangedKeys

RevokeManagementKey(c) ==
    LET m == call[c].management
    IN  /\ call[c].pc = "change" /\ call[c].op = "revoke"
        /\ management' = IF management[m].status = "active"
                         THEN [management EXCEPT ![m] = [@ EXCEPT !.status = "revoked"]]
                         ELSE management
        /\ Return(c)
        /\ UnchangedPolicies /\ UNCHANGED <<provisioned, source>>

\* The management key may be revoked: only its row is asked for.
CreateProvisionedKey(c, p) ==
    /\ call[c].pc = "change" /\ call[c].op = "provision"
    /\ provisioned[p].status = "absent"
    /\ RecipientsRegistered(c)
    /\ provisioned' = [provisioned EXCEPT ![p] =
                         [status |-> "active", whole |-> TRUE, wraps |-> call[c].for,
                          of |-> call[c].management]]
    /\ Return(c)
    /\ UnchangedPolicies /\ UNCHANGED <<management, source>>

\* Body and recipients cascade; the links of entries stay and match nothing.
DeleteProvisionedKey(c) ==
    LET p == call[c].provisioned
    IN  /\ call[c].pc = "change" /\ call[c].op = "delete"
        /\ provisioned' = [provisioned EXCEPT ![p] = [NoProvisioned EXCEPT !.status = "deleted"]]
        /\ Return(c)
        /\ UnchangedPolicies /\ UNCHANGED <<management, source>>

(***************************************************************************)
(* Reading envelopes                                                       *)
(***************************************************************************)
\* authorize_provisioned_key: the ban, the policy, the entries made of the key.
CheckBan(c) ==
    /\ call[c].pc = "ban"
    /\ IF call[c].by \in banned THEN Return(c) ELSE GoTo(c, "policy")
    /\ UnchangedPolicies /\ UnchangedKeys

CheckPolicy(c) ==
    /\ call[c].pc = "policy"
    /\ GoTo(c, IF Unrestricted(call[c].by) THEN "body" ELSE "links")
    /\ UnchangedPolicies /\ UnchangedKeys

LinkedTo(p) == {n \in Names : source[n] = p /\ provisioned[p].status = "active"}

\* A restricted device gets no key that no entry is made of.
RefusesUnlinkedSlip(linked) == FALSE
RefusesUnlinked(linked)     == linked = {}

ReadLinks(c) ==
    LET linked == LinkedTo(call[c].provisioned)
    IN  /\ call[c].pc = "links"
        /\ IF RefusesUnlinked(linked) THEN Return(c)
           ELSE call' = [call EXCEPT ![c] =
                           [@ EXCEPT !.pc = IF linked = {} THEN "body" ELSE "judge",
                                     !.todo = linked, !.linked = linked]]
        /\ UnchangedPolicies /\ UnchangedKeys

\* authorize_key for one of the names (module DevicePolicy has its statements):
\* a name that is refused bans the device.
Judge(c, n) ==
    LET d == call[c].by
        rest == call[c].todo \ {n}
    IN  /\ call[c].pc = "judge"
        /\ n \in call[c].todo
        /\ \/ /\ d \notin banned /\ Permits(d, n)
              /\ call' = [call EXCEPT ![c] = [@ EXCEPT !.todo = rest,
                                            !.pc = IF rest = {} THEN "body" ELSE "judge"]]
              /\ UNCHANGED banned
           \/ /\ d \in banned \/ ~Permits(d, n)
              /\ banned' = banned \cup {d}
              /\ Return(c)
        /\ UNCHANGED <<devices, restricted, permitted>> /\ UnchangedKeys

\* The body, then the wrap; a management key may be revoked.
ReadBody(c) ==
    /\ call[c].pc = "body"
    /\ IF call[c].op = "fetch" /\ ~provisioned[call[c].provisioned].whole
       THEN Return(c) ELSE GoTo(c, "wrap")
    /\ UnchangedPolicies /\ UnchangedKeys

\* NotFound when the device of the path is no recipient, else the envelope.
ReadWrap(c) ==
    /\ call[c].pc = "wrap"
    /\ Return(c)
    /\ UnchangedPolicies /\ UnchangedKeys

(***************************************************************************)
(* Around the calls                                                        *)
(***************************************************************************)
Abort(c) ==
    /\ call[c].pc # "idle"
    /\ Return(c)
    /\ UnchangedPolicies /\ UnchangedKeys

\* admin_write_kv with source fields, which the client chooses, or an entry that goes
\* (module KvEntries).
LinkEntry(n) ==
    /\ \E p \in Provisioned \cup {None} : source' = [source EXCEPT ![n] = p]
    /\ UnchangedPolicies /\ UNCHANGED <<management, provisioned, call>>

\* put_policy; the calls of the device remember what it allowed.
SetPolicy(d) ==
    /\ d \in devices
    /\ \E names \in SUBSET Names :
         /\ restricted' = restricted \cup {d}
         /\ permitted' = [permitted EXCEPT ![d] = names]
         /\ call' = [c \in Calls |-> IF call[c].by = d
                                     THEN [call[c] EXCEPT !.seen = @ \cup names] ELSE call[c]]
    /\ UNCHANGED <<devices, banned>> /\ UnchangedKeys

\* The policy is allow_all from now on, or gone with its device.
Freed(d) == [c \in Calls |-> IF call[c].by = d THEN [call[c] EXCEPT !.free = TRUE] ELSE call[c]]

LiftPolicy(d) ==
    /\ d \in restricted
    /\ restricted' = restricted \ {d}
    /\ permitted' = [permitted EXCEPT ![d] = {}]
    /\ call' = Freed(d)
    /\ UNCHANGED <<devices, banned>> /\ UnchangedKeys

\* unban, or the ban's expiry
EndBan(d) ==
    /\ d \in banned
    /\ banned' = banned \ {d}
    /\ UNCHANGED <<devices, restricted, permitted, call>> /\ UnchangedKeys

\* devices::handlers::delete: policy, ban and recipient rows go with the device.
WrapsWithout(row, d) == [row EXCEPT !.wraps = @ \ {d}]

DeleteDevice(d) ==
    /\ d \in devices
    /\ devices' = devices \ {d}
    /\ banned' = banned \ {d}
    /\ restricted' = restricted \ {d}
    /\ permitted' = [permitted EXCEPT ![d] = {}]
    /\ management' = [m \in Management |-> WrapsWithout(management[m], d)]
    /\ provisioned' = [p \in Provisioned |-> WrapsWithout(provisioned[p], d)]
    /\ call' = Freed(d)
    /\ UNCHANGED source

(***************************************************************************)
(* The specification                                                       *)
(***************************************************************************)
Step(c) ==
    \/ Arrive(c) \/ Check(c)
    \/ \E m \in Management : CreateManagementKey(c, m)
    \/ \E p \in Provisioned : CreateProvisionedKey(c, p)
    \/ UpdateDefaults(c) \/ RevokeManagementKey(c) \/ DeleteProvisionedKey(c)
    \/ CheckBan(c) \/ CheckPolicy(c) \/ ReadLinks(c)
    \/ \E n \in Names : Judge(c, n)
    \/ ReadBody(c) \/ ReadWrap(c)
    \/ Abort(c)

Next ==
    \/ \E c \in Calls : Step(c)
    \/ \E n \in Names : LinkEntry(n)
    \/ \E d \in Devices : SetPolicy(d) \/ LiftPolicy(d) \/ EndBan(d) \/ DeleteDevice(d)

Spec == Init /\ [][Next]_vars

(***************************************************************************)
(* Properties                                                              *)
(***************************************************************************)
\* Types; a stored key has its body and is wrapped for enrolled devices only,
\* whichever comes first, the transaction that stores it or the deletion.
TypeOK ==
    /\ devices \subseteq Devices /\ banned \subseteq devices /\ restricted \subseteq devices
    /\ permitted \in [Devices -> SUBSET Names]
    /\ management \in [Management -> ManagementRows]
    /\ provisioned \in [Provisioned -> ProvisionedRows]
    /\ source \in [Names -> Provisioned \cup {None}]
    /\ call \in [Calls -> CallRecords]
    /\ \A m \in Management :
         /\ management[m].whole <=> management[m].status # "absent"
         /\ management[m].wraps \subseteq devices
    /\ \A p \in Provisioned :
         /\ provisioned[p].whole <=> provisioned[p].status = "active"
         /\ provisioned[p].wraps \subseteq devices
         /\ provisioned[p].whole => provisioned[p].of \in Made

\* A device that is restricted from the start of its call to the end reads no
\* management key, and a provisioned key only if entries were made of it and each
\* one was allowed to the device at some time during the call.
EnvelopesAreJudged ==
    \A c \in Calls : call[c].pc \in {"body", "wrap"} /\ call[c].by # None =>
        \/ call[c].free
        \/ /\ call[c].op = "fetch"
           /\ call[c].linked # {}
           /\ call[c].linked \subseteq call[c].seen

=============================================================================
