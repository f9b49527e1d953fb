------------------------------ MODULE ApiKeys ------------------------------
(***************************************************************************)
(* The life of the rows of api_keys and approval_requests: minting,        *)
(* revocation, deletion, approval and use of credentials of one owner      *)
(* (src/src/admin/handlers.rs, auth/oidc.rs, kv/handlers.rs request_access *)
(* and middleware/api_key.rs).                                             *)
(*                                                                         *)
(* A call is authenticated, checked against the caller's device policy and *)
(* then runs its statements; calls interleave between statements and may   *)
(* stop after any of them.  Expiry is a flag "late" the clock raises.      *)
(* An operator XSlip is X with one plausible slip, used by no action.      *)
(***************************************************************************)
EXTENDS Naturals, FiniteSets

CONSTANTS
    Keys,        \* ids of api_keys rows, never reused
    Approvals,   \* ids of approval_requests rows, never reused
    Devices,     \* ids of the owner's devices, never reused
    Calls,       \* slots for concurrent calls
    None,        \* no key, no device
    Ops,         \* the operations called in an instance
    NewTypes     \* the key types create_key is asked for in an instance

ASSUME NoneAssumption == None \notin Keys \cup Approvals \cup Devices
\* create_key refuses any other type; zero_trust and shareable keys are standard here.
ASSUME NewTypesAssumption == NewTypes \subseteq {"standard", "one_time", "approval_required"}

VARIABLES
    devices,      \* rows of devices
    banned,       \* devices with an active ban
    restricted,   \* devices with a policy other than allow_all
    key,          \* rows of api_keys
    approval,     \* rows of approval_requests
    call,         \* running calls
    lineage,      \* history: the device whose session minted a key, transitively
    passed        \* history: requests a one-time key let through

vars == <<devices, banned, restricted, key, approval, call, lineage, passed>>

\* "session" keys are labelled: web for the owner's e-mail, cli for 'session'.
\* zero_trust and shareable keys live like standard ones.  "approval" is the
\* type of the tokens of create_cli_token and create_device_token.
KeyTypes == {"web", "cli", "approval", "standard", "one_time", "approval_required"}
Sessions == {"web", "cli"}
KeyRows  == [status : {"absent", "active", "pending_approval", "used", "revoked", "deleted"},
             type : KeyTypes, dev : Devices \cup {None}, late : BOOLEAN]
NoKey    == [status |-> "absent", type |-> "standard", dev |-> None, late |-> FALSE]

ApprovalRows == [status : {"absent", "pending", "approved", "rejected", "expired", "deleted"},
                 key : Keys \cup {None}, late : BOOLEAN]
NoApproval   == [status |-> "absent", key |-> None, late |-> FALSE]

\* Operations behind ensure_may_manage_credentials, and those with a milder rule.
Managed   == {"create", "cli_token", "cli_session", "approve", "reject", "sweep",
              "delete_device"}
OwnedOnly == {"revoke", "delete"}
AllOps    == Managed \cup OwnedOnly \cup {"logout", "login", "access", "request", "use"}
CallStates ==
    {"idle", "check", "cli_insert", "approve_write", "logout_own", "logout_all",
     "web_revoke", "web_insert", "access_read", "access_cancel", "request_read",
     "approval_insert", "use_read", "use_ban", "use_consume", "use_handle"}
      \cup Managed \cup OwnedOnly

\* by, dev: the caller's credential and its device; free: that device was
\* unrestricted at some moment of the call (history)
CallRecords == [pc : CallStates, op : AllOps, by : Keys \cup {None},
                dev : Devices \cup {None}, key : Keys \cup {None},
                item : Approvals \cup Devices \cup {None}, type : KeyTypes, free : BOOLEAN]
NoCall == [pc |-> "idle", op |-> "use", by |-> None, dev |-> None, key |-> None,
           item |-> None, type |-> "standard", free |-> TRUE]

Present(k) == key[k].status \notin {"absent", "deleted"}

Init ==
    /\ devices = Devices
    /\ banned = {}
    /\ restricted = {}
    /\ key = [k \in Keys |-> NoKey]
    /\ approval = [a \in Approvals |-> NoApproval]
    /\ call = [c \in Calls |-> NoCall]
    /\ lineage = [k \in Keys |-> None]
    /\ passed = [k \in Keys |-> 0]

Goto(c, label)    == call' = [call EXCEPT ![c].pc = label]
Return(c)         == call' = [call EXCEPT ![c] = NoCall]
UnchangedDevices  == UNCHANGED <<devices, banned, restricted>>
UnchangedUse      == UNCHANGED passed
UnchangedRows     == UNCHANGED <<key, approval, lineage>>

(***************************************************************************)
(* Starting a call                                                         *)
(***************************************************************************)
\* AdminAuth: an active, unexpired session or approval token whose device, if
\* any, is not banned.
Authenticates(by) ==
    /\ key[by].status = "active" /\ ~key[by].late
    /\ key[by].type \in Sessions \cup {"approval"}
    /\ key[by].dev \notin banned

\* A call's key id (revoke, delete) and item, an approval or a device: rows that
\* exist when it starts, for an unknown id ends a call without effect.
KeyArgs(op)  == IF op \in OwnedOnly THEN {k \in Keys : Present(k)} ELSE {None}
ItemArgs(op) == IF op \in {"approve", "reject"}
                THEN {a \in Approvals : approval[a].status \notin {"absent", "deleted"}}
                ELSE IF op = "delete_device" THEN devices ELSE {None}
TypeArgs(op) == IF op = "create" THEN NewTypes ELSE {"standard"}

StartAdmin(c, op, by) ==
    /\ call[c].pc = "idle"
    /\ op \in Ops \cap (Managed \cup OwnedOnly \cup {"logout"})
    /\ Authenticates(by)
    /\ \E k \in KeyArgs(op), i \in ItemArgs(op), t \in TypeArgs(op) :
          call' = [call EXCEPT ![c] =
                     [pc |-> "check", op |-> op, by |-> by, dev |-> key[by].dev, key |-> k,
                      item |-> i, type |-> t, free |-> key[by].dev \notin restricted]]
    /\ UnchangedDevices /\ UnchangedRows /\ UnchangedUse

\* Calls without AdminAuth: the OIDC callback and the holder of a key.
FirstStatement == [login |-> "web_revoke", access |-> "access_read",
                   request |-> "request_read", use |-> "use_read"]

StartOther(c, op, k) ==
    /\ call[c].pc = "idle"
    /\ op \in Ops \cap DOMAIN FirstStatement
    /\ IF op = "login" THEN k = None ELSE k \in Keys /\ Present(k)
    /\ call' = [call EXCEPT ![c] = [NoCall EXCEPT !.pc = FirstStatement[op], !.op = op,
                                                  !.key = k]]
    /\ UnchangedDevices /\ UnchangedRows /\ UnchangedUse

\* ensure_may_manage_credentials, ensure_may_manage_api_key, restricted_caller.
MayManageSlip(op, limited, k, dev) ==
    \/ ~limited
    \/ op \in OwnedOnly \cup {"sweep"}
MayManage(op, limited, k, dev) ==
    \/ ~limited
    \/ op \in OwnedOnly /\ Present(k) /\ key[k].dev = dev

CheckPolicy(c) ==
    LET q       == call[c]
        limited == q.dev \in restricted
    IN  /\ q.pc = "check"
        /\ IF q.op = "logout"
           THEN Goto(c, IF limited THEN "logout_own" ELSE "logout_all")
           ELSE IF q.op = "delete_device" /\ q.item = q.dev THEN Return(c)
           ELSE IF MayManage(q.op, limited, q.key, q.dev) THEN Goto(c, q.op)
           ELSE Return(c)
        /\ UnchangedDevices /\ UnchangedRows /\ UnchangedUse

(***************************************************************************)
(* Minting                                                                 *)
(***************************************************************************)
InitialStatus(t) == IF t = "approval_required" THEN "pending_approval" ELSE "active"

\* api_keys.device_id references devices(id): the INSERT fails for a device
\* that was deleted since the caller was authenticated.
ForeignKeyHolds(dev) == dev \in devices \cup {None}

\* device_id of a new key: that of the credential that mints it.
MintedBySlip(q) == IF q.op = "cli_token" THEN None ELSE q.dev
MintedBy(q)     == q.dev

Insert(k, t, dev, from) ==
    /\ key[k].status = "absent"
    /\ key' = [key EXCEPT ![k] = [status |-> InitialStatus(t), type |-> t, dev |-> dev,
                                  late |-> FALSE]]
    /\ lineage' = [lineage EXCEPT ![k] = from]

InsertKey(c, t) ==
    /\ IF ForeignKeyHolds(MintedBy(call[c]))
       THEN \E k \in Keys : Insert(k, t, MintedBy(call[c]),
                                   IF call[c].by = None THEN None ELSE lineage[call[c].by])
       ELSE UNCHANGED <<key, lineage>>
    /\ Return(c)
    /\ UNCHANGED approval /\ UnchangedDevices /\ UnchangedUse

\* create_key, and create_cli_token or create_device_token.
CreateKey(c) == call[c].pc = "create" /\ InsertKey(c, call[c].type)
CreateToken(c) == call[c].pc = "cli_token" /\ InsertKey(c, "approval")

Revoked(rows, S) == [k \in Keys |-> IF k \in S THEN [rows[k] EXCEPT !.status = "revoked"]
                                   ELSE rows[k]]
ActiveOf(t) == {k \in Keys : key[k].status = "active" /\ key[k].type = t}

\* admin create_session_key: revoke every active session labelled 'session',
\* then insert the new one.
RevokeCliSessions(c) ==
    /\ call[c].pc = "cli_session"
    /\ key' = Revoked(key, ActiveOf("cli"))
    /\ Goto(c, "cli_insert")
    /\ UNCHANGED <<approval, lineage>> /\ UnchangedDevices /\ UnchangedUse
InsertCliSession(c) == call[c].pc = "cli_insert" /\ InsertKey(c, "cli")

\* oidc create_session_key: the same for the session labelled with the e-mail.
RevokeWebSessions(c) ==
    /\ call[c].pc = "web_revoke"
    /\ key' = Revoked(key, ActiveOf("web"))
    /\ Goto(c, "web_insert")
    /\ UNCHANGED <<approval, lineage>> /\ UnchangedDevices /\ UnchangedUse
InsertWebSession(c) == call[c].pc = "web_insert" /\ InsertKey(c, "web")

\* session_request approve (module SessionRequest): a session of the device,
\* labelled 'session' like those of the CLI.
MintDeviceSession(k, d) ==
    /\ d \in devices \ banned
    /\ Insert(k, "cli", d, d)
    /\ UNCHANGED <<approval, call>> /\ UnchangedDevices /\ UnchangedUse

(***************************************************************************)
(* Revoking and deleting                                                   *)
(***************************************************************************)
\* approval_requests cascades on api_keys.
ApprovalsWithout(S) ==
    [a \in Approvals |-> IF approval[a].key \in S
                         THEN [approval[a] EXCEPT !.status = "deleted"] ELSE approval[a]]
DeleteKeys(S) ==
    /\ key' = [k \in Keys |-> IF k \in S THEN [key[k] EXCEPT !.status = "deleted"] ELSE key[k]]
    /\ approval' = ApprovalsWithout(S)
    /\ UNCHANGED lineage

\* revoke_key: one guarded UPDATE.
RevokeKey(c) ==
    LET k == call[c].key
    IN  /\ call[c].pc = "revoke"
        /\ key' = Revoked(key, {k} \cap {j \in Keys : key[j].status \in
                                                 {"active", "pending_approval"}})
        /\ Return(c)
        /\ UNCHANGED <<approval, lineage>> /\ UnchangedDevices /\ UnchangedUse

\* delete_key: only a revoked or used row goes.
Deletable(k) == key[k].status \in {"revoked", "used"}

DeleteKey(c) ==
    /\ call[c].pc = "delete"
    /\ DeleteKeys({k \in Keys : k = call[c].key /\ Deletable(k)})
    /\ Return(c)
    /\ UnchangedDevices /\ UnchangedUse

\* delete_revoked_sessions
SweepSessions(c) ==
    /\ call[c].pc = "sweep"
    /\ DeleteKeys({k \in Keys : key[k].type \in Sessions /\ key[k].status = "revoked"})
    /\ Return(c)
    /\ UnchangedDevices /\ UnchangedUse

\* logout: a restricted device revokes its own token, anyone else all sessions.
LogoutOwn(c) ==
    /\ call[c].pc = "logout_own"
    /\ key' = Revoked(key, {k \in Keys : k = call[c].by /\ key[k].status = "active"})
    /\ Return(c)
    /\ UNCHANGED <<approval, lineage>> /\ UnchangedDevices /\ UnchangedUse
LogoutAll(c) ==
    /\ call[c].pc = "logout_all"
    /\ key' = Revoked(key, ActiveOf("web") \cup ActiveOf("cli"))
    /\ Return(c)
    /\ UNCHANGED <<approval, lineage>> /\ UnchangedDevices /\ UnchangedUse

\* devices delete: one transaction removes the device, every key with its id,
\* their approvals, and its ban and policy rows.
DeleteDevice(c) ==
    LET d == call[c].item
    IN  /\ call[c].pc = "delete_device"
        /\ IF d \in devices
           THEN /\ DeleteKeys({k \in Keys : Present(k) /\ key[k].dev = d})
                /\ devices' = devices \ {d}
                /\ banned' = banned \ {d}
                /\ restricted' = restricted \ {d}
           ELSE UnchangedRows /\ UnchangedDevices
        /\ Return(c)
        /\ UnchangedUse

(***************************************************************************)
(* Approvals of approval_required keys                                     *)
(***************************************************************************)
Awaiting(k) == key[k].type = "approval_required" /\ key[k].status = "pending_approval"

\* request_access: SELECT the key, expire its pending approvals, INSERT one.
ReadForAccess(c) ==
    /\ call[c].pc = "access_read"
    /\ IF Awaiting(call[c].key) THEN Goto(c, "access_cancel") ELSE Return(c)
    /\ UnchangedDevices /\ UnchangedRows /\ UnchangedUse
CancelPending(c) ==
    /\ call[c].pc = "access_cancel"
    /\ approval' = [a \in Approvals |->
                      IF approval[a].key = call[c].key /\ approval[a].status = "pending"
                      THEN [approval[a] EXCEPT !.status = "expired"] ELSE approval[a]]
    /\ Goto(c, "approval_insert")
    /\ UNCHANGED <<key, lineage>> /\ UnchangedDevices /\ UnchangedUse

\* request_approval: SELECT the key, INSERT.
ReadForApproval(c) ==
    /\ call[c].pc = "request_read"
    /\ IF Awaiting(call[c].key) THEN Goto(c, "approval_insert") ELSE Return(c)
    /\ UnchangedDevices /\ UnchangedRows /\ UnchangedUse

\* approval_requests.api_key_id references api_keys: no row for a deleted key.
KeyStillThereSlip(k) == TRUE
KeyStillThere(k)     == Present(k)

InsertApproval(c) ==
    LET k == call[c].key
    IN  /\ call[c].pc = "approval_insert"
        /\ IF KeyStillThere(k)
           THEN \E a \in Approvals :
                  /\ approval[a].status = "absent"
                  /\ approval' = [approval EXCEPT ![a] = [status |-> "pending", key |-> k,
                                                          late |-> FALSE]]
           ELSE UNCHANGED approval
        /\ Return(c)
        /\ UNCHANGED <<key, lineage>> /\ UnchangedDevices /\ UnchangedUse

\* approve_request: SELECT a pending, unexpired request, verify the emojis
\* (right or wrong), then a transaction of two UPDATEs by id.
ReadForApprove(c) ==
    LET a == call[c].item
    IN  /\ call[c].pc = "approve"
        /\ \/ /\ approval[a].status = "pending" /\ ~approval[a].late
              /\ call' = [call EXCEPT ![c] = [@ EXCEPT !.pc = "approve_write",
                                                       !.key = approval[a].key]]
           \/ Return(c)
        /\ UnchangedDevices /\ UnchangedRows /\ UnchangedUse

ApproveWrite(c) ==
    LET a == call[c].item
        k == call[c].key
    IN  /\ call[c].pc = "approve_write"
        /\ approval' = IF approval[a].status = "deleted" THEN approval
                       ELSE [approval EXCEPT ![a] = [@ EXCEPT !.status = "approved"]]
        /\ key' = IF Present(k) THEN [key EXCEPT ![k] = [@ EXCEPT !.status = "active"]]
                  ELSE key
        /\ Return(c)
        /\ UNCHANGED lineage /\ UnchangedDevices /\ UnchangedUse

\* reject_request: one guarded UPDATE.
UndecidedSlip(a) == approval[a].status \notin {"absent", "deleted"}
Undecided(a)     == approval[a].status = "pending"

RejectRequest(c) ==
    LET a == call[c].item
    IN  /\ call[c].pc = "reject"
        /\ approval' = IF Undecided(a)
                       THEN [approval EXCEPT ![a] = [@ EXCEPT !.status = "rejected"]]
                       ELSE approval
        /\ Return(c)
        /\ UNCHANGED <<key, lineage>> /\ UnchangedDevices /\ UnchangedUse

(***************************************************************************)
(* Using a key: X-Api-Key of a KV request (auth_manual_key)                *)
(***************************************************************************)
ReadForUse(c) ==
    LET k == call[c].key
    IN  /\ call[c].pc = "use_read"
        /\ IF key[k].type \notin Sessions /\ key[k].status = "active" /\ ~key[k].late
           THEN Goto(c, IF key[k].dev = None THEN "use_consume" ELSE "use_ban")
           ELSE Return(c)
        /\ UnchangedDevices /\ UnchangedRows /\ UnchangedUse

CheckBan(c) ==
    /\ call[c].pc = "use_ban"
    /\ IF key[call[c].key].dev \in banned THEN Return(c) ELSE Goto(c, "use_consume")
    /\ UnchangedDevices /\ UnchangedRows /\ UnchangedUse

\* The UPDATE that marks a one-time key used, and its WHERE clause.
UnspentSlip(k) == Present(k)
Unspent(k)     == key[k].status = "active"

Consume(c) ==
    LET k == call[c].key
    IN  /\ call[c].pc = "use_consume"
        /\ IF key[k].type # "one_time"
           THEN Goto(c, "use_handle") /\ UNCHANGED <<key, passed>>
           ELSE IF Unspent(k)
           THEN /\ key' = [key EXCEPT ![k] = [@ EXCEPT !.status = "used"]]
                /\ passed' = [passed EXCEPT ![k] = @ + 1]
                /\ Goto(c, "use_handle")
           ELSE Return(c) /\ UNCHANGED <<key, passed>>
        /\ UNCHANGED <<approval, lineage>> /\ UnchangedDevices

\* The handler: it answers with the entry or refuses it (allow-list, device
\* policy, no such entry), and the key stays used either way.
Handle(c) ==
    /\ call[c].pc = "use_handle"
    /\ Return(c)
    /\ UnchangedDevices /\ UnchangedRows /\ UnchangedUse

(***************************************************************************)
(* Around the calls                                                        *)
(***************************************************************************)
\* A client hangs up, or the server stops, between two statements.
Abort(c) ==
    /\ call[c].pc # "idle"
    /\ Return(c)
    /\ UnchangedDevices /\ UnchangedRows /\ UnchangedUse

KeyLapses(k) ==
    /\ Present(k) /\ ~key[k].late
    /\ key' = [key EXCEPT ![k] = [@ EXCEPT !.late = TRUE]]
    /\ UNCHANGED <<approval, call, lineage>> /\ UnchangedDevices /\ UnchangedUse
ApprovalLapses(a) ==
    /\ approval[a].status = "pending" /\ ~approval[a].late
    /\ approval' = [approval EXCEPT ![a] = [@ EXCEPT !.late = TRUE]]
    /\ UNCHANGED <<key, call, lineage>> /\ UnchangedDevices /\ UnchangedUse

\* ttl_cleanup
ExpireApprovals ==
    /\ approval' = [a \in Approvals |->
                      IF approval[a].status = "pending" /\ approval[a].late
                      THEN [approval[a] EXCEPT !.status = "expired"] ELSE approval[a]]
    /\ UNCHANGED <<key, call, lineage>> /\ UnchangedDevices /\ UnchangedUse

\* A violation or an unban (module DevicePolicy), and PUT .../policy.
ChangeBan(d) ==
    /\ d \in devices
    /\ banned' = IF d \in banned THEN banned \ {d} ELSE banned \cup {d}
    /\ UNCHANGED <<devices, restricted, call>> /\ UnchangedRows /\ UnchangedUse
ChangePolicy(d) ==
    /\ d \in devices
    /\ restricted' = IF d \in restricted THEN restricted \ {d} ELSE restricted \cup {d}
    /\ call' = [c \in Calls |-> IF call[c].pc # "idle" /\ call[c].dev = d
                                THEN [call[c] EXCEPT !.free = TRUE] ELSE call[c]]
    /\ UNCHANGED <<devices, banned>> /\ UnchangedRows /\ UnchangedUse

(***************************************************************************)
(* The specification                                                       *)
(***************************************************************************)
Step(c) ==
    \/ \E op \in Ops, by \in Keys : StartAdmin(c, op, by)
    \/ \E op \in Ops, k \in Keys \cup {None} : StartOther(c, op, k)
    \/ CheckPolicy(c)
    \/ CreateKey(c) \/ CreateToken(c)
    \/ RevokeCliSessions(c) \/ InsertCliSession(c)
    \/ RevokeWebSessions(c) \/ InsertWebSession(c)
    \/ RevokeKey(c) \/ DeleteKey(c) \/ SweepSessions(c) \/ DeleteDevice(c)
    \/ LogoutOwn(c) \/ LogoutAll(c)
    \/ ReadForAccess(c) \/ CancelPending(c) \/ ReadForApproval(c) \/ InsertApproval(c)
    \/ ReadForApprove(c) \/ ApproveWrite(c) \/ RejectRequest(c)
    \/ ReadForUse(c) \/ CheckBan(c) \/ Consume(c) \/ Handle(c)
    \/ Abort(c)

Next ==
    \/ \E c \in Calls : Step(c)
    \/ \E k \in Keys, d \in Devices : MintDeviceSession(k, d)
    \/ \E k \in Keys : KeyLapses(k)
    \/ \E a \in Approvals : ApprovalLapses(a)
    \/ ExpireApprovals
    \/ \E d \in Devices : ChangeBan(d) \/ ChangePolicy(d)

Spec == Init /\ [][Next]_vars

(***************************************************************************)
(* Properties                                                              *)
(***************************************************************************)
\* Types, and the foreign keys: an approval row names a key row and a key a
\* device row that are still there.
TypeOK ==
    /\ devices \subseteq Devices
    /\ banned \subseteq devices /\ restricted \subseteq devices
    /\ key \in [Keys -> KeyRows]
    /\ approval \in [Approvals -> ApprovalRows]
    /\ call \in [Calls -> CallRecords]
    /\ lineage \in [Keys -> Devices \cup {None}]
    /\ passed \in [Keys -> Nat]
    /\ \A a \in Approvals :
         approval[a].status \notin {"absent", "deleted"} => Present(approval[a].key)

\* A credential that descends from a device's session carries the id of that
\* device, so its ban and policy follow it, and none outlives the device:
\* deleting a device leaves no credential that was minted through it, not even
\* one minted by a call already past its checks.
CredentialsFollowTheDevice ==
    \A k \in Keys : Present(k) =>
        /\ key[k].dev = lineage[k]
        /\ key[k].dev \in devices \cup {None}

\* The keys a running call changes in a step.
Changed == {k \in Keys : key'[k].status # key[k].status}
ActsRestricted(c) ==
    /\ call[c].dev # None /\ ~call[c].free
    /\ call'[c] # call[c]
OnlyItsOwn(c) == \A k \in Changed : Present(k) /\ key[k].dev = call[c].dev

\* No owner lockout: a call by a device restricted from the call's start to its
\* end mints nothing and changes no credential but the device's own, whatever
\* the other calls do meanwhile.
NoOwnerLockout ==
    [][\A c \in Calls : ActsRestricted(c) /\ call[c].dev \in devices => OnlyItsOwn(c)]_vars

\* A one-time key lets one request through the authentication, however many
\* present it at the same time, and is used from then on.
OneTimePassesOnce ==
    \A k \in Keys :
        /\ passed[k] <= 1
        /\ key[k].status = "used" => passed[k] = 1

\* The promise of a one-time key is that of a link (module LinkUse): it is open
\* while active, used by the one request it lets through, and closed for good when
\* it is revoked or deleted unused.  Its expiry is not part of the promise, for the
\* UPDATE that uses it does not look at expires_at.
OneTime(k) == key[k].type = "one_time" /\ key[k].status # "absent"
Stage(k)   == IF ~OneTime(k) THEN "absent"
              ELSE IF passed[k] > 0 THEN "used"
              ELSE IF key[k].status = "active" THEN "open" ELSE "closed"

Promise == INSTANCE LinkUse WITH Links <- Keys, stage <- [k \in Keys |-> Stage(k)],
                                 uses <- passed
KeepsPromise == Promise!Spec

\* A key that needs approval is active only if a request of its own was
\* approved and still says so, across rejections, cancellations and expiry.
ActiveKeyWasApproved ==
    \A k \in Keys :
        key[k].type = "approval_required" /\ key[k].status = "active"
          => \E a \in Approvals : approval[a].key = k /\ approval[a].status = "approved"

\* Violated: the same for keys that need approval.  An approval whose key is
\* revoked before its second UPDATE makes the key active again.
RevokedKeyIsRefused ==
    [][\A k \in Keys : key[k].status = "revoked" => key'[k].status # "active"]_vars

=============================================================================
