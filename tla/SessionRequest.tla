--------------------------- MODULE SessionRequest ---------------------------
(***************************************************************************)
(* A device obtains a session token (src/src/session_request/handlers.rs): *)
(* it asks for a challenge, returns the decrypted nonce, which opens a     *)
(* session request; the owner approves it, which mints an api_keys row and *)
(* stores the token wrapped to the device; the device polls and claims it. *)
(*                                                                         *)
(* create_request and approve run in a transaction and are one step each.  *)
(* poll_status and reject are several statements; calls interleave between *)
(* them and may stop after any of them.  The life times of challenges and  *)
(* requests are abstracted to a flag "late" that the clock raises.         *)
(* An operator XSlip is X with one plausible slip, used by no action.      *)
(***************************************************************************)
EXTENDS Naturals, FiniteSets

CONSTANTS
    Devices,      \* ids of the owner's devices, never reused
    Challenges,   \* ids of challenges, never reused
    Items,        \* ids of session requests, never reused
    Calls,        \* slots for concurrent calls of approve, reject and poll
    None          \* no device, no request

ASSUME NoneAssumption == None \notin Devices \cup Items

VARIABLES
    devices,      \* rows of devices
    banned,       \* devices with an active ban
    restricted,   \* devices with a policy other than allow_all
    challenge,    \* rows of session_request_challenges
    request,      \* rows of session_requests
    keys,         \* rows of api_keys that were minted for each request and are there
    minted,       \* history: rows of api_keys minted for each request
    received,     \* answers with the envelope that reached the poller
    lost,         \* claimed envelopes whose answer was lost
    call          \* the running calls

vars == <<devices, banned, restricted, challenge, request, keys, minted, received, lost, call>>

\* Who calls: a web session of the devices' owner or of another owner, or the
\* session of a device.
Callers == {"owner", "stranger"} \cup Devices

ChallengeRows == [status : {"absent", "pending", "consumed", "deleted"},
                  dev : Devices \cup {None}, late : BOOLEAN]
\* envelope: the wrap_* columns are filled; origin: the challenge that was used
RequestRows == [status : {"absent", "pending", "approved", "rejected", "expired",
                          "delivered", "deleted"},
                dev : Devices \cup {None}, late : BOOLEAN, envelope : BOOLEAN,
                origin : SUBSET Challenges]
CallStates == {"idle", "approve_policy", "approve_tx",
               "reject_policy", "reject_owner", "reject_update",
               "poll_read", "poll_ban", "poll_claim", "poll_answer"}
CallRecords == [pc : CallStates, item : Items \cup {None}, by : Callers,
                secret : BOOLEAN,       \* presents the right token or poll secret
                limited : BOOLEAN,      \* is_restricted(caller), as approve read it
                approved : BOOLEAN]     \* the status poll_status read

NoCall == [pc |-> "idle", item |-> None, by |-> "owner",
           secret |-> FALSE, limited |-> FALSE, approved |-> FALSE]

Init ==
    /\ devices = Devices
    /\ banned = {}
    /\ restricted = {}
    /\ challenge = [c \in Challenges |->
                      [status |-> "absent", dev |-> None, late |-> FALSE]]
    /\ request = [s \in Items |-> [status |-> "absent", dev |-> None, late |-> FALSE,
                                   envelope |-> FALSE, origin |-> {}]]
    /\ keys = [s \in Items |-> 0]
    /\ minted = [s \in Items |-> 0]
    /\ received = [s \in Items |-> 0]
    /\ lost = [s \in Items |-> 0]
    /\ call = [k \in Calls |-> NoCall]

(***************************************************************************)
(* The requesting device                                                   *)
(***************************************************************************)
\* create_challenge: anyone may ask, banned or not.
CreateChallenge(c, d) ==
    /\ challenge[c].status = "absent"
    /\ d \in devices
    /\ challenge' = [challenge EXCEPT ![c] =
                       [status |-> "pending", dev |-> d, late |-> FALSE]]
    /\ UNCHANGED <<devices, banned, restricted, request, minted, keys, received, lost, call>>

\* create_request with the right nonce: the transaction consumes the challenge
\* and opens the request of the device the challenge was issued for.
SpentSlip(row) == row
Spent(row)     == [row EXCEPT !.status = "consumed"]

CreateRequest(c, s) ==
    /\ request[s].status = "absent"
    /\ challenge[c].status = "pending" /\ ~challenge[c].late
    /\ challenge[c].dev \notin banned
    /\ challenge' = [challenge EXCEPT ![c] = Spent(@)]
    /\ request' = [request EXCEPT ![s] =
                     [status |-> "pending", dev |-> challenge[c].dev, late |-> FALSE,
                      envelope |-> FALSE, origin |-> {c}]]
    /\ UNCHANGED <<devices, banned, restricted, minted, keys, received, lost, call>>

(***************************************************************************)
(* Calls on a session request                                              *)
(***************************************************************************)
Goto(k, label) == call' = [call EXCEPT ![k].pc = label]
Return(k)      == call' = [call EXCEPT ![k] = NoCall]

\* Answering a call, or leaving it half done, changes nothing else.
UnchangedRows == UNCHANGED <<devices, banned, restricted, challenge, request, minted,
                             keys, received, lost>>

\* AdminAuth turns banned devices away before approve or reject run.
MayCall(by) == by \in Devices => by \in devices \ banned

Start(k, s, by, secret, label) ==
    /\ call[k].pc = "idle"
    /\ call' = [call EXCEPT ![k] = [NoCall EXCEPT !.pc = label, !.item = s, !.by = by,
                                                  !.secret = secret]]
    /\ UnchangedRows

StartApprove(k, s, by, token) == MayCall(by) /\ Start(k, s, by, token, "approve_policy")
StartReject(k, s, by)         == MayCall(by) /\ Start(k, s, by, TRUE, "reject_policy")
StartPoll(k, s, secret)       == Start(k, s, "owner", secret, "poll_read")

\* approve: is_restricted(caller) is read before the transaction begins.
ApproveReadPolicy(k) ==
    /\ call[k].pc = "approve_policy"
    /\ call' = [call EXCEPT ![k].pc = "approve_tx", ![k].limited = call[k].by \in restricted]
    /\ UnchangedRows

\* The conditions of the transaction, in the order of the code.
Approvable(s, by, token, limited) ==
    /\ request[s].status = "pending" /\ ~request[s].late
    /\ token
    /\ limited => by = request[s].dev
    /\ request[s].dev \notin banned
    /\ request[s].dev \in devices
    /\ by # "stranger"

\* The transaction: INSERT the api_keys row and UPDATE the request, or neither.
ApproveTx(k) ==
    LET s == call[k].item IN
    /\ call[k].pc = "approve_tx"
    /\ IF Approvable(s, call[k].by, call[k].secret, call[k].limited)
       THEN /\ request' = [request EXCEPT ![s].status = "approved", ![s].envelope = TRUE]
            /\ keys' = [keys EXCEPT ![s] = @ + 1]
            /\ minted' = [minted EXCEPT ![s] = @ + 1]
       ELSE UNCHANGED <<request, keys, minted>>
    /\ Return(k)
    /\ UNCHANGED <<devices, banned, restricted, challenge, received, lost>>

\* reject, three statements: ensure_may_manage_credentials, the owner of the
\* pending request, the guarded UPDATE.
RejectCheckPolicy(k) ==
    /\ call[k].pc = "reject_policy"
    /\ IF call[k].by \in restricted THEN Return(k) ELSE Goto(k, "reject_owner")
    /\ UnchangedRows

RejectCheckOwner(k) ==
    /\ call[k].pc = "reject_owner"
    /\ IF request[call[k].item].status = "pending" /\ call[k].by # "stranger"
       THEN Goto(k, "reject_update")
       ELSE Return(k)
    /\ UnchangedRows

StillPendingSlip(s) == request[s].status \notin {"absent", "deleted"}
StillPending(s)     == request[s].status = "pending"

RejectUpdate(k) ==
    LET s == call[k].item IN
    /\ call[k].pc = "reject_update"
    /\ request' = IF StillPending(s) THEN [request EXCEPT ![s].status = "rejected"]
                  ELSE request
    /\ Return(k)
    /\ UNCHANGED <<devices, banned, restricted, challenge, minted, keys, received, lost>>

\* poll_status, first statement: read the row and check the poll secret.
PollRead(k) ==
    LET row == request[call[k].item] IN
    /\ call[k].pc = "poll_read"
    /\ IF row.status \in {"absent", "deleted"} \/ ~call[k].secret
       THEN Return(k)
       ELSE call' = [call EXCEPT ![k].pc = "poll_ban",
                                 ![k].approved = row.status = "approved"]
    /\ UnchangedRows

\* Second statement: the ban of the device named by the row that was read (a
\* deleted device has no ban); a status other than approved is the answer.
PollCheckBan(k) ==
    /\ call[k].pc = "poll_ban"
    /\ IF request[call[k].item].dev \in banned \/ ~call[k].approved
       THEN Return(k)
       ELSE Goto(k, "poll_claim")
    /\ UnchangedRows

\* Third statement: approved becomes delivered and the envelope is cleared; the
\* poller whose UPDATE matched answers with the envelope it read.
ClaimableSlip(s) == request[s].status \in {"approved", "delivered"}
Claimable(s)     == request[s].status = "approved"

PollClaim(k) ==
    LET s == call[k].item IN
    /\ call[k].pc = "poll_claim"
    /\ IF Claimable(s)
       THEN /\ request' = [request EXCEPT ![s].status = "delivered", ![s].envelope = FALSE]
            /\ Goto(k, "poll_answer")
       ELSE Return(k) /\ UNCHANGED request
    /\ UNCHANGED <<devices, banned, restricted, challenge, minted, keys, received, lost>>

PollAnswer(k) ==
    /\ call[k].pc = "poll_answer"
    /\ received' = [received EXCEPT ![call[k].item] = @ + 1]
    /\ Return(k)
    /\ UNCHANGED <<devices, banned, restricted, challenge, request, minted, keys, lost>>

\* A statement fails or the client goes away.  After the claim this loses the
\* only copy of the token.
Abort(k) ==
    /\ call[k].pc # "idle"
    /\ lost' = IF call[k].pc = "poll_answer"
               THEN [lost EXCEPT ![call[k].item] = @ + 1] ELSE lost
    /\ Return(k)
    /\ UNCHANGED <<devices, banned, restricted, challenge, request, minted, keys, received>>

(***************************************************************************)
(* Time, the cleanup task and the device's owner                           *)
(***************************************************************************)
ChallengeLapses(c) ==
    /\ challenge[c].status \in {"pending", "consumed"} /\ ~challenge[c].late
    /\ challenge' = [challenge EXCEPT ![c].late = TRUE]
    /\ UNCHANGED <<devices, banned, restricted, request, minted, keys, received, lost, call>>

RequestLapses(s) ==
    /\ request[s].status = "pending" /\ ~request[s].late   \* read of pending rows only
    /\ request' = [request EXCEPT ![s].late = TRUE]
    /\ UNCHANGED <<devices, banned, restricted, challenge, minted, keys, received, lost, call>>

\* Two statements of the cleanup pass.
OverdueSlip(row) == row.status = "pending" /\ ~row.late
Overdue(row)     == row.status = "pending" /\ row.late

ExpireRequests ==
    /\ request' = [s \in Items |->
                     IF Overdue(request[s])
                     THEN [request[s] EXCEPT !.status = "expired"] ELSE request[s]]
    /\ UNCHANGED <<devices, banned, restricted, challenge, minted, keys, received, lost, call>>

Old(row) == row.status \in {"pending", "consumed"} /\ row.late

DropChallenges ==
    /\ challenge' = [c \in Challenges |->
                       IF Old(challenge[c])
                       THEN [challenge[c] EXCEPT !.status = "deleted"] ELSE challenge[c]]
    /\ UNCHANGED <<devices, banned, restricted, request, minted, keys, received, lost, call>>

\* devices::handlers::delete: the device's challenges, requests and api_keys go
\* in one transaction.
IssuedForSlip(row, d) == row.dev = d /\ row.status = "pending"
IssuedFor(row, d)     == row.dev = d

DeleteDevice(d) ==
    /\ d \in devices
    /\ devices' = devices \ {d}
    /\ banned' = banned \ {d}
    /\ restricted' = restricted \ {d}
    /\ challenge' = [c \in Challenges |->
                       IF IssuedFor(challenge[c], d)
                       THEN [challenge[c] EXCEPT !.status = "deleted"] ELSE challenge[c]]
    /\ request' = [s \in Items |->
                     IF request[s].dev = d
                     THEN [request[s] EXCEPT !.status = "deleted", !.envelope = FALSE]
                     ELSE request[s]]
    /\ keys' = [s \in Items |-> IF request[s].dev = d THEN 0 ELSE keys[s]]
    /\ UNCHANGED <<minted, received, lost, call>>

\* delete_key and delete_revoked_sessions of rows the owner revoked before (module
\* ApiKeys): session_key_id becomes NULL, the requests stay as they are.
DeleteTokens(some) ==
    /\ \A s \in some : keys[s] > 0
    /\ keys' = [s \in Items |-> IF s \in some THEN 0 ELSE keys[s]]
    /\ UNCHANGED <<devices, banned, restricted, challenge, request, minted, received, lost, call>>

\* Bans and policies change under the running calls (module DevicePolicy).
ChangeBan(d) ==
    /\ d \in devices
    /\ banned' = IF d \in banned THEN banned \ {d} ELSE banned \cup {d}
    /\ UNCHANGED <<devices, restricted, challenge, request, minted, keys, received, lost, call>>

ChangePolicy(d) ==
    /\ d \in devices
    /\ restricted' = IF d \in restricted THEN restricted \ {d} ELSE restricted \cup {d}
    /\ UNCHANGED <<devices, banned, challenge, request, minted, keys, received, lost, call>>

Step(k) ==
    \/ ApproveReadPolicy(k) \/ ApproveTx(k)
    \/ RejectCheckPolicy(k) \/ RejectCheckOwner(k) \/ RejectUpdate(k)
    \/ PollRead(k) \/ PollCheckBan(k) \/ PollClaim(k) \/ PollAnswer(k)

Next ==
    \/ \E c \in Challenges, d \in Devices : CreateChallenge(c, d)
    \/ \E c \in Challenges, s \in Items : CreateRequest(c, s)
    \/ \E k \in Calls, s \in Items, by \in Callers, token \in BOOLEAN :
          StartApprove(k, s, by, token)
    \/ \E k \in Calls, s \in Items, by \in Callers : StartReject(k, s, by)
    \/ \E k \in Calls, s \in Items, secret \in BOOLEAN : StartPoll(k, s, secret)
    \/ \E k \in Calls : Step(k) \/ Abort(k)
    \/ \E c \in Challenges : ChallengeLapses(c)
    \/ \E s \in Items : RequestLapses(s)
    \/ ExpireRequests
    \/ DropChallenges
    \/ \E some \in SUBSET Items : DeleteTokens(some)
    \/ \E d \in Devices : DeleteDevice(d) \/ ChangeBan(d) \/ ChangePolicy(d)

Spec == Init /\ [][Next]_vars

\* Time passes, the cleanup task loops and running handlers are polled.
FairSpec ==
    /\ Spec
    /\ \A c \in Challenges : WF_vars(ChallengeLapses(c))
    /\ \A s \in Items : WF_vars(RequestLapses(s))
    /\ WF_vars(ExpireRequests)
    /\ WF_vars(DropChallenges)
    /\ \A k \in Calls : WF_vars(Step(k))

(***************************************************************************)
(* Properties                                                              *)
(***************************************************************************)
\* Types and foreign keys: open rows belong to a device that exists.
TypeOK ==
    /\ devices \subseteq Devices /\ banned \subseteq devices /\ restricted \subseteq devices
    /\ challenge \in [Challenges -> ChallengeRows]
    /\ request \in [Items -> RequestRows]
    /\ keys \in [Items -> Nat] /\ minted \in [Items -> Nat]
    /\ received \in [Items -> Nat] /\ lost \in [Items -> Nat]
    /\ call \in [Calls -> CallRecords]
    /\ \A c \in Challenges :
          challenge[c].status \in {"pending", "consumed"} => challenge[c].dev \in devices
    /\ \A s \in Items :
          request[s].status \notin {"absent", "deleted"} => request[s].dev \in devices

\* "a decrypted nonce can only ever create one pending request"
\* (session_request/handlers.rs:115): no two requests come from one challenge.
ChallengeOpensOneRequest ==
    \A s, t \in Items : s # t => request[s].origin \cap request[t].origin = {}

Granted(s) == request[s].status \in {"approved", "delivered"}

\* A decision and its token agree in every state, also between the statements of
\* the calls: one token is minted for a request, by the approval that grants it, and
\* none for one that is refused; its row is there only while the request stands
\* granted, and may go before it by the owner's deletion.  The envelope is stored
\* from the approval until it is claimed.
TokenMatchesDecision ==
    \A s \in Items :
        /\ minted[s] <= 1
        /\ request[s].status # "deleted" => (minted[s] = 1 <=> Granted(s))
        /\ keys[s] <= minted[s]
        /\ keys[s] > 0 => Granted(s)
        /\ request[s].envelope <=> request[s].status = "approved"

\* The answers that carry the token of a request, under way, received or lost.
Handing(s) == {k \in Calls : call[k].pc = "poll_answer" /\ call[k].item = s}
Copies(s)  == received[s] + lost[s] + Cardinality(Handing(s))

\* Decisions are final, and whatever the pollers do one answer carries the token and
\* no more, as TokenHandover promises; an answer that got lost is not sent again.
Stage(status) == CASE status = "pending"                 -> "open"
                   [] status = "approved"                -> "granted"
                   [] status = "delivered"               -> "handed"
                   [] status \in {"rejected", "expired"} -> "refused"
                   [] status = "deleted"                 -> "gone"
                   [] OTHER                              -> "absent"
Handover == INSTANCE TokenHandover WITH
              stage  <- [s \in Items |-> Stage(request[s].status)],
              tokens <- keys,
              copies <- [s \in Items |-> Copies(s)]
ImplementsHandover == Handover!Spec

\* No row lingers: an undecided request is decided, expires or is deleted, and a
\* challenge is deleted, used or not.
RowsSettle ==
    /\ \A s \in Items : request[s].status = "pending" ~> request[s].status # "pending"
    /\ \A c \in Challenges :
         challenge[c].status \in {"pending", "consumed"} ~> challenge[c].status = "deleted"
=============================================================================
