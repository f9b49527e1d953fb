--------------------------- MODULE DevicePolicy ---------------------------
(***************************************************************************)
(* Per-device key policies and escalating bans                             *)
(* (src/src/device_policy/enforce.rs and handlers.rs).                     *)
(*                                                                         *)
(* A request of a device runs a chain of separate SQL statements, each of  *)
(* them atomic, none of them in a transaction: the ban check of the        *)
(* authentication layer, the ban check of authorize_key, the two SELECTs   *)
(* of load_policy, then, if the policy refuses the key, the INSERT, SELECT *)
(* and guarded UPDATE of record_violation.  Requests, the owner (policy    *)
(* updates, unban, device deletion), the TTL cleanup and the clock         *)
(* interleave between any two of them.                                     *)
(*                                                                         *)
(* An operator XSlip is operator X with one plausible slip; no action uses *)
(* it.  Replacing X by it must break a property: README, "Mutants".        *)
(***************************************************************************)
EXTENDS Integers, FiniteSets

CONSTANTS
    Devices,      \* device ids; an id is a fresh UUID and is never reused
    Requests,     \* slots for concurrent requests
    Names,        \* KV entry names
    BaseSecs,     \* DEVICE_BAN_BASE_SECS, in clock units
    MaxBanSecs,   \* MAX_BAN_SECS, in clock units
    MaxShift,     \* 40 in the code: the largest doubling exponent
    MaxTime,      \* bound: the clock stops here
    MaxArrivals   \* bound: number of requests that arrive in one behaviour

\* clamp_device_ban_base_secs keeps the base positive: a zero base would make
\* every ban expire at once.
ASSUME ConstantsAssumption ==
    /\ Devices # {} /\ Names # {}
    /\ BaseSecs \in Nat \ {0}
    /\ MaxBanSecs \in Nat \ {0}
    /\ MaxShift \in Nat
    /\ MaxTime \in Nat
    /\ MaxArrivals \in Nat

VARIABLES
    now,       \* SQLite's datetime('now')
    devices,   \* rows of table devices
    policy,    \* rows of device_policies; mode "none" stands for no row
    keys,      \* rows of device_policy_keys
    ban,       \* rows of device_bans
    req,       \* the in-flight requests
    hist,      \* history of each request, read by the properties only
    arrivals   \* bound counter

vars == <<now, devices, policy, keys, ban, req, hist, arrivals>>

(***************************************************************************)
(* Policies                                                                *)
(***************************************************************************)
ListModes == {"allow_list", "deny_list"}
Modes     == ListModes \cup {"none", "allow_all", "regex"}

\* A regular expression is abstracted to the set of names it matches as a whole.
Policies == [mode : Modes, pattern : SUBSET Names]
NoPolicy == [mode |-> "none", pattern |-> {}]

\* policy_allows, and the default of key_permitted for a device without a row
Allows(mode, listed, pattern, name) ==
    \/ mode \in {"none", "allow_all"}
    \/ mode = "allow_list" /\ name \in listed
    \/ mode = "deny_list" /\ name \notin listed
    \/ mode = "regex" /\ name \in pattern

\* What validate() lets an owner store: only the list modes keep keys, and they
\* need one.
ValidUpdate(mode, listed, pattern) ==
    /\ mode # "none"
    /\ IF mode \in ListModes THEN listed # {} ELSE listed = {}
    /\ mode # "regex" => pattern = {}

(***************************************************************************)
(* Bans                                                                    *)
(***************************************************************************)
BanRows == [present : BOOLEAN, banned : BOOLEAN, until : Int, count : Nat]
NoBan   == [present |-> FALSE, banned |-> FALSE, until |-> 0, count |-> 0]
NewBan  == [present |-> TRUE, banned |-> FALSE, until |-> 0, count |-> 0]

\* The condition every reader of device_bans uses for "currently banned".
Active(row, time) == row.banned /\ row.until > time

\* ban_duration_secs: the nth ban lasts base * 2^(n-1), capped.
LowerOf(a, b) == IF a < b THEN a ELSE b
Doublings(nth)   == LowerOf(IF nth > 1 THEN nth - 1 ELSE 0, MaxShift)
BanDuration(nth) == LowerOf(BaseSecs * 2 ^ Doublings(nth), MaxBanSecs)

(***************************************************************************)
(* Requests                                                                *)
(***************************************************************************)
Results    == {"granted", "violated", "banned", "failed"}
Violating  == {"insert", "select", "apply"}
Running    == {"authn", "authz", "mode", "keys"} \cup Violating
Cleared    == {"mode", "keys", "granted"} \cup Violating  \* past both ban checks
Counters == {"idle"} \cup Running \cup Results

Request == [pc : Counters, dev : Devices, name : Names,
            mode : Modes, pattern : SUBSET Names,   \* the row of load_policy
            seen : Nat]                             \* ban_count read by SELECT

\* base:     the device's ban_count when the request passed its last ban check
\* verdicts: the verdicts of the policies in force while the policy was loaded
\* torn:     the policy changed between the two reads of load_policy
\* unbanned: the device was not banned at some moment since the arrival
History == [base : Nat, verdicts : SUBSET BOOLEAN, torn : BOOLEAN,
            unbanned : BOOLEAN]

Idle       == [pc |-> "idle", dev |-> CHOOSE d \in Devices : TRUE,
               name |-> CHOOSE n \in Names : TRUE,
               mode |-> "none", pattern |-> {}, seen |-> 0]
NoHistory  == [base |-> 0, verdicts |-> {}, torn |-> FALSE, unbanned |-> FALSE]

\* The moments a request notes: its device is not banned, its policy changes.
Free(h)          == [h EXCEPT !.unbanned = TRUE]
Tear(h, verdict) == [h EXCEPT !.torn = TRUE, !.verdicts = @ \cup {verdict}]

Init ==
    /\ now = 0
    /\ devices = Devices
    /\ policy = [d \in Devices |-> NoPolicy]
    /\ keys = [d \in Devices |-> {}]
    /\ ban = [d \in Devices |-> NoBan]
    /\ req = [r \in Requests |-> Idle]
    /\ hist = [r \in Requests |-> NoHistory]
    /\ arrivals = 0

Goto(r, label) == req' = [req EXCEPT ![r].pc = label]

\* A device sends a request for one entry; a finished slot is used again.
Arrive(r, d, n) ==
    /\ req[r].pc \in {"idle"} \cup Results
    /\ arrivals < MaxArrivals
    /\ d \in devices                       \* else its credentials are gone
    /\ arrivals' = arrivals + 1
    /\ req' = [req EXCEPT ![r] = [Idle EXCEPT !.pc = "authn", !.dev = d, !.name = n]]
    /\ hist' = [hist EXCEPT ![r] =
                 IF Active(ban[d], now) THEN NoHistory ELSE Free(NoHistory)]
    /\ UNCHANGED <<now, devices, policy, keys, ban>>

\* ensure_not_banned.  A device that is gone has no row, hence no ban.
NotBannedSlip(d) == ~Active(ban[d], now + 1)
NotBanned(d)     == ~Active(ban[d], now)

\* The ban check of the extractors AdminAuth and ApiKeyAuth.
CheckBanAuthn(r) ==
    /\ req[r].pc = "authn"
    /\ Goto(r, IF NotBanned(req[r].dev) THEN "authz" ELSE "banned")
    /\ UNCHANGED <<now, devices, policy, keys, ban, hist, arrivals>>

\* authorize_key checks again before it looks at the policy.
CheckBanAuthz(r) ==
    /\ req[r].pc = "authz"
    /\ Goto(r, IF NotBanned(req[r].dev) THEN "mode" ELSE "banned")
    /\ hist' = [hist EXCEPT ![r].base = ban[req[r].dev].count]
    /\ UNCHANGED <<now, devices, policy, keys, ban, arrivals>>

NeedsKeysSlip(mode) == mode = "allow_list"
NeedsKeys(mode)     == mode \in ListModes

Decided(verdict) == IF verdict THEN "granted" ELSE "insert"

\* load_policy, first statement: SELECT mode, pattern.  Without a list mode it
\* is the only one and the decision follows at once.
LoadMode(r) ==
    LET d == req[r].dev
        p == policy[d]
    IN  /\ req[r].pc = "mode"
        /\ req' = [req EXCEPT ![r] =
                     [@ EXCEPT !.mode = p.mode, !.pattern = p.pattern,
                        !.pc = IF NeedsKeys(p.mode) THEN "keys"
                               ELSE Decided(Allows(p.mode, {}, p.pattern, req[r].name))]]
        /\ hist' = [hist EXCEPT ![r].verdicts =
                     {Allows(p.mode, keys[d], p.pattern, req[r].name)}]
        /\ UNCHANGED <<now, devices, policy, keys, ban, arrivals>>

\* load_policy, second statement: SELECT kv_key, then policy_allows.
LoadKeys(r) ==
    LET q == req[r] IN
    /\ q.pc = "keys"
    /\ Goto(r, Decided(Allows(q.mode, keys[q.dev], q.pattern, q.name)))
    /\ UNCHANGED <<now, devices, policy, keys, ban, hist, arrivals>>

\* record_violation, first statement: INSERT ... ON CONFLICT DO NOTHING.  The
\* foreign key makes it fail once the device is deleted.
ForeignKeySlip(d)  == TRUE
ForeignKeyHolds(d) == d \in devices

EnsureBanRow(r) ==
    LET d == req[r].dev IN
    /\ req[r].pc = "insert"
    /\ \/ /\ ForeignKeyHolds(d)
          /\ ban' = [ban EXCEPT ![d] = IF @.present THEN @ ELSE NewBan]
          /\ Goto(r, "select")
       \/ /\ ~ForeignKeyHolds(d)
          /\ Goto(r, "failed")
          /\ UNCHANGED ban
    /\ UNCHANGED <<now, devices, policy, keys, hist, arrivals>>

\* Second statement: SELECT ban_count, active.  fetch_one fails without a row;
\* an active ban means a concurrent violation was faster.
AlreadyBannedSlip(row) == row.banned
AlreadyBanned(row)     == Active(row, now)

ReadBanRowSlip(r) ==
    /\ req[r].pc = "select"
    /\ ban[req[r].dev].present
    /\ req' = [req EXCEPT ![r].seen = ban[req[r].dev].count,
                 ![r].pc = IF Active(ban[req[r].dev], now) THEN "violated" ELSE "apply"]
    /\ UNCHANGED <<now, devices, policy, keys, ban, hist, arrivals>>

ReadBanRow(r) ==
    LET row == ban[req[r].dev] IN
    /\ req[r].pc = "select"
    /\ req' = [req EXCEPT ![r] =
                 [@ EXCEPT !.seen = row.count,
                    !.pc = IF ~row.present THEN "failed"
                           ELSE IF AlreadyBanned(row) THEN "violated" ELSE "apply"]]
    /\ UNCHANGED <<now, devices, policy, keys, ban, hist, arrivals>>

\* Third statement: the UPDATE, guarded on the ban_count that was read.
OwnsTheBan(r) ==
    /\ ban[req[r].dev].present
    /\ ban[req[r].dev].count = req[r].seen

ApplyBan(r) ==
    LET d   == req[r].dev
        nth == req[r].seen + 1
    IN  /\ req[r].pc = "apply"
        /\ Goto(r, "violated")
        /\ ban' = IF OwnsTheBan(r)
                  THEN [ban EXCEPT ![d] =
                          [@ EXCEPT !.banned = TRUE, !.count = nth,
                             !.until = now + BanDuration(nth)]]
                  ELSE ban
        /\ UNCHANGED <<now, devices, policy, keys, hist, arrivals>>

\* A statement fails (busy database) or the client goes away and the handler's
\* future is dropped at an await: no later statement of the request runs.
Abort(r) ==
    /\ req[r].pc \in Running
    /\ Goto(r, "failed")
    /\ UNCHANGED <<now, devices, policy, keys, ban, hist, arrivals>>

(***************************************************************************)
(* The owner, the cleanup task and the clock                               *)
(***************************************************************************)
\* The requests whose load_policy is half done see a change of d's policy.
NoteChange(d, mode, listed, pattern) ==
    hist' = [r \in Requests |->
               IF req[r].pc = "keys" /\ req[r].dev = d
               THEN Tear(hist[r], Allows(mode, listed, pattern, req[r].name))
               ELSE hist[r]]

\* update: one transaction replaces the policy row and all key rows.
UpdatePolicy(d, mode, listed, pattern) ==
    /\ d \in devices
    /\ ValidUpdate(mode, listed, pattern)
    /\ policy' = [policy EXCEPT ![d] = [mode |-> mode, pattern |-> pattern]]
    /\ keys' = [keys EXCEPT ![d] = listed]
    /\ NoteChange(d, mode, listed, pattern)
    /\ UNCHANGED <<now, devices, ban, req, arrivals>>

\* The moments at which requests may note that their device is not banned.
NoteUnbanned(bans, time) ==
    hist' = [r \in Requests |->
               IF Active(bans[req[r].dev], time) THEN hist[r] ELSE Free(hist[r])]

LiftedSlip(row) == NoBan
Lifted(row)     == [present |-> row.present, banned |-> FALSE, until |-> 0, count |-> row.count]

\* unban lifts an active ban and keeps ban_count.
Unban(d) ==
    /\ d \in devices
    /\ Active(ban[d], now)
    /\ ban' = [ban EXCEPT ![d] = Lifted(@)]
    /\ NoteUnbanned(ban', now)
    /\ UNCHANGED <<now, devices, policy, keys, req, arrivals>>

\* devices::handlers::delete removes every row of the device in one transaction.
DeleteDevice(d) ==
    /\ d \in devices
    /\ devices' = devices \ {d}
    /\ policy' = [policy EXCEPT ![d] = NoPolicy]
    /\ keys' = [keys EXCEPT ![d] = {}]
    /\ ban' = [ban EXCEPT ![d] = NoBan]
    /\ hist' = [r \in Requests |->
                 IF req[r].dev # d THEN hist[r]
                 ELSE IF req[r].pc = "keys" THEN Free(Tear(hist[r], TRUE))
                 ELSE Free(hist[r])]
    /\ UNCHANGED <<now, req, arrivals>>

\* The cleanup statement on device_bans: every ban that has run out, at once.
Expired(row) == row.banned /\ row.until <= now

Cleanup ==
    /\ ban' = [d \in Devices |-> IF Expired(ban[d]) THEN Lifted(ban[d]) ELSE ban[d]]
    /\ UNCHANGED <<now, devices, policy, keys, req, hist, arrivals>>

Tick ==
    /\ now < MaxTime
    /\ now' = now + 1
    /\ NoteUnbanned(ban, now')
    /\ UNCHANGED <<devices, policy, keys, ban, req, arrivals>>

Step(r) ==
    \/ CheckBanAuthn(r) \/ CheckBanAuthz(r)
    \/ LoadMode(r) \/ LoadKeys(r)
    \/ EnsureBanRow(r) \/ ReadBanRow(r) \/ ApplyBan(r)

Next ==
    \/ \E r \in Requests : Step(r) \/ Abort(r)
    \/ \E r \in Requests, d \in Devices, n \in Names : Arrive(r, d, n)
    \/ \E d \in Devices : Unban(d) \/ DeleteDevice(d)
    \/ \E d \in Devices, mode \in Modes, listed, pattern \in SUBSET Names :
          UpdatePolicy(d, mode, listed, pattern)
    \/ Cleanup
    \/ Tick

Spec == Init /\ [][Next]_vars

\* The runtime polls every live handler, the cleanup task loops on its interval
\* for ever, and time passes.
Fairness ==
    /\ \A r \in Requests : WF_vars(Step(r))
    /\ WF_vars(Cleanup)
    /\ WF_vars(Tick)
FairSpec == Spec /\ Fairness

(***************************************************************************)
(* Properties                                                              *)
(***************************************************************************)
\* Every value has its type, and the foreign keys hold: a device that was
\* deleted keeps neither a policy nor a ban row, whatever its requests do.
TypeOK ==
    /\ now \in Int
    /\ devices \subseteq Devices
    /\ policy \in [Devices -> Policies]
    /\ keys \in [Devices -> SUBSET Names]
    /\ ban \in [Devices -> BanRows]
    /\ req \in [Requests -> Request]
    /\ hist \in [Requests -> History]
    /\ arrivals \in Nat
    /\ \A d \in Devices \ devices :
          policy[d] = NoPolicy /\ keys[d] = {} /\ ban[d] = NoBan

\* "Concurrent violations escalate once": while a ban is in force nothing
\* extends, restarts or recounts it; it only ends.  record_violation relies for
\* this on its early return and on the guard of its UPDATE.
BanNeverReapplied ==
    [][\A d \in Devices :
          Active(ban[d], now) /\ Active(ban'[d], now') => ban'[d] = ban[d]]_vars

\* A request answered as a violation was punished: since its ban check the
\* device's ban_count grew, by its own ban or by the concurrent one it met.
\* No interleaving lets every racing violation leave the ban to another.
ViolationAnswered ==
    \A r \in Requests :
        req[r].pc = "violated" /\ req[r].dev \in devices
            => ban[req[r].dev].count > hist[r].base

\* Unless the policy is replaced between the two reads of load_policy, the
\* decision is the verdict of the policy that was in force.
UntornDecision ==
    \A r \in Requests :
        /\ ~hist[r].torn
        => /\ req[r].pc = "granted" => TRUE \in hist[r].verdicts
           /\ req[r].pc \in Violating \cup {"violated"} => FALSE \in hist[r].verdicts

\* A request sent while its device is banned is served only if the ban ends
\* first: expiry, unban and the two ban checks agree on what banned means.
BannedDeviceWaits ==
    \A r \in Requests : req[r].pc = "granted" => hist[r].unbanned

\* What the ledger of bans promises, without requests (BanLedger).
Ledger == INSTANCE BanLedger WITH
            members <- devices,
            book    <- [d \in Devices |-> [banned |-> ban[d].banned,
                                           until |-> ban[d].until,
                                           count |-> ban[d].count]],
            Term    <- BanDuration
ImplementsLedger == Ledger!Spec

\* A request that is being handled gets an answer.
RequestAnswered ==
    \A r \in Requests : req[r].pc \in Running ~> req[r].pc \in Results
=============================================================================
