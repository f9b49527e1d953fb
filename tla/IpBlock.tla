------------------------------ MODULE IpBlock ------------------------------
(***************************************************************************)
(* The two counters that answer failed authentication, and the block an    *)
(* address earns: src/src/middleware/ip_block.rs (table blocked_ips),      *)
(* src/src/middleware/rate_limit.rs (in-memory daily counters), the        *)
(* cleanup of src/src/tasks/ttl_cleanup.rs, the midnight reset of          *)
(* src/src/tasks/rate_limit_reset.rs and the operator's unblock.           *)
(*                                                                         *)
(* A request passes ip_block::layer, then rate_limit::layer, then the      *)
(* handler, and rate_limit::layer again on the way out.  The handler       *)
(* spawns detached tasks: record_auth_failure in three statements and      *)
(* reset_failures_on_success in one.                                       *)
(* The names that ApiKeys has too begin with Block here.                   *)
(* An operator XSlip is X with one plausible slip, used by no action.      *)
(***************************************************************************)
EXTENDS Naturals, FiniteSets

CONSTANTS
    Addresses,   \* counter buckets: an IPv4 address or an IPv6 /64
    Requests,    \* slots for concurrent requests
    Tasks,       \* slots for detached tasks
    Threshold,   \* AUTH_FAILURE_THRESHOLD
    Limit,       \* DAILY_RATE_LIMIT
    MaxFailed,   \* bound on failed_count
    MaxBlocks,   \* bound on the blocks of an address
    MaxRestarts, \* bound on server restarts
    NoAddress

ASSUME ThresholdAssumption == Threshold \in Nat \ {0}
ASSUME LimitAssumption     == Limit \in Nat \ {0}
ASSUME AddressAssumption   == NoAddress \notin Addresses
ASSUME RequestAssumption   == IsFiniteSet(Requests)

VARIABLES
    row,        \* blocked_ips
    counter,    \* state.rate_counters, 0 for an address without an entry
    request,    \* requests in the layers
    task,       \* detached tasks
    restarts,   \* restarts so far
    episodes,   \* history: how often record_auth_failure blocked an address
    lost,       \* history: addresses whose last answer a failure swallowed
    overtaken   \* history: addresses unblocked between a task's SELECT and UPDATE

blockVars == <<row, counter, request, task, restarts, episodes, lost, overtaken>>

\* blocked_at and unblock_at: "lapsed" is a temporary block whose unblock_at
\* has passed, which still has its blocked_at until the cleanup.
Blocks  == {"none", "temporary", "lapsed", "permanent"}
Rows    == [there : BOOLEAN, failed : Nat, count : Nat, block : Blocks]
NoRow   == [there |-> FALSE, failed |-> 0, count |-> 0, block |-> "none"]

RequestRecords == [pc : {"idle", "limit", "handler", "count"},
                   ip : Addresses \cup {NoAddress}]
TaskRecords    == [pc : {"idle", "insert", "select", "update", "reset"},
                   ip : Addresses \cup {NoAddress}, seen : Nat]
NoRequest == [pc |-> "idle", ip |-> NoAddress]
NoTask    == [pc |-> "idle", ip |-> NoAddress, seen |-> 0]

BlockInit ==
    /\ row = [i \in Addresses |-> NoRow]
    /\ counter = [i \in Addresses |-> 0]
    /\ request = [r \in Requests |-> NoRequest]
    /\ task = [t \in Tasks |-> NoTask]
    /\ restarts = 0
    /\ episodes = [i \in Addresses |-> 0]
    /\ lost = {}
    /\ overtaken = {}

UnchangedHistory == UNCHANGED <<restarts, episodes, lost, overtaken>>

(***************************************************************************)
(* A request                                                               *)
(***************************************************************************)
\* ip_block::layer: an active block answers 403.
Arrive(r, i) ==
    /\ request[r].pc = "idle"
    /\ row[i].block \notin {"temporary", "permanent"}
    /\ request' = [request EXCEPT ![r] = [pc |-> "limit", ip |-> i]]
    /\ UNCHANGED <<row, counter, task>> /\ UnchangedHistory

\* rate_limit::layer, on the way in: 429 at the limit.
UnderLimitSlip(i) == counter[i] <= Limit
UnderLimit(i)     == counter[i] < Limit

CheckLimit(r) ==
    /\ request[r].pc = "limit"
    /\ request' = [request EXCEPT ![r] =
                     IF UnderLimit(@.ip) THEN [@ EXCEPT !.pc = "handler"] ELSE NoRequest]
    /\ UNCHANGED <<row, counter, task>> /\ UnchangedHistory

Spawn(t, label, i) ==
    /\ task[t].pc = "idle"
    /\ task' = [task EXCEPT ![t] = [pc |-> label, ip |-> i, seen |-> 0]]

\* A revoked, used, expired or unknown X-Api-Key, a revoked Bearer token, or no
\* credential: Unauthorized, with AuthFailed, and a task to record it.
FailRecorded(r) ==
    LET i == request[r].ip
    IN  /\ request[r].pc = "handler"
        /\ row[i].failed + Cardinality({t \in Tasks : task[t].pc = "insert"}) < MaxFailed
        /\ \E t \in Tasks : Spawn(t, "insert", i)
        /\ request' = [request EXCEPT ![r].pc = "count"]
        /\ UNCHANGED <<row, counter>> /\ UnchangedHistory

\* An unknown Bearer token, or AdminAuth: Unauthorized and nothing recorded.
FailUnrecorded(r) ==
    /\ request[r].pc = "handler"
    /\ request' = [request EXCEPT ![r].pc = "count"]
    /\ UNCHANGED <<row, counter, task>> /\ UnchangedHistory

\* A valid session token: the request succeeds and a task resets the failures.
BearerSucceeds(r) ==
    /\ request[r].pc = "handler"
    /\ \E t \in Tasks : Spawn(t, "reset", request[r].ip)
    /\ request' = [request EXCEPT ![r] = NoRequest]
    /\ UNCHANGED <<row, counter>> /\ UnchangedHistory

\* A valid X-Api-Key.
KeySucceeds(r) ==
    /\ request[r].pc = "handler"
    /\ request' = [request EXCEPT ![r] = NoRequest]
    /\ UNCHANGED <<row, counter, task>> /\ UnchangedHistory

\* rate_limit::layer, on the way out: a response with AuthFailed counts.
CountFailure(r) ==
    LET i == request[r].ip
    IN  /\ request[r].pc = "count"
        /\ counter' = [counter EXCEPT ![i] = @ + 1]
        /\ request' = [request EXCEPT ![r] = NoRequest]
        /\ UNCHANGED <<row, task>> /\ UnchangedHistory

\* The client hangs up: the request's future is dropped, spawned tasks stay.
HangUp(r) ==
    /\ request[r].pc # "idle"
    /\ request' = [request EXCEPT ![r] = NoRequest]
    /\ UNCHANGED <<row, counter, task>> /\ UnchangedHistory

(***************************************************************************)
(* record_auth_failure and reset_failures_on_success                       *)
(***************************************************************************)
\* The upsert of a failure: a row is created or its debt grows.
Accrued(r) ==
    [there |-> TRUE, failed |-> r.failed + 1, count |-> r.count, block |-> r.block]

InsertFailure(t) ==
    LET i == task[t].ip
    IN  /\ task[t].pc = "insert"
        /\ row' = [row EXCEPT ![i] = Accrued(@)]
        /\ task' = [task EXCEPT ![t].pc = "select"]
        /\ lost' = lost \ {i}
        /\ UNCHANGED <<counter, request, restarts, episodes, overtaken>>

\* Blocked already (even if lapsed), below the threshold, or no row any more:
\* the task ends.
EarnsBlockSlip(r) == r.there /\ r.failed >= Threshold
EarnsBlock(r)     == r.there /\ r.failed >= Threshold /\ r.block = "none"

SelectState(t) ==
    LET i == task[t].ip
    IN  /\ task[t].pc = "select"
        /\ task' = [task EXCEPT ![t] =
                      IF EarnsBlock(row[i])
                      THEN [@ EXCEPT !.pc = "update", !.seen = row[i].count]
                      ELSE NoTask]
        /\ UNCHANGED <<row, counter, request>> /\ UnchangedHistory

\* The UPDATE by ip, with the count read before.
HasRowSlip(r) == TRUE
HasRow(r)     == r.there

Blocked(r, seen) ==
    [there |-> r.there, failed |-> r.failed, count |-> seen + 1, block |-> "temporary"]

ApplyBlock(t) ==
    LET i == task[t].ip
    IN  /\ task[t].pc = "update"
        /\ row' = IF HasRow(row[i])
                  THEN [row EXCEPT ![i] = Blocked(@, task[t].seen)] ELSE row
        /\ episodes' = IF HasRow(row[i]) /\ row[i].block # "temporary"
                       THEN [episodes EXCEPT ![i] = @ + 1] ELSE episodes
        /\ task' = [task EXCEPT ![t] = NoTask]
        /\ UNCHANGED <<counter, request, restarts, lost, overtaken>>

Resetable(r) == r.block = "none"

ResetFailures(t) ==
    LET i == task[t].ip
    IN  /\ task[t].pc = "reset"
        /\ row' = IF Resetable(row[i]) THEN [row EXCEPT ![i] = [@ EXCEPT !.failed = 0]] ELSE row
        /\ task' = [task EXCEPT ![t] = NoTask]
        /\ UNCHANGED <<counter, request>> /\ UnchangedHistory

\* Addresses whose debt the tasks of ts were about to look at.
Swallowed(ts) == {task[t].ip : t \in {u \in ts : task[u].pc \in {"select", "update"}}}

\* A statement fails: the task logs it and ends.
StatementFails(t) ==
    /\ task[t].pc # "idle"
    /\ task' = [task EXCEPT ![t] = NoTask]
    /\ lost' = lost \cup Swallowed({t})
    /\ UNCHANGED <<row, counter, request, restarts, episodes, overtaken>>

(***************************************************************************)
(* Around the requests                                                     *)
(***************************************************************************)
\* unblock_at passes.  A block lasts AUTH_BLOCK_BASE_SECS or more (an hour) and
\* a task three statements: none is still running when its block ends.
BlockLapses(i) ==
    /\ row[i].block = "temporary"
    /\ \A t \in Tasks : task[t].ip # i
    /\ episodes[i] < MaxBlocks
    /\ row' = [row EXCEPT ![i] = [@ EXCEPT !.block = "lapsed"]]
    /\ UNCHANGED <<counter, request, task>> /\ UnchangedHistory

\* ttl_cleanup lifts every lapsed block and keeps the count.
LapsedSlip(r) == r.block = "temporary"
Lapsed(r)     == r.block = "lapsed"
LiftedSlip(r) == [r EXCEPT !.block = "none"]
ForgetSlip(r) == [r EXCEPT !.block = "none", !.failed = 0, !.count = 0]
Lifted(r)     == [there |-> r.there, failed |-> 0, count |-> r.count, block |-> "none"]

CleanUp ==
    /\ row' = [i \in Addresses |-> IF Lapsed(row[i]) THEN Lifted(row[i]) ELSE row[i]]
    /\ UNCHANGED <<counter, request, task>> /\ UnchangedHistory

\* DELETE /api/admin/blocked-ips/:ip
UnblockIp(i) ==
    /\ episodes[i] < MaxBlocks
    /\ row' = [row EXCEPT ![i] = NoRow]
    /\ overtaken' = overtaken \cup {task[t].ip : t \in {t \in Tasks : task[t].pc = "update"
                                                                  /\ task[t].ip = i}}
    /\ UNCHANGED <<counter, request, task, restarts, episodes, lost>>

Closed(r) ==
    [there |-> TRUE, failed |-> r.failed, count |-> r.count, block |-> "permanent"]

\* External: the operator writes a row with blocked_at and no unblock_at.
BlockForGood(i) ==
    /\ row' = [row EXCEPT ![i] = Closed(@)]
    /\ UNCHANGED <<counter, request, task>> /\ UnchangedHistory

\* Midnight
ClearCounters ==
    /\ counter' = [i \in Addresses |-> 0]
    /\ UNCHANGED <<row, request, task>> /\ UnchangedHistory

\* The process stops: counters, requests and tasks are gone, rows stay.
Restart ==
    /\ restarts < MaxRestarts
    /\ restarts' = restarts + 1
    /\ counter' = [i \in Addresses |-> 0]
    /\ request' = [r \in Requests |-> NoRequest]
    /\ task' = [t \in Tasks |-> NoTask]
    /\ lost' = lost \cup Swallowed(Tasks)
    /\ UNCHANGED <<row, episodes, overtaken>>

(***************************************************************************)
(* The specification                                                       *)
(***************************************************************************)
RequestStep(r) ==
    \/ CheckLimit(r)
    \/ FailRecorded(r) \/ FailUnrecorded(r) \/ BearerSucceeds(r) \/ KeySucceeds(r)
    \/ CountFailure(r) \/ HangUp(r)
TaskStep(t) == InsertFailure(t) \/ SelectState(t) \/ ApplyBlock(t) \/ ResetFailures(t)

BlockNext ==
    \/ \E r \in Requests, i \in Addresses : Arrive(r, i)
    \/ \E r \in Requests : RequestStep(r)
    \/ \E t \in Tasks : TaskStep(t) \/ StatementFails(t)
    \/ \E i \in Addresses : BlockLapses(i) \/ UnblockIp(i) \/ BlockForGood(i)
    \/ CleanUp \/ ClearCounters \/ Restart

BlockSpec == BlockInit /\ [][BlockNext]_blockVars

\* Spawned tasks run (or fail), the cleanup loop runs every few minutes, time passes.
BlockFairness ==
    /\ \A t \in Tasks : WF_blockVars(TaskStep(t))
    /\ \A i \in Addresses : WF_blockVars(BlockLapses(i))
    /\ WF_blockVars(CleanUp)
BlockFairSpec == BlockSpec /\ BlockFairness

(***************************************************************************)
(* Properties                                                              *)
(***************************************************************************)
\* Types; a row that is not there is empty.
BlockTypeOK ==
    /\ row \in [Addresses -> Rows]
    /\ counter \in [Addresses -> Nat]
    /\ request \in [Requests -> RequestRecords]
    /\ task \in [Tasks -> TaskRecords]
    /\ restarts \in Nat /\ episodes \in [Addresses -> Nat]
    /\ lost \subseteq Addresses /\ overtaken \subseteq Addresses
    /\ \A i \in Addresses : ~row[i].there => row[i] = NoRow

\* The check of rate_limit::layer and its increment are apart: an address can
\* pass its limit, but only by the requests let in before it was reached.
LimitOvershootBounded ==
    \A i \in Addresses :
        counter[i] + Cardinality({r \in Requests : request[r].ip = i
                                                   /\ request[r].pc \in {"handler", "count"}})
          < Limit + Cardinality(Requests)

\* An address whose failures reached the threshold is blocked, or a task that
\* will see it is on its way.  Only a restart or a failed statement can swallow
\* the answer, and then the next failure of the address is answered again.
DebtIsAnswered ==
    \A i \in Addresses :
        row[i].failed >= Threshold /\ row[i].block = "none" /\ i \notin lost
          => \E t \in Tasks : task[t].ip = i /\ task[t].pc \in {"select", "update"}

\* Failures that cross the threshold together escalate once: the count of an
\* address is at most the number of times it was blocked.
EscalatesOncePerBlock ==
    \A i \in Addresses : row[i].count <= episodes[i]

\* The history of an offender is forgotten only with its row: block_count never
\* falls, not through the cleanup, a reset or a task that read it earlier (but
\* for a task whose row the operator deleted under it).
HistoryIsKept ==
    [][\A i \in Addresses :
         row'[i].there /\ i \notin overtaken => row'[i].count >= row[i].count]_blockVars

\* A temporary block ends: the cleanup lifts it, unless the operator intervenes.
TemporaryBlocksEnd ==
    \A i \in Addresses :
        row[i].block = "temporary" /\ episodes[i] < MaxBlocks
          ~> row[i].block \in {"none", "permanent"}

=============================================================================
