------------------------- MODULE DevicePolicyProofs -------------------------
(***************************************************************************)
(* Theorems about DevicePolicy, for any number of devices, requests and    *)
(* names, any clock and any base duration.                                 *)
(***************************************************************************)
EXTENDS DevicePolicy, TLAPS

LEMMA DurationIsInt ==
  ASSUME NEW n \in Nat  PROVE BanDuration(n) \in Int
<1> DEFINE k == Doublings(n)
<1>1. k \in Nat
  BY ConstantsAssumption DEF Doublings, LowerOf
<1>4. BanDuration(n) = LowerOf(BaseSecs * 2 ^ k, MaxBanSecs)
  BY DEF BanDuration
<1> HIDE DEF k
<1>2. 2 ^ k \in Int
  BY <1>1, Z3
<1>3. BaseSecs * 2 ^ k \in Int
  BY <1>2, ConstantsAssumption
<1> QED
  BY <1>3, <1>4, ConstantsAssumption DEF LowerOf

\* The fields of a request, read off the type invariant.
LEMMA RequestFields ==
  ASSUME TypeOK, NEW r \in Requests
  PROVE  /\ req[r] \in Request
         /\ req[r].dev \in Devices /\ req[r].name \in Names
         /\ req[r].mode \in Modes /\ req[r].pattern \in SUBSET Names
         /\ req[r].seen \in Nat /\ req[r].pc \in Counters
         /\ hist[r] \in History
BY DEF TypeOK, Request

\* Moving the program counter keeps a request a request.
LEMMA GotoType ==
  ASSUME TypeOK, NEW r \in Requests, NEW label \in Counters, Goto(r, label)
  PROVE  req' \in [Requests -> Request]
BY DEF TypeOK, Goto, Request

LEMMA VerdictIsBoolean ==
  ASSUME NEW m, NEW l, NEW p, NEW n  PROVE Allows(m, l, p, n) \in BOOLEAN
BY DEF Allows

LEMMA HistoryType ==
  ASSUME NEW h \in History, NEW v \in BOOLEAN
  PROVE  Free(h) \in History /\ Tear(h, v) \in History
<1>1. Free(h) \in History
  BY DEF Free, History
<1>2. h.verdicts \cup {v} \in SUBSET BOOLEAN
  BY DEF History
<1>3. Tear(h, v) \in History
  BY <1>2 DEF Tear, History
<1> QED
  BY <1>1, <1>3

LEMMA LiftedType ==
  ASSUME NEW row \in BanRows  PROVE Lifted(row) \in BanRows
BY DEF BanRows, Lifted

-----------------------------------------------------------------------------
LEMMA InitType == Init => TypeOK
<1> SUFFICES ASSUME Init PROVE TypeOK
  OBVIOUS
<1>1. Idle \in Request
  BY ConstantsAssumption DEF Idle, Request, Counters, Running, Modes
<1>2. NoHistory \in History /\ NoBan \in BanRows /\ NoPolicy \in Policies
  BY DEF NoHistory, History, NoBan, BanRows, NoPolicy, Policies, Modes
<1> QED
  BY <1>1, <1>2 DEF Init, TypeOK

LEMMA StepType ==
  ASSUME TypeOK, NEW r \in Requests, Step(r)  PROVE TypeOK'
<1> DEFINE d == req[r].dev
<1>0. /\ d \in Devices /\ hist[r] \in History /\ ban[d] \in BanRows
      /\ policy[d] \in Policies
  BY RequestFields DEF TypeOK
<1>1. CASE CheckBanAuthn(r)
  <2>1. req' \in [Requests -> Request]
    BY <1>1, GotoType DEF CheckBanAuthn, Counters, Running, Results
  <2> QED
    BY <1>1, <2>1 DEF CheckBanAuthn, TypeOK
<1>2. CASE CheckBanAuthz(r)
  <2>1. req' \in [Requests -> Request]
    BY <1>2, GotoType DEF CheckBanAuthz, Counters, Running, Results
  <2>2. hist' \in [Requests -> History]
    BY <1>2, <1>0 DEF CheckBanAuthz, TypeOK, History, BanRows
  <2> QED
    BY <1>2, <2>1, <2>2 DEF CheckBanAuthz, TypeOK
<1>3. CASE LoadMode(r)
  <2> DEFINE label == IF NeedsKeys(policy[d].mode) THEN "keys"
                      ELSE Decided(Allows(policy[d].mode, {}, policy[d].pattern, req[r].name))
  <2>1. label \in Counters
    BY DEF Decided, Counters, Running, Results, Violating
  <2>2. req' \in [Requests -> Request]
    <3>1. req' = [req EXCEPT ![r] = [@ EXCEPT !.mode = policy[d].mode,
                     !.pattern = policy[d].pattern, !.pc = label]]
      BY <1>3 DEF LoadMode
    <3>2. policy[d].mode \in Modes /\ policy[d].pattern \in SUBSET Names
      BY <1>0 DEF Policies
    <3> HIDE DEF label
    <3> QED
      BY <2>1, <3>1, <3>2 DEF TypeOK, Request
  <2>3. hist' \in [Requests -> History]
    BY <1>3, <1>0, VerdictIsBoolean DEF LoadMode, TypeOK, History
  <2> QED
    BY <1>3, <2>2, <2>3 DEF LoadMode, TypeOK
<1>4. CASE LoadKeys(r)
  <2>1. req' \in [Requests -> Request]
    <3>1. PICK v : Goto(r, Decided(v))
      BY <1>4 DEF LoadKeys
    <3>2. Decided(v) \in Counters
      BY DEF Decided, Counters, Running, Results, Violating
    <3> QED
      BY <3>1, <3>2, GotoType
  <2> QED
    BY <1>4, <2>1 DEF LoadKeys, TypeOK
<1>5. CASE EnsureBanRow(r)
  <2>1. req' \in [Requests -> Request]
    BY <1>5, GotoType DEF EnsureBanRow, Counters, Running, Results, Violating
  <2>2. ban' \in [Devices -> BanRows]
    <3>1. NewBan \in BanRows
      BY DEF NewBan, BanRows
    <3> QED
      BY <1>5, <1>0, <3>1 DEF EnsureBanRow, TypeOK
  <2>3. \A e \in Devices \ devices : ban'[e] = ban[e]
    BY <1>5, <1>0 DEF EnsureBanRow, ForeignKeyHolds, TypeOK
  <2> QED
    BY <1>5, <2>1, <2>2, <2>3 DEF EnsureBanRow, TypeOK
<1>6. CASE ReadBanRow(r)
  <2>1. req' \in [Requests -> Request]
    <3> DEFINE label == IF ~ban[d].present THEN "failed"
                        ELSE IF AlreadyBanned(ban[d]) THEN "violated" ELSE "apply"
               count == ban[d].count
    <3>1. label \in Counters /\ count \in Nat
      BY <1>0 DEF Counters, Running, Results, Violating, BanRows
    <3>2. req' = [req EXCEPT ![r] = [@ EXCEPT !.seen = count, !.pc = label]]
      BY <1>6 DEF ReadBanRow
    <3> HIDE DEF label, count
    <3> QED
      BY <3>1, <3>2 DEF TypeOK, Request
  <2> QED
    BY <1>6, <2>1 DEF ReadBanRow, TypeOK
<1>7. CASE ApplyBan(r)
  <2>1. req' \in [Requests -> Request]
    BY <1>7, GotoType DEF ApplyBan, Counters, Running, Results, Violating
  <2>2. req[r].seen + 1 \in Nat /\ BanDuration(req[r].seen + 1) \in Int
    BY RequestFields, DurationIsInt
  <2>3. ban' \in [Devices -> BanRows]
    <3> DEFINE nth == req[r].seen + 1
               end == now + BanDuration(nth)
    <3>1. nth \in Nat /\ end \in Int
      BY <2>2 DEF TypeOK
    <3>2. \/ ban' = ban
          \/ ban' = [ban EXCEPT ![d] = [@ EXCEPT !.banned = TRUE, !.count = nth, !.until = end]]
      BY <1>7 DEF ApplyBan
    <3> HIDE DEF nth, end
    <3>3. [ban[d] EXCEPT !.banned = TRUE, !.count = nth, !.until = end] \in BanRows
      BY <3>1, <1>0 DEF BanRows
    <3> QED
      BY <3>2, <3>3, <1>0 DEF TypeOK
  <2>4. \A e \in Devices \ devices : ban'[e] = ban[e]
    BY <1>7, <1>0 DEF ApplyBan, OwnsTheBan, TypeOK, NoBan
  <2> QED
    BY <1>7, <2>1, <2>3, <2>4 DEF ApplyBan, TypeOK
<1> QED
  BY <1>1, <1>2, <1>3, <1>4, <1>5, <1>6, <1>7 DEF Step

\* The arrival of a request.
LEMMA ArriveType ==
  ASSUME TypeOK, NEW r \in Requests, NEW d \in Devices, NEW n \in Names,
         Arrive(r, d, n)
  PROVE  TypeOK'
<1> DEFINE fresh == [Idle EXCEPT !.pc = "authn", !.dev = d, !.name = n]
           log == IF Active(ban[d], now) THEN NoHistory ELSE Free(NoHistory)
<1>1. fresh \in Request
  <2>1. Idle \in Request
    BY ConstantsAssumption DEF Idle, Request, Counters, Running, Modes
  <2> QED
    BY <2>1 DEF Request, Counters, Running
<1>2. log \in History
  <2>1. NoHistory \in History
    BY DEF NoHistory, History
  <2> QED
    BY <2>1, HistoryType
<1>3. /\ req' = [req EXCEPT ![r] = fresh]
      /\ hist' = [hist EXCEPT ![r] = log]
      /\ arrivals' = arrivals + 1
      /\ UNCHANGED <<now, devices, policy, keys, ban>>
  BY DEF Arrive
<1> HIDE DEF fresh, log
<1> QED
  BY <1>1, <1>2, <1>3 DEF TypeOK

\* What the owner, the cleanup task and the clock do.
LEMMA EnvironmentType ==
  ASSUME TypeOK,
         \/ Cleanup \/ Tick
         \/ \E d \in Devices : Unban(d) \/ DeleteDevice(d)
         \/ \E d \in Devices, mode \in Modes, listed, pattern \in SUBSET Names :
               UpdatePolicy(d, mode, listed, pattern)
  PROVE  TypeOK'
<1>1. CASE Cleanup
  <2>1. ban' \in [Devices -> BanRows]
    BY <1>1, LiftedType DEF Cleanup, TypeOK
  <2>2. \A e \in Devices \ devices : ban'[e] = ban[e]
    <3>1. ~Expired(NoBan)
      BY DEF Expired, NoBan
    <3> QED
      BY <1>1, <3>1 DEF Cleanup, TypeOK
  <2> QED
    BY <1>1, <2>1, <2>2 DEF Cleanup, TypeOK
<1>2. CASE Tick
  <2>1. now' \in Int /\ UNCHANGED <<devices, policy, keys, ban, req, arrivals>>
    BY <1>2 DEF Tick, TypeOK
  <2>3. hist' \in [Requests -> History]
    BY <1>2, HistoryType DEF Tick, NoteUnbanned, TypeOK
  <2> QED
    BY <2>1, <2>3 DEF TypeOK
<1>3. CASE \E d \in Devices : Unban(d)
  <2> PICK d \in Devices : Unban(d)
    BY <1>3
  <2>1. ban' \in [Devices -> BanRows]
    BY LiftedType DEF Unban, TypeOK
  <2>2. \A e \in Devices \ devices : ban'[e] = ban[e]
    BY DEF Unban, TypeOK
  <2>3. hist' \in [Requests -> History]
    BY HistoryType DEF Unban, NoteUnbanned, TypeOK
  <2> QED
    BY <2>1, <2>2, <2>3 DEF Unban, TypeOK
<1>4. CASE \E d \in Devices : DeleteDevice(d)
  <2> PICK d \in Devices : DeleteDevice(d)
    BY <1>4
  <2>1. NoBan \in BanRows /\ NoPolicy \in Policies
    BY DEF NoBan, BanRows, NoPolicy, Policies, Modes
  <2>2. hist' \in [Requests -> History]
    BY HistoryType DEF DeleteDevice, TypeOK
  <2> QED
    BY <2>1, <2>2 DEF DeleteDevice, TypeOK
<1>5. CASE \E d \in Devices, mode \in Modes, listed, pattern \in SUBSET Names :
             UpdatePolicy(d, mode, listed, pattern)
  <2> PICK d \in Devices, mode \in Modes, listed \in SUBSET Names, pattern \in SUBSET Names :
             UpdatePolicy(d, mode, listed, pattern)
    BY <1>5
  <2>1. [mode |-> mode, pattern |-> pattern] \in Policies
    BY DEF Policies
  <2>2. hist' \in [Requests -> History]
    <3>1. \A r \in Requests : Tear(hist[r], Allows(mode, listed, pattern, req[r].name)) \in History
      BY HistoryType, VerdictIsBoolean DEF TypeOK
    <3> QED
      BY <3>1 DEF UpdatePolicy, NoteChange, TypeOK
  <2> QED
    BY <2>1, <2>2 DEF UpdatePolicy, TypeOK
<1> QED
  BY <1>1, <1>2, <1>3, <1>4, <1>5

LEMMA NextType == TypeOK /\ [Next]_vars => TypeOK'
<1> SUFFICES ASSUME TypeOK, [Next]_vars PROVE TypeOK'
  OBVIOUS
<1>1. CASE \E r \in Requests : Step(r)
  BY <1>1, StepType
<1>2. CASE \E r \in Requests : Abort(r)
  <2> PICK r \in Requests : Abort(r)
    BY <1>2
  <2>1. req' \in [Requests -> Request]
    BY GotoType DEF Abort, Counters, Results
  <2> QED
    BY <2>1 DEF Abort, TypeOK
<1>3. CASE \E r \in Requests, d \in Devices, n \in Names : Arrive(r, d, n)
  BY <1>3, ArriveType
<1>4. CASE \/ Cleanup \/ Tick
           \/ \E d \in Devices : Unban(d) \/ DeleteDevice(d)
           \/ \E d \in Devices, mode \in Modes, listed, pattern \in SUBSET Names :
                 UpdatePolicy(d, mode, listed, pattern)
  BY <1>4, EnvironmentType
<1>5. CASE UNCHANGED vars
  BY <1>5 DEF vars, TypeOK
<1> QED
  BY <1>1, <1>2, <1>3, <1>4, <1>5 DEF Next

\* Every reachable state is well typed and respects the foreign keys: no
\* interleaving of requests revives a row of a deleted device.
THEOREM TypeCorrect == Spec => []TypeOK
<1>1. Init => TypeOK
  BY InitType
<1>2. TypeOK /\ [Next]_vars => TypeOK'
  BY NextType
<1> QED
  BY <1>1, <1>2, PTL DEF Spec

-----------------------------------------------------------------------------
(***************************************************************************)
(* Bans are applied once.  The argument: ban_count only grows, and between *)
(* two bans of one device it must grow, so a request that knows a count at *)
(* which the device was not banned may still trust it (Ahead).             *)
(***************************************************************************)
AbsentRowIsEmpty == \A d \in Devices : ~ban[d].present => ban[d] = NoBan

\* At ban_count n the device was not banned, so it is banned now only if the
\* count has moved on.
Ahead(row, n, time) ==
    /\ row.count >= n
    /\ row.count = n => ~Active(row, time)

Unanswered == {"mode", "keys"} \cup Violating

\* What a request q with history h may rely on, given its device's ban row.
Known(q, h, row, time) ==
    /\ q.pc \in Unanswered => Ahead(row, h.base, time)
    /\ q.pc = "apply" => Ahead(row, q.seen, time) /\ q.seen >= h.base /\ row.present
    /\ q.pc = "violated" => row.count > h.base

CountKnown ==
    \A r \in Requests :
        req[r].dev \in devices => Known(req[r], hist[r], ban[req[r].dev], now)

IInv ==
    /\ TypeOK
    /\ AbsentRowIsEmpty
    /\ CountKnown

\* The effect of any step on the ban row of one device that it does not delete:
\* the row stays, is created, is lifted, or is banned anew under the guard.
RowStep(d) ==
    \/ ban'[d] = ban[d]
    \/ ~ban[d].present /\ ban'[d] = NewBan
    \/ ban'[d] = Lifted(ban[d])
    \/ /\ ban[d].present
       /\ ban'[d].present
       /\ ban'[d].count = ban[d].count + 1
       /\ \E r \in Requests : /\ req[r].pc = "apply" /\ req[r].dev = d
                              /\ req[r].seen = ban[d].count

LEMMA RowSteps ==
  ASSUME TypeOK, Next, NEW d \in Devices, d \in devices'
  PROVE  RowStep(d) /\ now' >= now /\ d \in devices /\ devices' \subseteq devices
<1>1. CASE \E r \in Requests : Step(r)
  <2> PICK r \in Requests : Step(r)
    BY <1>1
  <2>1. CASE ApplyBan(r)
    <3> DEFINE nth == req[r].seen + 1
               end == now + BanDuration(nth)
    <3>1. CASE OwnsTheBan(r) /\ req[r].dev = d
      <4>1. ban' = [ban EXCEPT ![d] = [@ EXCEPT !.banned = TRUE, !.count = nth, !.until = end]]
        BY <2>1, <3>1 DEF ApplyBan
      <4> HIDE DEF nth, end
      <4>2. ban[d] \in BanRows
        BY DEF TypeOK
      <4>3. ban'[d].count = nth /\ ban'[d].present = ban[d].present
        BY <4>1, <4>2 DEF TypeOK, BanRows
      <4>4. nth = ban[d].count + 1 /\ req[r].pc = "apply"
        BY <2>1, <3>1 DEF ApplyBan, OwnsTheBan, nth
      <4> QED
        BY <2>1, <3>1, <4>3, <4>4 DEF ApplyBan, RowStep, OwnsTheBan, TypeOK
    <3>2. CASE ~(OwnsTheBan(r) /\ req[r].dev = d)
      <4>1. ban'[d] = ban[d]
        BY <2>1, <3>2 DEF ApplyBan, TypeOK
      <4> QED
        BY <2>1, <4>1 DEF ApplyBan, RowStep, TypeOK
    <3> QED
      BY <3>1, <3>2
  <2>2. CASE EnsureBanRow(r)
    BY <2>2 DEF EnsureBanRow, RowStep, TypeOK
  <2>3. CASE \/ CheckBanAuthn(r) \/ CheckBanAuthz(r) \/ LoadMode(r) \/ LoadKeys(r)
             \/ ReadBanRow(r)
    BY <2>3 DEF CheckBanAuthn, CheckBanAuthz, LoadMode, LoadKeys, ReadBanRow, RowStep, TypeOK
  <2> QED
    BY <2>1, <2>2, <2>3 DEF Step
<1>2. CASE \/ \E r \in Requests : Abort(r)
           \/ \E r \in Requests, e \in Devices, n \in Names : Arrive(r, e, n)
           \/ \E e \in Devices, mode \in Modes, listed, pattern \in SUBSET Names :
                 UpdatePolicy(e, mode, listed, pattern)
           \/ Tick
  <2>1. UNCHANGED <<ban, devices>> /\ now' >= now
    <3>1. CASE Tick
      BY <3>1 DEF Tick, TypeOK
    <3>2. CASE \E r \in Requests : Abort(r)
      BY <3>2 DEF Abort, TypeOK
    <3>3. CASE \E r \in Requests, e \in Devices, n \in Names : Arrive(r, e, n)
      BY <3>3 DEF Arrive, TypeOK
    <3>4. CASE \E e \in Devices, mode \in Modes, listed, pattern \in SUBSET Names :
                 UpdatePolicy(e, mode, listed, pattern)
      BY <3>4 DEF UpdatePolicy, TypeOK
    <3> QED
      BY <1>2, <3>1, <3>2, <3>3, <3>4
  <2> QED
    BY <2>1 DEF RowStep
<1>3. CASE \E e \in Devices : Unban(e)
  BY <1>3 DEF Unban, RowStep, TypeOK
<1>4. CASE \E e \in Devices : DeleteDevice(e)
  BY <1>4 DEF DeleteDevice, RowStep, TypeOK
<1>5. CASE Cleanup
  BY <1>5 DEF Cleanup, RowStep, TypeOK
<1> QED
  BY <1>1, <1>2, <1>3, <1>4, <1>5 DEF Next

\* What a request knows about a count stays true while its device exists.
LEMMA AheadIsStable ==
  ASSUME TypeOK, AbsentRowIsEmpty, Next, NEW d \in Devices, d \in devices',
         NEW n \in Nat, Ahead(ban[d], n, now)
  PROVE  Ahead(ban'[d], n, now')
<1>1. RowStep(d) /\ now' >= now
  BY RowSteps
<1>2. ban[d] \in BanRows /\ now \in Int /\ now' \in Int /\ ban'[d] \in BanRows
  BY NextType DEF TypeOK
<1>3. CASE ban'[d] = ban[d]
  BY <1>1, <1>2, <1>3 DEF Ahead, Active, BanRows
<1>4. CASE ~ban[d].present /\ ban'[d] = NewBan
  BY <1>2, <1>4 DEF Ahead, Active, AbsentRowIsEmpty, NewBan, NoBan
<1>5. CASE ban'[d] = Lifted(ban[d])
  BY <1>5 DEF Lifted, Ahead, Active
<1>6. CASE ban'[d].count = ban[d].count + 1
  BY <1>2, <1>6 DEF Ahead, BanRows
<1> QED
  BY <1>1, <1>3, <1>4, <1>5, <1>6 DEF RowStep

LEMMA CountNeverFalls ==
  ASSUME TypeOK, AbsentRowIsEmpty, Next, NEW d \in Devices, d \in devices'
  PROVE  ban'[d].count >= ban[d].count
<1>1. RowStep(d) /\ ban[d] \in BanRows
  BY RowSteps DEF TypeOK
<1>2. Lifted(ban[d]).count = ban[d].count
  BY <1>1 DEF Lifted, BanRows
<1> QED
  BY <1>1, <1>2 DEF RowStep, BanRows, AbsentRowIsEmpty, NewBan, NoBan

LEMMA AbsentRowNext ==
  ASSUME TypeOK, AbsentRowIsEmpty, [Next]_vars  PROVE AbsentRowIsEmpty'
<1>1. CASE UNCHANGED vars
  BY <1>1 DEF vars, AbsentRowIsEmpty
<1>2. CASE Next
  <2> SUFFICES ASSUME NEW d \in Devices, ~ban'[d].present  PROVE ban'[d] = NoBan
    BY DEF AbsentRowIsEmpty
  <2>1. CASE d \in devices'
    <3>1. RowStep(d) /\ ban[d] \in BanRows
      BY <1>2, <2>1, RowSteps DEF TypeOK
    <3>2. Lifted(ban[d]).present = ban[d].present
      BY <3>1 DEF Lifted, BanRows
    <3>3. Lifted(NoBan) = NoBan
      BY DEF Lifted, NoBan
    <3> QED
      BY <3>1, <3>2, <3>3 DEF RowStep, AbsentRowIsEmpty, NewBan
  <2>2. CASE d \notin devices'
    BY <1>2, <2>2, NextType DEF TypeOK
  <2> QED
    BY <2>1, <2>2
<1> QED
  BY <1>1, <1>2

\* A request keeps what it knows while others move.
LEMMA KnownIsStable ==
  ASSUME TypeOK, AbsentRowIsEmpty, Next, NEW d \in Devices, d \in devices',
         NEW q \in Request, NEW h \in History, Known(q, h, ban[d], now)
  PROVE  Known(q, h, ban'[d], now')
<1>1. /\ h.base \in Nat /\ q.seen \in Nat
      /\ ban[d].count \in Nat /\ ban'[d].count \in Nat
  BY NextType DEF Request, History, TypeOK, BanRows
<1>2. /\ Ahead(ban[d], h.base, now) => Ahead(ban'[d], h.base, now')
      /\ Ahead(ban[d], q.seen, now) => Ahead(ban'[d], q.seen, now')
  BY <1>1, AheadIsStable
<1>3. ban'[d].count >= ban[d].count
  BY CountNeverFalls
<1>4. ban[d].present => ban'[d].present
  <2>1. RowStep(d)
    BY RowSteps
  <2> QED
    BY <2>1 DEF RowStep, Lifted, NewBan
<1> QED
  BY <1>1, <1>2, <1>3, <1>4 DEF Known

\* A request learns what it needs at each of its own statements.
LEMMA KnownAfterStep ==
  ASSUME TypeOK, AbsentRowIsEmpty, NEW r \in Requests, Step(r),
         req[r].dev \in devices, Known(req[r], hist[r], ban[req[r].dev], now)
  PROVE  /\ req'[r].dev = req[r].dev
         /\ Known(req'[r], hist'[r], ban'[req[r].dev], now')
<1> DEFINE d == req[r].dev
<1>0. /\ d \in Devices /\ ban[d] \in BanRows /\ req[r] \in Request /\ hist[r] \in History
      /\ req[r].seen \in Nat /\ hist[r].base \in Nat /\ ban[d].count \in Nat
  BY RequestFields DEF TypeOK, History, BanRows
<1>1. CASE CheckBanAuthn(r)
  BY <1>1, <1>0 DEF CheckBanAuthn, Goto, TypeOK, Request, Known, Unanswered, Violating
<1>2. CASE CheckBanAuthz(r)
  BY <1>2, <1>0 DEF CheckBanAuthz, Goto, TypeOK, Request, History, Known, Unanswered,
                    Violating, Ahead, NotBanned
<1>3. CASE LoadMode(r)
  BY <1>3, <1>0 DEF LoadMode, Decided, TypeOK, Request, History, Known, Unanswered, Violating
<1>4. CASE LoadKeys(r)
  BY <1>4, <1>0 DEF LoadKeys, Goto, Decided, TypeOK, Request, Known, Unanswered, Violating
<1>5. CASE EnsureBanRow(r)
  BY <1>5, <1>0 DEF EnsureBanRow, Goto, TypeOK, Request, Known, Unanswered, Violating,
                    AbsentRowIsEmpty, Ahead, Active, NoBan, NewBan
<1>6. CASE ReadBanRow(r)
  BY <1>6, <1>0 DEF ReadBanRow, AlreadyBanned, TypeOK, Request, Known, Unanswered, Violating,
                    Ahead
<1>7. CASE ApplyBan(r)
  <2>1. /\ ban[d].present /\ ban[d].count >= req[r].seen /\ req[r].seen >= hist[r].base
    BY <1>7 DEF ApplyBan, Known, Ahead
  <2>2. req'[r].pc = "violated" /\ req'[r].dev = d /\ hist' = hist
    BY <1>7, <1>0 DEF ApplyBan, Goto, TypeOK, Request
  <2>3. CASE OwnsTheBan(r)
    <3> DEFINE nth == req[r].seen + 1
               end == now + BanDuration(nth)
    <3>1. ban' = [ban EXCEPT ![d] = [@ EXCEPT !.banned = TRUE, !.count = nth, !.until = end]]
      BY <1>7, <2>3 DEF ApplyBan
    <3>2. nth > hist[r].base
      BY <2>1, <1>0
    <3> HIDE DEF nth, end
    <3>3. ban'[d].count = nth
      BY <3>1, <1>0 DEF TypeOK, BanRows
    <3> QED
      BY <2>2, <3>2, <3>3 DEF Known, Unanswered, Violating
  <2>4. CASE ~OwnsTheBan(r)
    <3>1. ban' = ban /\ ban[d].count # req[r].seen
      BY <1>7, <2>1, <2>4 DEF ApplyBan, OwnsTheBan
    <3>2. ban'[d].count > hist[r].base
      BY <3>1, <2>1, <1>0
    <3> QED
      BY <2>2, <3>2 DEF Known, Unanswered, Violating
  <2> QED
    BY <2>3, <2>4
<1> QED
  BY <1>1, <1>2, <1>3, <1>4, <1>5, <1>6, <1>7 DEF Step

LEMMA CountKnownNext ==
  ASSUME IInv, [Next]_vars  PROVE CountKnown'
<1> SUFFICES ASSUME NEW r \in Requests, req'[r].dev \in devices'
             PROVE  Known(req'[r], hist'[r], ban'[req'[r].dev], now')
  BY DEF CountKnown
<1> USE DEF IInv
<1> DEFINE d == req[r].dev
<1>0. /\ d \in Devices /\ req'[r].dev \in Devices
      /\ req[r] \in Request /\ hist[r] \in History
  BY NextType DEF TypeOK, Request
<1>1. CASE UNCHANGED vars
  BY <1>1 DEF vars, CountKnown
<1>2. CASE Next /\ req'[r] = req[r] /\ hist'[r].base = hist[r].base
  <2>1. Known(req[r], hist[r], ban[d], now)
    BY <1>0, <1>2, RowSteps DEF CountKnown
  <2>2. Known(req[r], hist[r], ban'[d], now')
    BY <1>0, <1>2, <2>1, KnownIsStable
  <2> QED
    BY <1>2, <2>2 DEF Known
<1>3. CASE Step(r)
  <2>1. req'[r].dev = d
    <3>1. CASE LoadMode(r)
      BY <3>1, <1>0 DEF LoadMode, TypeOK, Request
    <3>2. CASE ReadBanRow(r)
      BY <3>2, <1>0 DEF ReadBanRow, TypeOK, Request
    <3>3. CASE \E label : Goto(r, label)
      BY <3>3, <1>0 DEF Goto, TypeOK, Request
    <3> QED
      BY <1>3, <3>1, <3>2, <3>3
         DEF Step, CheckBanAuthn, CheckBanAuthz, LoadKeys, EnsureBanRow, ApplyBan
  <2>2. d \in devices
    BY <1>3, <1>0, <2>1, RowSteps DEF Next
  <2> QED
    BY <1>3, <2>1, <2>2, KnownAfterStep DEF CountKnown
<1>4. CASE req'[r].pc \in {"authn", "failed"}
  BY <1>4 DEF Known, Unanswered, Violating
<1>5. CASE \E q \in Requests : Step(q) /\ q # r
  <2>1. req'[r] = req[r] /\ hist'[r] = hist[r]
    BY <1>5 DEF Step, CheckBanAuthn, CheckBanAuthz, LoadMode, LoadKeys, EnsureBanRow,
       ReadBanRow, ApplyBan, Goto, TypeOK
  <2> QED
    BY <1>2, <1>5, <2>1 DEF Next
<1>6. CASE \E q \in Requests : Abort(q)
  BY <1>2, <1>4, <1>6 DEF Abort, Goto, TypeOK, Request, Next
<1>7. CASE \E q \in Requests, e \in Devices, n \in Names : Arrive(q, e, n)
  <2> PICK q \in Requests, e \in Devices, n \in Names : Arrive(q, e, n)
    BY <1>7
  <2>1. CASE q = r
    <3>1. req'[r].pc = "authn"
      BY <2>1 DEF Arrive, TypeOK, Idle
    <3> QED
      BY <3>1, <1>4
  <2>2. CASE q # r
    <3>1. req'[r] = req[r] /\ hist'[r] = hist[r] /\ Next
      BY <2>2, <1>7 DEF Arrive, TypeOK, Next
    <3> QED
      BY <3>1, <1>2
  <2> QED
    BY <2>1, <2>2
<1>8. CASE \/ Cleanup \/ Tick
           \/ \E e \in Devices : Unban(e) \/ DeleteDevice(e)
           \/ \E e \in Devices, mode \in Modes, listed, pattern \in SUBSET Names :
                 UpdatePolicy(e, mode, listed, pattern)
  <2>1. Next
    BY <1>8 DEF Next
  <2>2. req' = req
    BY <1>8 DEF Cleanup, Tick, Unban, DeleteDevice, UpdatePolicy
  <2>3. \A h \in History, v \in BOOLEAN :
           /\ Free(h).base = h.base /\ Tear(h, v).base = h.base
           /\ Free(Tear(h, v)).base = h.base
    BY DEF Free, Tear, History
  <2>4. hist'[r].base = hist[r].base
    <3>1. CASE Cleanup
      BY <3>1 DEF Cleanup
    <3>2. CASE Tick
      BY <3>2, <1>0, <2>3 DEF Tick, NoteUnbanned
    <3>3. CASE \E e \in Devices : Unban(e)
      BY <3>3, <1>0, <2>3 DEF Unban, NoteUnbanned
    <3>4. CASE \E e \in Devices : DeleteDevice(e)
      BY <3>4, <1>0, <2>3 DEF DeleteDevice
    <3>5. CASE \E e \in Devices, mode \in Modes, listed, pattern \in SUBSET Names :
                 UpdatePolicy(e, mode, listed, pattern)
      BY <3>5, <1>0, <2>3, VerdictIsBoolean DEF UpdatePolicy, NoteChange
    <3> QED
      BY <1>8, <3>1, <3>2, <3>3, <3>4, <3>5
  <2> QED
    BY <1>2, <2>1, <2>2, <2>4
<1> QED
  BY <1>1, <1>3, <1>5, <1>6, <1>7, <1>8 DEF Next

-----------------------------------------------------------------------------
LEMMA Inductive == Spec => []IInv
<1>1. Init => IInv
  <2> SUFFICES ASSUME Init PROVE IInv
    OBVIOUS
  <2>1. AbsentRowIsEmpty
    BY DEF Init, AbsentRowIsEmpty
  <2>2. CountKnown
    BY DEF Init, CountKnown, Known, Idle, Unanswered, Violating
  <2> QED
    BY <2>1, <2>2, InitType DEF IInv
<1>2. IInv /\ [Next]_vars => IInv'
  BY NextType, AbsentRowNext, CountKnownNext DEF IInv
<1> QED
  BY <1>1, <1>2, PTL DEF Spec

\* Whoever is told that it violated the policy has been punished, by its own
\* ban or by one that a concurrent request put on the books after its check.
THEOREM ViolationsAreAnswered == Spec => []ViolationAnswered
<1>1. IInv => ViolationAnswered
  BY DEF IInv, CountKnown, Known, ViolationAnswered
<1> QED
  BY <1>1, Inductive, PTL

\* Concurrent violations escalate once: a ban in force is never restarted,
\* extended or counted again, however many requests race.
THEOREM BansAreAppliedOnce == Spec => BanNeverReapplied
<1> DEFINE A == \A d \in Devices :
                  Active(ban[d], now) /\ Active(ban'[d], now') => ban'[d] = ban[d]
<1>1. IInv /\ [Next]_vars => [A]_vars
  <2> SUFFICES ASSUME IInv, Next, NEW d \in Devices,
                      Active(ban[d], now), Active(ban'[d], now')
               PROVE  ban'[d] = ban[d]
    OBVIOUS
  <2> USE DEF IInv
  <2>1. d \in devices' /\ RowStep(d) /\ d \in devices /\ ban[d] \in BanRows
    <3>1. d \in devices'
      BY NextType DEF TypeOK, Active, NoBan
    <3> QED
      BY <3>1, RowSteps DEF TypeOK
  <2>2. ban'[d] # NewBan /\ ban'[d] # Lifted(ban[d])
    BY DEF Active, NewBan, Lifted
  <2>3. ~ \E r \in Requests : req[r].pc = "apply" /\ req[r].dev = d /\ req[r].seen = ban[d].count
    BY <2>1 DEF CountKnown, Known, Ahead
  <2> QED
    BY <2>1, <2>2, <2>3 DEF RowStep
<1> QED
  BY <1>1, Inductive, PTL DEF Spec, BanNeverReapplied
-----------------------------------------------------------------------------
(***************************************************************************)
(* A decision is the verdict of the policy that was read, unless the       *)
(* policy was replaced between the two reads.                              *)
(***************************************************************************)
\* Verdicts v holds the outcome of the formula f.
Holds(f, v) == (f => TRUE \in v) /\ (~f => FALSE \in v)

LEMMA HoldsItself == ASSUME NEW f \in BOOLEAN PROVE Holds(f, {f})
<1>1. CASE f = TRUE
  BY <1>1 DEF Holds
<1>2. CASE f = FALSE
  BY <1>2 DEF Holds
<1> QED
  BY <1>1, <1>2

\* Between its two reads a request knows the mode and the pattern; the keys that
\* are stored give the verdict it noted.
Judged(q, h, listed) ==
    ~h.torn =>
      /\ q.pc = "keys" => Holds(Allows(q.mode, listed, q.pattern, q.name), h.verdicts)
      /\ q.pc = "granted" => TRUE \in h.verdicts
      /\ q.pc \in Violating \cup {"violated"} => FALSE \in h.verdicts

AllJudged == \A r \in Requests : Judged(req[r], hist[r], keys[req[r].dev])

\* How a step that reads no policy moves a request.
Moves(q, p) ==
    /\ p.dev = q.dev
    /\ \/ q.pc = "authn" /\ p.pc \in {"authz", "banned"}
       \/ q.pc = "authz" /\ p.pc \in {"mode", "banned"}
       \/ q.pc = "insert" /\ p.pc \in {"select", "failed"}
       \/ q.pc = "select" /\ p.pc \in {"apply", "violated", "failed"}
       \/ q.pc = "apply" /\ p.pc = "violated"
       \/ q.pc \in Running /\ p.pc = "failed"

LEMMA StepMoves ==
  ASSUME TypeOK, NEW r \in Requests, Step(r) \/ Abort(r), ~LoadMode(r), ~LoadKeys(r)
  PROVE  Moves(req[r], req'[r])
<1>0. req \in [Requests -> Request] /\ req[r] \in Request
  BY DEF TypeOK
<1>1. ASSUME NEW label, Goto(r, label)
      PROVE  req'[r].dev = req[r].dev /\ req'[r].pc = label
  BY <1>0, <1>1 DEF Goto, Request
<1>2. CASE CheckBanAuthn(r)
  BY <1>1, <1>2 DEF CheckBanAuthn, Moves
<1>3. CASE CheckBanAuthz(r)
  BY <1>1, <1>3 DEF CheckBanAuthz, Moves
<1>4. CASE EnsureBanRow(r)
  BY <1>1, <1>4 DEF EnsureBanRow, Moves
<1>5. CASE ReadBanRow(r)
  BY <1>0, <1>5 DEF ReadBanRow, Moves, Request
<1>6. CASE ApplyBan(r)
  BY <1>1, <1>6 DEF ApplyBan, Moves
<1>7. CASE Abort(r)
  BY <1>1, <1>7 DEF Abort, Moves
<1> QED
  BY <1>2, <1>3, <1>4, <1>5, <1>6, <1>7 DEF Step

LEMMA ReadMoves ==
  ASSUME TypeOK, NEW r \in Requests, LoadMode(r) \/ LoadKeys(r)
  PROVE  req[r].pc \in {"mode", "keys"} /\ req'[r].dev = req[r].dev
<1>0. req \in [Requests -> Request] /\ req[r] \in Request
  BY DEF TypeOK
<1>1. CASE LoadMode(r)
  BY <1>0, <1>1 DEF LoadMode, Request
<1>2. CASE LoadKeys(r)
  BY <1>0, <1>2 DEF LoadKeys, Goto, Request
<1> QED
  BY <1>1, <1>2

\* Once a request was told, only its label matters.
LEMMA JudgedLater ==
  ASSUME NEW q \in Request, NEW h, NEW listed, Judged(q, h, listed),
         NEW p \in Request, p.pc \notin {"keys", "granted"},
         p.pc \in Violating \cup {"violated"} => q.pc \in Violating \cup {"violated"},
         NEW g, g.torn = h.torn, g.verdicts = h.verdicts, NEW other
  PROVE  Judged(p, g, other)
BY DEF Judged

LEMMA DecidedIsJudged ==
  ASSUME NEW q \in Request, NEW h, NEW listed, NEW f \in BOOLEAN, NEW p \in Request,
         p.pc = Decided(f), ~h.torn => Holds(f, h.verdicts)
  PROVE  Judged(p, h, listed)
<1>1. CASE f = TRUE
  BY <1>1 DEF Decided, Holds, Judged, Violating
<1>2. CASE f = FALSE
  BY <1>2 DEF Decided, Holds, Judged, Violating
<1> QED
  BY <1>1, <1>2

\* Steps of the request itself.
LEMMA OwnJudged ==
  ASSUME TypeOK, AllJudged, NEW r \in Requests, Step(r) \/ Abort(r)
  PROVE  Judged(req'[r], hist'[r], keys'[req'[r].dev])
<1>0. /\ req[r] \in Request /\ req'[r] \in Request /\ hist[r] \in History
      /\ hist'[r] \in History /\ Judged(req[r], hist[r], keys[req[r].dev])
  BY NextType, RequestFields DEF TypeOK, Next, AllJudged
<1>1. CASE LoadMode(r)
  <2> DEFINE p == policy[req[r].dev]
             f == Allows(p.mode, keys[req[r].dev], p.pattern, req[r].name)
             g == Allows(p.mode, {}, p.pattern, req[r].name)
  <2>1. f \in BOOLEAN /\ g \in BOOLEAN
    BY VerdictIsBoolean
  <2>2. /\ req'[r].mode = p.mode /\ req'[r].pattern = p.pattern /\ req'[r].name = req[r].name
        /\ req'[r].dev = req[r].dev
        /\ req'[r].pc = IF NeedsKeys(p.mode) THEN "keys" ELSE Decided(g)
    BY <1>1, <1>0 DEF LoadMode, TypeOK, Request
  <2>3. hist'[r].verdicts = {f} /\ UNCHANGED keys
    BY <1>1, <1>0 DEF LoadMode, TypeOK, History
  <2>4. Holds(f, hist'[r].verdicts)
    BY <2>1, <2>3, HoldsItself
  <2>5. CASE NeedsKeys(p.mode)
    <3>1. req'[r].pc = "keys"
      BY <2>2, <2>5
    <3>2. Holds(Allows(req'[r].mode, keys'[req'[r].dev], req'[r].pattern, req'[r].name),
                hist'[r].verdicts)
      BY <2>2, <2>3, <2>4
    <3> QED
      BY <3>1, <3>2 DEF Judged, Violating
  <2>6. CASE ~NeedsKeys(p.mode)
    <3>1. f = g
      BY <2>6 DEF NeedsKeys, ListModes, Allows
    <3>2. req'[r].pc = Decided(f)
      BY <2>2, <2>6, <3>1
    <3> HIDE DEF f
    <3> QED
      BY <1>0, <2>1, <2>4, <3>2, DecidedIsJudged
  <2> QED
    BY <2>5, <2>6
<1>2. CASE LoadKeys(r)
  <2> DEFINE f == Allows(req[r].mode, keys[req[r].dev], req[r].pattern, req[r].name)
  <2>1. f \in BOOLEAN
    BY VerdictIsBoolean
  <2>2. req'[r].pc = Decided(f) /\ hist'[r] = hist[r] /\ req[r].pc = "keys"
    BY <1>2, <1>0 DEF LoadKeys, Goto, TypeOK, Request
  <2>3. ~hist'[r].torn => Holds(f, hist'[r].verdicts)
    BY <1>0, <2>2 DEF Judged
  <2> HIDE DEF f
  <2> QED
    BY <1>0, <2>1, <2>2, <2>3, DecidedIsJudged
<1>3. CASE ~LoadMode(r) /\ ~LoadKeys(r)
  <2>1. /\ req'[r].pc \notin {"keys", "granted"}
        /\ req'[r].pc \in Violating \cup {"violated"} => req[r].pc \in Violating \cup {"violated"}
    BY <1>3, StepMoves DEF Moves, Violating
  <2>2. hist'[r].torn = hist[r].torn /\ hist'[r].verdicts = hist[r].verdicts
    BY <1>0, <1>3
    DEF Step, CheckBanAuthn, CheckBanAuthz, EnsureBanRow, ReadBanRow, ApplyBan, Abort,
        TypeOK, History
  <2> QED
    BY <1>0, <2>1, <2>2, JudgedLater
<1> QED
  BY <1>1, <1>2, <1>3

\* Another request, the cleanup: nothing a request was judged by changes.
LEMMA OthersJudged ==
  ASSUME AllJudged, NEW r \in Requests,
         req'[r] = req[r], keys'[req[r].dev] = keys[req[r].dev],
         hist'[r] = hist[r] \/ hist'[r] = Free(hist[r]), hist[r] \in History
  PROVE  Judged(req'[r], hist'[r], keys'[req'[r].dev])
<1>1. hist'[r].torn = hist[r].torn /\ hist'[r].verdicts = hist[r].verdicts
  BY DEF Free, History
<1> QED
  BY <1>1 DEF AllJudged, Judged

\* The owner replaces or deletes a policy: a request between its reads is torn.
LEMMA TornJudged ==
  ASSUME AllJudged, NEW r \in Requests, req'[r] = req[r], hist[r] \in History,
         \/ req[r].pc = "keys" /\ hist'[r].torn
         \/ req[r].pc # "keys" /\ hist'[r] \in {hist[r], Free(hist[r])}
  PROVE  Judged(req'[r], hist'[r], keys'[req'[r].dev])
<1>1. CASE req[r].pc = "keys"
  BY <1>1 DEF Judged
<1>2. CASE req[r].pc # "keys"
  <2>1. hist'[r].torn = hist[r].torn /\ hist'[r].verdicts = hist[r].verdicts
    BY <1>2 DEF Free, History
  <2> QED
    BY <1>2, <2>1 DEF AllJudged, Judged
<1> QED
  BY <1>1, <1>2

LEMMA JudgedNext == TypeOK /\ AllJudged /\ [Next]_vars => AllJudged'
<1> SUFFICES ASSUME TypeOK, AllJudged, [Next]_vars, NEW r \in Requests
             PROVE  Judged(req'[r], hist'[r], keys'[req'[r].dev])
  BY DEF AllJudged
<1>0. hist[r] \in History /\ req[r] \in Request
  BY RequestFields
<1>1. CASE \E x \in Requests : Step(x) \/ Abort(x)
  <2>1. PICK x \in Requests : Step(x) \/ Abort(x)
    BY <1>1
  <2>2. CASE x = r
    BY <2>1, <2>2, OwnJudged
  <2>3. CASE x # r
    <3>1. req'[r] = req[r] /\ hist'[r] = hist[r] /\ keys' = keys
      BY <2>1, <2>3
      DEF Step, CheckBanAuthn, CheckBanAuthz, LoadMode, LoadKeys, EnsureBanRow, ReadBanRow,
          ApplyBan, Abort, Goto, TypeOK
    <3> QED
      BY <1>0, <3>1, OthersJudged
  <2> QED
    BY <2>2, <2>3
<1>2. CASE \E x \in Requests, d \in Devices, n \in Names : Arrive(x, d, n)
  <2>1. PICK x \in Requests, d \in Devices, n \in Names : Arrive(x, d, n)
    BY <1>2
  <2>2. CASE x = r
    <3>1. req'[r].pc = "authn"
      BY <2>1, <2>2 DEF Arrive, TypeOK, Idle
    <3> QED
      BY <3>1 DEF Judged, Violating
  <2>3. CASE x # r
    BY <1>0, <2>1, <2>3, OthersJudged DEF Arrive, TypeOK
  <2> QED
    BY <2>2, <2>3
<1>3. CASE \E d \in Devices : Unban(d)
  BY <1>0, <1>3, OthersJudged DEF Unban, NoteUnbanned
<1>4. CASE \E d \in Devices : DeleteDevice(d)
  <2>1. PICK d \in Devices : DeleteDevice(d)
    BY <1>4
  <2>2. CASE req[r].dev # d
    BY <1>0, <2>1, <2>2, OthersJudged DEF DeleteDevice, TypeOK, Request
  <2>3. CASE req[r].dev = d
    <3>1. req[r].pc = "keys" => hist'[r].torn
      BY <1>0, <2>1, <2>3 DEF DeleteDevice, Free, Tear, History
    <3>2. req[r].pc # "keys" => hist'[r] = Free(hist[r])
      BY <2>1, <2>3 DEF DeleteDevice
    <3> QED
      BY <1>0, <2>1, <3>1, <3>2, TornJudged DEF DeleteDevice
  <2> QED
    BY <2>2, <2>3
<1>5. CASE \E d \in Devices, mode \in Modes, listed, pattern \in SUBSET Names :
             UpdatePolicy(d, mode, listed, pattern)
  <2>1. PICK d \in Devices, mode \in Modes, listed \in SUBSET Names, pattern \in SUBSET Names :
             UpdatePolicy(d, mode, listed, pattern)
    BY <1>5
  <2>2. CASE req[r].dev # d
    BY <1>0, <2>1, <2>2, OthersJudged DEF UpdatePolicy, NoteChange, TypeOK, Request
  <2>3. CASE req[r].dev = d
    <3>1. req[r].pc = "keys" => hist'[r].torn
      BY <1>0, <2>1, <2>3 DEF UpdatePolicy, NoteChange, Tear, History
    <3>2. req[r].pc # "keys" => hist'[r] = hist[r]
      BY <2>1, <2>3 DEF UpdatePolicy, NoteChange
    <3> QED
      BY <1>0, <2>1, <3>1, <3>2, TornJudged DEF UpdatePolicy
  <2> QED
    BY <2>2, <2>3
<1>6. CASE Cleanup
  BY <1>0, <1>6, OthersJudged DEF Cleanup
<1>7. CASE Tick
  BY <1>0, <1>7, OthersJudged DEF Tick, NoteUnbanned
<1>8. CASE UNCHANGED vars
  BY <1>0, <1>8, OthersJudged DEF vars
<1> QED
  BY <1>1, <1>2, <1>3, <1>4, <1>5, <1>6, <1>7, <1>8 DEF Next

\* load_policy reads the mode and the keys in two statements; a request whose policy
\* stays put between them is decided by that policy, not by a mixture.
THEOREM DecisionsAreUntorn == Spec => []UntornDecision
<1>1. Init => AllJudged
  <2>1. Idle.pc = "idle"
    BY DEF Idle
  <2> QED
    BY <2>1 DEF Init, AllJudged, Judged, Violating
<1>2. AllJudged => UntornDecision
  BY DEF AllJudged, Judged, UntornDecision
<1> QED
  BY <1>1, <1>2, JudgedNext, TypeCorrect, PTL DEF Spec

-----------------------------------------------------------------------------
(***************************************************************************)
(* A banned device waits.  A request notes every moment at which its       *)
(* device is not banned, so the clear ban check is such a moment.          *)
(***************************************************************************)
Watched(q, h, row, time) ==
    /\ q.pc # "idle" /\ ~Active(row, time) => h.unbanned
    /\ q.pc \in Cleared => h.unbanned
AllWatched == \A r \in Requests : Watched(req[r], hist[r], ban[req[r].dev], now)

\* A step that is none of the owner's or the clock's ends no ban.
LEMMA BanLasts ==
  ASSUME IInv, NEW d \in Devices, \E x \in Requests : Step(x) \/ Abort(x), Active(ban[d], now)
  PROVE  Active(ban'[d], now')
<1>1. PICK x \in Requests : Step(x) \/ Abort(x)
  OBVIOUS
<1>2. d \in devices
  BY DEF IInv, TypeOK, Active, NoBan
<1>3. now' = now
  BY <1>1 DEF Step, CheckBanAuthn, CheckBanAuthz, LoadMode, LoadKeys, EnsureBanRow, ReadBanRow,
       ApplyBan, Abort
<1>4. CASE EnsureBanRow(x)
  BY <1>3, <1>4 DEF EnsureBanRow, IInv, AbsentRowIsEmpty, TypeOK, Active, NoBan
<1>5. CASE ApplyBan(x)
  <2>1. req[x].dev = d => ~OwnsTheBan(x)
    BY <1>2, <1>5 DEF ApplyBan, IInv, CountKnown, Known, Ahead, OwnsTheBan
  <2>2. ban'[d] = ban[d]
    BY <1>5, <2>1 DEF ApplyBan, IInv, TypeOK
  <2> QED
    BY <1>3, <2>2
<1>6. CASE ~EnsureBanRow(x) /\ ~ApplyBan(x)
  BY <1>1, <1>3, <1>6
  DEF Step, CheckBanAuthn, CheckBanAuthz, LoadMode, LoadKeys, ReadBanRow, Abort
<1> QED
  BY <1>4, <1>5, <1>6

LEMMA OwnWatched ==
  ASSUME IInv, AllWatched, NEW r \in Requests, Step(r) \/ Abort(r)
  PROVE  Watched(req'[r], hist'[r], ban'[req'[r].dev], now')
<1>0. /\ req[r] \in Request /\ req[r].dev \in Devices /\ hist[r] \in History
      /\ Watched(req[r], hist[r], ban[req[r].dev], now)
  BY RequestFields DEF IInv, AllWatched
<1>1. req'[r].dev = req[r].dev /\ req[r].pc # "idle"
  BY StepMoves, ReadMoves DEF IInv, Moves, Running, Violating
<1>2. hist'[r].unbanned = hist[r].unbanned
  <2>1. CASE CheckBanAuthz(r)
    BY <1>0, <2>1 DEF CheckBanAuthz, IInv, TypeOK, History
  <2>2. CASE LoadMode(r)
    BY <1>0, <2>2 DEF LoadMode, IInv, TypeOK, History
  <2>3. CASE ~CheckBanAuthz(r) /\ ~LoadMode(r)
    BY <2>3 DEF Step, CheckBanAuthn, LoadKeys, EnsureBanRow, ReadBanRow, ApplyBan, Abort
  <2> QED
    BY <2>1, <2>2, <2>3
<1>3. ~Active(ban'[req'[r].dev], now') => hist'[r].unbanned
  BY <1>0, <1>1, <1>2, BanLasts DEF Watched
<1>4. req'[r].pc \in Cleared => hist'[r].unbanned
  <2>1. CASE CheckBanAuthz(r)
    BY <1>0, <1>1, <1>2, <2>1
    DEF CheckBanAuthz, NotBanned, Watched, Goto, IInv, TypeOK, Cleared, Violating
  <2>2. CASE ~CheckBanAuthz(r)
    <3>1. req'[r].pc \in Cleared => req[r].pc \in Cleared
      <4>1. CASE LoadMode(r) \/ LoadKeys(r)
        BY <4>1, ReadMoves DEF IInv, Cleared
      <4>2. CASE ~LoadMode(r) /\ ~LoadKeys(r)
        <5>1. CASE Abort(r)
          BY <5>1, <1>0 DEF Abort, Goto, IInv, TypeOK, Cleared, Violating
        <5>2. CASE ~Abort(r)
          <6>1. req[r].pc # "authz"
            BY <2>2, <4>2, <5>2 DEF Step, CheckBanAuthn, EnsureBanRow, ReadBanRow, ApplyBan
          <6> QED
            BY <4>2, <6>1, StepMoves DEF IInv, Moves, Cleared, Violating
        <5> QED
          BY <5>1, <5>2
      <4> QED
        BY <4>1, <4>2
    <3> QED
      BY <1>0, <1>2, <3>1 DEF Watched
  <2> QED
    BY <2>1, <2>2
<1> QED
  BY <1>3, <1>4 DEF Watched

\* A request that does not move keeps its note, and makes one when a ban ends.
LEMMA OthersWatched ==
  ASSUME IInv, AllWatched, NEW r \in Requests, req'[r] = req[r],
         hist[r].unbanned => hist'[r].unbanned,
         ~Active(ban'[req[r].dev], now') => ~Active(ban[req[r].dev], now) \/ hist'[r].unbanned
  PROVE  Watched(req'[r], hist'[r], ban'[req'[r].dev], now')
BY DEF AllWatched, Watched

LEMMA WatchedNext == IInv /\ AllWatched /\ [Next]_vars => AllWatched'
<1> SUFFICES ASSUME IInv, AllWatched, [Next]_vars, NEW r \in Requests
             PROVE  Watched(req'[r], hist'[r], ban'[req'[r].dev], now')
  BY DEF AllWatched
<1>0. hist[r] \in History /\ req[r].dev \in Devices
  BY RequestFields DEF IInv
<1>f. Free(hist[r]).unbanned
  BY <1>0 DEF Free, History
<1>1. CASE \E x \in Requests : Step(x) \/ Abort(x)
  <2>1. PICK x \in Requests : Step(x) \/ Abort(x)
    BY <1>1
  <2>2. CASE x = r
    BY <2>1, <2>2, OwnWatched
  <2>3. CASE x # r
    <3>1. req'[r] = req[r] /\ hist'[r] = hist[r]
      BY <2>1, <2>3
      DEF Step, CheckBanAuthn, CheckBanAuthz, LoadMode, LoadKeys, EnsureBanRow, ReadBanRow,
          ApplyBan, Abort, Goto, IInv, TypeOK
    <3> QED
      BY <1>0, <1>1, <3>1, BanLasts, OthersWatched
  <2> QED
    BY <2>2, <2>3
<1>2. CASE \E x \in Requests, d \in Devices, n \in Names : Arrive(x, d, n)
  <2>1. PICK x \in Requests, d \in Devices, n \in Names : Arrive(x, d, n)
    BY <1>2
  <2>2. CASE x = r
    <3>1. req'[r].pc = "authn" /\ req'[r].dev = d
      BY <2>1, <2>2 DEF Arrive, IInv, TypeOK, Idle
    <3>2. ~Active(ban[d], now) => hist'[r].unbanned
      BY <2>1, <2>2 DEF Arrive, IInv, TypeOK, Free, NoHistory
    <3> QED
      BY <2>1, <3>1, <3>2 DEF Watched, Arrive, Cleared, Violating
  <2>3. CASE x # r
    BY <2>1, <2>3, OthersWatched DEF Arrive, IInv, TypeOK
  <2> QED
    BY <2>2, <2>3
<1>3. CASE \E d \in Devices : Unban(d)
  BY <1>3, <1>f, OthersWatched DEF Unban, NoteUnbanned
<1>4. CASE \E d \in Devices : DeleteDevice(d)
  <2>1. PICK d \in Devices : DeleteDevice(d)
    BY <1>4
  <2>2. CASE req[r].dev # d
    BY <1>0, <2>1, <2>2, OthersWatched DEF DeleteDevice, IInv, TypeOK
  <2>3. CASE req[r].dev = d
    <3>1. hist'[r].unbanned
      BY <1>0, <1>f, <2>1, <2>3 DEF DeleteDevice, Free, Tear, History
    <3> QED
      BY <2>1, <3>1, OthersWatched DEF DeleteDevice
  <2> QED
    BY <2>2, <2>3
<1>5. CASE \E d \in Devices, mode \in Modes, listed, pattern \in SUBSET Names :
             UpdatePolicy(d, mode, listed, pattern)
  <2>1. /\ UNCHANGED <<req, ban, now>>
        /\ \E v : hist'[r] \in {hist[r], Tear(hist[r], v)}
    BY <1>5 DEF UpdatePolicy, NoteChange
  <2>2. hist[r].unbanned => hist'[r].unbanned
    BY <1>0, <2>1 DEF Tear, History
  <2> QED
    BY <2>1, <2>2, OthersWatched
<1>6. CASE Cleanup
  <2>1. Active(ban[req[r].dev], now) => ban'[req[r].dev] = ban[req[r].dev]
    BY <1>0, <1>6 DEF Cleanup, Active, Expired, IInv, TypeOK, BanRows
  <2> QED
    BY <1>6, <2>1, OthersWatched DEF Cleanup
<1>7. CASE Tick
  BY <1>7, <1>f, OthersWatched DEF Tick, NoteUnbanned
<1>8. CASE UNCHANGED vars
  BY <1>8, OthersWatched DEF vars
<1> QED
  BY <1>1, <1>2, <1>3, <1>4, <1>5, <1>6, <1>7, <1>8 DEF Next

\* A request sent while its device is banned is let through only after a moment at
\* which the ban was over, whichever of expiry, unban and cleanup ended it.
THEOREM BannedDevicesWait == Spec => []BannedDeviceWaits
<1>1. Init => AllWatched
  BY DEF Init, AllWatched, Watched, Idle, Cleared, Violating
<1>2. AllWatched => BannedDeviceWaits
  BY DEF AllWatched, Watched, Cleared, BannedDeviceWaits
<1> QED
  BY <1>1, <1>2, WatchedNext, Inductive, PTL DEF Spec
-----------------------------------------------------------------------------
(***************************************************************************)
(* The ledger: seen without requests, a violation and its ban are one step.*)
(***************************************************************************)
Book(row) == [banned |-> row.banned, until |-> row.until, count |-> row.count]
Books == [d \in Devices |-> [banned |-> ban[d].banned, until |-> ban[d].until,
                             count |-> ban[d].count]]
LedgerStep == Ledger!Next \/ UNCHANGED <<now, devices, Books>>

LEMMA BookOf == /\ \A d \in Devices : Books[d] = Book(ban[d])
                /\ \A d \in Devices : Books'[d] = Book(ban'[d])
                /\ Books = [d \in Devices |-> Book(ban[d])]
                /\ Books' = [d \in Devices |-> Book(ban'[d])]
BY DEF Books, Book

LEMMA BooksStay ==
  ASSUME UNCHANGED <<now, devices>>, \A d \in Devices : Book(ban'[d]) = Book(ban[d])
  PROVE  LedgerStep
<1>1. Books' = Books
  BY BookOf
<1> QED
  BY <1>1 DEF LedgerStep

LEMMA OffendsStep == ASSUME NEW d \in Devices, Ledger!Offend(d) PROVE LedgerStep
BY DEF LedgerStep, Ledger!Next

\* The UPDATE that matches finds a device that exists and is not banned.
LEMMA ApplyLedger == ASSUME IInv, NEW r \in Requests, ApplyBan(r) PROVE LedgerStep
<1>0. PICK d \in Devices : d = req[r].dev
  BY RequestFields DEF IInv
<1> DEFINE nth == req[r].seen + 1
           end == now + BanDuration(nth)
<1>a. UNCHANGED <<now, devices>>
  BY DEF ApplyBan
<1>1. CASE ~OwnsTheBan(r)
  BY <1>a, <1>1, BooksStay DEF ApplyBan
<1>2. CASE OwnsTheBan(r)
  <2>1. /\ ban' = [ban EXCEPT ![d] = [@ EXCEPT !.banned = TRUE, !.count = nth, !.until = end]]
        /\ ban[d].present /\ ban[d].count = req[r].seen /\ req[r].pc = "apply"
    BY <1>0, <1>2 DEF ApplyBan, OwnsTheBan
  <2>2. d \in devices
    BY <1>0, <2>1 DEF IInv, TypeOK, NoBan
  <2>3. ~Active(ban[d], now)
    BY <1>0, <2>1, <2>2 DEF IInv, CountKnown, Known, Ahead
  <2>4. nth = ban[d].count + 1 /\ end = now + BanDuration(ban[d].count + 1)
    BY <2>1
  <2> HIDE DEF nth, end
  <2>5. /\ Book(ban'[d]) = [banned |-> TRUE, until |-> end, count |-> nth]
        /\ \A e \in Devices : e # d => ban'[e] = ban[e]
    BY <1>0, <2>1 DEF IInv, TypeOK, BanRows, Book
  <2>6. Books' = [Books EXCEPT ![d] = [banned |-> TRUE, until |-> end, count |-> nth]]
    BY <1>0, <2>5, BookOf
  <2>7. Books[d].count = ban[d].count /\ Books[d].banned = ban[d].banned
        /\ Books[d].until = ban[d].until
    BY <1>0, BookOf DEF Book
  <2>8. ~(Books[d].banned /\ Books[d].until > now)
    BY <2>3, <2>7 DEF Active
  <2>9. Books' = [Books EXCEPT ![d] = [banned |-> TRUE,
                                       until |-> now + BanDuration(Books[d].count + 1),
                                       count |-> Books[d].count + 1]]
    BY <2>4, <2>6, <2>7
  <2>10. Ledger!Offend(d)
    BY <1>a, <2>2, <2>8, <2>9 DEF Ledger!Offend, Ledger!Serving, Books
  <2> QED
    BY <2>10, OffendsStep
<1> QED
  BY <1>1, <1>2

LEMMA StepLedger == ASSUME IInv, NEW r \in Requests, Step(r) \/ Abort(r) PROVE LedgerStep
<1>1. CASE EnsureBanRow(r)
  <2>1. UNCHANGED <<now, devices>>
    BY <1>1 DEF EnsureBanRow
  <2>2. ASSUME NEW d \in Devices PROVE Book(ban'[d]) = Book(ban[d])
    <3>1. ban'[d] = ban[d] \/ (~ban[d].present /\ ban'[d] = NewBan)
      BY <1>1 DEF EnsureBanRow, IInv, TypeOK
    <3>2. ~ban[d].present => ban[d] = NoBan
      BY DEF IInv, AbsentRowIsEmpty
    <3>3. Book(NewBan) = Book(NoBan)
      BY DEF NewBan, NoBan, Book
    <3> QED
      BY <3>1, <3>2, <3>3
  <2> QED
    BY <2>1, <2>2, BooksStay
<1>2. CASE ApplyBan(r)
  BY <1>2, ApplyLedger
<1>3. CASE ~EnsureBanRow(r) /\ ~ApplyBan(r)
  <2>1. UNCHANGED <<now, devices, ban>>
    BY <1>3 DEF Step, CheckBanAuthn, CheckBanAuthz, LoadMode, LoadKeys, ReadBanRow, Abort
  <2> QED
    BY <2>1, BooksStay
<1> QED
  BY <1>1, <1>2, <1>3

Pages == [banned : BOOLEAN, until : Int, count : Nat]

LEMMA SamePage ==
  ASSUME NEW b \in Pages, NEW c \in Pages,
         b.banned = c.banned, b.until = c.until, b.count = c.count
  PROVE  b = c
BY DEF Pages

LEMMA PageUntil == ASSUME NEW m \in Pages PROVE [m EXCEPT !.until = 0] \in Pages
BY SMTT(30) DEF Pages

LEMMA ClearedPage ==
  ASSUME NEW b \in Pages, NEW m, m = [b EXCEPT !.banned = FALSE],
         NEW c, c = [m EXCEPT !.until = 0]
  PROVE  /\ c \in Pages /\ c = [b EXCEPT !.banned = FALSE, !.until = 0]
         /\ c.banned = FALSE /\ c.until = 0 /\ c.count = b.count
<1>1. m \in Pages /\ m.banned = FALSE /\ m.count = b.count
  BY DEF Pages
<1>2. c.banned = m.banned /\ c.until = 0 /\ c.count = m.count
  BY <1>1 DEF Pages
<1>3. c \in Pages
  BY <1>1, PageUntil
<1> QED
  BY <1>1, <1>2, <1>3

LEMMA LiftedBook ==
  ASSUME NEW row \in BanRows
  PROVE  Book(Lifted(row)) = [Book(row) EXCEPT !.banned = FALSE, !.until = 0]
<1> DEFINE m == [Book(row) EXCEPT !.banned = FALSE]
           c == [m EXCEPT !.until = 0]
<1>1. Book(row) \in Pages /\ Book(row).count = row.count
  BY DEF Book, BanRows, Pages
<1>2. /\ Book(Lifted(row)) \in Pages /\ Book(Lifted(row)).banned = FALSE
      /\ Book(Lifted(row)).until = 0 /\ Book(Lifted(row)).count = row.count
  BY DEF Book, Lifted, BanRows, Pages
<1>3. /\ c \in Pages /\ c = [Book(row) EXCEPT !.banned = FALSE, !.until = 0]
      /\ c.banned = FALSE /\ c.until = 0 /\ c.count = Book(row).count
  BY <1>1, ClearedPage
<1> HIDE DEF c
<1>4. c = Book(Lifted(row))
  BY <1>1, <1>2, <1>3, SamePage
<1> QED
  BY <1>3, <1>4

LEMMA UnbanLedger == ASSUME IInv, NEW d \in Devices, Unban(d) PROVE LedgerStep
<1>1. /\ ban' = [ban EXCEPT ![d] = Lifted(ban[d])] /\ UNCHANGED <<now, devices>>
      /\ d \in devices /\ Active(ban[d], now) /\ ban[d] \in BanRows
  BY DEF Unban, IInv, TypeOK
<1>2. Books[d].banned /\ Books[d].until > now
  BY <1>1, BookOf DEF Active, Book
<1>3. Books' = [Books EXCEPT ![d] = [@ EXCEPT !.banned = FALSE, !.until = 0]]
  <2>1. Book(ban'[d]) = [Books[d] EXCEPT !.banned = FALSE, !.until = 0]
    BY <1>1, LiftedBook, BookOf DEF IInv, TypeOK
  <2>2. \A e \in Devices : e # d => Book(ban'[e]) = Books[e]
    BY <1>1, BookOf DEF IInv, TypeOK
  <2> QED
    BY <2>1, <2>2, BookOf
<1>4. Ledger!Lift(d)
  BY <1>1, <1>2, <1>3 DEF Ledger!Lift, Ledger!Serving, Books
<1> QED
  BY <1>4 DEF LedgerStep, Ledger!Next

LEMMA DeleteLedger == ASSUME IInv, NEW d \in Devices, DeleteDevice(d) PROVE LedgerStep
<1>1. /\ ban' = [ban EXCEPT ![d] = NoBan] /\ devices' = devices \ {d} /\ UNCHANGED now
      /\ d \in devices
  BY DEF DeleteDevice
<1>2. Books' = [Books EXCEPT ![d] = [banned |-> FALSE, until |-> 0, count |-> 0]]
  <2>1. Book(ban'[d]) = [banned |-> FALSE, until |-> 0, count |-> 0]
    BY <1>1 DEF IInv, TypeOK, NoBan, Book
  <2>2. \A e \in Devices : e # d => Book(ban'[e]) = Books[e]
    BY <1>1, BookOf DEF IInv, TypeOK
  <2> QED
    BY <2>1, <2>2, BookOf
<1>3. Ledger!Remove(d)
  BY <1>1, <1>2 DEF Ledger!Remove, Ledger!Clean, Books
<1> QED
  BY <1>3 DEF LedgerStep, Ledger!Next

LEMMA CleanupLedger == ASSUME IInv, Cleanup PROVE LedgerStep
<1>1. UNCHANGED <<now, devices>>
  BY DEF Cleanup
<1>2. ASSUME NEW d \in Devices
      PROVE  Book(ban'[d]) = IF Books[d].banned /\ Books[d].until <= now
                             THEN [Books[d] EXCEPT !.banned = FALSE, !.until = 0]
                             ELSE Books[d]
  <2>1. ban'[d] = IF Expired(ban[d]) THEN Lifted(ban[d]) ELSE ban[d]
    BY DEF Cleanup
  <2>2. Expired(ban[d]) <=> Books[d].banned /\ Books[d].until <= now
    BY BookOf DEF Expired, Book
  <2>3. ban[d] \in BanRows
    BY DEF IInv, TypeOK
  <2> QED
    BY <2>1, <2>2, <2>3, LiftedBook, BookOf
<1>3. Ledger!Sweep
  BY <1>1, <1>2, BookOf DEF Ledger!Sweep, Books
<1> QED
  BY <1>3 DEF LedgerStep, Ledger!Next

LEMMA NextLedger == IInv /\ [Next]_vars => LedgerStep
<1> SUFFICES ASSUME IInv, [Next]_vars PROVE LedgerStep
  OBVIOUS
<1>1. CASE \/ \E r \in Requests, d \in Devices, n \in Names : Arrive(r, d, n)
           \/ \E d \in Devices, mode \in Modes, listed, pattern \in SUBSET Names :
                 UpdatePolicy(d, mode, listed, pattern)
           \/ UNCHANGED vars
  <2>1. UNCHANGED <<now, devices, ban>>
    BY <1>1 DEF Arrive, UpdatePolicy, vars
  <2> QED
    BY <2>1, BooksStay
<1>2. CASE Tick
  <2>1. Ledger!Tick
    BY <1>2 DEF Tick, Ledger!Tick
  <2> QED
    BY <2>1 DEF LedgerStep, Ledger!Next
<1> QED
  BY <1>1, <1>2, StepLedger, UnbanLedger, DeleteLedger, CleanupLedger DEF Next

\* record_violation's three statements, interleaved with everything else, keep the
\* ledger's promise: an offence while banned changes nothing, each ban is for the next
\* term, and counts survive unban and expiry.
THEOREM LedgerImplemented == Spec => ImplementsLedger
<1>1. Init => Ledger!Init
  BY DEF Init, Ledger!Init, Ledger!Clean, NoBan
<1>2. IInv /\ [Next]_vars => [Ledger!Next]_<<now, devices, Books>>
  BY NextLedger DEF LedgerStep
<1>3. Spec => Ledger!Spec
  BY <1>1, <1>2, Inductive, PTL DEF Spec, Ledger!Spec, Ledger!vars, Books
<1> QED
  BY <1>3 DEF ImplementsLedger
=============================================================================
