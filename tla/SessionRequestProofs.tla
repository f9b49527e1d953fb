------------------------ MODULE SessionRequestProofs ------------------------
(***************************************************************************)
(* Theorems about SessionRequest, for any number of devices, challenges,   *)
(* session requests and concurrent calls.                                  *)
(***************************************************************************)
EXTENDS SessionRequest, FiniteSetTheorems, TLAPS

-----------------------------------------------------------------------------
(* The inductive invariant *)

DevicesTyped ==
    devices \subseteq Devices /\ banned \subseteq devices /\ restricted \subseteq devices
ChallengesTyped ==
    /\ challenge \in [Challenges -> ChallengeRows]
    /\ \A c \in Challenges :
          challenge[c].status \in {"pending", "consumed"} => challenge[c].dev \in devices
RequestsTyped ==
    /\ request \in [Items -> RequestRows]
    /\ keys \in [Items -> Nat] /\ minted \in [Items -> Nat]
    /\ \A s \in Items :
          /\ request[s].status \notin {"absent", "deleted"} => request[s].dev \in devices
          /\ request[s].status = "absent" => request[s].dev = None
CountsTyped == received \in [Items -> Nat] /\ lost \in [Items -> Nat]

\* A running call is about a request.
CallsTyped ==
    /\ call \in [Calls -> CallRecords]
    /\ \A k \in Calls : call[k].pc # "idle" => call[k].item \in Items

\* What a request came from was used up.
OriginsSpent ==
    \A s \in Items : \A c \in request[s].origin :
        challenge[c].status \in {"consumed", "deleted"}

\* The token of a request left the server at most once, and not before the claim.
OneCopy(s) ==
    /\ request[s].status \notin {"delivered", "deleted"} =>
         received[s] = 0 /\ lost[s] = 0 /\ Handing(s) = {}
    /\ \/ received[s] + lost[s] \in {0, 1} /\ Handing(s) = {}
       \/ received[s] = 0 /\ lost[s] = 0 /\ \E k \in Calls : Handing(s) = {k}
CopiesBounded == \A s \in Items : OneCopy(s)

IInv == /\ DevicesTyped /\ ChallengesTyped /\ RequestsTyped /\ CountsTyped /\ CallsTyped
        /\ OriginsSpent /\ ChallengeOpensOneRequest /\ TokenMatchesDecision /\ CopiesBounded

LEMMA InvImplies == IInv => TypeOK
BY DEF IInv, DevicesTyped, ChallengesTyped, RequestsTyped, CountsTyped, CallsTyped, TypeOK

LEMMA InitInv == Init => IInv
<1> SUFFICES ASSUME Init PROVE IInv
  OBVIOUS
<1>1. DevicesTyped
  BY DEF Init, DevicesTyped
<1>2. ChallengesTyped
  BY DEF Init, ChallengesTyped, ChallengeRows
<1>3. RequestsTyped /\ CountsTyped
  BY DEF Init, RequestsTyped, RequestRows, CountsTyped
<1>4. CallsTyped
  BY DEF Init, CallsTyped, CallRecords, NoCall, CallStates, Callers
<1>5. OriginsSpent /\ ChallengeOpensOneRequest /\ TokenMatchesDecision
  BY DEF Init, OriginsSpent, ChallengeOpensOneRequest, TokenMatchesDecision, Granted
<1>6. CopiesBounded
  <2>1. ASSUME NEW s \in Items PROVE Handing(s) = {}
    BY DEF Init, Handing, NoCall
  <2> QED
    BY <2>1 DEF Init, CopiesBounded, OneCopy
<1> QED
  BY <1>1, <1>2, <1>3, <1>4, <1>5, <1>6 DEF IInv

-----------------------------------------------------------------------------
(* Parts a step leaves alone *)

LEMMA DevicesKept == ASSUME DevicesTyped, UNCHANGED <<devices, banned, restricted>>
                     PROVE DevicesTyped'
BY DEF DevicesTyped
LEMMA ChallengesKept == ASSUME ChallengesTyped, UNCHANGED <<devices, challenge>>
                        PROVE ChallengesTyped'
BY DEF ChallengesTyped
LEMMA RequestsKept ==
  ASSUME RequestsTyped, TokenMatchesDecision, ChallengeOpensOneRequest,
         UNCHANGED <<devices, request, keys, minted>>
  PROVE  RequestsTyped' /\ TokenMatchesDecision' /\ ChallengeOpensOneRequest'
BY DEF RequestsTyped, TokenMatchesDecision, Granted, ChallengeOpensOneRequest
LEMMA OriginsKept == ASSUME OriginsSpent, UNCHANGED <<challenge, request>> PROVE OriginsSpent'
BY DEF OriginsSpent
LEMMA CallsKept == ASSUME CallsTyped, CountsTyped, UNCHANGED <<call, received, lost>>
                   PROVE CallsTyped' /\ CountsTyped' /\ \A s \in Items : Handing(s)' = Handing(s)
BY DEF CallsTyped, CountsTyped, Handing

\* Where no answer changes hands, a decided request keeps its copies.
LEMMA CopiesKept ==
  ASSUME CopiesBounded, UNCHANGED <<received, lost>>,
         \A s \in Items : Handing(s)' = Handing(s),
         \A s \in Items : request[s].status \in {"delivered", "deleted"}
                            => request'[s].status \in {"delivered", "deleted"}
  PROVE  CopiesBounded'
BY DEF CopiesBounded, OneCopy

LEMMA IdleCall == NoCall \in CallRecords /\ NoCall.pc = "idle"
BY DEF NoCall, CallRecords, CallStates, Callers

\* One call moves, and neither begins nor ends an answer.
LEMMA CallMoves ==
  ASSUME CallsTyped, CountsTyped, NEW k \in Calls, NEW r \in CallRecords,
         call' = [call EXCEPT ![k] = r], r.pc # "idle" => r.item \in Items,
         call[k].pc # "poll_answer", r.pc # "poll_answer", UNCHANGED <<received, lost>>
  PROVE  CallsTyped' /\ CountsTyped' /\ \A s \in Items : Handing(s)' = Handing(s)
<1>1. CallsTyped' /\ CountsTyped'
  BY DEF CallsTyped, CountsTyped
<1>2. ASSUME NEW s \in Items PROVE Handing(s)' = Handing(s)
  BY DEF CallsTyped, Handing
<1> QED
  BY <1>1, <1>2

LEMMA CallReturns ==
  ASSUME CallsTyped, CountsTyped, NEW k \in Calls, Return(k), call[k].pc # "poll_answer",
         UNCHANGED <<received, lost>>
  PROVE  CallsTyped' /\ CountsTyped' /\ \A s \in Items : Handing(s)' = Handing(s)
BY IdleCall, CallMoves DEF Return

LEMMA CallGoes ==
  ASSUME CallsTyped, CountsTyped, NEW k \in Calls, NEW label \in CallStates, Goto(k, label),
         call[k].pc \notin {"idle", "poll_answer"}, label # "poll_answer",
         UNCHANGED <<received, lost>>
  PROVE  CallsTyped' /\ CountsTyped' /\ \A s \in Items : Handing(s)' = Handing(s)
<1> DEFINE r == [call[k] EXCEPT !.pc = label]
<1>1. r \in CallRecords /\ r.pc = label /\ r.item = call[k].item /\ r.item \in Items
  BY DEF CallsTyped, CallRecords
<1>2. call' = [call EXCEPT ![k] = r]
  BY DEF Goto
<1> QED
  BY <1>1, <1>2, CallMoves

-----------------------------------------------------------------------------
(* What the abstract promise sees *)

LEMMA StageValues ==
  /\ Stage("absent") = "absent" /\ Stage("pending") = "open" /\ Stage("approved") = "granted"
  /\ Stage("delivered") = "handed" /\ Stage("rejected") = "refused"
  /\ Stage("expired") = "refused" /\ Stage("deleted") = "gone"
BY DEF Stage

LEMMA CopiesCounted ==
  ASSUME IInv, NEW s \in Items
  PROVE  /\ Handing(s) = {} => Copies(s) = received[s] + lost[s]
         /\ (\E k \in Calls : Handing(s) = {k}) => Copies(s) = received[s] + lost[s] + 1
         /\ request[s].status \notin {"delivered", "deleted"} => Copies(s) = 0
<1>1. received[s] \in Nat /\ lost[s] \in Nat
  BY DEF IInv, CountsTyped
<1>2. Handing(s) = {} => Copies(s) = received[s] + lost[s]
  BY <1>1, FS_EmptySet DEF Copies
<1>3. (\E k \in Calls : Handing(s) = {k}) => Copies(s) = received[s] + lost[s] + 1
  BY <1>1, FS_Singleton DEF Copies
<1>4. request[s].status \notin {"delivered", "deleted"} => Copies(s) = 0
  BY <1>1, <1>2 DEF IInv, CopiesBounded, OneCopy
<1> QED
  BY <1>2, <1>3, <1>4

StageOf(s) == Stage(request[s].status)
HandoverStep ==
    \/ Handover!Next
    \/ UNCHANGED <<[s \in Items |-> Stage(request[s].status)], keys,
                   [s \in Items |-> Copies(s)]>>

LEMMA CopiesSame ==
  ASSUME UNCHANGED <<received, lost>>, NEW s \in Items, Handing(s)' = Handing(s)
  PROVE  Copies(s)' = Copies(s)
BY DEF Copies

LEMMA StaysStep ==
  ASSUME UNCHANGED keys,
         \A s \in Items : StageOf(s)' = StageOf(s) /\ Copies(s)' = Copies(s)
  PROVE  HandoverStep
BY DEF HandoverStep, StageOf

LEMMA QuietStep ==
  ASSUME UNCHANGED <<request, keys, received, lost>>,
         \A s \in Items : Handing(s)' = Handing(s)
  PROVE  HandoverStep
<1>1. \A s \in Items : StageOf(s)' = StageOf(s) /\ Copies(s)' = Copies(s)
  BY CopiesSame DEF StageOf
<1> QED
  BY <1>1, StaysStep

\* One request is opened or refused.
LEMMA MovesStep ==
  ASSUME NEW s \in Items, UNCHANGED keys, \A t \in Items : Copies(t)' = Copies(t),
         \/ StageOf(s) = "absent" /\ StageOf(s)' = "open"
         \/ StageOf(s) = "open" /\ StageOf(s)' = "refused",
         \A t \in Items : t # s => StageOf(t)' = StageOf(t)
  PROVE  HandoverStep
<1>1. Handover!Open(s) \/ Handover!Refuse(s)
  BY DEF Handover!Open, Handover!Refuse, Handover!Move, StageOf
<1> QED
  BY <1>1 DEF HandoverStep, Handover!Next

LEMMA GrantsStep ==
  ASSUME NEW s \in Items, keys' = [keys EXCEPT ![s] = 1],
         \A t \in Items : Copies(t)' = Copies(t),
         StageOf(s) = "open", StageOf(s)' = "granted",
         \A t \in Items : t # s => StageOf(t)' = StageOf(t)
  PROVE  HandoverStep
<1>1. Handover!Grant(s)
  BY DEF Handover!Grant, Handover!Move, StageOf
<1> QED
  BY <1>1 DEF HandoverStep, Handover!Next

LEMMA HandsStep ==
  ASSUME NEW s \in Items, UNCHANGED keys, Copies(s)' = 1,
         \A t \in Items : t # s => Copies(t)' = Copies(t),
         StageOf(s) = "granted", StageOf(s)' = "handed",
         \A t \in Items : t # s => StageOf(t)' = StageOf(t)
  PROVE  HandoverStep
<1>1. Handover!Hand(s)
  BY DEF Handover!Hand, Handover!Move, StageOf
<1> QED
  BY <1>1 DEF HandoverStep, Handover!Next

LEMMA RefusesStep ==
  ASSUME NEW some \in SUBSET Items, UNCHANGED keys, \A t \in Items : Copies(t)' = Copies(t),
         \A s \in some : StageOf(s) = "open",
         \A s \in Items : StageOf(s)' = IF s \in some THEN "refused" ELSE StageOf(s)
  PROVE  HandoverStep
<1>1. Handover!RefuseSome
  BY DEF Handover!RefuseSome, StageOf
<1> QED
  BY <1>1 DEF HandoverStep, Handover!Next

LEMMA VanishesStep ==
  ASSUME NEW some \in SUBSET Items, \A t \in Items : Copies(t)' = Copies(t),
         keys' = [s \in Items |-> IF s \in some THEN 0 ELSE keys[s]],
         \A s \in some : StageOf(s) # "absent",
         \A s \in Items : StageOf(s)' = IF s \in some THEN "gone" ELSE StageOf(s)
  PROVE  HandoverStep
<1>1. Handover!Vanish
  BY DEF Handover!Vanish, StageOf
<1> QED
  BY <1>1 DEF HandoverStep, Handover!Next

-----------------------------------------------------------------------------
(* The requesting device *)

LEMMA ChallengeStep ==
  ASSUME IInv, NEW c \in Challenges, NEW d \in Devices, CreateChallenge(c, d)
  PROVE  IInv' /\ HandoverStep
<1>1. /\ UNCHANGED <<devices, banned, restricted, request, minted, keys, received, lost, call>>
      /\ challenge' = [challenge EXCEPT ![c] = [status |-> "pending", dev |-> d, late |-> FALSE]]
      /\ challenge[c].status = "absent" /\ d \in devices
  BY DEF CreateChallenge
<1>2. ChallengesTyped'
  BY <1>1 DEF IInv, ChallengesTyped, ChallengeRows
<1>3. OriginsSpent'
  BY <1>1 DEF IInv, OriginsSpent, ChallengesTyped
<1>4. CallsTyped' /\ CountsTyped' /\ \A s \in Items : Handing(s)' = Handing(s)
  BY <1>1, CallsKept DEF IInv
<1> QED
  BY <1>1, <1>2, <1>3, <1>4, DevicesKept, RequestsKept, CopiesKept, QuietStep DEF IInv

\* The challenge is consumed with the insertion of the request: it was the origin of
\* none, and is the origin of this one.
LEMMA CreateStep ==
  ASSUME IInv, NEW c \in Challenges, NEW s \in Items, CreateRequest(c, s)
  PROVE  IInv' /\ HandoverStep
<1> DEFINE row == [status |-> "pending", dev |-> challenge[c].dev, late |-> FALSE,
                   envelope |-> FALSE, origin |-> {c}]
<1>1. /\ UNCHANGED <<devices, banned, restricted, minted, keys, received, lost, call>>
      /\ challenge' = [challenge EXCEPT ![c] = [challenge[c] EXCEPT !.status = "consumed"]]
      /\ request' = [request EXCEPT ![s] = row]
      /\ challenge[c].status = "pending" /\ request[s].status = "absent"
  BY DEF CreateRequest, Spent
<1>2. challenge[c] \in ChallengeRows /\ challenge[c].dev \in devices
  BY <1>1 DEF IInv, ChallengesTyped
<1>3. /\ challenge'[c].status = "consumed" /\ challenge'[c].dev = challenge[c].dev
      /\ \A x \in Challenges : x # c => challenge'[x] = challenge[x]
      /\ challenge' \in [Challenges -> ChallengeRows]
  BY <1>1, <1>2 DEF IInv, ChallengesTyped, ChallengeRows
<1>4. /\ request'[s] = row
      /\ \A t \in Items : t # s => request'[t] = request[t]
  BY <1>1 DEF IInv, RequestsTyped
<1>5. ChallengesTyped'
  BY <1>1, <1>2, <1>3 DEF IInv, ChallengesTyped
<1>6. RequestsTyped' /\ TokenMatchesDecision'
  <2>1. row \in RequestRows
    BY <1>2 DEF RequestRows, IInv, DevicesTyped
  <2>2. RequestsTyped'
    BY <1>1, <1>2, <1>4, <2>1 DEF IInv, RequestsTyped
  <2>3. TokenMatchesDecision'
    BY <1>1, <1>4 DEF IInv, RequestsTyped, TokenMatchesDecision, Granted
  <2> QED
    BY <2>2, <2>3
<1>7. \A t \in Items : c \notin request[t].origin
  BY <1>1 DEF IInv, OriginsSpent
<1>8. OriginsSpent'
  <2>1. ASSUME NEW t \in Items, NEW x \in request'[t].origin
        PROVE  challenge'[x].status \in {"consumed", "deleted"}
    <3>1. x \in Challenges
      BY <1>6 DEF RequestsTyped, RequestRows
    <3> QED
      BY <2>1, <1>3, <1>4, <3>1 DEF IInv, OriginsSpent
  <2> QED
    BY <2>1 DEF OriginsSpent
<1>9. ChallengeOpensOneRequest'
  BY <1>4, <1>7 DEF IInv, ChallengeOpensOneRequest
<1>10. CallsTyped' /\ CountsTyped' /\ \A t \in Items : Handing(t)' = Handing(t)
  BY <1>1, CallsKept DEF IInv
<1>11. CopiesBounded'
  BY <1>1, <1>4, <1>10, CopiesKept DEF IInv
<1>12. HandoverStep
  <2>1. StageOf(s) = "absent" /\ StageOf(s)' = "open"
    BY <1>1, <1>4, StageValues DEF StageOf
  <2>2. \A t \in Items : t # s => StageOf(t)' = StageOf(t)
    BY <1>4 DEF StageOf
  <2>3. \A t \in Items : Copies(t)' = Copies(t)
    BY <1>1, <1>10, CopiesSame
  <2> QED
    BY <1>1, <2>1, <2>2, <2>3, MovesStep
<1> QED
  BY <1>1, <1>5, <1>6, <1>8, <1>9, <1>10, <1>11, <1>12, DevicesKept DEF IInv

-----------------------------------------------------------------------------
(* Calls *)

\* A step of a call that changes no row.
LEMMA QuietCall ==
  ASSUME IInv, UnchangedRows, CallsTyped', CountsTyped', \A s \in Items : Handing(s)' = Handing(s)
  PROVE  IInv' /\ HandoverStep
BY DevicesKept, ChallengesKept, RequestsKept, OriginsKept, CopiesKept, QuietStep
DEF IInv, UnchangedRows

LEMMA StartStep ==
  ASSUME IInv, NEW k \in Calls, NEW s \in Items, NEW by \in Callers, NEW b \in BOOLEAN,
         NEW label \in CallStates, label # "poll_answer", Start(k, s, by, b, label)
  PROVE  IInv' /\ HandoverStep
<1> DEFINE r == [NoCall EXCEPT !.pc = label, !.item = s, !.by = by, !.secret = b]
<1>1. r \in CallRecords /\ r.pc = label /\ r.item = s
  BY DEF NoCall, CallRecords
<1>2. CallsTyped' /\ CountsTyped' /\ \A t \in Items : Handing(t)' = Handing(t)
  BY <1>1, CallMoves DEF IInv, Start, UnchangedRows
<1> QED
  BY <1>2, QuietCall DEF Start

LEMMA StartSteps ==
  ASSUME IInv,
         \/ \E k \in Calls, s \in Items, by \in Callers, token \in BOOLEAN :
               StartApprove(k, s, by, token)
         \/ \E k \in Calls, s \in Items, by \in Callers : StartReject(k, s, by)
         \/ \E k \in Calls, s \in Items, secret \in BOOLEAN : StartPoll(k, s, secret)
  PROVE  IInv' /\ HandoverStep
<1>1. {"approve_policy", "reject_policy", "poll_read"} \subseteq CallStates /\ "owner" \in Callers
  BY DEF CallStates, Callers
<1> QED
  BY <1>1, StartStep DEF StartApprove, StartReject, StartPoll

\* Reads: the call moves on or returns.
LEMMA ReadStep ==
  ASSUME IInv, NEW k \in Calls,
         \/ ApproveReadPolicy(k) \/ RejectCheckPolicy(k) \/ RejectCheckOwner(k)
         \/ PollRead(k) \/ PollCheckBan(k)
  PROVE  IInv' /\ HandoverStep
<1>0. /\ UnchangedRows /\ call[k].pc \notin {"idle", "poll_answer"}
      /\ call[k] \in CallRecords /\ call[k].item \in Items
  BY DEF ApproveReadPolicy, RejectCheckPolicy, RejectCheckOwner, PollRead, PollCheckBan,
         IInv, CallsTyped
<1>1. CASE Return(k)
  BY <1>0, <1>1, CallReturns, QuietCall DEF IInv, UnchangedRows
<1>2. ASSUME NEW label \in CallStates, label # "poll_answer", Goto(k, label)
      PROVE  IInv' /\ HandoverStep
  BY <1>0, <1>2, CallGoes, QuietCall DEF IInv, UnchangedRows
<1>3. CASE ApproveReadPolicy(k)
  <2> DEFINE b == call[k].by \in restricted
             r == [call[k] EXCEPT !.pc = "approve_tx", !.limited = b]
  <2>0. b \in BOOLEAN
    OBVIOUS
  <2>2. call' = [call EXCEPT ![k] = r]
    BY <1>3 DEF ApproveReadPolicy
  <2> HIDE DEF b
  <2>1. r \in CallRecords /\ r.pc = "approve_tx" /\ r.item = call[k].item
    BY <1>0, <2>0 DEF CallRecords, CallStates
  <2> QED
    BY <1>0, <2>1, <2>2, CallMoves, QuietCall DEF IInv, UnchangedRows
<1>4. CASE PollRead(k)
  <2> DEFINE r == [call[k] EXCEPT !.pc = "poll_ban",
                                  !.approved = request[call[k].item].status = "approved"]
  <2>1. r \in CallRecords /\ r.pc = "poll_ban" /\ r.item = call[k].item
    BY <1>0 DEF CallRecords, CallStates
  <2>2. Return(k) \/ call' = [call EXCEPT ![k] = r]
    BY <1>4 DEF PollRead
  <2>3. CASE call' = [call EXCEPT ![k] = r]
    BY <1>0, <2>1, <2>3, CallMoves, QuietCall DEF IInv, UnchangedRows
  <2> QED
    BY <1>1, <2>2, <2>3
<1>5. {"reject_owner", "reject_update", "poll_claim"} \subseteq CallStates
  BY DEF CallStates
<1> QED
  BY <1>1, <1>2, <1>3, <1>4, <1>5 DEF RejectCheckPolicy, RejectCheckOwner, PollCheckBan

LEMMA ApproveStep ==
  ASSUME IInv, NEW k \in Calls, ApproveTx(k)
  PROVE  IInv' /\ HandoverStep
<1>0. PICK s \in Items : s = call[k].item
  BY DEF ApproveTx, IInv, CallsTyped
<1>1. /\ UNCHANGED <<devices, banned, restricted, challenge, received, lost>>
      /\ Return(k) /\ call[k].pc = "approve_tx"
  BY DEF ApproveTx
<1>2. CallsTyped' /\ CountsTyped' /\ \A t \in Items : Handing(t)' = Handing(t)
  BY <1>1, CallReturns DEF IInv
<1>3. CASE UNCHANGED <<request, keys, minted>>
  BY <1>1, <1>2, <1>3, QuietCall DEF UnchangedRows
<1>4. CASE ~UNCHANGED <<request, keys, minted>>
  <2>1. /\ request[s].status = "pending" /\ request[s].dev \in devices
        /\ request' = [request EXCEPT ![s].status = "approved", ![s].envelope = TRUE]
        /\ keys' = [keys EXCEPT ![s] = @ + 1]
        /\ minted' = [minted EXCEPT ![s] = @ + 1]
    BY <1>0, <1>4 DEF ApproveTx, Approvable
  <2>2. request[s] \in RequestRows /\ minted[s] = 0 /\ keys[s] = 0
    BY <2>1 DEF IInv, RequestsTyped, TokenMatchesDecision, Granted
  <2>3. /\ request'[s].status = "approved" /\ request'[s].envelope
        /\ request'[s].dev = request[s].dev /\ request'[s].origin = request[s].origin
        /\ request'[s] \in RequestRows
        /\ \A t \in Items : t # s => request'[t] = request[t]
        /\ request' \in [Items -> RequestRows]
    BY <2>1, <2>2 DEF IInv, RequestsTyped, RequestRows
  <2>4. /\ minted' = [minted EXCEPT ![s] = 1] /\ minted'[s] = 1
        /\ keys' = [keys EXCEPT ![s] = 1] /\ keys'[s] = 1
    BY <2>1, <2>2 DEF IInv, RequestsTyped
  <2>5. RequestsTyped'
    BY <1>1, <2>1, <2>3, <2>4 DEF IInv, RequestsTyped
  <2>6. TokenMatchesDecision'
    BY <2>3, <2>4 DEF IInv, RequestsTyped, TokenMatchesDecision, Granted
  <2>7. \A t \in Items : request'[t].origin = request[t].origin
    BY <2>3
  <2>8. OriginsSpent' /\ ChallengeOpensOneRequest'
    BY <1>1, <2>7 DEF IInv, OriginsSpent, ChallengeOpensOneRequest
  <2>9. CopiesBounded'
    BY <1>1, <1>2, <2>1, <2>3, CopiesKept DEF IInv
  <2>10. HandoverStep
    <3>1. StageOf(s) = "open" /\ StageOf(s)' = "granted"
      BY <2>1, <2>3, StageValues DEF StageOf
    <3>2. \A t \in Items : t # s => StageOf(t)' = StageOf(t)
      BY <2>3 DEF StageOf
    <3>3. \A t \in Items : Copies(t)' = Copies(t)
      BY <1>1, <1>2, CopiesSame
    <3> QED
      BY <2>4, <3>1, <3>2, <3>3, GrantsStep
  <2> QED
    BY <1>1, <1>2, <2>5, <2>6, <2>8, <2>9, <2>10, DevicesKept, ChallengesKept DEF IInv
<1> QED
  BY <1>3, <1>4

LEMMA RejectStep ==
  ASSUME IInv, NEW k \in Calls, RejectUpdate(k)
  PROVE  IInv' /\ HandoverStep
<1>0. PICK s \in Items : s = call[k].item
  BY DEF RejectUpdate, IInv, CallsTyped
<1>1. /\ UNCHANGED <<devices, banned, restricted, challenge, minted, keys, received, lost>>
      /\ Return(k) /\ call[k].pc = "reject_update"
  BY DEF RejectUpdate
<1>2. CallsTyped' /\ CountsTyped' /\ \A t \in Items : Handing(t)' = Handing(t)
  BY <1>1, CallReturns DEF IInv
<1>3. CASE UNCHANGED request
  BY <1>1, <1>2, <1>3, QuietCall DEF UnchangedRows
<1>4. CASE ~UNCHANGED request
  <2>1. /\ request[s].status = "pending"
        /\ request' = [request EXCEPT ![s].status = "rejected"]
    BY <1>0, <1>4 DEF RejectUpdate, StillPending
  <2>2. request[s] \in RequestRows
    BY DEF IInv, RequestsTyped
  <2>3. /\ request'[s].status = "rejected" /\ request'[s].envelope = request[s].envelope
        /\ request'[s].dev = request[s].dev /\ request'[s].origin = request[s].origin
        /\ \A t \in Items : t # s => request'[t] = request[t]
        /\ request' \in [Items -> RequestRows]
    BY <2>1, <2>2 DEF IInv, RequestsTyped, RequestRows
  <2>5. RequestsTyped'
    BY <1>1, <2>1, <2>3 DEF IInv, RequestsTyped
  <2>6. TokenMatchesDecision'
    BY <1>1, <2>1, <2>3 DEF IInv, RequestsTyped, TokenMatchesDecision, Granted
  <2>7. \A t \in Items : request'[t].origin = request[t].origin
    BY <2>3
  <2>8. OriginsSpent' /\ ChallengeOpensOneRequest'
    BY <1>1, <2>7 DEF IInv, OriginsSpent, ChallengeOpensOneRequest
  <2>9. CopiesBounded'
    BY <1>1, <1>2, <2>1, <2>3, CopiesKept DEF IInv
  <2>10. HandoverStep
    <3>1. StageOf(s) = "open" /\ StageOf(s)' = "refused"
      BY <2>1, <2>3, StageValues DEF StageOf
    <3>2. \A t \in Items : t # s => StageOf(t)' = StageOf(t)
      BY <2>3 DEF StageOf
    <3>3. \A t \in Items : Copies(t)' = Copies(t)
      BY <1>1, <1>2, CopiesSame
    <3> QED
      BY <1>1, <3>1, <3>2, <3>3, MovesStep
  <2> QED
    BY <1>1, <1>2, <2>5, <2>6, <2>8, <2>9, <2>10, DevicesKept, ChallengesKept DEF IInv
<1> QED
  BY <1>3, <1>4

\* The poller whose UPDATE matched is the only one to hold the answer.
LEMMA ClaimStep ==
  ASSUME IInv, NEW k \in Calls, PollClaim(k)
  PROVE  IInv' /\ HandoverStep
<1>0. PICK s \in Items : s = call[k].item
  BY DEF PollClaim, IInv, CallsTyped
<1>1. /\ UNCHANGED <<devices, banned, restricted, challenge, minted, keys, received, lost>>
      /\ call[k].pc = "poll_claim" /\ call[k] \in CallRecords
  BY DEF PollClaim, IInv, CallsTyped
<1>3. CASE ~Claimable(s)
  BY <1>0, <1>1, <1>3, CallReturns, QuietCall DEF PollClaim, UnchangedRows, IInv
<1>4. CASE Claimable(s)
  <2>1. /\ request[s].status = "approved"
        /\ request' = [request EXCEPT ![s].status = "delivered", ![s].envelope = FALSE]
        /\ call' = [call EXCEPT ![k].pc = "poll_answer"]
    BY <1>0, <1>4 DEF PollClaim, Claimable, Goto
  <2>2. request[s] \in RequestRows
    BY DEF IInv, RequestsTyped
  <2>3. /\ request'[s].status = "delivered" /\ ~request'[s].envelope
        /\ request'[s].dev = request[s].dev /\ request'[s].origin = request[s].origin
        /\ \A t \in Items : t # s => request'[t] = request[t]
        /\ request' \in [Items -> RequestRows]
    BY <2>1, <2>2 DEF IInv, RequestsTyped, RequestRows
  <2>4. /\ call'[k].pc = "poll_answer" /\ call'[k].item = s /\ call'[k] \in CallRecords
        /\ \A x \in Calls : x # k => call'[x] = call[x]
        /\ call' \in [Calls -> CallRecords]
    BY <1>0, <1>1, <2>1 DEF IInv, CallsTyped, CallRecords, CallStates
  <2>5. RequestsTyped'
    BY <1>1, <2>1, <2>3 DEF IInv, RequestsTyped
  <2>6. TokenMatchesDecision'
    BY <1>1, <2>1, <2>3 DEF IInv, RequestsTyped, TokenMatchesDecision, Granted
  <2>7. \A t \in Items : request'[t].origin = request[t].origin
    BY <2>3
  <2>8. OriginsSpent' /\ ChallengeOpensOneRequest'
    BY <1>1, <2>7 DEF IInv, OriginsSpent, ChallengeOpensOneRequest
  <2>9. CallsTyped' /\ CountsTyped'
    BY <1>1, <2>4 DEF IInv, CallsTyped, CountsTyped
  <2>10. received[s] = 0 /\ lost[s] = 0 /\ Handing(s) = {}
    BY <2>1 DEF IInv, CopiesBounded, OneCopy
  <2>11. Handing(s)' = {k} /\ \A t \in Items : t # s => Handing(t)' = Handing(t)
    BY <1>1, <2>4, <2>10 DEF Handing
  <2>12. CopiesBounded'
    <3>1. OneCopy(s)'
      BY <1>1, <2>3, <2>10, <2>11 DEF OneCopy
    <3>2. ASSUME NEW t \in Items, t # s PROVE OneCopy(t)'
      BY <1>1, <2>3, <2>11, <3>2 DEF IInv, CopiesBounded, OneCopy
    <3> QED
      BY <3>1, <3>2 DEF CopiesBounded
  <2>13. HandoverStep
    <3>1. StageOf(s) = "granted" /\ StageOf(s)' = "handed"
      BY <2>1, <2>3, StageValues DEF StageOf
    <3>2. \A t \in Items : t # s => StageOf(t)' = StageOf(t)
      BY <2>3 DEF StageOf
    <3>3. \A t \in Items : t # s => Copies(t)' = Copies(t)
      BY <1>1, <2>11, CopiesSame
    <3>4. Copies(s)' = 1
      <4>1. Cardinality(Handing(s)') = 1
        BY <2>11, FS_Singleton
      <4>2. received'[s] = 0 /\ lost'[s] = 0
        BY <1>1, <2>10
      <4> QED
        BY <4>1, <4>2 DEF Copies
    <3> QED
      BY <1>1, <3>1, <3>2, <3>3, <3>4, HandsStep
  <2> QED
    BY <1>1, <2>5, <2>6, <2>8, <2>9, <2>12, <2>13, DevicesKept, ChallengesKept DEF IInv
<1> QED
  BY <1>3, <1>4

\* An answer arrives or is lost: the copy under way is counted.
LEMMA AnswerStep ==
  ASSUME IInv, NEW k \in Calls, call[k].pc = "poll_answer", Return(k),
         \/ received' = [received EXCEPT ![call[k].item] = @ + 1] /\ UNCHANGED lost
         \/ lost' = [lost EXCEPT ![call[k].item] = @ + 1] /\ UNCHANGED received,
         UNCHANGED <<devices, banned, restricted, challenge, request, keys, minted>>
  PROVE  IInv' /\ HandoverStep
<1>0. PICK s \in Items : s = call[k].item
  BY DEF IInv, CallsTyped
<1>1. CallsTyped' /\ CountsTyped'
  BY <1>0, IdleCall DEF IInv, CallsTyped, CountsTyped, Return
<1>2. /\ received[s] = 0 /\ lost[s] = 0 /\ Handing(s) = {k}
      /\ request[s].status \in {"delivered", "deleted"}
  BY <1>0 DEF IInv, CopiesBounded, OneCopy, Handing
<1>3. /\ received'[s] + lost'[s] = 1
      /\ \A t \in Items : t # s => received'[t] = received[t] /\ lost'[t] = lost[t]
  BY <1>0, <1>2 DEF IInv, CountsTyped
<1>4. Handing(s)' = {} /\ \A t \in Items : t # s => Handing(t)' = Handing(t)
  <2>1. call'[k].pc = "idle" /\ \A x \in Calls : x # k => call'[x] = call[x]
    BY IdleCall DEF IInv, CallsTyped, Return
  <2> QED
    BY <1>0, <1>2, <2>1 DEF Handing
<1>5. CopiesBounded'
  <2>1. OneCopy(s)'
    BY <1>2, <1>3, <1>4 DEF OneCopy
  <2>2. ASSUME NEW t \in Items, t # s PROVE OneCopy(t)'
    BY <1>3, <1>4, <2>2 DEF IInv, CopiesBounded, OneCopy
  <2> QED
    BY <2>1, <2>2 DEF CopiesBounded
<1>6. IInv'
  BY <1>1, <1>5, DevicesKept, ChallengesKept, RequestsKept, OriginsKept DEF IInv
<1>7. Copies(s) = 1
  BY <1>2, CopiesCounted
<1>8. Copies(s)' = 1
  BY <1>1, <1>3, <1>4, FS_EmptySet DEF Copies, CountsTyped
<1>9. \A t \in Items : t # s => Copies(t)' = Copies(t)
  BY <1>3, <1>4 DEF Copies
<1> QED
  BY <1>6, <1>7, <1>8, <1>9, StaysStep DEF StageOf

LEMMA AbortStep ==
  ASSUME IInv, NEW k \in Calls, Abort(k)
  PROVE  IInv' /\ HandoverStep
<1>1. CASE call[k].pc = "poll_answer"
  BY <1>1, AnswerStep DEF Abort
<1>2. CASE call[k].pc # "poll_answer"
  BY <1>2, CallReturns, QuietCall DEF Abort, UnchangedRows, IInv
<1> QED
  BY <1>1, <1>2

LEMMA CallSteps ==
  ASSUME IInv, NEW k \in Calls, Step(k) \/ Abort(k)
  PROVE  IInv' /\ HandoverStep
<1>1. CASE PollAnswer(k)
  BY <1>1, AnswerStep DEF PollAnswer
<1> QED
  BY <1>1, ReadStep, ApproveStep, RejectStep, ClaimStep, AbortStep DEF Step

-----------------------------------------------------------------------------
(* Time, the cleanup and the owner *)

\* Challenges grow old or go; a used one stays used or goes.
LEMMA ChallengesAge ==
  ASSUME IInv, UNCHANGED <<devices, banned, restricted, request, minted, keys, received, lost, call>>,
         challenge' \in [Challenges -> ChallengeRows],
         \A c \in Challenges :
            /\ challenge'[c].dev = challenge[c].dev
            /\ challenge'[c].status \in {challenge[c].status, "deleted"}
  PROVE  IInv' /\ HandoverStep
<1>1. ChallengesTyped'
  BY DEF IInv, ChallengesTyped
<1>2. OriginsSpent'
  <2>1. \A s \in Items : request[s].origin \subseteq Challenges
    BY DEF IInv, RequestsTyped, RequestRows
  <2> QED
    BY <2>1 DEF IInv, OriginsSpent
<1>3. CallsTyped' /\ CountsTyped' /\ \A s \in Items : Handing(s)' = Handing(s)
  BY CallsKept DEF IInv
<1> QED
  BY <1>1, <1>2, <1>3, DevicesKept, RequestsKept, CopiesKept, QuietStep DEF IInv

LEMMA ChallengeTime ==
  ASSUME IInv, DropChallenges \/ \E c \in Challenges : ChallengeLapses(c)
  PROVE  IInv' /\ HandoverStep
<1>1. CASE DropChallenges
  <2>1. /\ challenge' \in [Challenges -> ChallengeRows]
        /\ \A c \in Challenges :
             /\ challenge'[c].dev = challenge[c].dev
             /\ challenge'[c].status \in {challenge[c].status, "deleted"}
    <3>1. ASSUME NEW c \in Challenges
          PROVE  [challenge[c] EXCEPT !.status = "deleted"] \in ChallengeRows
      BY DEF IInv, ChallengesTyped, ChallengeRows
    <3>2. challenge' \in [Challenges -> ChallengeRows]
      BY <1>1, <3>1 DEF DropChallenges, IInv, ChallengesTyped
    <3>3. ASSUME NEW c \in Challenges
          PROVE  /\ challenge'[c].dev = challenge[c].dev
                 /\ challenge'[c].status \in {challenge[c].status, "deleted"}
      BY <1>1 DEF DropChallenges, IInv, ChallengesTyped, ChallengeRows
    <3> QED
      BY <3>2, <3>3
  <2> QED
    BY <1>1, <2>1, ChallengesAge DEF DropChallenges
<1>2. CASE \E c \in Challenges : ChallengeLapses(c)
  <2>1. /\ challenge' \in [Challenges -> ChallengeRows]
        /\ \A c \in Challenges :
             /\ challenge'[c].dev = challenge[c].dev
             /\ challenge'[c].status \in {challenge[c].status, "deleted"}
    <3>1. PICK c \in Challenges : challenge' = [challenge EXCEPT ![c].late = TRUE]
      BY <1>2 DEF ChallengeLapses
    <3>2. [challenge[c] EXCEPT !.late = TRUE] \in ChallengeRows
      BY DEF IInv, ChallengesTyped, ChallengeRows
    <3>3. challenge' \in [Challenges -> ChallengeRows]
      BY <3>1, <3>2 DEF IInv, ChallengesTyped
    <3>4. ASSUME NEW x \in Challenges
          PROVE  challenge'[x].dev = challenge[x].dev /\ challenge'[x].status = challenge[x].status
      BY <3>1 DEF IInv, ChallengesTyped, ChallengeRows
    <3> QED
      BY <3>3, <3>4
  <2> QED
    BY <1>2, <2>1, ChallengesAge DEF ChallengeLapses
<1> QED
  BY <1>1, <1>2

LEMMA LapseStep ==
  ASSUME IInv, NEW s \in Items, RequestLapses(s)
  PROVE  IInv' /\ HandoverStep
<1>1. /\ UNCHANGED <<devices, banned, restricted, challenge, minted, keys, received, lost, call>>
      /\ request' \in [Items -> RequestRows]
      /\ \A t \in Items :
           /\ request'[t].status = request[t].status /\ request'[t].dev = request[t].dev
           /\ request'[t].envelope = request[t].envelope
           /\ request'[t].origin = request[t].origin
  BY DEF RequestLapses, IInv, RequestsTyped, RequestRows
<1>2. RequestsTyped' /\ TokenMatchesDecision' /\ ChallengeOpensOneRequest' /\ OriginsSpent'
  BY <1>1
  DEF IInv, RequestsTyped, TokenMatchesDecision, Granted, ChallengeOpensOneRequest, OriginsSpent
<1>3. CallsTyped' /\ CountsTyped' /\ \A t \in Items : Handing(t)' = Handing(t)
  BY <1>1, CallsKept DEF IInv
<1>4. HandoverStep
  BY <1>1, <1>3, CopiesSame, StaysStep DEF StageOf
<1> QED
  BY <1>1, <1>2, <1>3, <1>4, DevicesKept, ChallengesKept, CopiesKept DEF IInv

LEMMA ExpireStep ==
  ASSUME IInv, ExpireRequests
  PROVE  IInv' /\ HandoverStep
<1>0. PICK some \in SUBSET Items : some = {s \in Items : Overdue(request[s])}
  OBVIOUS
<1>1. /\ UNCHANGED <<devices, banned, restricted, challenge, minted, keys, received, lost, call>>
      /\ request' \in [Items -> RequestRows]
      /\ \A t \in Items :
           /\ t \in some => request[t].status = "pending" /\ request'[t].status = "expired"
           /\ t \notin some => request'[t].status = request[t].status
           /\ request'[t].dev = request[t].dev
           /\ request'[t].envelope = request[t].envelope
           /\ request'[t].origin = request[t].origin
  <2>1. UNCHANGED <<devices, banned, restricted, challenge, minted, keys, received, lost, call>>
    BY DEF ExpireRequests
  <2>2. ASSUME NEW t \in Items
        PROVE  /\ request[t] \in RequestRows
               /\ [request[t] EXCEPT !.status = "expired"] \in RequestRows
    BY DEF IInv, RequestsTyped, RequestRows
  <2>3. ASSUME NEW t \in Items
        PROVE  request'[t] = IF t \in some THEN [request[t] EXCEPT !.status = "expired"]
                             ELSE request[t]
    BY <1>0 DEF ExpireRequests
  <2>4. request' \in [Items -> RequestRows]
    BY <2>2 DEF ExpireRequests
  <2>5. \A t \in some : request[t].status = "pending"
    BY <1>0 DEF Overdue
  <2>6. ASSUME NEW t \in Items
        PROVE  /\ t \in some => request'[t].status = "expired"
               /\ t \notin some => request'[t].status = request[t].status
               /\ request'[t].dev = request[t].dev
               /\ request'[t].envelope = request[t].envelope
               /\ request'[t].origin = request[t].origin
    BY <2>2, <2>3 DEF RequestRows
  <2> QED
    BY <2>1, <2>4, <2>5, <2>6
<1>2. RequestsTyped'
  BY <1>1 DEF IInv, RequestsTyped
<1>3. TokenMatchesDecision'
  BY <1>1 DEF IInv, RequestsTyped, TokenMatchesDecision, Granted
<1>4. ChallengeOpensOneRequest' /\ OriginsSpent'
  BY <1>1 DEF IInv, ChallengeOpensOneRequest, OriginsSpent
<1>5. CallsTyped' /\ CountsTyped' /\ \A t \in Items : Handing(t)' = Handing(t)
  BY <1>1, CallsKept DEF IInv
<1>6. CopiesBounded'
  <2>1. \A t \in Items : request[t].status \in {"delivered", "deleted"}
                            => request'[t].status \in {"delivered", "deleted"}
    BY <1>1
  <2> QED
    BY <1>1, <1>5, <2>1, CopiesKept DEF IInv
<1>7. HandoverStep
  <2>1. \A s \in some : StageOf(s) = "open"
    BY <1>1, StageValues DEF StageOf
  <2>2. \A s \in Items : StageOf(s)' = IF s \in some THEN "refused" ELSE StageOf(s)
    BY <1>1, StageValues DEF StageOf
  <2>3. \A t \in Items : Copies(t)' = Copies(t)
    BY <1>1, <1>5, CopiesSame
  <2> QED
    BY <1>1, <2>1, <2>2, <2>3, RefusesStep
<1> QED
  BY <1>1, <1>2, <1>3, <1>4, <1>5, <1>6, <1>7, DevicesKept, ChallengesKept DEF IInv

\* Everything of the device goes at once: its tokens with its requests.
LEMMA DeleteStep ==
  ASSUME IInv, NEW d \in Devices, DeleteDevice(d)
  PROVE  IInv' /\ HandoverStep
<1>0. PICK some \in SUBSET Items : some = {s \in Items : request[s].dev = d}
  OBVIOUS
<1>1. /\ UNCHANGED <<minted, received, lost, call>> /\ devices' = devices \ {d}
      /\ keys' = [s \in Items |-> IF s \in some THEN 0 ELSE keys[s]]
  BY <1>0 DEF DeleteDevice
<1>2. /\ request' \in [Items -> RequestRows]
      /\ \A t \in Items :
           /\ t \in some => request'[t].status = "deleted" /\ ~request'[t].envelope
           /\ t \notin some => request'[t] = request[t]
           /\ request'[t].dev = request[t].dev
           /\ request'[t].origin = request[t].origin
  <2>1. ASSUME NEW t \in Items
        PROVE  /\ request[t] \in RequestRows
               /\ [request[t] EXCEPT !.status = "deleted", !.envelope = FALSE] \in RequestRows
    BY DEF IInv, RequestsTyped, RequestRows
  <2>2. ASSUME NEW t \in Items
        PROVE  request'[t] = IF t \in some
                             THEN [request[t] EXCEPT !.status = "deleted", !.envelope = FALSE]
                             ELSE request[t]
    BY <1>0 DEF DeleteDevice
  <2>3. request' \in [Items -> RequestRows]
    BY <2>1 DEF DeleteDevice
  <2>4. ASSUME NEW t \in Items
        PROVE  /\ t \in some => request'[t].status = "deleted" /\ ~request'[t].envelope
               /\ t \notin some => request'[t] = request[t]
               /\ request'[t].dev = request[t].dev
               /\ request'[t].origin = request[t].origin
    BY <2>1, <2>2 DEF RequestRows
  <2> QED
    BY <2>3, <2>4
<1>3. \A s \in some : request[s].status # "absent"
  BY <1>0, NoneAssumption DEF IInv, RequestsTyped
<1>4. DevicesTyped'
  BY DEF DeleteDevice, IInv, DevicesTyped
<1>5. /\ challenge' \in [Challenges -> ChallengeRows]
      /\ \A c \in Challenges :
           /\ challenge'[c].dev = challenge[c].dev
           /\ challenge[c].dev = d => challenge'[c].status = "deleted"
           /\ challenge'[c].status \in {challenge[c].status, "deleted"}
  BY DEF DeleteDevice, IssuedFor, IInv, ChallengesTyped, ChallengeRows
<1>6. ChallengesTyped'
  BY <1>1, <1>5 DEF IInv, ChallengesTyped
<1>7. RequestsTyped'
  BY <1>0, <1>1, <1>2, <1>3 DEF IInv, RequestsTyped
<1>8. TokenMatchesDecision'
  BY <1>1, <1>2 DEF IInv, RequestsTyped, TokenMatchesDecision, Granted
<1>9. ChallengeOpensOneRequest'
  BY <1>2 DEF IInv, ChallengeOpensOneRequest
<1>10. OriginsSpent'
  <2>1. \A s \in Items : request[s].origin \subseteq Challenges
    BY DEF IInv, RequestsTyped, RequestRows
  <2> QED
    BY <1>2, <1>5, <2>1 DEF IInv, OriginsSpent
<1>11. CallsTyped' /\ CountsTyped' /\ \A t \in Items : Handing(t)' = Handing(t)
  BY <1>1, CallsKept DEF IInv
<1>12. CopiesBounded'
  <2>1. \A t \in Items : request[t].status \in {"delivered", "deleted"}
                            => request'[t].status \in {"delivered", "deleted"}
    BY <1>2
  <2> QED
    BY <1>1, <1>11, <2>1, CopiesKept DEF IInv
<1>13. HandoverStep
  <2>1. \A s \in some : StageOf(s) # "absent"
    <3>1. ASSUME NEW s \in some PROVE StageOf(s) # "absent"
      <4>1. request[s].status \in {"pending", "approved", "rejected", "expired", "delivered",
                                   "deleted"}
        BY <1>3 DEF IInv, RequestsTyped, RequestRows
      <4> QED
        BY <4>1, StageValues DEF StageOf
    <3> QED
      BY <3>1
  <2>2. \A s \in Items : StageOf(s)' = IF s \in some THEN "gone" ELSE StageOf(s)
    BY <1>2, StageValues DEF StageOf
  <2>3. \A t \in Items : Copies(t)' = Copies(t)
    BY <1>1, <1>11, CopiesSame
  <2> QED
    BY <1>1, <2>1, <2>2, <2>3, VanishesStep
<1> QED
  BY <1>4, <1>6, <1>7, <1>8, <1>9, <1>10, <1>11, <1>12, <1>13 DEF IInv

\* A token that goes leaves its request as it was decided.
LEMMA WithdrawStep ==
  ASSUME IInv, NEW some \in SUBSET Items, DeleteTokens(some)
  PROVE  IInv' /\ HandoverStep
<1>1. /\ UNCHANGED <<devices, banned, restricted, challenge, request, minted, received, lost, call>>
      /\ keys' = [s \in Items |-> IF s \in some THEN 0 ELSE keys[s]]
  BY DEF DeleteTokens
<1>2. RequestsTyped'
  BY <1>1 DEF IInv, RequestsTyped
<1>3. TokenMatchesDecision'
  BY <1>1 DEF IInv, RequestsTyped, TokenMatchesDecision, Granted
<1>4. ChallengeOpensOneRequest'
  BY <1>1 DEF IInv, ChallengeOpensOneRequest
<1>5. CallsTyped' /\ CountsTyped' /\ \A s \in Items : Handing(s)' = Handing(s)
  BY <1>1, CallsKept DEF IInv
<1>6. CopiesBounded'
  BY <1>1, <1>5, CopiesKept DEF IInv
<1>7. HandoverStep
  <2>1. UNCHANGED <<[s \in Items |-> Stage(request[s].status)], [s \in Items |-> Copies(s)]>>
    BY <1>1, <1>5, CopiesSame
  <2>2. Handover!Withdraw
    BY <1>1, <2>1 DEF Handover!Withdraw
  <2> QED
    BY <2>2 DEF HandoverStep, Handover!Next
<1> QED
  BY <1>1, <1>2, <1>3, <1>4, <1>5, <1>6, <1>7, DevicesKept, ChallengesKept, OriginsKept DEF IInv

LEMMA PolicyStep ==
  ASSUME IInv, NEW d \in Devices, ChangeBan(d) \/ ChangePolicy(d)
  PROVE  IInv' /\ HandoverStep
<1>1. UNCHANGED <<devices, challenge, request, minted, keys, received, lost, call>>
  BY DEF ChangeBan, ChangePolicy
<1>2. DevicesTyped'
  BY DEF IInv, DevicesTyped, ChangeBan, ChangePolicy
<1>3. CallsTyped' /\ CountsTyped' /\ \A t \in Items : Handing(t)' = Handing(t)
  BY <1>1, CallsKept DEF IInv
<1> QED
  BY <1>1, <1>2, <1>3, ChallengesKept, RequestsKept, OriginsKept, CopiesKept, QuietStep DEF IInv

-----------------------------------------------------------------------------
LEMMA NextStep == IInv /\ [Next]_vars => IInv' /\ HandoverStep
<1> SUFFICES ASSUME IInv, [Next]_vars PROVE IInv' /\ HandoverStep
  OBVIOUS
<1>1. CASE UNCHANGED vars
  BY <1>1, CallsKept, QuietCall DEF vars, UnchangedRows, IInv
<1>2. ASSUME NEW d \in Devices, DeleteDevice(d) \/ ChangeBan(d) \/ ChangePolicy(d)
      PROVE  IInv' /\ HandoverStep
  BY <1>2, DeleteStep, PolicyStep
<1> QED
  BY <1>1, <1>2, ChallengeStep, CreateStep, StartSteps, CallSteps, ChallengeTime, LapseStep,
     ExpireStep, WithdrawStep
  DEF Next

LEMMA Inductive == Spec => []IInv
BY InitInv, NextStep, PTL DEF Spec

\* Types, and the foreign keys of challenges and requests on devices.
THEOREM TypeCorrect == Spec => []TypeOK
BY Inductive, InvImplies, PTL

\* create_request consumes the challenge in the transaction that inserts the row: a
\* nonce opens one request, however often it is returned.
THEOREM ChallengesOpenOnce == Spec => []ChallengeOpensOneRequest
<1>1. IInv => ChallengeOpensOneRequest
  BY DEF IInv
<1> QED
  BY <1>1, Inductive, PTL

\* Between any two statements of approve, reject, poll_status, the cleanup and the
\* deletions, each request was granted one token or refused with none, and the row of
\* a token is there only for a granted request, if the owner has not deleted it.
THEOREM TokensMatchDecisions == Spec => []TokenMatchesDecision
<1>1. IInv => TokenMatchesDecision
  BY DEF IInv
<1> QED
  BY <1>1, Inductive, PTL

LEMMA HandoverInit == Init => Handover!Init
<1> SUFFICES ASSUME Init PROVE Handover!Init
  OBVIOUS
<1>1. ASSUME NEW s \in Items PROVE Stage(request[s].status) = "absent"
  BY StageValues DEF Init
<1>2. ASSUME NEW s \in Items PROVE Copies(s) = 0
  BY InitInv, CopiesCounted DEF Init
<1>3. keys = [s \in Items |-> 0]
  BY DEF Init
<1> QED
  BY <1>1, <1>2, <1>3 DEF Handover!Init

\* A request is decided once and its token leaves the server once: poll_status's
\* guarded UPDATE picks one poller, whatever the others read before.
THEOREM TokensAreHandedOnce == Spec => ImplementsHandover
<1>1. IInv /\ [Next]_vars =>
        [Handover!Next]_<<[s \in Items |-> Stage(request[s].status)], keys,
                          [s \in Items |-> Copies(s)]>>
  BY NextStep DEF HandoverStep
<1>2. Spec => Handover!Spec
  BY <1>1, HandoverInit, Inductive, PTL DEF Spec, Handover!Spec, Handover!vars
<1> QED
  BY <1>2 DEF ImplementsHandover
=============================================================================
