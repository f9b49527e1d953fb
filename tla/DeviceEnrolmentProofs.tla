------------------------ MODULE DeviceEnrolmentProofs ------------------------
(***************************************************************************)
(* Theorems about DeviceEnrolment, for any number of accounts, devices,    *)
(* challenges, proposals and concurrent calls.                             *)
(***************************************************************************)
EXTENDS DeviceEnrolment, TLAPS

-----------------------------------------------------------------------------
(* The inductive invariant *)

TablesTyped ==
    /\ device \in [Devices -> DeviceRecords]
    /\ restricted \subseteq Devices
    /\ challenge \in [Challenges -> ChallengeRecords]
    /\ proposal \in [Proposals -> ProposalRecords]
    /\ origin \in [Devices -> Challenges \cup {None}]
CallsTyped == call \in [Calls -> CallRecords]
NamesUnique ==
    \A d, e \in Devices :
        /\ device[d].state = "registered" /\ device[e].state = "registered"
        /\ device[d].owner = device[e].owner /\ device[d].name = device[e].name
        => d = e

LEMMA TypeParts == TypeOK <=> TablesTyped /\ CallsTyped /\ NamesUnique
BY DEF TypeOK, TablesTyped, CallsTyped, NamesUnique, Registered

\* An enrolled device comes from a challenge of its owner that is used up; no two
\* devices come from one.
Origins ==
    \A d \in Devices : device[d].state # "absent" =>
        /\ origin[d] \in Challenges
        /\ challenge[origin[d]].state = "gone"
        /\ device[d].state = "registered" => challenge[origin[d]].owner = device[d].owner
        /\ \A e \in Devices : device[e].state # "absent" /\ origin[e] = origin[d] => e = d

\* A finish past its challenge: it alone holds what the touch was for.
Holding(r) == r.pc \in {"again", "insert"}
HoldsUnused(r) ==
    Holding(r) =>
      /\ challenge[r.challenge].state = "gone"
      /\ challenge[r.challenge].owner = r.owner
      /\ \A d \in Devices : device[d].state # "absent" => origin[d] # r.challenge
HeldOnce == \A c, e \in Calls :
    Holding(call[c]) /\ Holding(call[e]) /\ call[c].challenge = call[e].challenge => c = e

\* A link past its reads knows the key the proposal has, and that the device had it.
KnowsKey(r) ==
    /\ r.pc \in {"device", "mark"} /\ r.op = "link" =>
         /\ proposal[r.proposal].status # "absent"
         /\ proposal[r.proposal].status # "deleted" => r.material = proposal[r.proposal].material
    /\ r.pc = "mark" /\ r.op = "link" /\ device[r.device].state = "registered" =>
         device[r.device].owner = r.owner /\ device[r.device].material = r.material

\* The statements of each operation, its target, and the check of the policy.
Targeted(r) ==
    /\ r.pc # "idle" => r.op \in Ops
    /\ r.pc # "idle" /\ r.op = "finish" => r.challenge \in Challenges
    /\ r.pc # "idle" /\ r.op \in {"link", "reject"} => r.proposal \in Proposed
    /\ r.pc # "idle" /\ r.op = "link" => r.device \in Devices /\ device[r.device].state # "absent"
    /\ r.pc \in {"take", "again", "insert"} => r.op = "finish"
    /\ r.pc \in {"proposal", "device"} => r.op = "link"
Checked(r) ==
    r.pc # "idle" /\ r.by # None /\ ~r.free => r.by \in restricted /\ r.pc = "check"

Sound(r) == HoldsUnused(r) /\ KnowsKey(r) /\ Targeted(r) /\ Checked(r)
CallsSound == \A c \in Calls : Sound(call[c])

Confirmed == ConfirmedProposalMatches

IInv == /\ TablesTyped /\ CallsTyped /\ NamesUnique /\ Origins
        /\ HeldOnce /\ CallsSound /\ Confirmed

LEMMA EmptyCall == NoCall \in CallRecords /\ Sound(NoCall) /\ NoCall.pc = "idle" /\ NoCall.by = None
BY DEF NoCall, CallRecords, Pcs, Sound, HoldsUnused, Holding, KnowsKey, Targeted, Checked

LEMMA InvImplies ==
  IInv => TypeOK /\ OneDevicePerTouch /\ ConfirmedProposalMatches /\ RestrictedDeviceDoesNotEnrol
<1> SUFFICES ASSUME IInv
             PROVE  TypeOK /\ OneDevicePerTouch /\ ConfirmedProposalMatches
                    /\ RestrictedDeviceDoesNotEnrol
  OBVIOUS
<1>1. TypeOK
  BY TypeParts DEF IInv
<1>2. OneDevicePerTouch
  BY DEF IInv, Origins, OneDevicePerTouch, Registered
<1>3. RestrictedDeviceDoesNotEnrol
  BY DEF IInv, CallsSound, Sound, Checked, RestrictedDeviceDoesNotEnrol
<1> QED
  BY <1>1, <1>2, <1>3 DEF IInv, Confirmed

LEMMA InitInv == Init => IInv
<1> SUFFICES ASSUME Init PROVE IInv
  OBVIOUS
<1>1. TablesTyped
  BY DEF Init, TablesTyped, NoDevice, DeviceRecords, NoChallenge, ChallengeRecords,
         NoProposal, ProposalRecords, Statuses
<1>2. CallsTyped /\ CallsSound
  BY EmptyCall DEF Init, CallsTyped, CallsSound
<1>3. NamesUnique /\ Origins
  BY DEF Init, NoDevice, NamesUnique, Origins
<1>4. HeldOnce
  BY EmptyCall DEF Init, HeldOnce, Holding
<1>5. Confirmed
  BY DEF Init, NoProposal, Confirmed, ConfirmedProposalMatches
<1> QED
  BY <1>1, <1>2, <1>3, <1>4, <1>5 DEF IInv

-----------------------------------------------------------------------------
(* What every step leaves of the tables *)

\* Ids are not reused: what a call has seen of a row stays true or the row is gone.
ChallengesGrow == \A h \in Challenges : challenge[h].state = "gone" => challenge'[h] = challenge[h]
DevicesGrow ==
    \A d \in Devices : device[d].state # "absent" =>
        /\ device'[d].state # "absent"
        /\ device'[d].state = "registered" => device'[d] = device[d]
ProposalsGrow ==
    \A p \in Proposals : proposal[p].status # "absent" =>
        /\ proposal'[p].status # "absent"
        /\ proposal'[p].status # "deleted" =>
             /\ proposal[p].status # "deleted"
             /\ proposal'[p].material = proposal[p].material
NoDeviceMade ==
    \A d \in Devices : device'[d].state # "absent" =>
        device[d].state # "absent" /\ origin'[d] = origin[d]
Grow == ChallengesGrow /\ DevicesGrow /\ ProposalsGrow /\ NoDeviceMade

LEMMA NothingGrows == UNCHANGED <<device, challenge, proposal, origin>> => Grow
BY DEF Grow, ChallengesGrow, DevicesGrow, ProposalsGrow, NoDeviceMade

LEMMA SoundKept ==
  ASSUME NEW r, Sound(r), Grow, r.by # None /\ ~r.free /\ r.by \in restricted => r.by \in restricted'
  PROVE  Sound(r)'
<1>1. HoldsUnused(r)'
  BY DEF Sound, Grow, ChallengesGrow, NoDeviceMade, HoldsUnused, Holding, Targeted
<1>2. KnowsKey(r)'
  BY DEF Sound, Grow, DevicesGrow, ProposalsGrow, KnowsKey, Targeted, Proposed
<1>3. Targeted(r)'
  BY DEF Sound, Grow, DevicesGrow, ProposalsGrow, Targeted, Proposed
<1>4. Checked(r)'
  BY DEF Sound, Checked
<1> QED
  BY <1>1, <1>2, <1>3, <1>4 DEF Sound

\* A step that replaces one call, and lets the tables and the policies grow.
LEMMA CallStep ==
  ASSUME IInv, NEW c \in Calls, NEW r \in CallRecords, Sound(r)', Grow,
         call' = [call EXCEPT ![c] = r], restricted \subseteq restricted',
         Holding(r) => Holding(call[c]) /\ r.challenge = call[c].challenge
  PROVE  CallsTyped' /\ CallsSound' /\ HeldOnce'
<1>1. CallsTyped'
  BY DEF IInv, CallsTyped
<1>2. ASSUME NEW x \in Calls PROVE Sound(call[x])'
  <2>1. CASE x = c
    <3>1. call'[x] = r
      BY <2>1 DEF IInv, CallsTyped
    <3> QED
      BY <3>1 DEF Sound, HoldsUnused, Holding, KnowsKey, Targeted, Checked
  <2>2. CASE x # c
    <3>1. call'[x] = call[x] /\ Sound(call[x])
      BY <2>2 DEF IInv, CallsTyped, CallsSound
    <3> QED
      BY <3>1, SoundKept DEF Sound, HoldsUnused, Holding, KnowsKey, Targeted, Checked
  <2> QED
    BY <2>1, <2>2
<1>3. HeldOnce'
  BY DEF IInv, CallsTyped, HeldOnce, Holding
<1> QED
  BY <1>1, <1>2, <1>3 DEF CallsSound

-----------------------------------------------------------------------------
(* Statements that write no table *)

TablesSound == TablesTyped /\ NamesUnique /\ Origins /\ Confirmed

LEMMA TablesKept ==
  ASSUME TablesSound, UnchangedTables, UNCHANGED challenge
  PROVE  TablesSound' /\ Grow
<1>1. TablesTyped' /\ NamesUnique' /\ Origins'
  BY DEF TablesSound, UnchangedTables, TablesTyped, NamesUnique, Origins
<1>2. Confirmed'
  BY DEF TablesSound, UnchangedTables, Confirmed, ConfirmedProposalMatches, Registered
<1>3. Grow
  BY NothingGrows DEF UnchangedTables
<1> QED
  BY <1>1, <1>2, <1>3 DEF TablesSound

LEMMA CallSound == ASSUME IInv, NEW c \in Calls PROVE call[c] \in CallRecords /\ Sound(call[c])
BY DEF IInv, CallsTyped, CallsSound

LEMMA QuietStep ==
  ASSUME IInv, NEW c \in Calls, NEW r \in CallRecords, Sound(r), UnchangedTables,
         UNCHANGED challenge, call' = [call EXCEPT ![c] = r],
         Holding(r) => Holding(call[c]) /\ r.challenge = call[c].challenge
  PROVE  IInv'
<1>1. TablesSound' /\ Grow
  BY TablesKept DEF IInv, TablesSound
<1>2. Sound(r)'
  BY <1>1, SoundKept DEF UnchangedTables
<1>3. CallsTyped' /\ CallsSound' /\ HeldOnce'
  BY <1>1, <1>2, CallStep DEF UnchangedTables
<1> QED
  BY <1>1, <1>3 DEF TablesSound, IInv

LEMMA ReturnKeeps ==
  ASSUME IInv, NEW c \in Calls, Return(c), UnchangedTables, UNCHANGED challenge  PROVE IInv'
BY QuietStep, EmptyCall DEF Return, Holding

LEMMA GoToKeeps ==
  ASSUME IInv, NEW c \in Calls, NEW pc \in Pcs, GoTo(c, pc), UnchangedTables,
         UNCHANGED challenge, Sound([call[c] EXCEPT !.pc = pc]),
         pc \in {"again", "insert"} => Holding(call[c])
  PROVE  IInv'
<1> DEFINE r == [call[c] EXCEPT !.pc = pc]
<1>1. r \in CallRecords /\ r.pc = pc /\ r.challenge = call[c].challenge
  BY CallSound DEF CallRecords
<1>2. call' = [call EXCEPT ![c] = r]
  BY DEF GoTo, IInv, CallsTyped
<1> QED
  BY <1>1, <1>2, QuietStep DEF Holding

\* What a request is before its target is filled in.
Fresh(r, op) ==
  /\ r \in CallRecords
  /\ r.op = op /\ r.pc = "check"
  /\ r.by # None /\ ~r.free => r.by \in restricted

LEMMA RequestFresh ==
  ASSUME IInv, NEW o \in Owners, NEW b \in Callers(o), NEW op \in Ops
  PROVE  Fresh(Request(op, o, b), op)
<1>1. b \in Devices \cup {None}
  BY DEF Callers, Registered
<1> QED
  BY <1>1 DEF IInv, TablesTyped, Fresh, Request, NoCall, CallRecords, Pcs, Ops

LEMMA FreshSound ==
  ASSUME NEW op \in Ops, NEW r, Fresh(r, op),
         op = "finish" => r.challenge \in Challenges,
         op \in {"link", "reject"} => r.proposal \in Proposed,
         op = "link" => r.device \in Devices /\ device[r.device].state # "absent"
  PROVE  r \in CallRecords /\ Sound(r) /\ ~Holding(r)
BY DEF Fresh, Sound, HoldsUnused, Holding, KnowsKey, Targeted, Checked

LEMMA ArriveInv == ASSUME IInv, NEW c \in Calls, Arrive(c) PROVE IInv'
<1>1. ASSUME NEW r \in CallRecords, Sound(r), ~Holding(r), Begin(c, r) PROVE IInv'
  BY <1>1, QuietStep DEF Arrive, Begin
<1>2. PICK o \in Owners : \E b \in Callers(o) :
         \/ \E n \in Names, m \in Materials :
              Begin(c, [Request("begin", o, b) EXCEPT !.name = n, !.material = m])
         \/ \E h \in Begun : Begin(c, [Request("finish", o, b) EXCEPT !.challenge = h])
         \/ \E d \in Registered \ {b} : Begin(c, [Request("delete", o, b) EXCEPT !.device = d])
         \/ \E p \in Proposed, d \in Registered :
              Begin(c, [Request("link", o, b) EXCEPT !.proposal = p, !.device = d])
         \/ \E p \in Proposed : Begin(c, [Request("reject", o, b) EXCEPT !.proposal = p])
  BY DEF Arrive
<1>3. PICK b \in Callers(o) :
         \/ \E n \in Names, m \in Materials :
              Begin(c, [Request("begin", o, b) EXCEPT !.name = n, !.material = m])
         \/ \E h \in Begun : Begin(c, [Request("finish", o, b) EXCEPT !.challenge = h])
         \/ \E d \in Registered \ {b} : Begin(c, [Request("delete", o, b) EXCEPT !.device = d])
         \/ \E p \in Proposed, d \in Registered :
              Begin(c, [Request("link", o, b) EXCEPT !.proposal = p, !.device = d])
         \/ \E p \in Proposed : Begin(c, [Request("reject", o, b) EXCEPT !.proposal = p])
  BY <1>2
<1>4. \A op \in Ops : Fresh(Request(op, o, b), op)
  BY RequestFresh
<1>5. ASSUME NEW n \in Names, NEW m \in Materials,
             Begin(c, [Request("begin", o, b) EXCEPT !.name = n, !.material = m])
      PROVE  IInv'
  <2> DEFINE r == [Request("begin", o, b) EXCEPT !.name = n, !.material = m]
  <2>1. Fresh(r, "begin")
    BY <1>4 DEF Fresh, CallRecords, Ops
  <2> HIDE DEF r
  <2>2. r \in CallRecords /\ Sound(r) /\ ~Holding(r)
    BY <2>1, FreshSound DEF Ops
  <2> QED
    BY <1>1, <1>5, <2>2 DEF r
<1>6. ASSUME NEW h \in Begun, Begin(c, [Request("finish", o, b) EXCEPT !.challenge = h])
      PROVE  IInv'
  <2> DEFINE r == [Request("finish", o, b) EXCEPT !.challenge = h]
  <2>1. Fresh(r, "finish") /\ r.challenge \in Challenges
    BY <1>4 DEF Fresh, CallRecords, Ops, Begun
  <2> HIDE DEF r
  <2>2. r \in CallRecords /\ Sound(r) /\ ~Holding(r)
    BY <2>1, FreshSound DEF Ops
  <2> QED
    BY <1>1, <1>6, <2>2 DEF r
<1>7. ASSUME NEW d \in Registered, Begin(c, [Request("delete", o, b) EXCEPT !.device = d])
      PROVE  IInv'
  <2> DEFINE r == [Request("delete", o, b) EXCEPT !.device = d]
  <2>1. Fresh(r, "delete")
    BY <1>4 DEF Fresh, CallRecords, Ops, Registered
  <2> HIDE DEF r
  <2>2. r \in CallRecords /\ Sound(r) /\ ~Holding(r)
    BY <2>1, FreshSound DEF Ops
  <2> QED
    BY <1>1, <1>7, <2>2 DEF r
<1>8. ASSUME NEW p \in Proposed, NEW d \in Registered,
             Begin(c, [Request("link", o, b) EXCEPT !.proposal = p, !.device = d])
      PROVE  IInv'
  <2> DEFINE r == [Request("link", o, b) EXCEPT !.proposal = p, !.device = d]
  <2>1. Fresh(r, "link") /\ r.proposal = p /\ r.device = d
    BY <1>4 DEF Fresh, CallRecords, Ops, Registered, Proposed
  <2>2. d \in Devices /\ device[d].state # "absent"
    BY DEF Registered
  <2> HIDE DEF r
  <2>3. r \in CallRecords /\ Sound(r) /\ ~Holding(r)
    BY <2>1, <2>2, FreshSound DEF Ops
  <2> QED
    BY <1>1, <1>8, <2>3 DEF r
<1>9. ASSUME NEW p \in Proposed, Begin(c, [Request("reject", o, b) EXCEPT !.proposal = p])
      PROVE  IInv'
  <2> DEFINE r == [Request("reject", o, b) EXCEPT !.proposal = p]
  <2>1. Fresh(r, "reject") /\ r.proposal \in Proposed
    BY <1>4 DEF Fresh, CallRecords, Ops, Proposed
  <2> HIDE DEF r
  <2>2. r \in CallRecords /\ Sound(r) /\ ~Holding(r)
    BY <2>1, FreshSound DEF Ops
  <2> QED
    BY <1>1, <1>9, <2>2 DEF r
<1> QED
  BY <1>3, <1>5, <1>6, <1>7, <1>8, <1>9

LEMMA CheckInv == ASSUME IInv, NEW c \in Calls, Check(c) PROVE IInv'
<1>1. CASE Return(c)
  BY <1>1, ReturnKeeps DEF Check
<1>2. CASE MayManage(c) /\ GoTo(c, FirstStatement[call[c].op])
  <2> DEFINE pc == FirstStatement[call[c].op]
             r == [call[c] EXCEPT !.pc = pc]
  <2>1. call[c].op \in Ops
    BY CallSound DEF Check, Sound, Targeted
  <2>2. /\ pc \in {"name", "take", "remove", "proposal", "mark"}
        /\ pc = "take" <=> call[c].op = "finish"
        /\ pc = "proposal" <=> call[c].op = "link"
        /\ pc = "mark" <=> call[c].op = "reject"
    BY <2>1 DEF FirstStatement, Ops
  <2>3. call[c].by = None \/ call[c].free
    BY <1>2, CallSound DEF Check, MayManage, Sound, Checked
  <2> HIDE DEF pc
  <2>4. /\ r.pc = pc /\ r.op = call[c].op /\ r.challenge = call[c].challenge
        /\ r.proposal = call[c].proposal /\ r.device = call[c].device
        /\ r.by = call[c].by /\ r.free = call[c].free
    BY CallSound DEF CallRecords
  <2> HIDE DEF r
  <2>5. Sound(r)
    <3>1. Targeted(call[c])
      BY CallSound DEF Sound
    <3>2. Targeted(r)
      BY <2>1, <2>2, <2>4, <3>1 DEF Check, Targeted
    <3>3. KnowsKey(r) /\ HoldsUnused(r) /\ Checked(r)
      BY <2>1, <2>2, <2>3, <2>4 DEF KnowsKey, HoldsUnused, Holding, Checked
    <3> QED
      BY <3>2, <3>3 DEF Sound
  <2> QED
    BY <1>2, <2>2, <2>5, GoToKeeps DEF Check, Pcs, pc, r
<1> QED
  BY <1>1, <1>2 DEF Check

LEMMA BeginNameInv == ASSUME IInv, NEW c \in Calls, BeginName(c) PROVE IInv'
<1>1. CASE Return(c)
  BY <1>1, ReturnKeeps DEF BeginName
<1>2. CASE GoTo(c, "passkeys")
  <2>1. Sound([call[c] EXCEPT !.pc = "passkeys"])
    BY CallSound DEF BeginName, CallRecords, Sound, HoldsUnused, Holding, KnowsKey, Targeted, Checked
  <2> QED
    BY <1>2, <2>1, GoToKeeps DEF BeginName, Pcs
<1> QED
  BY <1>1, <1>2 DEF BeginName

LEMMA FinishNameInv == ASSUME IInv, NEW c \in Calls, FinishName(c) PROVE IInv'
<1>1. CASE Return(c)
  BY <1>1, ReturnKeeps DEF FinishName
<1>2. CASE GoTo(c, "insert")
  <2>1. Sound([call[c] EXCEPT !.pc = "insert"])
    BY CallSound DEF FinishName, CallRecords, Sound, HoldsUnused, Holding, KnowsKey, Targeted, Checked
  <2> QED
    BY <1>2, <2>1, GoToKeeps DEF FinishName, Pcs, Holding
<1> QED
  BY <1>1, <1>2 DEF FinishName

LEMMA LinkProposalInv == ASSUME IInv, NEW c \in Calls, LinkProposal(c) PROVE IInv'
<1> DEFINE p == call[c].proposal
           r == [call[c] EXCEPT !.pc = "device", !.material = proposal[p].material]
<1>1. CASE Return(c)
  BY <1>1, ReturnKeeps DEF LinkProposal
<1>2. CASE call' = [call EXCEPT ![c] = r] /\ proposal[p].status # "deleted"
  <2>1. Targeted(call[c]) /\ Checked(call[c]) /\ call[c] \in CallRecords
    BY CallSound DEF Sound
  <2>2. p \in Proposals /\ proposal[p].status # "absent" /\ call[c].op = "link"
    BY <2>1 DEF LinkProposal, Targeted, Proposed, Ops
  <2>3. r \in CallRecords
    BY <2>1, <2>2 DEF CallRecords, Pcs, IInv, TablesTyped, ProposalRecords
  <2>4. /\ r.pc = "device" /\ r.op = "link" /\ r.material = proposal[p].material
        /\ r.proposal = p /\ r.device = call[c].device /\ r.by = call[c].by
        /\ r.free = call[c].free
    BY <2>1, <2>2 DEF CallRecords
  <2> HIDE DEF r
  <2>5. Sound(r)
    BY <2>1, <2>2, <2>4 DEF LinkProposal, Sound, HoldsUnused, Holding, KnowsKey, Targeted, Checked
  <2> QED
    BY <1>2, <2>3, <2>4, <2>5, QuietStep DEF LinkProposal, Holding
<1>3. call \in [Calls -> CallRecords]
  BY DEF IInv, CallsTyped
<1> QED
  BY <1>1, <1>2, <1>3 DEF LinkProposal

LEMMA LinkDeviceInv == ASSUME IInv, NEW c \in Calls, LinkDevice(c) PROVE IInv'
<1>1. CASE Return(c)
  BY <1>1, ReturnKeeps DEF LinkDevice
<1>2. CASE Binds(c) /\ GoTo(c, "mark")
  <2> DEFINE r == [call[c] EXCEPT !.pc = "mark"]
  <2>1. /\ r.pc = "mark" /\ r.op = call[c].op /\ r.proposal = call[c].proposal
        /\ r.device = call[c].device /\ r.owner = call[c].owner
        /\ r.material = call[c].material /\ r.by = call[c].by /\ r.free = call[c].free
    BY CallSound DEF CallRecords
  <2>2. KnowsKey(call[c]) /\ Targeted(call[c]) /\ Checked(call[c])
    BY CallSound DEF Sound
  <2> HIDE DEF r
  <2>3. KnowsKey(r)
    BY <1>2, <2>1, <2>2 DEF LinkDevice, Binds, Registered, KnowsKey, Targeted
  <2>4. Targeted(r) /\ Checked(r) /\ HoldsUnused(r)
    BY <2>1, <2>2 DEF LinkDevice, Targeted, Checked, HoldsUnused, Holding
  <2> QED
    BY <1>2, <2>3, <2>4, GoToKeeps DEF LinkDevice, Pcs, Sound, r
<1> QED
  BY <1>1, <1>2 DEF LinkDevice

LEMMA AbortInv == ASSUME IInv, NEW c \in Calls, Abort(c) PROVE IInv'
BY ReturnKeeps DEF Abort

-----------------------------------------------------------------------------
(* Statements that write the tables *)

LEMMA BeginChallengeInv ==
  ASSUME IInv, NEW c \in Calls, NEW h \in Challenges, BeginChallenge(c, h) PROVE IInv'
<1> DEFINE row == [state |-> "open", owner |-> call[c].owner, name |-> call[c].name,
                   material |-> call[c].material]
<1>1. row \in ChallengeRecords /\ row.state = "open"
  BY CallSound DEF CallRecords, ChallengeRecords
<1>2. challenge' = [challenge EXCEPT ![h] = row] /\ challenge[h].state = "absent"
  BY DEF BeginChallenge
<1> HIDE DEF row
<1>3. Grow
  BY <1>2 DEF BeginChallenge, UnchangedTables, Grow, ChallengesGrow, DevicesGrow, ProposalsGrow,
              NoDeviceMade, IInv, TablesTyped
<1>4. TablesTyped'
  BY <1>1, <1>2 DEF BeginChallenge, UnchangedTables, IInv, TablesTyped
<1>5. NamesUnique' /\ Origins'
  BY <1>2 DEF BeginChallenge, UnchangedTables, IInv, TablesTyped, NamesUnique, Origins
<1>6. Confirmed'
  BY DEF BeginChallenge, UnchangedTables, IInv, Confirmed, ConfirmedProposalMatches, Registered
<1>7. CallsTyped' /\ CallsSound' /\ HeldOnce'
  <2>1. Sound(NoCall)'
    BY <1>3, EmptyCall, SoundKept
  <2> QED
    BY <1>3, <2>1, EmptyCall, CallStep DEF BeginChallenge, UnchangedTables, Return, Holding
<1> QED
  BY <1>4, <1>5, <1>6, <1>7 DEF IInv

\* Taking a challenge: from now on it is one call's alone.
LEMMA FinishTakeInv == ASSUME IInv, NEW c \in Calls, FinishTake(c) PROVE IInv'
<1> DEFINE h == call[c].challenge
           taken == [call[c] EXCEPT !.pc = "again", !.name = challenge[h].name,
                                    !.material = challenge[h].material]
<1>1. h \in Challenges /\ challenge[h].state = "open" /\ challenge[h] \in ChallengeRecords
  BY CallSound DEF FinishTake, Sound, Targeted, IInv, TablesTyped
<1>2. Gone(h) \in ChallengeRecords /\ Gone(h).state = "gone" /\ Gone(h).owner = challenge[h].owner
  BY <1>1 DEF Gone, NoChallenge, ChallengeRecords
<1>3. challenge' = [challenge EXCEPT ![h] = Gone(h)]
  BY DEF FinishTake, Taken
<1>4. Grow
  BY <1>1, <1>3 DEF FinishTake, UnchangedTables, Grow, ChallengesGrow, DevicesGrow, ProposalsGrow,
                    NoDeviceMade, IInv, TablesTyped
<1>5. TablesTyped'
  BY <1>1, <1>2, <1>3 DEF FinishTake, UnchangedTables, IInv, TablesTyped
<1>6. NamesUnique' /\ Origins'
  BY <1>1, <1>3 DEF FinishTake, UnchangedTables, IInv, TablesTyped, NamesUnique, Origins
<1>7. Confirmed'
  BY DEF FinishTake, UnchangedTables, IInv, Confirmed, ConfirmedProposalMatches, Registered
<1>8. CallsTyped' /\ CallsSound' /\ HeldOnce'
  <2>1. CASE Return(c)
    <3>1. Sound(NoCall)'
      BY <1>4, EmptyCall, SoundKept
    <3> QED
      BY <1>4, <2>1, <3>1, EmptyCall, CallStep DEF FinishTake, UnchangedTables, Return, Holding
  <2>2. CASE SameOwner(c) /\ call' = [call EXCEPT ![c] = taken]
    <3>1. call[c] \in CallRecords /\ Targeted(call[c]) /\ Checked(call[c])
      BY CallSound DEF Sound
    <3>2. PICK r \in CallRecords : r = taken
      BY <1>1, <3>1 DEF CallRecords, Pcs, ChallengeRecords
    <3>3. /\ r.pc = "again" /\ r.op = call[c].op /\ r.challenge = h /\ r.owner = call[c].owner
          /\ r.by = call[c].by /\ r.free = call[c].free
      BY <3>1, <3>2 DEF CallRecords
    <3>4. call[c].op = "finish"
      BY <3>1 DEF FinishTake, Targeted
    <3>5. \A d \in Devices : device[d].state # "absent" => origin[d] # h
      BY <1>1 DEF IInv, Origins
    <3>6. ASSUME NEW e \in Calls, e # c, Holding(call[e]) PROVE call[e].challenge # h
      BY <1>1, <3>6, CallSound DEF Sound, HoldsUnused
    <3>7. HoldsUnused(r)'
      BY <1>1, <1>2, <1>3, <2>2, <3>3, <3>5 DEF FinishTake, UnchangedTables, SameOwner, HoldsUnused,
                                             IInv, TablesTyped
    <3>8. Sound(r)'
      BY <3>1, <3>3, <3>4, <3>7 DEF FinishTake, UnchangedTables, Sound, KnowsKey, Targeted, Checked
    <3>9. CallsTyped'
      BY <2>2, <3>2 DEF IInv, CallsTyped
    <3>10. ASSUME NEW x \in Calls PROVE Sound(call[x])'
      <4>1. CASE x = c
        <5>1. call'[x] = r
          BY <2>2, <3>2, <4>1 DEF IInv, CallsTyped
        <5> QED
          BY <3>8, <5>1 DEF Sound, HoldsUnused, Holding, KnowsKey, Targeted, Checked
      <4>2. CASE x # c
        <5>1. call'[x] = call[x] /\ Sound(call[x])
          BY <2>2, <4>2 DEF IInv, CallsTyped, CallsSound
        <5> QED
          BY <1>4, <5>1, SoundKept DEF FinishTake, UnchangedTables, Sound, HoldsUnused, Holding,
                                       KnowsKey, Targeted, Checked
      <4> QED
        BY <4>1, <4>2
    <3>11. HeldOnce'
      BY <2>2, <3>2, <3>3, <3>6 DEF IInv, CallsTyped, HeldOnce, Holding
    <3> QED
      BY <3>9, <3>10, <3>11 DEF CallsSound
  <2>3. call \in [Calls -> CallRecords]
    BY DEF IInv, CallsTyped
  <2> QED
    BY <2>1, <2>2, <2>3 DEF FinishTake
<1> QED
  BY <1>5, <1>6, <1>7, <1>8 DEF IInv

\* The device takes the place of the call that held its challenge.
LEMMA FinishInsertInv ==
  ASSUME IInv, NEW c \in Calls, NEW d \in Devices, FinishInsert(c, d) PROVE IInv'
<1> DEFINE h == call[c].challenge
           row == [state |-> "registered", owner |-> call[c].owner, name |-> call[c].name,
                   material |-> call[c].material]
<1>1. row \in DeviceRecords /\ row.state = "registered" /\ row.owner = call[c].owner
      /\ row.name = call[c].name
  BY CallSound DEF CallRecords, DeviceRecords
<1>2. /\ device' = [device EXCEPT ![d] = row] /\ origin' = [origin EXCEPT ![d] = h]
      /\ device[d].state = "absent" /\ Holding(call[c])
      /\ UNCHANGED <<restricted, challenge, proposal>>
  BY DEF FinishInsert, Holding
<1>3. /\ h \in Challenges /\ challenge[h].state = "gone" /\ challenge[h].owner = call[c].owner
      /\ \A e \in Devices : device[e].state # "absent" => origin[e] # h
  BY <1>2, CallSound DEF FinishInsert, Sound, HoldsUnused, Targeted
<1> HIDE DEF row
<1>4. TablesTyped'
  BY <1>1, <1>2, <1>3 DEF IInv, TablesTyped
<1>5. NamesUnique'
  <2>1. ~NameTaken(call[c].owner, call[c].name)
    BY DEF FinishInsert, MayInsert
  <2> QED
    BY <1>1, <1>2, <2>1 DEF IInv, TablesTyped, NamesUnique, NameTaken, Registered
<1>6. Origins'
  BY <1>1, <1>2, <1>3 DEF IInv, TablesTyped, Origins
<1>7. Confirmed'
  BY <1>2 DEF IInv, TablesTyped, Confirmed, ConfirmedProposalMatches, Registered
<1>8. CallsTyped'
  BY EmptyCall DEF FinishInsert, Return, IInv, CallsTyped
<1>9. ASSUME NEW x \in Calls PROVE Sound(call[x])'
  <2>1. CASE x = c
    <3>1. call'[x] = NoCall
      BY <2>1 DEF FinishInsert, Return, IInv, CallsTyped
    <3> QED
      BY <3>1, EmptyCall DEF Sound, HoldsUnused, Holding, KnowsKey, Targeted, Checked
  <2>2. CASE x # c
    <3>1. call'[x] = call[x] /\ Sound(call[x])
      BY <2>2 DEF FinishInsert, Return, IInv, CallsTyped, CallsSound
    <3>2. HoldsUnused(call[x])
      BY <3>1 DEF Sound
    <3>3. Holding(call[x]) => call[x].challenge # h
      BY <1>2, <2>2 DEF IInv, HeldOnce
    <3>4. HoldsUnused(call[x])'
      BY <1>2, <3>1, <3>2, <3>3 DEF HoldsUnused, Holding, IInv, TablesTyped
    <3>5. KnowsKey(call[x])' /\ Targeted(call[x])'
      BY <1>1, <1>2, <3>1 DEF Sound, KnowsKey, Targeted, Proposed, IInv, TablesTyped
    <3>6. Checked(call[x])'
      BY <1>2, <3>1 DEF Sound, Checked
    <3> QED
      BY <3>4, <3>5, <3>6 DEF Sound
  <2> QED
    BY <2>1, <2>2
<1>10. HeldOnce'
  BY EmptyCall DEF FinishInsert, Return, IInv, CallsTyped, HeldOnce, Holding
<1> QED
  BY <1>4, <1>5, <1>6, <1>7, <1>8, <1>9, <1>10 DEF IInv, CallsSound

\* A deletion takes the proposals that name the device with it.
LEMMA DeleteDeviceInv == ASSUME IInv, NEW c \in Calls, DeleteDevice(c) PROVE IInv'
<1> DEFINE d == call[c].device
<1>1. CASE Return(c) /\ UNCHANGED <<device, proposal, restricted>>
  BY <1>1, ReturnKeeps DEF DeleteDevice, UnchangedTables
<1>2. CASE d \in Registered /\ ~(Return(c) /\ UNCHANGED <<device, proposal, restricted>>)
  <2>1. PICK gone \in DeviceRecords : gone = [NoDevice EXCEPT !.state = "deleted"]
    BY DEF NoDevice, DeviceRecords
  <2>2. gone.state = "deleted"
    BY <2>1 DEF NoDevice
  <2>3. /\ device' = [device EXCEPT ![d] = gone] /\ restricted' = restricted \ {d}
        /\ call' = [Freed(d) EXCEPT ![c] = NoCall]
        /\ UNCHANGED <<challenge, origin>>
        /\ d \in Devices /\ device[d].state = "registered"
    BY <1>2, <2>1 DEF DeleteDevice, Registered
  <2>4. ASSUME NEW p \in Proposals
        PROVE  /\ proposal'[p] \in ProposalRecords
               /\ proposal[p].device # d => proposal'[p] = proposal[p]
               /\ proposal[p].device = d => proposal'[p].status = "deleted"
    BY <1>2 DEF DeleteDevice, ProposalsWithout, IInv, TablesTyped, NoProposal, ProposalRecords,
                Statuses
  <2>5. proposal' \in [Proposals -> ProposalRecords]
    BY <1>2, <2>4 DEF DeleteDevice, ProposalsWithout
  <2>6. TablesTyped'
    BY <2>3, <2>5 DEF IInv, TablesTyped
  <2>7. NamesUnique' /\ Origins'
    BY <2>2, <2>3 DEF IInv, TablesTyped, NamesUnique, Origins
  <2>8. Confirmed'
    BY <2>2, <2>3, <2>4 DEF IInv, TablesTyped, Confirmed, ConfirmedProposalMatches, Registered
  <2>9. Grow
    BY <2>2, <2>3, <2>4 DEF Grow, ChallengesGrow, DevicesGrow, ProposalsGrow, NoDeviceMade, IInv,
                            TablesTyped
  <2>10. ASSUME NEW x \in Calls
         PROVE  /\ call'[x] \in CallRecords /\ Sound(call[x])'
                /\ Holding(call'[x]) => Holding(call[x]) /\ call'[x].challenge = call[x].challenge
    <3>1. CASE x = c
      <4>1. call'[x] = NoCall
        BY <2>3, <3>1 DEF Freed
      <4> QED
        BY <4>1, EmptyCall DEF Sound, HoldsUnused, Holding, KnowsKey, Targeted, Checked
    <3>2. CASE x # c
      <4>1. call'[x] = IF call[x].by = d THEN [call[x] EXCEPT !.free = TRUE] ELSE call[x]
        BY <2>3, <3>2 DEF Freed
      <4>2. PICK r \in CallRecords : r = call'[x]
        BY <4>1, CallSound DEF CallRecords
      <4>3. /\ r.pc = call[x].pc /\ r.op = call[x].op /\ r.owner = call[x].owner
            /\ r.by = call[x].by /\ r.material = call[x].material
            /\ r.challenge = call[x].challenge /\ r.device = call[x].device
            /\ r.proposal = call[x].proposal
            /\ ~r.free => call[x].by # d /\ ~call[x].free
        BY <4>1, <4>2, CallSound DEF CallRecords
      <4>4. Sound(r)
        BY <4>3, CallSound DEF Sound, HoldsUnused, Holding, KnowsKey, Targeted, Checked
      <4>5. Sound(r)'
        BY <2>3, <2>9, <4>3, <4>4, SoundKept
      <4> QED
        BY <4>2, <4>3, <4>5 DEF Sound, HoldsUnused, Holding, KnowsKey, Targeted, Checked
    <3> QED
      BY <3>1, <3>2
  <2>11. CallsTyped' /\ CallsSound'
    BY <2>3, <2>10 DEF CallsTyped, CallsSound, Freed
  <2>12. HeldOnce'
    BY <2>10 DEF IInv, HeldOnce, Holding
  <2> QED
    BY <2>6, <2>7, <2>8, <2>11, <2>12 DEF IInv
<1>3. CASE ~(d \in Registered) /\ ~(Return(c) /\ UNCHANGED <<device, proposal, restricted>>)
  BY <1>3 DEF DeleteDevice
<1> QED
  BY <1>1, <1>2, <1>3

\* A step that writes proposals and ends its call, or leaves the calls alone.
LEMMA ProposalStep ==
  ASSUME IInv, UNCHANGED <<device, restricted, challenge, origin>>,
         proposal' \in [Proposals -> ProposalRecords], ProposalsGrow, Confirmed',
         UNCHANGED call \/ \E c \in Calls : Return(c)
  PROVE  IInv'
<1>1. Grow
  BY DEF Grow, ChallengesGrow, DevicesGrow, NoDeviceMade
<1>2. TablesTyped' /\ NamesUnique' /\ Origins'
  BY DEF IInv, TablesTyped, NamesUnique, Origins
<1>3. CASE UNCHANGED call
  <2>1. ASSUME NEW x \in Calls PROVE Sound(call[x])'
    <3>1. Sound(call[x]) /\ call'[x] = call[x]
      BY <1>3 DEF IInv, CallsSound
    <3> QED
      BY <1>1, <3>1, SoundKept DEF Sound, HoldsUnused, Holding, KnowsKey, Targeted, Checked
  <2>2. CallsTyped' /\ HeldOnce'
    BY <1>3 DEF IInv, CallsTyped, HeldOnce
  <2> QED
    BY <1>2, <2>1, <2>2 DEF IInv, CallsSound
<1>4. ASSUME NEW c \in Calls, Return(c) PROVE IInv'
  <2>1. Sound(NoCall)'
    BY <1>1, EmptyCall, SoundKept
  <2>2. CallsTyped' /\ CallsSound' /\ HeldOnce'
    BY <1>1, <1>4, <2>1, EmptyCall, CallStep DEF Return, Holding
  <2> QED
    BY <1>2, <2>2 DEF IInv
<1> QED
  BY <1>3, <1>4

\* The proposal a link read is still pending: so it has the key that was read.
LEMMA LinkMarkInv == ASSUME IInv, NEW c \in Calls, LinkMark(c) PROVE IInv'
<1> DEFINE p == call[c].proposal
           d == call[c].device
<1>1. CASE UNCHANGED proposal
  BY <1>1, ReturnKeeps DEF LinkMark, UnchangedTables
<1>2. CASE Open(p) /\ d \in Registered
  <2>1. /\ p \in Proposals /\ proposal[p] \in ProposalRecords /\ proposal[p].status = "pending"
        /\ call[c] \in CallRecords /\ d \in Devices
    BY <1>2, CallSound DEF LinkMark, Sound, Targeted, Proposed, Open, IInv, TablesTyped, Registered
  <2>2. device[d].owner = call[c].owner /\ device[d].material = proposal[p].material
    BY <1>2, <2>1, CallSound DEF LinkMark, Sound, KnowsKey, Registered
  <2>3. PICK row \in ProposalRecords :
          row = [proposal[p] EXCEPT !.status = "confirmed", !.device = d, !.by = call[c].owner]
    <3>1. /\ "confirmed" \in Statuses /\ d \in Devices \cup {None}
          /\ call[c].owner \in Owners \cup {None}
      BY <2>1 DEF CallRecords, Statuses
    <3> QED
      BY <2>1, <3>1 DEF ProposalRecords
  <2>4. /\ row.status = "confirmed" /\ row.device = d /\ row.by = call[c].owner
        /\ row.material = proposal[p].material
    BY <2>1, <2>3 DEF ProposalRecords
  <2>5. proposal' = [proposal EXCEPT ![p] = row]
    BY <1>2, <2>3 DEF LinkMark, IInv, TablesTyped
  <2>6. proposal' \in [Proposals -> ProposalRecords] /\ ProposalsGrow
    BY <2>1, <2>4, <2>5 DEF IInv, TablesTyped, ProposalsGrow
  <2>7. Confirmed'
    BY <1>2, <2>1, <2>2, <2>4, <2>5 DEF LinkMark, IInv, TablesTyped, Confirmed,
       ConfirmedProposalMatches, Registered
  <2> QED
    BY <2>6, <2>7, ProposalStep DEF LinkMark
<1> QED
  BY <1>1, <1>2 DEF LinkMark

LEMMA RejectMarkInv == ASSUME IInv, NEW c \in Calls, RejectMark(c) PROVE IInv'
<1> DEFINE p == call[c].proposal
<1>1. CASE UNCHANGED proposal
  BY <1>1, ReturnKeeps DEF RejectMark, UnchangedTables
<1>2. CASE Open(p) /\ p \in Proposals
  <2>1. proposal[p] \in ProposalRecords /\ proposal[p].status = "pending"
    BY <1>2 DEF Open, IInv, TablesTyped
  <2>2. PICK row \in ProposalRecords : row = [proposal[p] EXCEPT !.status = "rejected"]
    BY <2>1 DEF ProposalRecords, Statuses
  <2>3. row.status = "rejected" /\ row.material = proposal[p].material
    BY <2>1, <2>2 DEF ProposalRecords
  <2>4. proposal' = [proposal EXCEPT ![p] = row]
    BY <1>2, <2>2 DEF RejectMark, IInv, TablesTyped
  <2>5. proposal' \in [Proposals -> ProposalRecords] /\ ProposalsGrow /\ Confirmed'
    BY <2>1, <2>3, <2>4 DEF RejectMark, IInv, TablesTyped, ProposalsGrow, Confirmed,
       ConfirmedProposalMatches, Registered
  <2> QED
    BY <2>5, ProposalStep DEF RejectMark
<1>3. CASE ~(p \in Proposals)
  <2>1. UNCHANGED proposal
    BY <1>3 DEF RejectMark, IInv, TablesTyped
  <2> QED
    BY <1>1, <2>1
<1> QED
  BY <1>1, <1>2, <1>3 DEF RejectMark

-----------------------------------------------------------------------------
(* Around the calls *)

LEMMA ProposeInv ==
  ASSUME IInv, NEW p \in Proposals, NEW m \in Materials, Propose(p, m) PROVE IInv'
<1>1. PICK row \in ProposalRecords :
        row = [NoProposal EXCEPT !.status = "pending", !.material = m]
  BY DEF NoProposal, ProposalRecords, Statuses
<1>2. row.status = "pending"
  BY <1>1 DEF NoProposal
<1>3. proposal' = [proposal EXCEPT ![p] = row] /\ proposal[p].status = "absent"
  BY <1>1 DEF Propose
<1>4. proposal' \in [Proposals -> ProposalRecords] /\ ProposalsGrow
  BY <1>3 DEF IInv, TablesTyped, ProposalsGrow
<1>5. Confirmed'
  BY <1>2, <1>3 DEF Propose, IInv, TablesTyped, Confirmed, ConfirmedProposalMatches, Registered
<1> QED
  BY <1>4, <1>5, ProposalStep DEF Propose

LEMMA SweepInv == ASSUME IInv, Sweep PROVE IInv'
<1>1. ASSUME NEW p \in Proposals
      PROVE  /\ proposal'[p] \in ProposalRecords
             /\ \/ proposal'[p] = proposal[p]
                \/ /\ proposal[p].status = "pending" /\ proposal'[p].status = "expired"
                   /\ proposal'[p].material = proposal[p].material
  <2>1. PICK due \in SUBSET Proposals : proposal' = Swept(due)
    BY DEF Sweep
  <2>2. proposal[p] \in ProposalRecords /\ "expired" \in Statuses
    BY DEF IInv, TablesTyped, Statuses
  <2>3. PICK row \in ProposalRecords : row = [proposal[p] EXCEPT !.status = "expired"]
    BY <2>2 DEF ProposalRecords
  <2>4. row.status = "expired" /\ row.material = proposal[p].material
    BY <2>2, <2>3 DEF ProposalRecords
  <2>5. proposal'[p] = IF p \in due /\ Open(p) THEN row ELSE proposal[p]
    BY <2>1, <2>3 DEF Swept
  <2> QED
    BY <2>2, <2>4, <2>5 DEF Open
<1>2. proposal' \in [Proposals -> ProposalRecords]
  BY <1>1 DEF Sweep, Swept
<1>3. ProposalsGrow
  BY <1>1 DEF ProposalsGrow
<1>4. Confirmed'
  BY <1>1 DEF Sweep, IInv, Confirmed, ConfirmedProposalMatches, Registered
<1> QED
  BY <1>2, <1>3, <1>4, ProposalStep DEF Sweep

LEMMA SetPolicyInv == ASSUME IInv, NEW d \in Devices, SetPolicy(d) PROVE IInv'
<1>1. NamesUnique' /\ Origins' /\ Confirmed'
  BY DEF SetPolicy, IInv, NamesUnique, Origins, Confirmed, ConfirmedProposalMatches, Registered
<1>2. TablesTyped'
  BY DEF SetPolicy, IInv, TablesTyped
<1>3. Grow
  BY NothingGrows DEF SetPolicy
<1>4. ASSUME NEW x \in Calls
      PROVE  /\ call'[x] \in CallRecords /\ Sound(call[x])'
             /\ Holding(call'[x]) => Holding(call[x]) /\ call'[x].challenge = call[x].challenge
  <2>1. CASE restricted' = restricted \cup {d} /\ UNCHANGED call
    <3>1. call'[x] = call[x] /\ Sound(call[x]) /\ call[x] \in CallRecords
      BY <2>1, CallSound
    <3> QED
      BY <1>3, <2>1, <3>1, SoundKept DEF Sound, HoldsUnused, Holding, KnowsKey, Targeted, Checked
  <2>2. CASE restricted' = restricted \ {d} /\ call' = Freed(d)
    <3>1. call'[x] = IF call[x].by = d THEN [call[x] EXCEPT !.free = TRUE] ELSE call[x]
      BY <2>2 DEF Freed
    <3>2. PICK r \in CallRecords : r = call'[x]
      BY <3>1, CallSound DEF CallRecords
    <3>3. /\ r.pc = call[x].pc /\ r.op = call[x].op /\ r.owner = call[x].owner
          /\ r.by = call[x].by /\ r.material = call[x].material
          /\ r.challenge = call[x].challenge /\ r.device = call[x].device
          /\ r.proposal = call[x].proposal
          /\ ~r.free => call[x].by # d /\ ~call[x].free
      BY <3>1, <3>2, CallSound DEF CallRecords
    <3>4. Sound(r)
      BY <3>3, CallSound DEF Sound, HoldsUnused, Holding, KnowsKey, Targeted, Checked
    <3>5. Sound(r)'
      BY <1>3, <2>2, <3>3, <3>4, SoundKept
    <3> QED
      BY <3>2, <3>3, <3>5 DEF Sound, HoldsUnused, Holding, KnowsKey, Targeted, Checked
  <2> QED
    BY <2>1, <2>2 DEF SetPolicy
<1>5. CallsTyped' /\ CallsSound'
  <2>1. call' \in [Calls -> CallRecords]
    BY <1>4 DEF SetPolicy, Freed, IInv, CallsTyped
  <2> QED
    BY <1>4, <2>1 DEF CallsTyped, CallsSound
<1>6. HeldOnce'
  BY <1>4 DEF IInv, HeldOnce, Holding
<1> QED
  BY <1>1, <1>2, <1>5, <1>6 DEF IInv

LEMMA RestartInv == ASSUME IInv, Restart PROVE IInv'
<1>1. ASSUME NEW h \in Challenges
      PROVE  /\ challenge'[h] \in ChallengeRecords
             /\ challenge[h].state # "open" => challenge'[h] = challenge[h]
  BY DEF Restart, Gone, NoChallenge, IInv, TablesTyped, ChallengeRecords
<1>2. challenge' \in [Challenges -> ChallengeRecords]
  BY <1>1 DEF Restart
<1>3. TablesTyped'
  BY <1>2 DEF Restart, UnchangedTables, IInv, TablesTyped
<1>4. NamesUnique' /\ Confirmed'
  BY DEF Restart, UnchangedTables, IInv, NamesUnique, Confirmed, ConfirmedProposalMatches, Registered
<1>5. Origins'
  <2>1. device' = device /\ origin' = origin
    BY DEF Restart, UnchangedTables
  <2>2. ASSUME NEW d \in Devices, device[d].state # "absent"
        PROVE  /\ origin[d] \in Challenges
               /\ challenge'[origin[d]] = challenge[origin[d]]
               /\ challenge[origin[d]].state = "gone"
               /\ device[d].state = "registered" => challenge[origin[d]].owner = device[d].owner
               /\ \A e \in Devices : device[e].state # "absent" /\ origin[e] = origin[d] => e = d
    BY <1>1, <2>2 DEF IInv, Origins
  <2> QED
    BY <2>1, <2>2 DEF Origins
<1>6. ASSUME NEW x \in Calls PROVE call'[x] = NoCall
  BY <1>6 DEF Restart
<1>7. CallsTyped' /\ HeldOnce'
  BY <1>6, EmptyCall DEF Restart, CallsTyped, HeldOnce, Holding
<1>8. CallsSound'
  BY <1>6, EmptyCall DEF CallsSound, Sound, HoldsUnused, Holding, KnowsKey, Targeted, Checked
<1> QED
  BY <1>3, <1>4, <1>5, <1>7, <1>8 DEF IInv

-----------------------------------------------------------------------------
(* Every step *)

LEMMA StepInv == ASSUME IInv, NEW c \in Calls, Step(c) PROVE IInv'
BY ArriveInv, CheckInv, BeginNameInv, FinishTakeInv, FinishNameInv, DeleteDeviceInv,
   BeginChallengeInv, FinishInsertInv, LinkProposalInv, LinkDeviceInv, LinkMarkInv, RejectMarkInv,
   AbortInv DEF Step

LEMMA StutterInv == ASSUME IInv, UNCHANGED vars PROVE IInv'
<1>1. TablesSound' /\ Grow
  BY TablesKept DEF vars, UnchangedTables, IInv, TablesSound
<1> QED
  BY <1>1, ProposalStep DEF vars, IInv, TablesSound, TablesTyped, Grow

LEMMA NextInv == IInv /\ [Next]_vars => IInv'
<1> SUFFICES ASSUME IInv, [Next]_vars PROVE IInv'
  OBVIOUS
<1> QED
  BY StepInv, ProposeInv, SetPolicyInv, SweepInv, RestartInv, StutterInv DEF Next

LEMMA Invariance == Spec => []IInv
<1> QED
  BY InitInv, NextInv, PTL DEF Spec

\* Tables and calls have their types, and no account has two devices of one name,
\* although register_finish looks the name up before its INSERT.
THEOREM TypeCorrect == Spec => []TypeOK
<1> QED
  BY Invariance, InvImplies, PTL

\* A ceremony enrols at most one device, in the account that began it: taking the
\* challenge out of the map first makes a second finish fail.
THEOREM TouchEnrolsOnce == Spec => []OneDevicePerTouch
<1> QED
  BY Invariance, InvImplies, PTL

\* What link_proposal read before its UPDATE still holds when the proposal is confirmed,
\* and for as long as it stays confirmed.
THEOREM ConfirmationsMatch == Spec => []ConfirmedProposalMatches
<1> QED
  BY Invariance, InvImplies, PTL

\* No call of a device that stays restricted gets past ensure_may_manage_credentials.
THEOREM RestrictedStaysOut == Spec => []RestrictedDeviceDoesNotEnrol
<1> QED
  BY Invariance, InvImplies, PTL

-----------------------------------------------------------------------------
(* Decisions *)

Decided(p) == proposal[p].status \in {"confirmed", "rejected", "expired"}
Stands(p)  == \/ proposal'[p] = proposal[p]
              \/ proposal'[p].status = "deleted" /\ proposal[p].device \notin Registered'

\* Every UPDATE of a proposal asks for status = 'pending'.
LEMMA DecidedStands ==
  ASSUME IInv, [Next]_vars, NEW p \in Proposals, Decided(p)  PROVE Stands(p)
<1>1. CASE UNCHANGED proposal
  BY <1>1 DEF Stands
<1>2. ASSUME NEW c \in Calls, DeleteDevice(c) PROVE Stands(p)
  <2>1. CASE UNCHANGED proposal
    BY <2>1 DEF Stands
  <2>2. CASE ~UNCHANGED proposal
    <3>1. PICK gone \in DeviceRecords : gone = [NoDevice EXCEPT !.state = "deleted"]
      BY DEF NoDevice, DeviceRecords
    <3>2. gone.state = "deleted"
      BY <3>1 DEF NoDevice
    <3>3. device' = [device EXCEPT ![call[c].device] = gone] /\ call[c].device \in Devices
          /\ proposal' = ProposalsWithout(call[c].device)
      BY <1>2, <2>2, <3>1 DEF DeleteDevice, Registered
    <3>4. call[c].device \notin Registered'
      BY <3>2, <3>3 DEF Registered, IInv, TablesTyped
    <3> QED
      BY <3>3, <3>4 DEF ProposalsWithout, NoProposal, Stands
  <2> QED
    BY <2>1, <2>2
<1>3. ASSUME NEW c \in Calls, LinkMark(c) \/ RejectMark(c) PROVE Stands(p)
  BY <1>3 DEF LinkMark, RejectMark, Open, Decided, Stands, IInv, TablesTyped
<1>4. ASSUME NEW q \in Proposals, NEW m \in Materials, Propose(q, m) PROVE Stands(p)
  BY <1>4 DEF Propose, Decided, Stands, IInv, TablesTyped
<1>5. CASE Sweep
  BY <1>5 DEF Sweep, Swept, Open, Decided, Stands
<1>6. ASSUME NEW c \in Calls, Step(c) PROVE Stands(p)
  <2>1. ASSUME UnchangedTables PROVE Stands(p)
    BY <1>1, <2>1 DEF UnchangedTables
  <2>2. ASSUME NEW d \in Devices, FinishInsert(c, d) PROVE Stands(p)
    BY <1>1, <2>2 DEF FinishInsert
  <2> QED
    BY <1>2, <1>3, <1>6, <2>1, <2>2 DEF Step, Arrive, Check, BeginName, FinishTake, FinishName,
       BeginChallenge, LinkProposal, LinkDevice, Abort
<1> QED
  BY <1>1, <1>4, <1>5, <1>6 DEF Next, SetPolicy, Restart, UnchangedTables, vars

\* A proposal is decided once: confirmations, rejections and the sweep exclude each
\* other, and only the deletion of its device takes the answer away.
THEOREM DecisionsStand == Spec => DecisionIsFinal
<1>1. IInv /\ [Next]_vars =>
        \A p \in Proposals : proposal[p].status \in {"confirmed", "rejected", "expired"} =>
          \/ proposal'[p] = proposal[p]
          \/ proposal'[p].status = "deleted" /\ proposal[p].device \notin Registered'
  BY DecidedStands DEF Decided, Stands
<1> QED
  BY <1>1, Invariance, PTL DEF Spec, DecisionIsFinal

=============================================================================
