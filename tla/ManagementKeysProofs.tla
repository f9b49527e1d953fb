------------------------ MODULE ManagementKeysProofs ------------------------
(***************************************************************************)
(* Theorems about ManagementKeys, for any number of devices, keys, entries *)
(* and concurrent calls.                                                   *)
(***************************************************************************)
EXTENDS ManagementKeys, TLAPS

-----------------------------------------------------------------------------
(* The inductive invariant *)

KeysTyped ==
    /\ management \in [Management -> ManagementRows]
    /\ provisioned \in [Provisioned -> ProvisionedRows]
    /\ source \in [Names -> Provisioned \cup {None}]
    /\ \A m \in Management :
         /\ management[m].whole <=> management[m].status # "absent"
         /\ management[m].wraps \subseteq devices
    /\ \A p \in Provisioned :
         /\ provisioned[p].whole <=> provisioned[p].status = "active"
         /\ provisioned[p].wraps \subseteq devices
         /\ provisioned[p].whole => provisioned[p].of \in Made
PoliciesTyped ==
    /\ devices \subseteq Devices /\ banned \subseteq devices /\ restricted \subseteq devices
    /\ permitted \in [Devices -> SUBSET Names]
CallsTyped == call \in [Calls -> CallRecords]

LEMMA TypeParts == TypeOK <=> KeysTyped /\ PoliciesTyped /\ CallsTyped
BY DEF TypeOK, KeysTyped, PoliciesTyped, CallsTyped

\* The management key of a "provision" was found; of a call whose device was
\* restricted all along, the names no longer to be judged were allowed at some time.
Judged(r) ==
  /\ r.pc # "idle" /\ r.op = "provision" => r.management \in Made
  /\ r.by # None /\ ~r.free =>
       /\ r.by \in restricted
       /\ permitted[r.by] \subseteq r.seen
       /\ r.pc # "change"
       /\ r.pc \in {"ban", "policy", "links"} => r.op = "fetch"
       /\ r.pc = "judge" => r.op = "fetch" /\ r.linked # {} /\ r.linked \ r.todo \subseteq r.seen
       /\ r.pc \in {"body", "wrap"} =>
            r.op = "fetch" /\ r.linked # {} /\ r.linked \subseteq r.seen

CallsJudged == \A c \in Calls : Judged(call[c])

IInv == KeysTyped /\ PoliciesTyped /\ CallsTyped /\ CallsJudged

LEMMA EmptyCall == NoCall \in CallRecords /\ Judged(NoCall) /\ NoCall.by = None
BY DEF NoCall, CallRecords, Pcs, Judged

LEMMA InvImplies == IInv => TypeOK /\ EnvelopesAreJudged
<1> SUFFICES ASSUME IInv PROVE TypeOK /\ EnvelopesAreJudged
  OBVIOUS
<1>1. TypeOK
  BY TypeParts DEF IInv
<1>2. EnvelopesAreJudged
  BY DEF IInv, CallsJudged, Judged, EnvelopesAreJudged
<1> QED
  BY <1>1, <1>2

LEMMA InitInv == Init => IInv
<1> SUFFICES ASSUME Init PROVE IInv
  OBVIOUS
<1>1. KeysTyped
  BY DEF Init, KeysTyped, ManagementRows, ProvisionedRows, NoManagement, NoProvisioned
<1>2. PoliciesTyped
  BY DEF Init, PoliciesTyped
<1>3. CallsTyped /\ CallsJudged
  BY EmptyCall DEF Init, CallsTyped, CallsJudged
<1> QED
  BY <1>1, <1>2, <1>3 DEF IInv

-----------------------------------------------------------------------------
(* Steps of one call *)

\* A step that replaces one call and leaves the policies alone.
LEMMA CallStep ==
  ASSUME IInv, NEW c \in Calls, NEW r \in CallRecords, Judged(r),
         call' = [call EXCEPT ![c] = r], UNCHANGED <<restricted, permitted>>,
         Made \subseteq Made'
  PROVE  CallsTyped' /\ CallsJudged'
<1>1. CallsTyped'
  BY DEF IInv, CallsTyped
<1>2. ASSUME NEW x \in Calls PROVE Judged(call[x])'
  <2>1. CASE x = c
    BY <2>1 DEF IInv, CallsTyped, Judged
  <2>2. CASE x # c
    BY <2>2 DEF IInv, CallsTyped, CallsJudged, Judged
  <2> QED
    BY <2>1, <2>2
<1> QED
  BY <1>1, <1>2 DEF CallsJudged

LEMMA ReturnStep ==
  ASSUME IInv, NEW c \in Calls, Return(c), UNCHANGED <<restricted, permitted>>,
         Made \subseteq Made'
  PROVE  CallsTyped' /\ CallsJudged'
BY CallStep, EmptyCall DEF Return

LEMMA KeysKept ==
  ASSUME KeysTyped, UnchangedKeys, UNCHANGED devices  PROVE KeysTyped'
BY DEF KeysTyped, UnchangedKeys, Made

LEMMA PoliciesKept ==
  ASSUME PoliciesTyped, UnchangedPolicies  PROVE PoliciesTyped'
BY DEF PoliciesTyped, UnchangedPolicies

\* Moving on to another statement.
LEMMA GoToStep ==
  ASSUME IInv, NEW c \in Calls, NEW pc \in Pcs, GoTo(c, pc), UNCHANGED <<restricted, permitted>>,
         Made \subseteq Made',
         Judged([call[c] EXCEPT !.pc = pc])
  PROVE  CallsTyped' /\ CallsJudged'
<1>1. [call[c] EXCEPT !.pc = pc] \in CallRecords
  BY DEF IInv, CallsTyped, CallRecords
<1>2. call' = [call EXCEPT ![c] = [call[c] EXCEPT !.pc = pc]]
  BY DEF GoTo, IInv, CallsTyped
<1> QED
  BY <1>1, <1>2, CallStep

\* Such a step when it also leaves the keys and the devices alone.
LEMMA OneCallStep ==
  ASSUME IInv, UnchangedPolicies, UnchangedKeys, CallsTyped' /\ CallsJudged'
  PROVE  IInv'
BY KeysKept, PoliciesKept DEF IInv, UnchangedPolicies

LEMMA MadeKept == ASSUME UNCHANGED management PROVE Made \subseteq Made'
BY DEF Made

LEMMA CallTyped == ASSUME IInv, NEW c \in Calls PROVE call[c] \in CallRecords /\ Judged(call[c])
BY DEF IInv, CallsTyped, CallsJudged

\* A step that ends its call.
LEMMA ReturnKeeps ==
  ASSUME IInv, NEW c \in Calls, Return(c), UnchangedPolicies, UnchangedKeys
  PROVE  IInv'
BY ReturnStep, OneCallStep, MadeKept DEF UnchangedPolicies, UnchangedKeys

LEMMA GoToKeeps ==
  ASSUME IInv, NEW c \in Calls, NEW pc \in Pcs, GoTo(c, pc), UnchangedPolicies, UnchangedKeys,
         Judged([call[c] EXCEPT !.pc = pc])
  PROVE  IInv'
BY GoToStep, OneCallStep, MadeKept DEF UnchangedPolicies, UnchangedKeys

-----------------------------------------------------------------------------
(* The statements of a call *)

\* What a request is before its target is filled in.
Fresh(r, op) ==
  /\ r \in CallRecords
  /\ r.op = op /\ r.pc \in {"check", "ban", "body"}
  /\ r.pc = "ban" => op = "fetch"
  /\ r.pc = "body" => r.by = None
  /\ r.by # None /\ ~r.free => r.by \in restricted /\ permitted[r.by] \subseteq r.seen

LEMMA RequestFresh ==
  ASSUME IInv, NEW by \in {None} \cup devices, NEW op \in Ops
  PROVE  Fresh(Request(op, by), op)
<1>1. by \in Devices \cup {None}
  BY DEF IInv, PoliciesTyped
<1> QED
  BY <1>1 DEF IInv, PoliciesTyped, Fresh, Request, NoCall, FirstCheck, Unrestricted, Permits,
              CallRecords, Pcs, Ops

LEMMA FreshJudged ==
  ASSUME NEW op \in Ops, NEW r, Fresh(r, op), op = "provision" => r.management \in Made
  PROVE  r \in CallRecords /\ Judged(r)
BY DEF Fresh, Judged

LEMMA ArriveInv == ASSUME IInv, NEW c \in Calls, Arrive(c) PROVE IInv'
<1>1. Made \subseteq Management /\ Stored \subseteq Provisioned
  BY DEF Made, Stored
<1>2. ASSUME NEW r \in CallRecords, Judged(r), Begin(c, r) PROVE IInv'
  BY <1>2, CallStep, OneCallStep, MadeKept DEF Arrive, Begin, UnchangedPolicies, UnchangedKeys
<1>3. PICK by \in {None} \cup (devices \ banned) :
         \/ \E some \in Recipients : Begin(c, [Request("create", by) EXCEPT !.for = some])
         \/ \E m \in Made, op \in {"defaults", "revoke", "envelope"} :
              Begin(c, [Request(op, by) EXCEPT !.management = m])
         \/ \E m \in Made, some \in Recipients :
              Begin(c, [Request("provision", by) EXCEPT !.management = m, !.for = some])
         \/ \E p \in Stored, op \in {"delete", "fetch"} :
              Begin(c, [Request(op, by) EXCEPT !.provisioned = p])
  BY DEF Arrive
<1>4. \A op \in Ops : Fresh(Request(op, by), op)
  BY RequestFresh
<1>5. ASSUME NEW some \in Recipients, Begin(c, [Request("create", by) EXCEPT !.for = some]) PROVE IInv'
  <2> DEFINE r == [Request("create", by) EXCEPT !.for = some]
  <2>1. Fresh(r, "create")
    BY <1>4 DEF Fresh, CallRecords, Ops, Recipients
  <2> QED
    BY <1>2, <1>5, <2>1, FreshJudged DEF Ops
<1>6. ASSUME NEW m \in Made, NEW op \in {"defaults", "revoke", "envelope"},
             Begin(c, [Request(op, by) EXCEPT !.management = m])
      PROVE  IInv'
  <2> DEFINE r == [Request(op, by) EXCEPT !.management = m]
  <2>1. Fresh(r, op)
    BY <1>1, <1>4 DEF Fresh, CallRecords, Ops
  <2> QED
    BY <1>2, <1>6, <2>1, FreshJudged DEF Ops
<1>7. ASSUME NEW m \in Made, NEW some \in Recipients,
             Begin(c, [Request("provision", by) EXCEPT !.management = m, !.for = some])
      PROVE  IInv'
  <2> DEFINE r == [Request("provision", by) EXCEPT !.management = m, !.for = some]
  <2>1. Fresh(r, "provision") /\ r.management = m
    BY <1>1, <1>4 DEF Fresh, CallRecords, Ops, Recipients
  <2> HIDE DEF r
  <2>2. r \in CallRecords /\ Judged(r)
    BY <2>1, FreshJudged DEF Ops
  <2> QED
    BY <1>2, <1>7, <2>2 DEF r
<1>8. ASSUME NEW p \in Stored, NEW op \in {"delete", "fetch"},
             Begin(c, [Request(op, by) EXCEPT !.provisioned = p])
      PROVE  IInv'
  <2> DEFINE r == [Request(op, by) EXCEPT !.provisioned = p]
  <2>1. Fresh(r, op)
    BY <1>1, <1>4 DEF Fresh, CallRecords, Ops
  <2> QED
    BY <1>2, <1>8, <2>1, FreshJudged DEF Ops
<1> QED
  BY <1>3, <1>5, <1>6, <1>7, <1>8

LEMMA CheckInv == ASSUME IInv, NEW c \in Calls, Check(c) PROVE IInv'
<1>1. CASE Return(c)
  BY <1>1, ReturnKeeps DEF Check
<1>2. ASSUME MayManage(c), NEW pc \in {"body", "change"}, GoTo(c, pc) PROVE IInv'
  BY <1>2, CallTyped, GoToKeeps DEF Check, MayManage, Unrestricted, Judged, Pcs, CallRecords
<1> QED
  BY <1>1, <1>2 DEF Check

LEMMA CheckBanInv == ASSUME IInv, NEW c \in Calls, CheckBan(c) PROVE IInv'
<1>1. CASE Return(c)
  BY <1>1, ReturnKeeps DEF CheckBan
<1>2. CASE GoTo(c, "policy")
  BY <1>2, CallTyped, GoToKeeps DEF CheckBan, Judged, Pcs, CallRecords
<1> QED
  BY <1>1, <1>2 DEF CheckBan

LEMMA CheckPolicyInv == ASSUME IInv, NEW c \in Calls, CheckPolicy(c) PROVE IInv'
<1>1. CASE Unrestricted(call[c].by) /\ GoTo(c, "body")
  BY <1>1, CallTyped, GoToKeeps DEF CheckPolicy, Unrestricted, Judged, Pcs, CallRecords
<1>2. CASE GoTo(c, "links")
  BY <1>2, CallTyped, GoToKeeps DEF CheckPolicy, Judged, Pcs, CallRecords
<1> QED
  BY <1>1, <1>2 DEF CheckPolicy

LEMMA ReadLinksInv == ASSUME IInv, NEW c \in Calls, ReadLinks(c) PROVE IInv'
<1> DEFINE linked == LinkedTo(call[c].provisioned)
           r == [call[c] EXCEPT !.pc = IF linked = {} THEN "body" ELSE "judge",
                                !.todo = linked, !.linked = linked]
<1>1. CASE linked = {}
  BY <1>1, ReturnKeeps DEF ReadLinks, RefusesUnlinked
<1>2. CASE linked # {}
  <2>1. call' = [call EXCEPT ![c] = r]
    BY <1>2 DEF ReadLinks, RefusesUnlinked, IInv, CallsTyped
  <2>2. linked \subseteq Names
    BY DEF LinkedTo
  <2>3. r \in CallRecords
    BY <2>2, CallTyped DEF CallRecords, Pcs
  <2>4. r.pc = "judge" /\ r.todo = linked /\ r.linked = linked /\ r.by = call[c].by
        /\ r.op = call[c].op /\ r.free = call[c].free /\ r.seen = call[c].seen
        /\ r.management = call[c].management
    BY <1>2, CallTyped DEF CallRecords
  <2> HIDE DEF r, linked
  <2>5. Judged(r)
    BY <1>2, <2>4, CallTyped DEF ReadLinks, Judged
  <2> QED
    BY <2>1, <2>3, <2>5, CallStep, OneCallStep, MadeKept
       DEF ReadLinks, UnchangedPolicies, UnchangedKeys
<1> QED
  BY <1>1, <1>2

\* authorize_key for one name: allowed now, or a ban.
LEMMA JudgeInv == ASSUME IInv, NEW c \in Calls, NEW n \in Names, Judge(c, n) PROVE IInv'
<1> DEFINE d == call[c].by
           rest == call[c].todo \ {n}
           r == [call[c] EXCEPT !.todo = rest, !.pc = IF rest = {} THEN "body" ELSE "judge"]
<1>1. CASE d \notin banned /\ Permits(d, n) /\ call' = [call EXCEPT ![c] = r] /\ UNCHANGED banned
  <2>1. r \in CallRecords
    BY CallTyped DEF CallRecords, Pcs
  <2>2. r.by = d /\ r.op = call[c].op /\ r.free = call[c].free /\ r.seen = call[c].seen
        /\ r.linked = call[c].linked /\ r.todo = rest /\ r.management = call[c].management
        /\ r.pc \in {"body", "judge"} /\ (r.pc = "body" => rest = {})
    BY CallTyped DEF CallRecords
  <2> HIDE DEF r
  <2>3. Judged(r)
    BY <1>1, <2>2, CallTyped DEF Judge, Judged, Permits, Unrestricted
  <2>4. UnchangedPolicies
    BY <1>1 DEF Judge, UnchangedPolicies
  <2> QED
    BY <1>1, <2>1, <2>3, <2>4, CallStep, OneCallStep, MadeKept
       DEF Judge, UnchangedPolicies, UnchangedKeys
<1>2. CASE banned' = banned \cup {d} /\ Return(c) /\ (d \in banned \/ ~Permits(d, n))
  <2>1. CallsTyped' /\ CallsJudged'
    BY <1>2, ReturnStep, MadeKept DEF Judge, UnchangedKeys
  <2>2. d \in devices
    BY <1>2 DEF IInv, PoliciesTyped, Permits, Unrestricted
  <2>3. PoliciesTyped'
    BY <1>2, <2>2 DEF Judge, IInv, PoliciesTyped
  <2>4. KeysTyped'
    BY KeysKept DEF Judge, IInv
  <2> QED
    BY <2>1, <2>3, <2>4 DEF IInv
<1>3. call \in [Calls -> CallRecords]
  BY DEF IInv, CallsTyped
<1> QED
  BY <1>1, <1>2, <1>3 DEF Judge

LEMMA ReadBodyInv == ASSUME IInv, NEW c \in Calls, ReadBody(c) PROVE IInv'
<1>1. CASE Return(c)
  BY <1>1, ReturnKeeps DEF ReadBody
<1>2. CASE GoTo(c, "wrap")
  BY <1>2, CallTyped, GoToKeeps DEF ReadBody, Judged, Pcs, CallRecords
<1> QED
  BY <1>1, <1>2 DEF ReadBody

LEMMA ReadWrapInv == ASSUME IInv, NEW c \in Calls, ReadWrap(c) PROVE IInv'
BY ReturnKeeps DEF ReadWrap

LEMMA AbortInv == ASSUME IInv, NEW c \in Calls, Abort(c) PROVE IInv'
BY ReturnKeeps DEF Abort

-----------------------------------------------------------------------------
(* Writing keys *)

\* A step that ends its call and writes keys.
LEMMA WriteKeeps ==
  ASSUME IInv, NEW c \in Calls, Return(c), UnchangedPolicies, Made \subseteq Made', KeysTyped'
  PROVE  IInv'
BY ReturnStep, PoliciesKept DEF IInv, UnchangedPolicies

\* Rows that are written keep what is known of the others.
ManagementRowSound(row) ==
  row \in ManagementRows /\ row.status # "absent" /\ row.whole /\ row.wraps \subseteq devices

LEMMA ManagementWritten ==
  ASSUME KeysTyped, NEW m \in Management, NEW row, ManagementRowSound(row),
         management' = [management EXCEPT ![m] = row], UNCHANGED <<provisioned, source, devices>>
  PROVE  KeysTyped' /\ Made \subseteq Made'
BY DEF KeysTyped, ManagementRowSound, ManagementRows, Made

LEMMA CreateManagementKeyInv ==
  ASSUME IInv, NEW c \in Calls, NEW m \in Management, CreateManagementKey(c, m) PROVE IInv'
<1> DEFINE row == [status |-> "active", whole |-> TRUE, wraps |-> call[c].for]
<1>1. ManagementRowSound(row)
  BY DEF CreateManagementKey, RecipientsRegistered, ManagementRowSound, ManagementRows,
         IInv, PoliciesTyped
<1>2. management' = [management EXCEPT ![m] = row]
  BY DEF CreateManagementKey
<1> HIDE DEF row
<1> QED
  BY <1>1, <1>2, ManagementWritten, WriteKeeps DEF CreateManagementKey, UnchangedPolicies, IInv

LEMMA UpdateDefaultsInv == ASSUME IInv, NEW c \in Calls, UpdateDefaults(c) PROVE IInv'
BY ReturnKeeps DEF UpdateDefaults

LEMMA RevokeManagementKeyInv ==
  ASSUME IInv, NEW c \in Calls, RevokeManagementKey(c) PROVE IInv'
<1> DEFINE m == call[c].management
           row == [management[m] EXCEPT !.status = "revoked"]
<1>1. CASE m \in Management /\ management[m].status = "active"
  <2>1. ManagementRowSound(row)
    BY <1>1 DEF ManagementRowSound, ManagementRows, IInv, KeysTyped
  <2>2. management' = [management EXCEPT ![m] = row]
    BY <1>1 DEF RevokeManagementKey, IInv, KeysTyped
  <2> HIDE DEF row
  <2> QED
    BY <1>1, <2>1, <2>2, ManagementWritten, WriteKeeps
       DEF RevokeManagementKey, UnchangedPolicies, IInv
<1>2. CASE ~(m \in Management /\ management[m].status = "active")
  <2>1. management' = management
    BY <1>2 DEF RevokeManagementKey, IInv, KeysTyped
  <2> QED
    BY <2>1, ReturnKeeps DEF RevokeManagementKey, UnchangedKeys
<1> QED
  BY <1>1, <1>2

LEMMA CreateProvisionedKeyInv ==
  ASSUME IInv, NEW c \in Calls, NEW p \in Provisioned, CreateProvisionedKey(c, p) PROVE IInv'
<1> DEFINE row == [status |-> "active", whole |-> TRUE, wraps |-> call[c].for,
                   of |-> call[c].management]
<1>1. row \in ProvisionedRows /\ row.status = "active" /\ row.whole
      /\ row.wraps \subseteq devices /\ row.of \in Made
  BY CallTyped DEF CreateProvisionedKey, RecipientsRegistered, ProvisionedRows, Judged,
                   IInv, PoliciesTyped, CallRecords
<1>2. provisioned' = [provisioned EXCEPT ![p] = row]
  BY DEF CreateProvisionedKey
<1> HIDE DEF row
<1>3. KeysTyped'
  BY <1>1, <1>2 DEF CreateProvisionedKey, UnchangedPolicies, IInv, KeysTyped, Made
<1> QED
  BY <1>3, WriteKeeps, MadeKept DEF CreateProvisionedKey

LEMMA DeleteProvisionedKeyInv ==
  ASSUME IInv, NEW c \in Calls, DeleteProvisionedKey(c) PROVE IInv'
<1> DEFINE p == call[c].provisioned
           row == [NoProvisioned EXCEPT !.status = "deleted"]
<1>1. row \in ProvisionedRows /\ row.status = "deleted" /\ ~row.whole /\ row.wraps = {}
  BY DEF NoProvisioned, ProvisionedRows
<1>2. provisioned' = [provisioned EXCEPT ![p] = row]
  BY DEF DeleteProvisionedKey
<1> HIDE DEF row
<1>3. KeysTyped'
  BY <1>1, <1>2 DEF DeleteProvisionedKey, UnchangedPolicies, IInv, KeysTyped, Made
<1> QED
  BY <1>3, WriteKeeps, MadeKept DEF DeleteProvisionedKey

-----------------------------------------------------------------------------
(* Around the calls *)

LEMMA LinkEntryInv == ASSUME IInv, NEW n \in Names, LinkEntry(n) PROVE IInv'
<1>1. KeysTyped'
  BY DEF LinkEntry, UnchangedPolicies, IInv, KeysTyped, Made
<1>2. PoliciesTyped'
  BY PoliciesKept DEF LinkEntry, IInv
<1>3. CallsTyped' /\ CallsJudged'
  BY DEF LinkEntry, UnchangedPolicies, IInv, CallsTyped, CallsJudged, Judged, Made
<1> QED
  BY <1>1, <1>2, <1>3 DEF IInv

LEMMA SetPolicyInv == ASSUME IInv, NEW d \in Devices, SetPolicy(d) PROVE IInv'
<1>1. PICK names \in SUBSET Names :
        /\ restricted' = restricted \cup {d}
        /\ permitted' = [permitted EXCEPT ![d] = names]
        /\ call' = [c \in Calls |-> IF call[c].by = d
                                    THEN [call[c] EXCEPT !.seen = @ \cup names] ELSE call[c]]
  BY DEF SetPolicy
<1>2. KeysTyped'
  BY KeysKept DEF SetPolicy, IInv
<1>3. PoliciesTyped'
  BY <1>1 DEF SetPolicy, IInv, PoliciesTyped
<1>4. ASSUME NEW c \in Calls PROVE call'[c] \in CallRecords /\ Judged(call[c])'
  <2>1. Made' = Made
    BY DEF SetPolicy, UnchangedKeys, Made
  <2>2. CASE call[c].by = d
    <3>1. /\ call'[c] \in CallRecords /\ call'[c].seen = call[c].seen \cup names
          /\ call'[c].pc = call[c].pc /\ call'[c].op = call[c].op /\ call'[c].by = d
          /\ call'[c].management = call[c].management /\ call'[c].free = call[c].free
          /\ call'[c].linked = call[c].linked /\ call'[c].todo = call[c].todo
      BY <1>1, <2>2, CallTyped DEF CallRecords
    <3>2. d \in Devices /\ permitted'[d] = names /\ d \in restricted'
      BY <1>1 DEF IInv, PoliciesTyped
    <3> QED
      BY <2>1, <2>2, <3>1, <3>2, CallTyped DEF Judged
  <2>3. CASE call[c].by # d
    BY <1>1, <2>1, <2>3, CallTyped DEF Judged, IInv, PoliciesTyped
  <2> QED
    BY <2>2, <2>3
<1>5. CallsTyped' /\ CallsJudged'
  BY <1>1, <1>4 DEF CallsTyped, CallsJudged
<1> QED
  BY <1>2, <1>3, <1>5 DEF IInv

\* A device that is no longer restricted frees its calls.
LEMMA FreedStep ==
  ASSUME IInv, NEW d \in Devices, call' = Freed(d), restricted' = restricted \ {d},
         permitted' = [permitted EXCEPT ![d] = {}], Made \subseteq Made'
  PROVE  CallsTyped' /\ CallsJudged'
<1>1. ASSUME NEW c \in Calls PROVE call'[c] \in CallRecords /\ Judged(call[c])'
  <2>1. CASE call[c].by = d
    <3>1. /\ call'[c] \in CallRecords /\ call'[c].free
          /\ call'[c].pc = call[c].pc /\ call'[c].op = call[c].op
          /\ call'[c].management = call[c].management
      BY <2>1, CallTyped DEF Freed, CallRecords
    <3> QED
      BY <3>1, CallTyped DEF Judged
  <2>2. CASE call[c].by # d
    BY <2>2, CallTyped DEF Freed, Judged, IInv, PoliciesTyped
  <2> QED
    BY <2>1, <2>2
<1> QED
  BY <1>1 DEF CallsTyped, CallsJudged, Freed

LEMMA LiftPolicyInv == ASSUME IInv, NEW d \in Devices, LiftPolicy(d) PROVE IInv'
<1>1. CallsTyped' /\ CallsJudged'
  BY FreedStep, MadeKept DEF LiftPolicy, UnchangedKeys
<1>2. PoliciesTyped'
  BY DEF LiftPolicy, IInv, PoliciesTyped
<1>3. KeysTyped'
  BY KeysKept DEF LiftPolicy, IInv
<1> QED
  BY <1>1, <1>2, <1>3 DEF IInv

LEMMA EndBanInv == ASSUME IInv, NEW d \in Devices, EndBan(d) PROVE IInv'
<1>1. CallsTyped' /\ CallsJudged'
  BY DEF EndBan, UnchangedKeys, IInv, CallsTyped, CallsJudged, Judged, Made
<1>2. PoliciesTyped'
  BY DEF EndBan, IInv, PoliciesTyped
<1>3. KeysTyped'
  BY KeysKept DEF EndBan, IInv
<1> QED
  BY <1>1, <1>2, <1>3 DEF IInv

\* Recipient rows cascade with the device.
LEMMA DeleteDeviceInv == ASSUME IInv, NEW d \in Devices, DeleteDevice(d) PROVE IInv'
<1>1. ASSUME NEW m \in Management
      PROVE  /\ management'[m] \in ManagementRows
             /\ management'[m].status = management[m].status
             /\ management'[m].whole = management[m].whole
             /\ management'[m].wraps = management[m].wraps \ {d}
  BY DEF DeleteDevice, WrapsWithout, IInv, KeysTyped, ManagementRows
<1>2. ASSUME NEW p \in Provisioned
      PROVE  /\ provisioned'[p] \in ProvisionedRows
             /\ provisioned'[p].status = provisioned[p].status
             /\ provisioned'[p].whole = provisioned[p].whole
             /\ provisioned'[p].wraps = provisioned[p].wraps \ {d}
             /\ provisioned'[p].of = provisioned[p].of
  BY DEF DeleteDevice, WrapsWithout, IInv, KeysTyped, ProvisionedRows
<1>3. Made' = Made
  BY <1>1 DEF Made
<1>4. management' \in [Management -> ManagementRows] /\ provisioned' \in [Provisioned -> ProvisionedRows]
  BY <1>1, <1>2 DEF DeleteDevice
<1>5. KeysTyped'
  BY <1>1, <1>2, <1>3, <1>4 DEF DeleteDevice, IInv, KeysTyped
<1>6. PoliciesTyped'
  BY DEF DeleteDevice, IInv, PoliciesTyped
<1>7. CallsTyped' /\ CallsJudged'
  BY <1>3, FreedStep DEF DeleteDevice
<1> QED
  BY <1>5, <1>6, <1>7 DEF IInv

-----------------------------------------------------------------------------
(* Every step *)

LEMMA StepInv == ASSUME IInv, NEW c \in Calls, Step(c) PROVE IInv'
BY ArriveInv, CheckInv, CreateManagementKeyInv, CreateProvisionedKeyInv, UpdateDefaultsInv,
   RevokeManagementKeyInv, DeleteProvisionedKeyInv, CheckBanInv, CheckPolicyInv, ReadLinksInv,
   JudgeInv, ReadBodyInv, ReadWrapInv, AbortInv DEF Step

LEMMA StutterInv == ASSUME IInv, UNCHANGED vars PROVE IInv'
<1>1. KeysTyped' /\ PoliciesTyped' /\ CallsTyped'
  BY DEF vars, IInv, KeysTyped, PoliciesTyped, CallsTyped, Made
<1>2. CallsJudged'
  BY DEF vars, IInv, CallsJudged, Judged, Made
<1> QED
  BY <1>1, <1>2 DEF IInv

LEMMA NextInv == IInv /\ [Next]_vars => IInv'
<1> SUFFICES ASSUME IInv, [Next]_vars PROVE IInv'
  OBVIOUS
<1> QED
  BY StepInv, LinkEntryInv, SetPolicyInv, LiftPolicyInv, EndBanInv, DeleteDeviceInv, StutterInv
     DEF Next

LEMMA Invariance == Spec => []IInv
<1> QED
  BY InitInv, NextInv, PTL DEF Spec

\* Rows, calls and policies have their types, and a stored key is complete and
\* wrapped for enrolled devices only, however creations and deletions interleave.
THEOREM TypeCorrect == Spec => []TypeOK
<1> QED
  BY Invariance, InvImplies, PTL

\* No call of a device that stays restricted reaches an envelope unjudged: neither
\* a management key's, nor a provisioned key's that some name refuses it.
THEOREM EnvelopesJudged == Spec => []EnvelopesAreJudged
<1> QED
  BY Invariance, InvImplies, PTL

=============================================================================
