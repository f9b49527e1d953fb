------------------------ MODULE AuthenticationProofs ------------------------
(***************************************************************************)
(* Theorems about the two components a request meets before its handler:   *)
(* ApiKeys, for any number of keys, approvals, devices and concurrent      *)
(* calls, whatever operations they run; then IpBlock, for any number of    *)
(* addresses, requests and detached tasks, any threshold, limit and number *)
(* of restarts.  Neither uses a fact of the other: the definitions of      *)
(* IpBlock whose names ApiKeys has too begin with Block.                   *)
(***************************************************************************)
EXTENDS ApiKeys, IpBlock, FiniteSetTheorems, TLAPS

(***************************************************************************)
(* ApiKeys: the inductive invariant                                        *)
(***************************************************************************)
Statuses == {"absent", "active", "pending_approval", "used", "revoked", "deleted"}
ApprovalStatuses == {"absent", "pending", "approved", "rejected", "expired", "deleted"}

RowTypes ==
    /\ key \in [Keys -> KeyRows]
    /\ approval \in [Approvals -> ApprovalRows]
    /\ lineage \in [Keys -> Devices \cup {None}]
    /\ passed \in [Keys -> Nat]

\* What is known of a key row: a used one-time key has let one request through and
\* one still to be used none, and the row's device is that of the session it
\* descends from.
KeyFits(k) ==
    /\ passed[k] <= 1
    /\ key[k].status = "used" => passed[k] = 1
    /\ key[k].type # "one_time" => passed[k] = 0
    /\ key[k].status \in {"absent", "active", "pending_approval"} => passed[k] = 0
    /\ Present(k) => key[k].dev = lineage[k] /\ key[k].dev \in devices \cup {None}

\* A key that approvals are for.
NeedsApproval(k) == k \in Keys /\ key[k].status # "absent" /\ key[k].type = "approval_required"

\* What is known of an approval row: it is for a key that needs approval and
\* goes with that key.
ApprovalFits(a) ==
    LET r == approval[a]
    IN  /\ r.status = "absent" => r.key = None
        /\ r.status # "absent" => NeedsApproval(r.key)
        /\ r.status \notin {"absent", "deleted"} => Present(r.key)
        /\ r.status = "deleted" => key[r.key].status = "deleted"

\* The caller's device is the one its credential descends from.
CallerFits(q) ==
    IF q.by = None THEN q.dev = None
    ELSE q.by \in Keys /\ key[q.by].status # "absent" /\ q.dev = lineage[q.by]

\* A call by a device restricted from its start is at its check, at its own
\* logout, or at a credential of that device.
LimitFits(q) ==
    q.dev # None /\ ~q.free /\ q.dev \in devices =>
        /\ q.dev \in restricted
        /\ q.pc \in {"check", "logout_own"} \cup OwnedOnly
        /\ q.pc \in OwnedOnly /\ q.key \in Keys =>
               key[q.key].status # "absent" /\ key[q.key].dev = q.dev

\* A call about an approval names a key that needs one, and an approval of that key.
SubjectFits(q) ==
    /\ q.pc = "check" => q.op \in Managed \cup OwnedOnly \cup {"logout"}
    /\ q.op \in {"approve", "reject"} => q.item \in Approvals
    /\ q.pc \in {"access_read", "request_read"} => q.key \in Keys
    /\ q.pc \in {"approve", "approve_write"} => q.op = "approve"
    /\ q.pc \in {"access_cancel", "approval_insert", "approve_write"} => NeedsApproval(q.key)
    /\ q.pc = "approve_write" => /\ approval[q.item].status # "absent"
                                 /\ approval[q.item].key = q.key

Fits(q) ==
    /\ q.pc = "idle" => q = NoCall
    /\ CallerFits(q) /\ LimitFits(q) /\ SubjectFits(q)

DevicesFit == devices \subseteq Devices /\ banned \subseteq devices /\ restricted \subseteq devices

KeysInv ==
    /\ DevicesFit /\ RowTypes /\ call \in [Calls -> CallRecords]
    /\ \A k \in Keys : KeyFits(k)
    /\ \A a \in Approvals : ApprovalFits(a)
    /\ ActiveKeyWasApproved
    /\ \A c \in Calls : Fits(call[c])

(***************************************************************************)
(* What a step does to one row                                             *)
(***************************************************************************)
OnlyStatus(k, s) ==
    key'[k] = [key[k] EXCEPT !.status = s] /\ lineage'[k] = lineage[k]

KeyStays(k)   == key'[k] = key[k] /\ lineage'[k] = lineage[k] /\ passed'[k] = passed[k]
KeyMinted(k)  ==
    /\ key[k].status = "absent" /\ passed'[k] = passed[k]
    /\ \E t \in KeyTypes, d \in devices \cup {None} :
          /\ key'[k] = [status |-> InitialStatus(t), type |-> t, dev |-> d, late |-> FALSE]
          /\ lineage'[k] = d
KeyRevoked(k) ==
    /\ key[k].status \in {"active", "pending_approval"}
    /\ OnlyStatus(k, "revoked") /\ passed'[k] = passed[k]
KeyDeleted(k) ==
    /\ Present(k)
    /\ OnlyStatus(k, "deleted") /\ passed'[k] = passed[k]
    /\ \A a \in Approvals : approval[a].key = k => approval'[a].status = "deleted"
KeyApproved(k) ==
    /\ Present(k) /\ key[k].type = "approval_required"
    /\ OnlyStatus(k, "active") /\ passed'[k] = passed[k]
    /\ \E a \in Approvals : approval'[a].key = k /\ approval'[a].status = "approved"
KeySpent(k) ==
    /\ key[k].status = "active" /\ key[k].type = "one_time"
    /\ OnlyStatus(k, "used") /\ passed'[k] = passed[k] + 1
KeyLate(k) ==
    /\ Present(k) /\ key'[k] = [key[k] EXCEPT !.late = TRUE]
    /\ lineage'[k] = lineage[k] /\ passed'[k] = passed[k]

KeyMoves(k) == \/ KeyStays(k) \/ KeyMinted(k) \/ KeyRevoked(k) \/ KeyDeleted(k)
               \/ KeyApproved(k) \/ KeySpent(k) \/ KeyLate(k)

ApprovalStays(a) == approval'[a] = approval[a]
ApprovalMade(a) ==
    /\ approval[a].status = "absent"
    /\ \E k \in Keys : /\ Present(k) /\ key[k].type = "approval_required" /\ key'[k] = key[k]
                       /\ approval'[a] = [status |-> "pending", key |-> k, late |-> FALSE]
ApprovalClosed(a) ==
    /\ approval[a].status = "pending"
    /\ \E s \in {"rejected", "expired"} : approval'[a] = [approval[a] EXCEPT !.status = s]
ApprovalGiven(a) ==
    /\ approval[a].status \notin {"absent", "deleted"}
    /\ approval'[a] = [approval[a] EXCEPT !.status = "approved"]
ApprovalDeleted(a) ==
    /\ approval[a].status # "absent"
    /\ approval'[a] = [approval[a] EXCEPT !.status = "deleted"]
    /\ key'[approval[a].key].status = "deleted"
ApprovalLate(a) ==
    /\ approval[a].status = "pending"
    /\ approval'[a] = [approval[a] EXCEPT !.late = TRUE]

ApprovalMoves(a) == \/ ApprovalStays(a) \/ ApprovalMade(a) \/ ApprovalClosed(a)
                    \/ ApprovalGiven(a) \/ ApprovalDeleted(a) \/ ApprovalLate(a)

\* A step moves one key, or revokes or deletes some.
KeysMoveApart ==
    \/ \A k \in Keys : KeyStays(k) \/ KeyRevoked(k) \/ KeyDeleted(k)
    \/ \E k \in Keys : \A j \in Keys \ {k} : KeyStays(j)

RowsMove ==
    /\ RowTypes'
    /\ KeysMoveApart
    /\ \A k \in Keys : KeyMoves(k)
    /\ \A a \in Approvals : ApprovalMoves(a)

(***************************************************************************)
(* Lemmas about records                                                    *)
(***************************************************************************)
LEMMA KeyRowEdits ==
    ASSUME NEW r \in KeyRows, NEW s \in Statuses
    PROVE  /\ [r EXCEPT !.status = s] \in KeyRows
           /\ [r EXCEPT !.status = s].status = s
           /\ [r EXCEPT !.status = s].type = r.type
           /\ [r EXCEPT !.status = s].dev = r.dev
           /\ [r EXCEPT !.late = TRUE] \in KeyRows
           /\ [r EXCEPT !.late = TRUE].status = r.status
           /\ [r EXCEPT !.late = TRUE].type = r.type
           /\ [r EXCEPT !.late = TRUE].dev = r.dev
  BY DEF KeyRows, Statuses

LEMMA ApprovalRowEdits ==
    ASSUME NEW r \in ApprovalRows, NEW s \in ApprovalStatuses
    PROVE  /\ [r EXCEPT !.status = s] \in ApprovalRows
           /\ [r EXCEPT !.status = s].status = s
           /\ [r EXCEPT !.status = s].key = r.key
           /\ [r EXCEPT !.late = TRUE] \in ApprovalRows
           /\ [r EXCEPT !.late = TRUE].status = r.status
           /\ [r EXCEPT !.late = TRUE].key = r.key
  BY DEF ApprovalRows, ApprovalStatuses

LEMMA CallEdits ==
    ASSUME NEW q \in CallRecords, NEW p \in CallStates
    PROVE  /\ [q EXCEPT !.pc = p] \in CallRecords
           /\ [q EXCEPT !.pc = p].pc = p
           /\ [q EXCEPT !.pc = p].op = q.op
           /\ [q EXCEPT !.pc = p].by = q.by
           /\ [q EXCEPT !.pc = p].dev = q.dev
           /\ [q EXCEPT !.pc = p].key = q.key
           /\ [q EXCEPT !.pc = p].item = q.item
           /\ [q EXCEPT !.pc = p].type = q.type
           /\ [q EXCEPT !.pc = p].free = q.free
  BY DEF CallRecords

LEMMA NoCallTyped == NoCall \in CallRecords
  BY DEF NoCall, CallRecords, CallStates, AllOps, Managed, OwnedOnly, KeyTypes

(***************************************************************************)
(* Moves preserve what is known of the rows                                *)
(***************************************************************************)
\* Devices only ever go, and their keys with them.
DevicesMove ==
    /\ DevicesFit'
    /\ devices' \subseteq devices
    /\ \A k \in Keys : Present(k)' => key'[k].dev \in devices' \/ key'[k].dev \notin devices

LEMMA KeyFitsAgain ==
    ASSUME KeysInv, RowTypes', DevicesMove, NEW k \in Keys, KeyMoves(k)
    PROVE  KeyFits(k)'
  <1> key[k] \in KeyRows /\ key'[k] \in KeyRows /\ passed[k] \in Nat /\ KeyFits(k)
    BY DEF KeysInv, RowTypes
  <1> "used" \in Statuses /\ "active" \in Statuses /\ "deleted" \in Statuses
        /\ "revoked" \in Statuses
    BY DEF Statuses
  <1> None \notin devices
    BY NoneAssumption DEF KeysInv, DevicesFit
  <1>1. CASE KeyStays(k)
    BY <1>1 DEF KeyStays, KeyFits, Present, DevicesMove
  <1>2. CASE KeyMinted(k)
    BY <1>2 DEF KeyMinted, InitialStatus, KeyTypes, KeyFits, Present, DevicesMove
  <1>3. CASE KeyRevoked(k)
    <2>1. key'[k].status = "revoked" /\ key'[k].type = key[k].type /\ key'[k].dev = key[k].dev
      BY <1>3, KeyRowEdits DEF KeyRevoked, OnlyStatus
    <2> QED BY <1>3, <2>1 DEF KeyRevoked, OnlyStatus, KeyFits, Present, DevicesMove
  <1>4. CASE KeyDeleted(k)
    BY <1>4, KeyRowEdits DEF KeyDeleted, OnlyStatus, KeyFits, Present, DevicesMove
  <1>5. CASE KeyApproved(k)
    <2>1. key'[k].status = "active" /\ key'[k].type = key[k].type /\ key'[k].dev = key[k].dev
      BY <1>5, KeyRowEdits DEF KeyApproved, OnlyStatus
    <2> QED BY <1>5, <2>1 DEF KeyApproved, OnlyStatus, KeyFits, Present, DevicesMove
  <1>6. CASE KeySpent(k)
    <2>1. key'[k].status = "used" /\ key'[k].type = key[k].type /\ key'[k].dev = key[k].dev
      BY <1>6, KeyRowEdits DEF KeySpent, OnlyStatus
    <2>2. passed[k] = 0 /\ passed'[k] = 1
      BY <1>6 DEF KeySpent, KeyFits
    <2>3. Present(k) /\ lineage'[k] = lineage[k]
      BY <1>6 DEF KeySpent, OnlyStatus, Present
    <2>4. passed'[k] <= 1
      BY <2>2
    <2> QED BY <1>6, <2>1, <2>2, <2>3, <2>4 DEF KeySpent, KeyFits, Present, DevicesMove
  <1>7. CASE KeyLate(k)
    <2>1. /\ key'[k].status = key[k].status /\ key'[k].type = key[k].type
          /\ key'[k].dev = key[k].dev
      BY <1>7, KeyRowEdits DEF KeyLate
    <2> QED BY <1>7, <2>1 DEF KeyLate, KeyFits, Present, DevicesMove
  <1> QED BY <1>1, <1>2, <1>3, <1>4, <1>5, <1>6, <1>7 DEF KeyMoves

\* A row once there stays, of the same type, device and lineage; a deleted one
\* stays deleted.
KeyLasts(k) ==
    key[k].status # "absent" =>
        /\ key'[k].status # "absent" /\ key'[k].type = key[k].type
        /\ key'[k].dev = key[k].dev /\ lineage'[k] = lineage[k]
        /\ key[k].status = "deleted" => key'[k].status = "deleted"
ApprovalLasts(a) ==
    approval[a].status # "absent" =>
        approval'[a].status # "absent" /\ approval'[a].key = approval[a].key

LEMMA KeysLast ==
    ASSUME KeysInv, RowTypes', NEW k \in Keys, KeyMoves(k)
    PROVE  KeyLasts(k)
  <1> key[k] \in KeyRows /\ key'[k] \in KeyRows
    BY DEF KeysInv, RowTypes
  <1> {"used", "active", "deleted", "revoked"} \subseteq Statuses
    BY DEF Statuses
  <1>1. CASE KeyStays(k)
    BY <1>1 DEF KeyStays, KeyLasts
  <1>2. CASE KeyMinted(k)
    BY <1>2 DEF KeyMinted, KeyLasts
  <1>3. CASE KeyRevoked(k)
    <2>1. /\ key'[k].status = "revoked" /\ key'[k].type = key[k].type
          /\ key'[k].dev = key[k].dev
      BY <1>3, KeyRowEdits DEF KeyRevoked, OnlyStatus
    <2> QED BY <1>3, <2>1 DEF KeyRevoked, OnlyStatus, KeyLasts
  <1>4. CASE KeyDeleted(k)
    <2>1. /\ key'[k].status = "deleted" /\ key'[k].type = key[k].type
          /\ key'[k].dev = key[k].dev
      BY <1>4, KeyRowEdits DEF KeyDeleted, OnlyStatus
    <2> QED BY <1>4, <2>1 DEF KeyDeleted, OnlyStatus, KeyLasts, Present
  <1>5. CASE KeyApproved(k)
    <2>1. key'[k].status = "active" /\ key'[k].type = key[k].type /\ key'[k].dev = key[k].dev
      BY <1>5, KeyRowEdits DEF KeyApproved, OnlyStatus
    <2> QED BY <1>5, <2>1 DEF KeyApproved, OnlyStatus, KeyLasts, Present
  <1>6. CASE KeySpent(k)
    <2>1. key'[k].status = "used" /\ key'[k].type = key[k].type /\ key'[k].dev = key[k].dev
      BY <1>6, KeyRowEdits DEF KeySpent, OnlyStatus
    <2> QED BY <1>6, <2>1 DEF KeySpent, OnlyStatus, KeyLasts
  <1>7. CASE KeyLate(k)
    <2>1. /\ key'[k].status = key[k].status /\ key'[k].type = key[k].type
          /\ key'[k].dev = key[k].dev
      BY <1>7, KeyRowEdits DEF KeyLate
    <2> QED BY <1>7, <2>1 DEF KeyLate, KeyLasts, Present
  <1> QED BY <1>1, <1>2, <1>3, <1>4, <1>5, <1>6, <1>7 DEF KeyMoves

\* A present key that a step leaves absent or deleted was deleted in it, with
\* its approvals.
LEMMA KeyGoesWithItsApprovals ==
    ASSUME KeysInv, RowTypes', NEW k \in Keys, KeyMoves(k), Present(k), ~Present(k)'
    PROVE  KeyDeleted(k)
  <1> key[k] \in KeyRows /\ key'[k] \in KeyRows
    BY DEF KeysInv, RowTypes
  <1> {"used", "active", "deleted", "revoked"} \subseteq Statuses
    BY DEF Statuses
  <1>1. ~KeyStays(k) /\ ~KeyMinted(k)
    BY DEF KeyStays, KeyMinted, Present
  <1>2. ~KeyRevoked(k) /\ ~KeyApproved(k) /\ ~KeySpent(k)
    BY KeyRowEdits DEF KeyRevoked, KeyApproved, KeySpent, OnlyStatus, Present
  <1>3. ~KeyLate(k)
    BY KeyRowEdits DEF KeyLate, Present
  <1> QED BY <1>1, <1>2, <1>3 DEF KeyMoves

LEMMA ApprovalFitsAgain ==
    ASSUME KeysInv, RowsMove, NEW a \in Approvals
    PROVE  ApprovalFits(a)' /\ ApprovalLasts(a)
  <1> approval[a] \in ApprovalRows /\ approval'[a] \in ApprovalRows /\ ApprovalFits(a)
    BY DEF KeysInv, RowsMove, RowTypes
  <1> {"pending", "approved", "deleted", "rejected", "expired"} \subseteq ApprovalStatuses
    BY DEF ApprovalStatuses
  <1>0. \A j \in Keys : KeyLasts(j) /\ (NeedsApproval(j) => NeedsApproval(j)')
    BY KeysLast DEF NeedsApproval, RowsMove, KeyLasts
  <1>1. ASSUME NEW k, k = approval[a].key, approval[a].status # "absent",
               approval'[a].key = k, approval'[a].status \notin {"absent", "deleted"},
               approval[a].status # "deleted"
        PROVE  ApprovalFits(a)' /\ ApprovalLasts(a)
    <2>1. k \in Keys /\ NeedsApproval(k) /\ NeedsApproval(k)' /\ Present(k)
      BY <1>0, <1>1 DEF ApprovalFits, NeedsApproval
    <2>2. CASE ~Present(k)'
      <3>1. KeyDeleted(k)
        BY <2>1, <2>2, KeyGoesWithItsApprovals DEF RowsMove
      <3> QED BY <3>1, <1>1 DEF KeyDeleted
    <2> QED BY <1>1, <2>1, <2>2 DEF ApprovalFits, ApprovalLasts
  <1>2. CASE ApprovalStays(a)
    <2>1. CASE approval[a].status = "absent"
      BY <1>2, <2>1 DEF ApprovalStays, ApprovalFits, ApprovalLasts
    <2>2. CASE approval[a].status = "deleted"
      <3>1. PICK k \in Keys : k = approval[a].key
        BY <2>2 DEF ApprovalFits, NeedsApproval
      <3>2. NeedsApproval(k) /\ key[k].status = "deleted"
        BY <3>1, <2>2 DEF ApprovalFits
      <3>3. NeedsApproval(k)' /\ key'[k].status = "deleted"
        BY <1>0, <3>2 DEF KeyLasts, NeedsApproval
      <3> QED BY <1>2, <2>2, <3>1, <3>3 DEF ApprovalStays, ApprovalFits, ApprovalLasts
    <2> QED BY <1>1, <1>2, <2>1, <2>2 DEF ApprovalStays
  <1>3. CASE ApprovalMade(a)
    <2>1. PICK k \in Keys : /\ Present(k) /\ key[k].type = "approval_required"
                            /\ key'[k] = key[k]
                            /\ approval'[a] = [status |-> "pending", key |-> k, late |-> FALSE]
      BY <1>3 DEF ApprovalMade
    <2>2. NeedsApproval(k)'
      BY <1>0, <2>1 DEF NeedsApproval, Present
    <2>3. Present(k)'
      BY <2>1 DEF Present
    <2> QED BY <1>3, <2>1, <2>2, <2>3 DEF ApprovalMade, ApprovalFits, ApprovalLasts
  <1>4. CASE ApprovalClosed(a)
    <2>1. /\ approval[a].status = "pending" /\ approval'[a].status \in {"rejected", "expired"}
          /\ approval'[a].key = approval[a].key
      BY <1>4, ApprovalRowEdits DEF ApprovalClosed
    <2> QED BY <1>1, <2>1
  <1>5. CASE ApprovalGiven(a)
    <2>1. /\ approval[a].status \notin {"absent", "deleted"}
          /\ approval'[a].status = "approved" /\ approval'[a].key = approval[a].key
      BY <1>5, ApprovalRowEdits DEF ApprovalGiven
    <2> QED BY <1>1, <2>1
  <1>6. CASE ApprovalDeleted(a)
    <2>1. /\ approval[a].status # "absent" /\ approval'[a].status = "deleted"
          /\ approval'[a].key = approval[a].key
      BY <1>6, ApprovalRowEdits DEF ApprovalDeleted
    <2>2. PICK k \in Keys : k = approval[a].key
      BY <2>1 DEF ApprovalFits, NeedsApproval
    <2>3. NeedsApproval(k)' /\ key'[k].status = "deleted"
      BY <1>0, <1>6, <2>1, <2>2 DEF ApprovalFits, ApprovalDeleted
    <2> QED BY <2>1, <2>2, <2>3 DEF ApprovalFits, ApprovalLasts
  <1>7. CASE ApprovalLate(a)
    <2>1. /\ approval[a].status = "pending" /\ approval'[a].status = "pending"
          /\ approval'[a].key = approval[a].key
      BY <1>7, ApprovalRowEdits DEF ApprovalLate
    <2> QED BY <1>1, <2>1
  <1> QED BY <1>2, <1>3, <1>4, <1>5, <1>6, <1>7 DEF RowsMove, ApprovalMoves

\* An approved key still has its approval after a step.
LEMMA ActiveKeyStillApproved ==
    ASSUME KeysInv, RowsMove
    PROVE  ActiveKeyWasApproved'
  <1> SUFFICES ASSUME NEW k \in Keys,
                      key'[k].type = "approval_required", key'[k].status = "active"
               PROVE  \E a \in Approvals : approval'[a].key = k /\ approval'[a].status = "approved"
    BY DEF ActiveKeyWasApproved
  <1> key[k] \in KeyRows /\ key'[k] \in KeyRows /\ KeyMoves(k)
    BY DEF KeysInv, RowsMove, RowTypes
  <1> {"used", "active", "deleted", "revoked"} \subseteq Statuses
    BY DEF Statuses
  <1>1. CASE KeyApproved(k)
    BY <1>1 DEF KeyApproved
  <1>2. CASE key[k].type = "approval_required" /\ key[k].status = "active"
    <2>1. PICK a \in Approvals : approval[a].key = k /\ approval[a].status = "approved"
      BY <1>2 DEF KeysInv, ActiveKeyWasApproved
    <2>2. approval[a] \in ApprovalRows /\ ApprovalMoves(a)
      BY DEF KeysInv, RowsMove, RowTypes
    <2>3. ~ApprovalMade(a) /\ ~ApprovalClosed(a) /\ ~ApprovalLate(a)
      BY <2>1 DEF ApprovalMade, ApprovalClosed, ApprovalLate
    <2>4. ~ApprovalDeleted(a)
      BY <2>1 DEF ApprovalDeleted
    <2>5. CASE ApprovalStays(a)
      BY <2>1, <2>5 DEF ApprovalStays
    <2>6. CASE ApprovalGiven(a)
      <3>1. approval'[a].status = "approved" /\ approval'[a].key = approval[a].key
        BY <2>2, <2>6, ApprovalRowEdits DEF ApprovalGiven, ApprovalStatuses
      <3> QED BY <3>1, <2>1
    <2> QED BY <2>2, <2>3, <2>4, <2>5, <2>6 DEF ApprovalMoves
  <1>3. CASE KeyMinted(k)
    BY <1>3 DEF KeyMinted, InitialStatus
  <1>4. CASE KeyRevoked(k)
    BY <1>4, KeyRowEdits DEF KeyRevoked, OnlyStatus
  <1>5. CASE KeyDeleted(k)
    BY <1>5, KeyRowEdits DEF KeyDeleted, OnlyStatus
  <1>6. CASE KeySpent(k)
    BY <1>6, KeyRowEdits DEF KeySpent, OnlyStatus
  <1>7. CASE KeyLate(k) \/ KeyStays(k)
    BY <1>2, <1>7, KeyRowEdits DEF KeyLate, KeyStays
  <1> QED BY <1>1, <1>3, <1>4, <1>5, <1>6, <1>7 DEF KeyMoves

(***************************************************************************)
(* Moves preserve what is known of the calls                               *)
(***************************************************************************)
\* A running call goes on from what was known before the step; a device stays
\* restricted unless the step says otherwise in the call.
CallMoves(c) ==
    \E q \in CallRecords :
        /\ call'[c] = q /\ Fits(q)
        /\ q.dev \in restricted /\ ~q.free /\ q.dev \in devices' => q.dev \in restricted'

CallsMove == call' \in [Calls -> CallRecords] /\ \A c \in Calls : CallMoves(c)

LEMMA CallFitsAgain ==
    ASSUME KeysInv, RowsMove, DevicesMove, NEW c \in Calls, CallMoves(c)
    PROVE  Fits(call[c])'
  <1>1. PICK q \in CallRecords :
            /\ call'[c] = q /\ Fits(q)
            /\ q.dev \in restricted /\ ~q.free /\ q.dev \in devices' => q.dev \in restricted'
    BY DEF CallMoves
  <1>2. \A k \in Keys : KeyLasts(k)
    BY KeysLast DEF RowsMove
  <1>3. \A a \in Approvals : ApprovalLasts(a)
    BY ApprovalFitsAgain
  <1>4. CallerFits(q)'
    BY <1>1, <1>2 DEF Fits, CallerFits, KeyLasts
  <1>5. LimitFits(q)'
    BY <1>1, <1>2 DEF Fits, LimitFits, KeyLasts, DevicesMove
  <1>6. SubjectFits(q)'
    <2>1. NeedsApproval(q.key) => NeedsApproval(q.key)'
      BY <1>2 DEF NeedsApproval, KeyLasts
    <2>2. q.pc = "approve_write" => /\ approval'[q.item].status # "absent"
                                    /\ approval'[q.item].key = q.key
      BY <1>1, <1>3 DEF Fits, SubjectFits, ApprovalLasts
    <2> QED BY <1>1, <2>1, <2>2 DEF Fits, SubjectFits
  <1> QED BY <1>1, <1>4, <1>5, <1>6 DEF Fits, CallerFits, LimitFits, SubjectFits, NeedsApproval

\* A step of this shape keeps the invariant.
LEMMA MovesKeepTheInvariant ==
    ASSUME KeysInv, RowsMove, DevicesMove, CallsMove
    PROVE  KeysInv'
  <1>1. \A k \in Keys : KeyFits(k)'
    BY KeyFitsAgain DEF RowsMove
  <1>2. \A a \in Approvals : ApprovalFits(a)'
    BY ApprovalFitsAgain
  <1>3. ActiveKeyWasApproved'
    BY ActiveKeyStillApproved
  <1>4. \A c \in Calls : Fits(call[c])'
    BY CallFitsAgain DEF CallsMove
  <1> QED BY <1>1, <1>2, <1>3, <1>4 DEF KeysInv, RowsMove, DevicesMove, CallsMove

RestrictionsLast == \A d \in restricted : d \in devices' => d \in restricted'

LEMMA OneCallMoves ==
    ASSUME KeysInv, RestrictionsLast, NEW c \in Calls, NEW q \in CallRecords, Fits(q),
           call' = [call EXCEPT ![c] = q]
    PROVE  CallsMove
  <1>1. call \in [Calls -> CallRecords] /\ \A e \in Calls : Fits(call[e])
    BY DEF KeysInv
  <1>2. call' \in [Calls -> CallRecords]
    BY <1>1
  <1>3. ASSUME NEW e \in Calls PROVE CallMoves(e)
    BY <1>1 DEF CallMoves, RestrictionsLast
  <1> QED BY <1>2, <1>3 DEF CallsMove

LEMMA NoCallMoves ==
    ASSUME KeysInv, RestrictionsLast, UNCHANGED call
    PROVE  CallsMove
  BY DEF KeysInv, CallsMove, CallMoves, RestrictionsLast

LEMMA IdleFits == Fits(NoCall)
  BY DEF Fits, CallerFits, LimitFits, SubjectFits, NoCall, OwnedOnly

LEMMA ReturnMoves ==
    ASSUME KeysInv, RestrictionsLast, NEW c \in Calls, Return(c)
    PROVE  CallsMove
  BY OneCallMoves, IdleFits, NoCallTyped DEF Return

\* Going on to another statement.
LEMMA GotoMoves ==
    ASSUME KeysInv, RestrictionsLast, NEW c \in Calls, NEW p \in CallStates \ {"idle"},
           Goto(c, p), call[c].pc # "idle",
           LimitFits([call[c] EXCEPT !.pc = p]), SubjectFits([call[c] EXCEPT !.pc = p])
    PROVE  CallsMove
  <1>1. PICK q \in CallRecords : q = call[c] /\ Fits(q)
    BY DEF KeysInv
  <1>2. PICK r \in CallRecords : r = [q EXCEPT !.pc = p]
    BY <1>1, CallEdits
  <1>3. CallerFits(r)
    BY <1>1, <1>2, CallEdits DEF Fits, CallerFits
  <1>4. Fits(r)
    <2>1. r.pc = p
      BY <1>2, CallEdits
    <2> QED BY <1>1, <1>2, <1>3, <2>1 DEF Fits
  <1>5. call' = [call EXCEPT ![c] = r]
    BY <1>1, <1>2 DEF Goto
  <1> QED BY <1>4, <1>5, OneCallMoves

\* A call past the statements a restricted device may run goes on freely.
LEMMA GoesOn ==
    ASSUME KeysInv, RestrictionsLast, NEW c \in Calls, NEW p \in CallStates \ {"idle", "check"},
           Goto(c, p), call[c].pc \notin {"idle", "check", "logout_own"} \cup OwnedOnly,
           p \notin {"approve", "approve_write", "access_read", "request_read"},
           p \in {"access_cancel", "approval_insert"} => NeedsApproval(call[c].key)
    PROVE  CallsMove
  <1>1. PICK q \in CallRecords : q = call[c] /\ Fits(q)
    BY DEF KeysInv
  <1>2. PICK r \in CallRecords : r = [q EXCEPT !.pc = p]
    BY <1>1, CallEdits
  <1>3. /\ r.pc = p /\ r.op = q.op /\ r.dev = q.dev /\ r.key = q.key /\ r.item = q.item
        /\ r.free = q.free
    BY <1>2, CallEdits
  <1>4. LimitFits(r)
    BY <1>1, <1>3 DEF Fits, LimitFits
  <1>5. SubjectFits(r)
    BY <1>1, <1>3 DEF Fits, SubjectFits
  <1> QED BY <1>1, <1>2, <1>4, <1>5, GotoMoves

(***************************************************************************)
(* How the statements move the rows                                        *)
(***************************************************************************)
LEMMA DevicesStay ==
    ASSUME KeysInv, UnchangedDevices
    PROVE  RestrictionsLast /\ (RowsMove => DevicesMove)
  <1>1. RestrictionsLast
    BY DEF RestrictionsLast, UnchangedDevices
  <1> QED BY <1>1 DEF KeysInv, DevicesFit, UnchangedDevices, DevicesMove

LEMMA RowsStay ==
    ASSUME KeysInv, UnchangedRows, UnchangedUse
    PROVE  RowsMove
  <1>1. RowTypes'
    BY DEF KeysInv, RowTypes, UnchangedRows, UnchangedUse
  <1>2. \A k \in Keys : KeyStays(k)
    BY DEF KeyStays, UnchangedRows, UnchangedUse
  <1> QED BY <1>1, <1>2 DEF RowsMove, KeysMoveApart, KeyMoves, ApprovalMoves, ApprovalStays,
             UnchangedRows

LEMMA InsertMoves ==
    ASSUME KeysInv, NEW k \in Keys, NEW t \in KeyTypes, NEW d \in devices \cup {None},
           Insert(k, t, d, d), UNCHANGED <<approval, passed>>
    PROVE  RowsMove
  <1> DEFINE minted == [status |-> InitialStatus(t), type |-> t, dev |-> d, late |-> FALSE]
  <1>1. minted \in KeyRows /\ d \in Devices \cup {None}
    BY DEF KeysInv, DevicesFit, KeyRows, InitialStatus
  <1>2. key' = [key EXCEPT ![k] = minted] /\ lineage' = [lineage EXCEPT ![k] = d]
        /\ key[k].status = "absent"
    BY DEF Insert
  <1>3. KeyMinted(k)
    BY <1>2 DEF KeysInv, RowTypes, KeyMinted
  <1> HIDE DEF minted
  <1>4. RowTypes'
    BY <1>1, <1>2 DEF KeysInv, RowTypes
  <1>5. \A j \in Keys \ {k} : KeyStays(j)
    BY <1>2 DEF KeysInv, RowTypes, KeyStays
  <1> QED BY <1>3, <1>4, <1>5 DEF RowsMove, KeysMoveApart, KeyMoves, ApprovalMoves, ApprovalStays

LEMMA RevokedMoves ==
    ASSUME KeysInv,
           NEW S \in SUBSET {k \in Keys : key[k].status \in {"active", "pending_approval"}},
           key' = Revoked(key, S), UNCHANGED <<approval, lineage>>, UnchangedUse
    PROVE  RowsMove
  <1>1. \A k \in Keys : key'[k] \in KeyRows
    BY KeyRowEdits DEF KeysInv, RowTypes, Revoked, Statuses
  <1>2. RowTypes'
    BY <1>1 DEF KeysInv, RowTypes, Revoked, UnchangedUse
  <1>3. \A k \in S : KeyRevoked(k)
    BY DEF KeyRevoked, OnlyStatus, Revoked, UnchangedUse
  <1>4. \A k \in Keys \ S : KeyStays(k)
    BY DEF KeyStays, Revoked, UnchangedUse
  <1> QED BY <1>2, <1>3, <1>4 DEF RowsMove, KeysMoveApart, KeyMoves, ApprovalMoves, ApprovalStays

LEMMA DeleteMoves ==
    ASSUME KeysInv, NEW S \in SUBSET {k \in Keys : Present(k)}, DeleteKeys(S), UnchangedUse
    PROVE  RowsMove
  <1>1. \A k \in Keys : key'[k] \in KeyRows
    BY KeyRowEdits DEF KeysInv, RowTypes, DeleteKeys, Statuses
  <1>2. \A a \in Approvals : approval'[a] \in ApprovalRows
    BY ApprovalRowEdits DEF KeysInv, RowTypes, DeleteKeys, ApprovalsWithout, ApprovalStatuses
  <1>3. RowTypes'
    BY <1>1, <1>2 DEF KeysInv, RowTypes, DeleteKeys, ApprovalsWithout, UnchangedUse
  <1>4. ASSUME NEW k \in S PROVE KeyDeleted(k)
    <2>1. ASSUME NEW a \in Approvals, approval[a].key = k PROVE approval'[a].status = "deleted"
      BY <2>1, ApprovalRowEdits DEF KeysInv, RowTypes, DeleteKeys, ApprovalsWithout,
                                  ApprovalStatuses
    <2> QED BY <2>1 DEF KeyDeleted, OnlyStatus, DeleteKeys, UnchangedUse
  <1>5. \A k \in Keys \ S : KeyStays(k)
    BY DEF KeyStays, DeleteKeys, UnchangedUse
  <1>6. ASSUME NEW a \in Approvals PROVE ApprovalStays(a) \/ ApprovalDeleted(a)
    <2>1. CASE approval[a].key \in S
      <3>1. approval[a].status # "absent"
        BY <2>1, NoneAssumption DEF KeysInv, ApprovalFits
      <3>2. key'[approval[a].key].status = "deleted"
        BY <2>1, KeyRowEdits DEF KeysInv, RowTypes, DeleteKeys, Statuses
      <3> QED BY <2>1, <3>1, <3>2 DEF DeleteKeys, ApprovalsWithout, ApprovalDeleted
    <2>2. CASE approval[a].key \notin S
      BY <2>2 DEF DeleteKeys, ApprovalsWithout, ApprovalStays
    <2> QED BY <2>1, <2>2
  <1> QED BY <1>3, <1>4, <1>5, <1>6 DEF RowsMove, KeysMoveApart, KeyMoves, ApprovalMoves

\* A statement on approvals alone.
LEMMA ApprovalsMove ==
    ASSUME KeysInv, UNCHANGED <<key, lineage>>, UnchangedUse,
           approval' \in [Approvals -> ApprovalRows], \A a \in Approvals : ApprovalMoves(a)
    PROVE  RowsMove
  <1>1. RowTypes'
    BY DEF KeysInv, RowTypes, UnchangedUse
  <1>2. \A k \in Keys : KeyStays(k)
    BY DEF KeyStays, UnchangedUse
  <1> QED BY <1>1, <1>2 DEF RowsMove, KeysMoveApart, KeyMoves

(***************************************************************************)
(* Every action moves rows, devices and calls this way                     *)
(***************************************************************************)
Moves == RowsMove /\ DevicesMove /\ CallsMove

LEMMA StartAdminMoves ==
    ASSUME KeysInv, NEW c \in Calls, NEW op \in Ops, NEW by \in Keys, StartAdmin(c, op, by)
    PROVE  Moves
  <1>1. PICK k \in KeyArgs(op), i \in ItemArgs(op), t \in TypeArgs(op) :
            call' = [call EXCEPT ![c] =
                       [pc |-> "check", op |-> op, by |-> by, dev |-> key[by].dev, key |-> k,
                        item |-> i, type |-> t, free |-> key[by].dev \notin restricted]]
    BY DEF StartAdmin
  <1>2. op \in Managed \cup OwnedOnly \cup {"logout"}
    BY DEF StartAdmin
  <1>3. key[by] \in KeyRows /\ key[by].status = "active" /\ KeyFits(by)
    BY DEF KeysInv, RowTypes, StartAdmin, Authenticates
  <1> DEFINE free == key[by].dev \notin restricted
  <1>4. free \in BOOLEAN
    OBVIOUS
  <1>5. free => key[by].dev \notin restricted
    OBVIOUS
  <1>6. ~free => key[by].dev \in restricted
    OBVIOUS
  <1> DEFINE q == [pc |-> "check", op |-> op, by |-> by, dev |-> key[by].dev, key |-> k,
                   item |-> i, type |-> t, free |-> free]
  <1>7. call' = [call EXCEPT ![c] = q]
    BY <1>1
  <1> HIDE DEF free
  <1>8. k \in Keys \cup {None} /\ i \in Approvals \cup Devices \cup {None} /\ t \in KeyTypes
    BY NewTypesAssumption DEF KeysInv, DevicesFit, KeyArgs, ItemArgs, TypeArgs, KeyTypes
  <1>9. q \in CallRecords
    BY <1>2, <1>3, <1>4, <1>8 DEF CallRecords, CallStates, AllOps, KeyRows
  <1>10. op \in {"approve", "reject"} => i \in Approvals
    BY DEF ItemArgs
  <1>11. CallerFits(q)
    BY <1>3, NoneAssumption DEF CallerFits, KeyFits, Present
  <1>12. LimitFits(q)
    BY <1>6 DEF LimitFits, OwnedOnly
  <1>13. SubjectFits(q)
    BY <1>2, <1>10 DEF SubjectFits
  <1>14. Fits(q)
    BY <1>11, <1>12, <1>13 DEF Fits
  <1> HIDE DEF q
  <1>15. UnchangedDevices /\ RowsMove
    BY RowsStay DEF StartAdmin
  <1> QED BY <1>7, <1>9, <1>14, <1>15, DevicesStay, OneCallMoves DEF Moves

LEMMA StartOtherMoves ==
    ASSUME KeysInv, NEW c \in Calls, NEW op \in Ops, NEW k \in Keys \cup {None},
           StartOther(c, op, k)
    PROVE  Moves
  <1> DEFINE p == FirstStatement[op]
  <1>1. /\ op \in {"login", "access", "request", "use"}
        /\ p \in {"web_revoke", "access_read", "request_read", "use_read"}
        /\ p \in {"access_read", "request_read"} => k \in Keys
    BY DEF StartOther, FirstStatement
  <1> DEFINE q == [NoCall EXCEPT !.pc = p, !.op = op, !.key = k]
  <1>2. call' = [call EXCEPT ![c] = q]
    BY DEF StartOther
  <1> HIDE DEF p
  <1>3. p \in CallStates /\ op \in AllOps
    BY <1>1 DEF CallStates, AllOps
  <1>4. q \in CallRecords
    BY <1>3 DEF NoCall, CallRecords, KeyTypes
  <1>5. q.pc = p /\ q.op = op /\ q.by = None /\ q.dev = None /\ q.key = k
    BY <1>3 DEF NoCall
  <1> HIDE DEF q
  <1>6. Fits(q)
    BY <1>1, <1>5 DEF Fits, CallerFits, LimitFits, SubjectFits
  <1>7. UnchangedDevices /\ RowsMove
    BY RowsStay DEF StartOther
  <1> QED BY <1>2, <1>4, <1>6, <1>7, DevicesStay, OneCallMoves DEF Moves

LEMMA CheckPolicyMoves ==
    ASSUME KeysInv, NEW c \in Calls, CheckPolicy(c)
    PROVE  Moves
  <1>1. UnchangedDevices /\ RowsMove
    BY RowsStay DEF CheckPolicy
  <1>2. PICK q \in CallRecords : q = call[c] /\ Fits(q)
    BY DEF KeysInv
  <1>3. q.pc = "check" /\ q.op \in Managed \cup OwnedOnly \cup {"logout"}
    BY <1>2 DEF CheckPolicy, Fits, SubjectFits
  <1>4. ASSUME NEW p \in Managed \cup OwnedOnly \cup {"logout_own", "logout_all"}, Goto(c, p),
               q.dev \in restricted =>
                   \/ p = "logout_own"
                   \/ p \in OwnedOnly /\ Present(q.key) /\ key[q.key].dev = q.dev,
               p = "approve" => q.op = "approve"
        PROVE  CallsMove
    <2>1. p \in CallStates \ {"idle"}
          /\ p \notin {"check", "access_cancel", "approval_insert", "approve_write",
                       "access_read", "request_read"}
      BY DEF CallStates, Managed, OwnedOnly
    <2>2. PICK r \in CallRecords : r = [q EXCEPT !.pc = p]
      BY <2>1, CallEdits
    <2>3. /\ r.pc = p /\ r.op = q.op /\ r.dev = q.dev /\ r.key = q.key /\ r.item = q.item
          /\ r.free = q.free
      BY <2>1, <2>2, CallEdits
    <2>4. LimitFits(r)
      <3> SUFFICES ASSUME r.dev # None, ~r.free, r.dev \in devices
                   PROVE  /\ r.dev \in restricted
                          /\ r.pc \in {"check", "logout_own"} \cup OwnedOnly
                          /\ r.pc \in OwnedOnly /\ r.key \in Keys =>
                                 key[r.key].status # "absent" /\ key[r.key].dev = r.dev
        BY DEF LimitFits
      <3>1. q.dev \in restricted
        BY <1>2, <2>3 DEF Fits, LimitFits
      <3> QED BY <1>4, <2>3, <3>1 DEF Present, OwnedOnly
    <2>5. SubjectFits(r)
      BY <1>2, <1>4, <2>1, <2>3 DEF Fits, SubjectFits
    <2> QED BY <1>1, <1>2, <1>3, <1>4, <2>1, <2>2, <2>4, <2>5, GotoMoves, DevicesStay
  <1>5. ASSUME q.op = "logout" PROVE CallsMove
    BY <1>1, <1>2, <1>4, <1>5 DEF CheckPolicy
  <1>6. ASSUME Return(c) PROVE CallsMove
    BY <1>1, <1>6, ReturnMoves, DevicesStay
  <1>7. ASSUME q.op # "logout", MayManage(q.op, q.dev \in restricted, q.key, q.dev), Goto(c, q.op)
        PROVE  CallsMove
    BY <1>1, <1>2, <1>3, <1>4, <1>7 DEF MayManage, Managed, OwnedOnly
  <1>8. CallsMove
    BY <1>2, <1>5, <1>6, <1>7 DEF CheckPolicy
  <1> QED BY <1>1, <1>8, DevicesStay DEF Moves

\* The device a call mints for is the one its credential descends from.
LEMMA InsertKeyMoves ==
    ASSUME KeysInv, NEW c \in Calls, NEW t \in KeyTypes, InsertKey(c, t)
    PROVE  Moves
  <1>1. PICK q \in CallRecords : q = call[c] /\ Fits(q)
    BY DEF KeysInv
  <1>2. q.dev = IF q.by = None THEN None ELSE lineage[q.by]
    BY <1>1 DEF Fits, CallerFits
  <1>3. UnchangedDevices /\ UnchangedUse /\ UNCHANGED approval /\ Return(c)
    BY DEF InsertKey
  <1>4. CASE ForeignKeyHolds(q.dev)
    <2>1. PICK k \in Keys : Insert(k, t, q.dev, q.dev)
      BY <1>1, <1>2, <1>4 DEF InsertKey, MintedBy
    <2>2. RowsMove
      BY <1>3, <1>4, <2>1, InsertMoves DEF ForeignKeyHolds, UnchangedUse
    <2> QED BY <1>3, <2>2, DevicesStay, ReturnMoves DEF Moves
  <1>5. CASE ~ForeignKeyHolds(q.dev)
    <2>1. UnchangedRows
      BY <1>1, <1>3, <1>5 DEF InsertKey, MintedBy, UnchangedRows
    <2> QED BY <1>3, <2>1, RowsStay, DevicesStay, ReturnMoves DEF Moves
  <1> QED BY <1>4, <1>5

LEMMA MintDeviceSessionMoves ==
    ASSUME KeysInv, NEW k \in Keys, NEW d \in Devices, MintDeviceSession(k, d)
    PROVE  Moves
  <1>1. UnchangedDevices /\ UNCHANGED call
    BY DEF MintDeviceSession
  <1>2. RowsMove
    BY InsertMoves DEF MintDeviceSession, KeyTypes, UnchangedUse
  <1> QED BY <1>1, <1>2, DevicesStay, NoCallMoves DEF Moves

LEMMA RevokeSessionsMoves ==
    ASSUME KeysInv, NEW c \in Calls, RevokeCliSessions(c) \/ RevokeWebSessions(c)
    PROVE  Moves
  <1>1. UnchangedDevices /\ UnchangedUse /\ UNCHANGED <<approval, lineage>>
    BY DEF RevokeCliSessions, RevokeWebSessions
  <1>2. \E t \in {"cli", "web"} : key' = Revoked(key, ActiveOf(t))
    BY DEF RevokeCliSessions, RevokeWebSessions
  <1>3. RowsMove
    BY <1>1, <1>2, RevokedMoves DEF ActiveOf
  <1>4. CallsMove
    <2>1. CASE RevokeCliSessions(c)
      BY <1>1, <2>1, DevicesStay, GoesOn DEF RevokeCliSessions, CallStates, OwnedOnly
    <2>2. CASE RevokeWebSessions(c)
      BY <1>1, <2>2, DevicesStay, GoesOn DEF RevokeWebSessions, CallStates, OwnedOnly
    <2> QED BY <2>1, <2>2
  <1> QED BY <1>1, <1>3, <1>4, DevicesStay DEF Moves

LEMMA RevokingMoves ==
    ASSUME KeysInv, NEW c \in Calls, RevokeKey(c) \/ LogoutOwn(c) \/ LogoutAll(c)
    PROVE  Moves
  <1>1. UnchangedDevices /\ UnchangedUse /\ UNCHANGED <<approval, lineage>> /\ Return(c)
    BY DEF RevokeKey, LogoutOwn, LogoutAll
  <1>2. RowsMove
    <2>1. CASE RevokeKey(c)
      BY <1>1, <2>1, RevokedMoves DEF RevokeKey
    <2>2. CASE LogoutOwn(c)
      BY <1>1, <2>2, RevokedMoves DEF LogoutOwn
    <2>3. CASE LogoutAll(c)
      BY <1>1, <2>3, RevokedMoves DEF LogoutAll, ActiveOf
    <2> QED BY <2>1, <2>2, <2>3
  <1> QED BY <1>1, <1>2, DevicesStay, ReturnMoves DEF Moves

LEMMA DeletingMoves ==
    ASSUME KeysInv, NEW c \in Calls, DeleteKey(c) \/ SweepSessions(c)
    PROVE  Moves
  <1>1. UnchangedDevices /\ UnchangedUse /\ Return(c)
    BY DEF DeleteKey, SweepSessions
  <1>2. RowsMove
    <2>1. CASE DeleteKey(c)
      BY <1>1, <2>1, DeleteMoves DEF DeleteKey, Deletable, Present
    <2>2. CASE SweepSessions(c)
      BY <1>1, <2>2, DeleteMoves DEF SweepSessions, Present
    <2> QED BY <2>1, <2>2
  <1> QED BY <1>1, <1>2, DevicesStay, ReturnMoves DEF Moves

LEMMA DeleteDeviceMoves ==
    ASSUME KeysInv, NEW c \in Calls, DeleteDevice(c)
    PROVE  Moves
  <1> DEFINE d == call[c].item
  <1>1. UnchangedUse /\ Return(c)
    BY DEF DeleteDevice
  <1>2. CASE d \in devices
    <2> DEFINE S == {k \in Keys : Present(k) /\ key[k].dev = d}
    <2>1. /\ DeleteKeys(S) /\ devices' = devices \ {d}
          /\ banned' = banned \ {d} /\ restricted' = restricted \ {d}
      BY <1>2 DEF DeleteDevice
    <2>2. RowsMove
      BY <1>1, <2>1, DeleteMoves
    <2>3. RestrictionsLast /\ DevicesFit' /\ devices' \subseteq devices
      BY <2>1 DEF RestrictionsLast, KeysInv, DevicesFit
    <2>4. ASSUME NEW k \in Keys, Present(k)'
          PROVE  key'[k].dev \in devices' \/ key'[k].dev \notin devices
      <3>1. /\ key[k] \in KeyRows
            /\ key' = [j \in Keys |-> IF j \in S THEN [key[j] EXCEPT !.status = "deleted"]
                                      ELSE key[j]]
        BY <2>1 DEF DeleteKeys, KeysInv, RowTypes
      <3>2. CASE k \in S
        BY <2>4, <3>1, <3>2, KeyRowEdits DEF Present, Statuses
      <3>3. CASE k \notin S
        BY <2>1, <2>4, <3>1, <3>3 DEF Present
      <3> QED BY <3>2, <3>3
    <2> QED BY <1>1, <2>2, <2>3, <2>4, ReturnMoves DEF Moves, DevicesMove
  <1>3. CASE d \notin devices
    BY <1>1, <1>3, RowsStay, DevicesStay, ReturnMoves DEF DeleteDevice, Moves
  <1> QED BY <1>2, <1>3

LEMMA AccessMoves ==
    ASSUME KeysInv, NEW c \in Calls,
           ReadForAccess(c) \/ CancelPending(c) \/ ReadForApproval(c) \/ InsertApproval(c)
    PROVE  Moves
  <1>1. PICK q \in CallRecords : q = call[c] /\ Fits(q)
    BY DEF KeysInv
  <1>2. UnchangedDevices /\ UnchangedUse /\ UNCHANGED <<key, lineage>>
    BY DEF ReadForAccess, CancelPending, ReadForApproval, InsertApproval, UnchangedRows
  <1>3. CASE ReadForAccess(c) \/ ReadForApproval(c)
    <2>1. q.key \in Keys
      BY <1>1, <1>3 DEF ReadForAccess, ReadForApproval, Fits, SubjectFits
    <2>2. RowsMove
      BY <1>3, RowsStay DEF ReadForAccess, ReadForApproval
    <2>3. CASE Return(c)
      BY <1>2, <2>2, <2>3, DevicesStay, ReturnMoves DEF Moves
    <2>4. ASSUME ~Return(c) PROVE CallsMove
      <3>1. NeedsApproval(q.key)
        BY <1>1, <1>3, <2>1, <2>4 DEF ReadForAccess, ReadForApproval, Awaiting, NeedsApproval
      <3>2. Goto(c, "access_cancel") \/ Goto(c, "approval_insert")
        BY <1>3, <2>4 DEF ReadForAccess, ReadForApproval
      <3>3. call[c].pc \in {"access_read", "request_read"}
        BY <1>3 DEF ReadForAccess, ReadForApproval
      <3> QED BY <1>1, <1>2, <3>1, <3>2, <3>3, DevicesStay, GoesOn DEF CallStates, OwnedOnly
    <2> QED BY <1>2, <2>2, <2>3, <2>4, DevicesStay DEF Moves
  <1>4. CASE CancelPending(c)
    <2>1. \A a \in Approvals : approval'[a] \in ApprovalRows
      BY <1>4, ApprovalRowEdits DEF CancelPending, KeysInv, RowTypes, ApprovalStatuses
    <2>2. \A a \in Approvals : ApprovalStays(a) \/ ApprovalClosed(a)
      BY <1>4 DEF CancelPending, ApprovalStays, ApprovalClosed
    <2>3. RowsMove
      BY <1>2, <1>4, <2>1, <2>2, ApprovalsMove DEF CancelPending, ApprovalMoves
    <2>4. NeedsApproval(q.key)
      BY <1>1, <1>4 DEF CancelPending, Fits, SubjectFits
    <2>5. CallsMove
      BY <1>1, <1>2, <1>4, <2>4, DevicesStay, GoesOn DEF CancelPending, CallStates, OwnedOnly
    <2> QED BY <1>2, <2>3, <2>5, DevicesStay DEF Moves
  <1>5. CASE InsertApproval(c)
    <2>1. NeedsApproval(q.key)
      BY <1>1, <1>5 DEF InsertApproval, Fits, SubjectFits
    <2>2. CASE ~KeyStillThere(q.key)
      <3>1. RowsMove
        BY <1>1, <1>2, <1>5, <2>2, RowsStay DEF InsertApproval, UnchangedRows
      <3> QED BY <1>2, <1>5, <3>1, DevicesStay, ReturnMoves DEF InsertApproval, Moves
    <2>3. CASE KeyStillThere(q.key)
      <3> DEFINE asked == [status |-> "pending", key |-> q.key, late |-> FALSE]
      <3>1. PICK a \in Approvals :
                approval[a].status = "absent" /\ approval' = [approval EXCEPT ![a] = asked]
        BY <1>1, <1>5, <2>3 DEF InsertApproval
      <3>2. asked \in ApprovalRows
        BY <2>1 DEF ApprovalRows, NeedsApproval
      <3>3. ApprovalMade(a)
        BY <1>2, <2>1, <2>3, <3>1 DEF ApprovalMade, NeedsApproval, KeyStillThere, KeysInv, RowTypes
      <3> HIDE DEF asked
      <3>4. \A b \in Approvals \ {a} : ApprovalStays(b)
        BY <3>1 DEF ApprovalStays, KeysInv, RowTypes
      <3>5. approval' \in [Approvals -> ApprovalRows]
        BY <3>1, <3>2 DEF KeysInv, RowTypes
      <3>6. RowsMove
        BY <1>2, <3>3, <3>4, <3>5, ApprovalsMove DEF ApprovalMoves
      <3> QED BY <1>2, <1>5, <3>6, DevicesStay, ReturnMoves DEF InsertApproval, Moves
    <2> QED BY <2>2, <2>3
  <1> QED BY <1>3, <1>4, <1>5

LEMMA ReadForApproveMoves ==
    ASSUME KeysInv, NEW c \in Calls, ReadForApprove(c)
    PROVE  Moves
  <1>1. PICK q \in CallRecords : q = call[c] /\ Fits(q)
    BY DEF KeysInv
  <1>2. UnchangedDevices /\ RowsMove
    BY RowsStay DEF ReadForApprove
  <1>3. CASE Return(c)
    BY <1>2, <1>3, DevicesStay, ReturnMoves DEF Moves
  <1>4. CASE ~Return(c)
    <2>1. q.pc = "approve" /\ q.op = "approve" /\ q.item \in Approvals
      BY <1>1 DEF ReadForApprove, Fits, SubjectFits
    <2>2. PICK a \in Approvals : a = q.item
      BY <2>1
    <2> DEFINE r == [q EXCEPT !.pc = "approve_write", !.key = approval[a].key]
    <2>3. approval[a].status = "pending" /\ call' = [call EXCEPT ![c] = r]
      BY <1>1, <1>4, <2>2 DEF ReadForApprove
    <2>4. approval[a].key \in Keys /\ NeedsApproval(approval[a].key)
      BY <2>3 DEF KeysInv, ApprovalFits, NeedsApproval
    <2>5. r \in CallRecords
      BY <2>4 DEF CallRecords, CallStates
    <2>6. /\ r.pc = "approve_write" /\ r.op = q.op /\ r.by = q.by /\ r.dev = q.dev
          /\ r.key = approval[a].key /\ r.item = a /\ r.free = q.free
      BY <2>2 DEF CallRecords
    <2> HIDE DEF r
    <2>7. CallerFits(r)
      BY <1>1, <2>6 DEF Fits, CallerFits
    <2>8. LimitFits(r)
      BY <1>1, <2>1, <2>6 DEF Fits, LimitFits, OwnedOnly
    <2>9. SubjectFits(r)
      BY <2>1, <2>3, <2>4, <2>6 DEF SubjectFits
    <2>10. Fits(r)
      BY <2>6, <2>7, <2>8, <2>9 DEF Fits
    <2> QED BY <1>2, <2>3, <2>5, <2>10, DevicesStay, OneCallMoves DEF Moves
  <1> QED BY <1>3, <1>4

\* The two UPDATEs meet the approval and the key the SELECT named: if the
\* approval is gone by now, so is the key.
LEMMA ApproveWriteMoves ==
    ASSUME KeysInv, NEW c \in Calls, ApproveWrite(c)
    PROVE  Moves
  <1>1. PICK q \in CallRecords : q = call[c] /\ Fits(q)
    BY DEF KeysInv
  <1>2. UnchangedDevices /\ UnchangedUse /\ UNCHANGED lineage /\ Return(c)
    BY DEF ApproveWrite
  <1>3. /\ q.pc = "approve_write" /\ q.item \in Approvals /\ NeedsApproval(q.key)
        /\ approval[q.item].status # "absent" /\ approval[q.item].key = q.key
    BY <1>1 DEF ApproveWrite, Fits, SubjectFits
  <1>4. PICK a \in Approvals : a = q.item
    BY <1>3
  <1>5. PICK k \in Keys : k = q.key
    BY <1>3 DEF NeedsApproval
  <1>6. approval[a].status = "deleted" <=> ~Present(k)
    BY <1>3, <1>4, <1>5 DEF KeysInv, ApprovalFits, Present, NeedsApproval
  <1>7. RowsMove
    <2>1. CASE approval[a].status = "deleted"
      BY <1>1, <1>2, <1>4, <1>5, <1>6, <2>1, RowsStay DEF ApproveWrite, UnchangedRows
    <2>2. CASE approval[a].status # "deleted"
      <3> DEFINE old == approval[a]
                 now == [old EXCEPT !.status = "approved"]
                 was == key[k]
                 is  == [was EXCEPT !.status = "active"]
      <3>1. approval' = [approval EXCEPT ![a] = now] /\ key' = [key EXCEPT ![k] = is]
        BY <1>1, <1>4, <1>5, <1>6, <2>2 DEF ApproveWrite
      <3>2. old \in ApprovalRows /\ was \in KeyRows
        BY DEF KeysInv, RowTypes
      <3>3. now \in ApprovalRows /\ now.status = "approved" /\ now.key = k
        <4>1. old.key = k /\ "approved" \in ApprovalStatuses
          BY <1>3, <1>4, <1>5 DEF ApprovalStatuses
        <4> HIDE DEF old
        <4> QED BY <3>2, <4>1, ApprovalRowEdits
      <3>4. is \in KeyRows
        BY <3>2, KeyRowEdits DEF Statuses
      <3>5. approval'[a] = now /\ key'[k] = is
        BY <3>1 DEF KeysInv, RowTypes
      <3>6. ApprovalGiven(a)
        BY <1>3, <1>4, <2>2, <3>5 DEF ApprovalGiven
      <3>7. KeyApproved(k)
        BY <1>2, <1>3, <1>5, <1>6, <2>2, <3>3, <3>5
           DEF KeyApproved, NeedsApproval, OnlyStatus, UnchangedUse
      <3> HIDE DEF now, is
      <3>8. RowTypes'
        BY <1>2, <3>1, <3>3, <3>4 DEF KeysInv, RowTypes, UnchangedUse
      <3>9. \A j \in Keys \ {k} : KeyStays(j)
        BY <1>2, <3>1 DEF KeysInv, RowTypes, KeyStays, UnchangedUse
      <3>10. \A b \in Approvals \ {a} : ApprovalStays(b)
        BY <3>1 DEF KeysInv, RowTypes, ApprovalStays
      <3> QED BY <3>6, <3>7, <3>8, <3>9, <3>10
             DEF RowsMove, KeysMoveApart, KeyMoves, ApprovalMoves
    <2> QED BY <2>1, <2>2
  <1> QED BY <1>2, <1>7, DevicesStay, ReturnMoves DEF Moves

LEMMA RejectRequestMoves ==
    ASSUME KeysInv, NEW c \in Calls, RejectRequest(c)
    PROVE  Moves
  <1>1. PICK q \in CallRecords : q = call[c] /\ Fits(q)
    BY DEF KeysInv
  <1>2. UnchangedDevices /\ UnchangedUse /\ UNCHANGED <<key, lineage>> /\ Return(c)
    BY DEF RejectRequest
  <1>3. RowsMove
    <2>1. CASE UNCHANGED approval
      BY <1>2, <2>1, RowsStay DEF UnchangedRows
    <2>2. CASE ~UNCHANGED approval
      <3>1. \A a \in Approvals : approval[a] \in ApprovalRows
        BY DEF KeysInv, RowTypes
      <3>2. PICK a : /\ a = q.item /\ approval[a].status = "pending"
                     /\ approval' = [approval EXCEPT ![a] = [@ EXCEPT !.status = "rejected"]]
        BY <1>1, <2>2 DEF RejectRequest, Undecided
      <3>3. \A b \in Approvals : approval'[b] \in ApprovalRows
        BY <3>1, <3>2, ApprovalRowEdits DEF ApprovalStatuses, KeysInv, RowTypes
      <3>4. approval' \in [Approvals -> ApprovalRows]
        BY <3>2, <3>3 DEF KeysInv, RowTypes
      <3>5. \A b \in Approvals : ApprovalStays(b) \/ ApprovalClosed(b)
        BY <3>2 DEF ApprovalStays, ApprovalClosed, KeysInv, RowTypes
      <3> QED BY <1>2, <3>4, <3>5, ApprovalsMove DEF ApprovalMoves
    <2> QED BY <2>1, <2>2
  <1> QED BY <1>2, <1>3, DevicesStay, ReturnMoves DEF Moves

LEMMA ReadForUseMoves ==
    ASSUME KeysInv, NEW c \in Calls, ReadForUse(c) \/ CheckBan(c)
    PROVE  Moves
  <1>1. UnchangedDevices /\ RowsMove
    BY RowsStay DEF ReadForUse, CheckBan
  <1>2. call[c].pc \in {"use_read", "use_ban"}
    BY DEF ReadForUse, CheckBan
  <1>3. Return(c) \/ Goto(c, "use_consume") \/ Goto(c, "use_ban")
    BY DEF ReadForUse, CheckBan
  <1>4. CASE Return(c)
    BY <1>1, <1>4, DevicesStay, ReturnMoves DEF Moves
  <1>5. ASSUME NEW p \in {"use_consume", "use_ban"}, Goto(c, p) PROVE CallsMove
    BY <1>1, <1>2, <1>5, DevicesStay, GoesOn DEF CallStates, OwnedOnly
  <1> QED BY <1>1, <1>3, <1>4, <1>5, DevicesStay DEF Moves

LEMMA ConsumeMoves ==
    ASSUME KeysInv, NEW c \in Calls, Consume(c)
    PROVE  Moves
  <1>1. UnchangedDevices /\ UNCHANGED <<approval, lineage>>
    BY DEF Consume
  <1>2. CallsMove
    <2>1. CASE Return(c)
      BY <1>1, <2>1, DevicesStay, ReturnMoves
    <2>2. CASE Goto(c, "use_handle")
      BY <1>1, <2>2, DevicesStay, GoesOn DEF Consume, CallStates, OwnedOnly
    <2> QED BY <2>1, <2>2 DEF Consume
  <1>3. RowsMove
    <2>1. CASE UNCHANGED <<key, passed>>
      BY <1>1, <2>1, RowsStay DEF UnchangedRows, UnchangedUse
    <2>2. CASE ~UNCHANGED <<key, passed>>
      <3>1. PICK k : /\ k = call[c].key /\ key[k].type = "one_time" /\ key[k].status = "active"
                     /\ key' = [key EXCEPT ![k] = [@ EXCEPT !.status = "used"]]
                     /\ passed' = [passed EXCEPT ![k] = @ + 1]
        BY <2>2 DEF Consume, Unspent
      <3>2. \A j \in Keys : key'[j] \in KeyRows
        BY <3>1, KeyRowEdits DEF KeysInv, RowTypes, Statuses
      <3>3. RowTypes'
        <4>1. passed' \in [Keys -> Nat]
          <5>1. passed \in [Keys -> Nat] /\ (k \in Keys => passed[k] + 1 \in Nat)
            BY DEF KeysInv, RowTypes
          <5>2. \A j \in Keys : passed'[j] = IF j = k THEN passed[k] + 1 ELSE passed[j]
            BY <3>1, <5>1
          <5>3. \A j \in Keys : passed'[j] \in Nat
            BY <5>1, <5>2
          <5> QED BY <3>1, <5>1, <5>3
        <4> QED BY <1>1, <3>1, <3>2, <4>1 DEF KeysInv, RowTypes
      <3>4. \A j \in Keys : KeyStays(j) \/ KeySpent(j)
        BY <1>1, <3>1 DEF KeysInv, RowTypes, KeyStays, KeySpent, OnlyStatus
      <3>5. KeysMoveApart
        <4>1. \A j \in Keys \ {k} : KeyStays(j)
          BY <1>1, <3>1 DEF KeysInv, RowTypes, KeyStays
        <4>2. k \notin Keys => \A j \in Keys : KeyStays(j)
          BY <4>1
        <4> QED BY <4>1, <4>2 DEF KeysMoveApart
      <3> QED BY <1>1, <3>3, <3>4, <3>5 DEF RowsMove, KeyMoves, ApprovalMoves, ApprovalStays
    <2> QED BY <2>1, <2>2
  <1> QED BY <1>1, <1>2, <1>3, DevicesStay DEF Moves

LEMMA EndingMoves ==
    ASSUME KeysInv, NEW c \in Calls, Handle(c) \/ Abort(c)
    PROVE  Moves
  <1>1. UnchangedDevices /\ RowsMove /\ Return(c)
    BY RowsStay DEF Handle, Abort
  <1> QED BY <1>1, DevicesStay, ReturnMoves DEF Moves

LEMMA KeyLapsesMoves ==
    ASSUME KeysInv, NEW k \in Keys, KeyLapses(k)
    PROVE  Moves
  <1>1. /\ UnchangedDevices /\ UNCHANGED call /\ UNCHANGED <<approval, lineage, passed>>
        /\ Present(k) /\ key' = [key EXCEPT ![k] = [@ EXCEPT !.late = TRUE]]
    BY DEF KeyLapses, UnchangedUse
  <1>2. \A j \in Keys : key'[j] \in KeyRows
    BY <1>1, KeyRowEdits DEF KeysInv, RowTypes, Statuses
  <1>3. RowTypes'
    BY <1>1, <1>2 DEF KeysInv, RowTypes
  <1>4. KeyLate(k) /\ \A j \in Keys \ {k} : KeyStays(j)
    BY <1>1 DEF KeysInv, RowTypes, KeyStays, KeyLate
  <1>5. RowsMove
    BY <1>1, <1>3, <1>4 DEF RowsMove, KeysMoveApart, KeyMoves, ApprovalMoves, ApprovalStays
  <1> QED BY <1>1, <1>5, DevicesStay, NoCallMoves DEF Moves

LEMMA ApprovalLapsesMoves ==
    ASSUME KeysInv, NEW a \in Approvals, ApprovalLapses(a)
    PROVE  Moves
  <1>1. /\ UnchangedDevices /\ UNCHANGED call /\ UNCHANGED <<key, lineage>> /\ UnchangedUse
        /\ approval[a].status = "pending"
        /\ approval' = [approval EXCEPT ![a] = [@ EXCEPT !.late = TRUE]]
    BY DEF ApprovalLapses
  <1>2. \A b \in Approvals : approval'[b] \in ApprovalRows
    BY <1>1, ApprovalRowEdits DEF KeysInv, RowTypes, ApprovalStatuses
  <1>3. approval' \in [Approvals -> ApprovalRows]
    BY <1>1, <1>2 DEF KeysInv, RowTypes
  <1>4. \A b \in Approvals : ApprovalStays(b) \/ ApprovalLate(b)
    BY <1>1 DEF KeysInv, RowTypes, ApprovalStays, ApprovalLate
  <1>5. RowsMove
    BY <1>1, <1>3, <1>4, ApprovalsMove DEF ApprovalMoves
  <1> QED BY <1>1, <1>5, DevicesStay, NoCallMoves DEF Moves

LEMMA ExpireApprovalsMoves ==
    ASSUME KeysInv, ExpireApprovals
    PROVE  Moves
  <1>1. UnchangedDevices /\ UNCHANGED call /\ UNCHANGED <<key, lineage>> /\ UnchangedUse
    BY DEF ExpireApprovals
  <1>2. \A a \in Approvals : approval'[a] \in ApprovalRows
    BY ApprovalRowEdits DEF ExpireApprovals, KeysInv, RowTypes, ApprovalStatuses
  <1>3. \A a \in Approvals : ApprovalStays(a) \/ ApprovalClosed(a)
    BY DEF ExpireApprovals, ApprovalStays, ApprovalClosed
  <1>4. RowsMove
    BY <1>1, <1>2, <1>3, ApprovalsMove DEF ExpireApprovals, ApprovalMoves
  <1> QED BY <1>1, <1>4, DevicesStay, NoCallMoves DEF Moves

LEMMA ChangeBanMoves ==
    ASSUME KeysInv, NEW d \in Devices, ChangeBan(d)
    PROVE  Moves
  <1>1. UNCHANGED <<devices, restricted, call>> /\ d \in devices /\ RowsMove
    BY RowsStay DEF ChangeBan
  <1>2. banned' \subseteq devices
    BY <1>1 DEF ChangeBan, KeysInv, DevicesFit
  <1>3. DevicesMove /\ RestrictionsLast
    BY <1>1, <1>2 DEF DevicesMove, DevicesFit, KeysInv, RestrictionsLast
  <1> QED BY <1>1, <1>3, NoCallMoves DEF Moves

\* A change of the policy of a device frees the calls it is running.
LEMMA ChangePolicyMoves ==
    ASSUME KeysInv, NEW d \in Devices, ChangePolicy(d)
    PROVE  Moves
  <1>1. UNCHANGED <<devices, banned>> /\ d \in devices /\ RowsMove
    BY RowsStay DEF ChangePolicy
  <1>2. restricted' \subseteq devices /\ \A e \in restricted : e # d => e \in restricted'
    BY <1>1 DEF ChangePolicy, KeysInv, DevicesFit
  <1>3. DevicesMove
    BY <1>1, <1>2 DEF DevicesMove, DevicesFit, KeysInv
  <1>4. ASSUME NEW c \in Calls PROVE call'[c] \in CallRecords /\ CallMoves(c)
    <2>1. PICK q \in CallRecords : q = call[c] /\ Fits(q)
      BY DEF KeysInv
    <2>2. CASE q.pc # "idle" /\ q.dev = d
      <3> DEFINE r == [q EXCEPT !.free = TRUE]
      <3>1. call'[c] = r
        BY <2>1, <2>2 DEF ChangePolicy
      <3>2. r \in CallRecords
        BY DEF CallRecords
      <3>3. /\ r.pc = q.pc /\ r.op = q.op /\ r.by = q.by /\ r.dev = q.dev /\ r.key = q.key
            /\ r.item = q.item /\ r.free
        BY DEF CallRecords
      <3> HIDE DEF r
      <3>4. Fits(r)
        BY <2>1, <2>2, <3>3 DEF Fits, CallerFits, LimitFits, SubjectFits
      <3> QED BY <3>1, <3>2, <3>3, <3>4 DEF CallMoves
    <2>3. CASE ~(q.pc # "idle" /\ q.dev = d)
      <3>1. call'[c] = q
        BY <2>1, <2>3 DEF ChangePolicy
      <3>2. q.dev # d
        BY <1>1, <2>1, <2>3, NoneAssumption DEF Fits, NoCall
      <3> QED BY <1>2, <2>1, <3>1, <3>2 DEF CallMoves
    <2> QED BY <2>2, <2>3
  <1>5. CallsMove
    BY <1>4 DEF CallsMove, ChangePolicy
  <1> QED BY <1>1, <1>3, <1>5 DEF Moves

(***************************************************************************)
(* The invariant                                                           *)
(***************************************************************************)
LEMMA InsertingMoves ==
    ASSUME KeysInv, NEW c \in Calls,
           CreateKey(c) \/ CreateToken(c) \/ InsertCliSession(c) \/ InsertWebSession(c)
    PROVE  Moves
  <1>1. call[c].type \in KeyTypes
    BY DEF KeysInv, CallRecords
  <1>2. PICK t \in KeyTypes : InsertKey(c, t)
    BY <1>1 DEF CreateKey, CreateToken, InsertCliSession, InsertWebSession, KeyTypes
  <1> QED BY <1>2, InsertKeyMoves

LEMMA StepMoves ==
    ASSUME KeysInv, NEW c \in Calls, Step(c)
    PROVE  Moves
  BY StartAdminMoves, StartOtherMoves, CheckPolicyMoves, InsertingMoves, RevokeSessionsMoves,
     RevokingMoves, DeletingMoves, DeleteDeviceMoves, AccessMoves, ReadForApproveMoves,
     ApproveWriteMoves, RejectRequestMoves, ReadForUseMoves, ConsumeMoves, EndingMoves DEF Step

LEMMA NextMoves ==
    ASSUME KeysInv, Next
    PROVE  Moves
  BY StepMoves, MintDeviceSessionMoves, KeyLapsesMoves, ApprovalLapsesMoves, ExpireApprovalsMoves,
     ChangeBanMoves, ChangePolicyMoves DEF Next

LEMMA KeysInvStarts == Init => KeysInv
  <1> SUFFICES ASSUME Init PROVE KeysInv
    OBVIOUS
  <1>1. NoKey \in KeyRows /\ NoApproval \in ApprovalRows /\ NoKey.status = "absent"
        /\ NoApproval.status = "absent" /\ NoApproval.key = None
    BY DEF NoKey, KeyRows, NoApproval, ApprovalRows, KeyTypes
  <1>2. DevicesFit /\ RowTypes /\ call \in [Calls -> CallRecords]
    BY <1>1, NoCallTyped DEF Init, DevicesFit, RowTypes
  <1>3. \A k \in Keys : KeyFits(k)
    BY <1>1 DEF Init, KeyFits, Present
  <1>4. \A a \in Approvals : ApprovalFits(a)
    BY <1>1 DEF Init, ApprovalFits
  <1>5. ActiveKeyWasApproved
    BY <1>1 DEF Init, ActiveKeyWasApproved
  <1>6. \A c \in Calls : Fits(call[c])
    BY IdleFits DEF Init
  <1> QED BY <1>2, <1>3, <1>4, <1>5, <1>6 DEF KeysInv

LEMMA KeysInvLasts == KeysInv /\ [Next]_vars => KeysInv'
  <1>1. ASSUME KeysInv, Next PROVE KeysInv'
    BY <1>1, NextMoves, MovesKeepTheInvariant DEF Moves
  <1>2. ASSUME KeysInv, UNCHANGED vars PROVE KeysInv'
    <2>1. UnchangedRows /\ UnchangedUse /\ UnchangedDevices /\ UNCHANGED call
      BY <1>2 DEF vars, UnchangedRows, UnchangedUse, UnchangedDevices
    <2> QED BY <1>2, <2>1, RowsStay, DevicesStay, NoCallMoves, MovesKeepTheInvariant
  <1> QED BY <1>1, <1>2

\* The inductive invariant, from which the rest follows: what is known of every key
\* and approval row, and of every call between two of its statements.
THEOREM KeysInvHolds == Spec => []KeysInv
  BY KeysInvStarts, KeysInvLasts, PTL DEF Spec

\* Types, and the foreign key of approval_requests: no approval outlives its key, for
\* every statement that deletes keys deletes their approvals with them.
THEOREM KeyTypesCorrect == Spec => []TypeOK
  <1>1. KeysInv => TypeOK
    BY DEF KeysInv, DevicesFit, RowTypes, ApprovalFits, TypeOK
  <1> QED BY <1>1, KeysInvHolds, PTL

\* A one-time key lets one request through, however many present it at once: the
\* UPDATE of api_key.rs that marks it used counts for the request whose row it
\* changed only, and no approval or revocation makes a used key active again.
THEOREM OneTimeKeyPassesOnce == Spec => []OneTimePassesOnce
  <1>1. KeysInv => OneTimePassesOnce
    BY DEF KeysInv, KeyFits, OneTimePassesOnce
  <1> QED BY <1>1, KeysInvHolds, PTL

\* A key that needs approval is active only with an approval of its own: the two
\* UPDATEs of approve_request are one transaction, and reject_request and the
\* expiry of approvals leave an approved one alone.
THEOREM ActiveKeyIsApproved == Spec => []ActiveKeyWasApproved
  <1>1. KeysInv => ActiveKeyWasApproved
    BY DEF KeysInv
  <1> QED BY <1>1, KeysInvHolds, PTL

\* A credential minted through a device's session carries that device's id and is gone
\* with the device, also when the INSERT comes after the deletion (the foreign key on
\* devices refuses it).
THEOREM DeviceCredentials == Spec => []CredentialsFollowTheDevice
  <1>1. KeysInv => CredentialsFollowTheDevice
    BY DEF KeysInv, KeyFits, CredentialsFollowTheDevice
  <1> QED BY <1>1, KeysInvHolds, PTL

(***************************************************************************)
(* No owner lockout                                                        *)
(***************************************************************************)
\* A step that is not this call's leaves it alone, or frees it.
LEMMA CallChanges ==
    ASSUME KeysInv, NEW c \in Calls, Next, ActsRestricted(c)
    PROVE  Step(c) \/ key' = key
  <1>1. call \in [Calls -> CallRecords]
    BY DEF KeysInv
  <1>2. ASSUME NEW e \in Calls, e # c, Step(e) PROVE call'[c] = call[c]
    BY <1>1, <1>2
       DEF Step, StartAdmin, StartOther, CheckPolicy, CreateKey, CreateToken, RevokeCliSessions,
           InsertCliSession, RevokeWebSessions, InsertWebSession, RevokeKey, DeleteKey,
           SweepSessions, DeleteDevice, LogoutOwn, LogoutAll, ReadForAccess, CancelPending,
           ReadForApproval, InsertApproval, ReadForApprove, ApproveWrite, RejectRequest,
           ReadForUse, CheckBan, Consume, Handle, Abort, InsertKey, Goto, Return
  <1>3. CASE \E e \in Calls : Step(e)
    BY <1>2, <1>3 DEF ActsRestricted
  <1>4. CASE \E k \in Keys, d \in Devices : MintDeviceSession(k, d)
    BY <1>4 DEF MintDeviceSession, ActsRestricted
  <1>5. CASE \E k \in Keys : KeyLapses(k)
    BY <1>5 DEF KeyLapses, ActsRestricted
  <1>6. CASE (\E a \in Approvals : ApprovalLapses(a)) \/ ExpireApprovals
    BY <1>6 DEF ApprovalLapses, ExpireApprovals
  <1>7. CASE \E d \in Devices : ChangeBan(d) \/ ChangePolicy(d)
    BY <1>7 DEF ChangeBan, ChangePolicy, UnchangedRows
  <1> QED BY <1>3, <1>4, <1>5, <1>6, <1>7 DEF Next

LEMMA RestrictedCallChangesItsOwn ==
    ASSUME KeysInv, NEW c \in Calls, Step(c), ActsRestricted(c), call[c].dev \in devices
    PROVE  OnlyItsOwn(c)
  <1>1. PICK q \in CallRecords : q = call[c] /\ Fits(q)
    BY DEF KeysInv
  <1>2. /\ q.pc \in {"check", "logout_own", "revoke", "delete"} /\ q.pc # "idle"
        /\ q.pc \in OwnedOnly /\ q.key \in Keys => key[q.key].status # "absent"
                                                   /\ key[q.key].dev = q.dev
    BY <1>1 DEF ActsRestricted, Fits, LimitFits, OwnedOnly
  <1>3. CheckPolicy(c) \/ RevokeKey(c) \/ DeleteKey(c) \/ LogoutOwn(c) \/ Abort(c)
    BY <1>1, <1>2
       DEF Step, StartAdmin, StartOther, CreateKey, CreateToken, RevokeCliSessions,
           InsertCliSession, RevokeWebSessions, InsertWebSession,
           SweepSessions, DeleteDevice, LogoutAll, ReadForAccess, CancelPending,
           ReadForApproval, InsertApproval, ReadForApprove, ApproveWrite, RejectRequest,
           ReadForUse, CheckBan, Consume, Handle
  <1>4. CASE CheckPolicy(c) \/ Abort(c)
    BY <1>4 DEF CheckPolicy, Abort, UnchangedRows, OnlyItsOwn, Changed
  <1>5. CASE RevokeKey(c) \/ DeleteKey(c)
    <2>1. ASSUME NEW k \in Changed PROVE k \in Keys /\ k = q.key /\ Present(k)
      BY <1>1, <1>5, <2>1
         DEF Changed, RevokeKey, DeleteKey, Revoked, DeleteKeys, Deletable, Present
    <2>2. q.pc \in OwnedOnly
      BY <1>1, <1>5 DEF RevokeKey, DeleteKey, OwnedOnly
    <2> QED BY <1>1, <1>2, <2>1, <2>2 DEF OnlyItsOwn
  <1>6. CASE LogoutOwn(c)
    <2>1. ASSUME NEW k \in Changed PROVE k \in Keys /\ k = q.by /\ Present(k)
      BY <1>1, <1>6, <2>1 DEF Changed, LogoutOwn, Revoked, Present
    <2>2. ASSUME NEW k \in Changed PROVE key[k].dev = q.dev
      <3>1. k # None /\ KeyFits(k)
        BY <2>1, NoneAssumption DEF KeysInv
      <3> QED BY <1>1, <2>1, <3>1 DEF Fits, CallerFits, KeyFits
    <2> QED BY <1>1, <2>1, <2>2 DEF OnlyItsOwn
  <1> QED BY <1>3, <1>4, <1>5, <1>6

\* A device restricted from the start of its call to the end changes no credential but
\* its own and mints none (device_policy's ensure_may_manage_credentials and
\* ensure_may_manage_api_key), whatever other calls do between check and statement.
THEOREM OwnerIsNotLockedOut == Spec => NoOwnerLockout
  <1>1. ASSUME KeysInv, [Next]_vars
        PROVE  [\A c \in Calls : ActsRestricted(c) /\ call[c].dev \in devices => OnlyItsOwn(c)]_vars
    <2>1. ASSUME Next, NEW c \in Calls, ActsRestricted(c), call[c].dev \in devices
          PROVE  OnlyItsOwn(c)
      <3>1. CASE Step(c)
        BY <1>1, <2>1, <3>1, RestrictedCallChangesItsOwn
      <3>2. CASE key' = key
        BY <3>2 DEF OnlyItsOwn, Changed
      <3> QED BY <1>1, <2>1, <3>1, <3>2, CallChanges
    <2> QED BY <1>1, <2>1
  <1> QED BY <1>1, KeysInvHolds, PTL DEF Spec, NoOwnerLockout

(***************************************************************************)
(* The life of a key                                                       *)
(***************************************************************************)
StatusEdge(k) ==
    LET old == key[k].status
        new == key'[k].status
    IN  \/ new = old
        \/ old = "absent" /\ new \in {"active", "pending_approval"}
        \/ old \in {"active", "pending_approval"} /\ new = "revoked"
        \/ old = "active" /\ new = "used" /\ key[k].type = "one_time"
        \/ /\ old \in {"pending_approval", "revoked"} /\ new = "active"
           /\ key[k].type = "approval_required"
        \/ old # "absent" /\ new = "deleted"

LEMMA StatusEdges ==
    ASSUME KeysInv, RowTypes', NEW k \in Keys, KeyMoves(k)
    PROVE  StatusEdge(k)
  <1> key[k] \in KeyRows /\ key'[k] \in KeyRows /\ KeyFits(k)
    BY DEF KeysInv, RowTypes
  <1> {"used", "active", "deleted", "revoked"} \subseteq Statuses
    BY DEF Statuses
  <1>1. CASE KeyStays(k)
    BY <1>1 DEF KeyStays, StatusEdge
  <1>2. CASE KeyMinted(k)
    BY <1>2 DEF KeyMinted, InitialStatus, StatusEdge
  <1>3. CASE KeyRevoked(k)
    BY <1>3, KeyRowEdits DEF KeyRevoked, OnlyStatus, StatusEdge
  <1>4. CASE KeyDeleted(k)
    BY <1>4, KeyRowEdits DEF KeyDeleted, OnlyStatus, StatusEdge, Present
  <1>5. CASE KeyApproved(k)
    <2>1. key'[k].status = "active"
      BY <1>5, KeyRowEdits DEF KeyApproved, OnlyStatus
    <2>2. key[k].status # "used"
      BY <1>5 DEF KeyApproved, KeyFits
    <2> QED BY <1>5, <2>1, <2>2 DEF KeyApproved, KeyRows, Present, StatusEdge
  <1>6. CASE KeySpent(k)
    BY <1>6, KeyRowEdits DEF KeySpent, OnlyStatus, StatusEdge
  <1>7. CASE KeyLate(k)
    BY <1>7, KeyRowEdits DEF KeyLate, StatusEdge
  <1> QED BY <1>1, <1>2, <1>3, <1>4, <1>5, <1>6, <1>7 DEF KeyMoves

LEMMA StepsFollowTheEdges ==
    ASSUME KeysInv, [Next]_vars
    PROVE  [\A k \in Keys : StatusEdge(k) /\ KeyLasts(k)]_vars
  <1>1. CASE Next
    <2>1. RowsMove
      BY <1>1, NextMoves DEF Moves
    <2>2. ASSUME NEW k \in Keys PROVE StatusEdge(k) /\ KeyLasts(k)
      BY <2>1, StatusEdges, KeysLast DEF RowsMove
    <2> QED BY <2>2
  <1>2. CASE UNCHANGED vars
    BY <1>2
  <1> QED BY <1>1, <1>2

\* The status of a credential moves along these edges only, and its type, its
\* device and its lineage are those it was minted with: a used one-time key is
\* not revived by an approval, a rejection or a revocation that comes late.
THEOREM KeyLifeCycle == Spec => [][\A k \in Keys : StatusEdge(k) /\ KeyLasts(k)]_vars
  BY KeysInvHolds, StepsFollowTheEdges, PTL DEF Spec

\* Only a key that needs approval can come back from its revocation (that it
\* does is what the run of RevokedKeyIsRefused shows); any other stays revoked
\* until it is deleted.
THEOREM RevocationIsFinal ==
    Spec => [][\A k \in Keys :
                 key[k].status = "revoked" /\ key[k].type # "approval_required"
                   => key'[k].status \in {"revoked", "deleted"}]_vars
  <1>1. ASSUME KeysInv, [Next]_vars
        PROVE  [\A k \in Keys : key[k].status = "revoked" /\ key[k].type # "approval_required"
                                 => key'[k].status \in {"revoked", "deleted"}]_vars
    BY <1>1, StepsFollowTheEdges DEF StatusEdge
  <1> QED BY <1>1, KeysInvHolds, PTL DEF Spec
(***************************************************************************)
(* A one-time key is a link                                                *)
(***************************************************************************)
\* What a step does to the stage of a key.
StageStays(k)  == Stage(k)' = Stage(k) /\ passed'[k] = passed[k]
StageOpens(k)  == Stage(k) = "absent" /\ Stage(k)' = "open" /\ passed'[k] = passed[k]
StageUsed(k)   == Stage(k) = "open" /\ Stage(k)' = "used" /\ passed'[k] = passed[k] + 1
StageCloses(k) == Stage(k) = "open" /\ Stage(k)' = "closed" /\ passed'[k] = passed[k]

LEMMA StageMoves ==
    ASSUME KeysInv, RowTypes', NEW k \in Keys, KeyMoves(k)
    PROVE  /\ KeyStays(k) => StageStays(k)
           /\ KeyRevoked(k) \/ KeyDeleted(k) => StageStays(k) \/ StageCloses(k)
           /\ StageStays(k) \/ StageOpens(k) \/ StageUsed(k) \/ StageCloses(k)
  <1> key[k] \in KeyRows /\ key'[k] \in KeyRows /\ passed[k] \in Nat /\ KeyFits(k)
    BY DEF KeysInv, RowTypes
  <1> {"used", "active", "deleted", "revoked"} \subseteq Statuses
    BY DEF Statuses
  <1>1. ASSUME KeyStays(k) PROVE StageStays(k)
    BY <1>1 DEF KeyStays, StageStays, Stage, OneTime
  <1>2. ASSUME KeyMinted(k) PROVE StageStays(k) \/ StageOpens(k)
    <2>1. passed[k] = 0 /\ passed'[k] = 0 /\ ~OneTime(k)
      BY <1>2 DEF KeyMinted, KeyFits, OneTime
    <2> QED BY <1>2, <2>1 DEF KeyMinted, InitialStatus, Stage, OneTime, StageStays, StageOpens
  <1>3. ASSUME KeyRevoked(k) \/ KeyDeleted(k) PROVE StageStays(k) \/ StageCloses(k)
    <2>1. PICK s \in {"revoked", "deleted"} : OnlyStatus(k, s)
      BY <1>3 DEF KeyRevoked, KeyDeleted
    <2>2. key'[k].status = s /\ key'[k].type = key[k].type
      BY <2>1, KeyRowEdits DEF OnlyStatus
    <2>3. passed'[k] = passed[k] /\ key[k].status # "absent"
      BY <1>3 DEF KeyRevoked, KeyDeleted, Present
    <2> QED BY <2>2, <2>3 DEF Stage, OneTime, StageStays, StageCloses
  <1>4. ASSUME KeyApproved(k) PROVE StageStays(k)
    <2>1. key'[k].type = key[k].type /\ passed'[k] = passed[k] /\ key[k].type # "one_time"
      BY <1>4, KeyRowEdits DEF KeyApproved, OnlyStatus
    <2> QED BY <2>1 DEF Stage, OneTime, StageStays
  <1>5. ASSUME KeySpent(k) PROVE StageUsed(k)
    <2>1. /\ key'[k].status = "used" /\ key'[k].type = "one_time" /\ passed[k] = 0
          /\ passed'[k] = passed[k] + 1 /\ key[k].status = "active" /\ key[k].type = "one_time"
      BY <1>5, KeyRowEdits DEF KeySpent, OnlyStatus, KeyFits
    <2>2. passed'[k] = 1
      BY <2>1
    <2> QED BY <2>1, <2>2 DEF Stage, OneTime, StageUsed
  <1>6. ASSUME KeyLate(k) PROVE StageStays(k)
    <2>1. /\ key'[k].status = key[k].status /\ key'[k].type = key[k].type
          /\ passed'[k] = passed[k]
      BY <1>6, KeyRowEdits DEF KeyLate
    <2> QED BY <2>1 DEF Stage, OneTime, StageStays
  <1> QED BY <1>1, <1>2, <1>3, <1>4, <1>5, <1>6 DEF KeyMoves

stages == [k \in Keys |-> Stage(k)]

LEMMA RowsKeepPromise ==
    ASSUME KeysInv, RowsMove
    PROVE  [Promise!Next]_<<stages, passed>>
  <1> passed \in [Keys -> Nat] /\ passed' \in [Keys -> Nat]
    BY DEF KeysInv, RowsMove, RowTypes
  <1>1. \A k \in Keys : /\ KeyStays(k) => StageStays(k)
                        /\ KeyRevoked(k) \/ KeyDeleted(k) => StageStays(k) \/ StageCloses(k)
                        /\ StageStays(k) \/ StageOpens(k) \/ StageUsed(k) \/ StageCloses(k)
    BY StageMoves DEF RowsMove
  <1>2. ASSUME \A k \in Keys : StageStays(k) \/ StageCloses(k)
        PROVE  \E gone \in SUBSET Keys : Promise!Close(gone)
    <2> DEFINE gone == {k \in Keys : StageCloses(k)}
    <2>1. \A k \in gone : Stage(k) = "open"
      BY DEF StageCloses
    <2>2. \A k \in Keys : Stage(k)' = IF k \in gone THEN "closed" ELSE Stage(k)
      BY <1>2 DEF StageStays, StageCloses
    <2>3. passed' = passed
      BY <1>2 DEF StageStays, StageCloses
    <2> HIDE DEF gone
    <2>4. gone \in SUBSET Keys
      BY DEF gone
    <2> QED BY <2>1, <2>2, <2>3, <2>4 DEF Promise!Close
  <1>3. ASSUME NEW k \in Keys, \A j \in Keys \ {k} : StageStays(j), StageOpens(k)
        PROVE  Promise!Make(k)
    <2>1. \A j \in Keys : Stage(j)' = IF j = k THEN "open" ELSE Stage(j)
      BY <1>3 DEF StageStays, StageOpens
    <2>2. passed' = passed
      BY <1>3 DEF StageStays, StageOpens
    <2>3. Stage(k) = "absent"
      BY <1>3 DEF StageOpens
    <2> QED BY <2>1, <2>2, <2>3 DEF Promise!Make
  <1>4. ASSUME NEW k \in Keys, \A j \in Keys \ {k} : StageStays(j), StageUsed(k)
        PROVE  Promise!Use(k)
    <2>1. \A j \in Keys : Stage(j)' = IF j = k THEN "used" ELSE Stage(j)
      BY <1>4 DEF StageStays, StageUsed
    <2>2. \A j \in Keys : passed'[j] = IF j = k THEN passed[k] + 1 ELSE passed[j]
      BY <1>4 DEF StageStays, StageUsed
    <2>3. Stage(k) = "open"
      BY <1>4 DEF StageUsed
    <2> QED BY <2>1, <2>2, <2>3 DEF Promise!Use
  <1>5. CASE \A k \in Keys : KeyStays(k) \/ KeyRevoked(k) \/ KeyDeleted(k)
    BY <1>1, <1>2, <1>5 DEF Promise!Next
  <1>6. ASSUME NEW k \in Keys, \A j \in Keys \ {k} : KeyStays(j) PROVE Promise!Next
    BY <1>1, <1>2, <1>3, <1>4, <1>6 DEF Promise!Next
  <1> QED BY <1>5, <1>6 DEF RowsMove, KeysMoveApart

LEMMA PromiseStarts == Init => Promise!Init
  BY DEF Init, Promise!Init, Stage, OneTime, NoKey

\* Spec implements LinkUse: whatever calls interleave and wherever they stop, a
\* one-time key is opened once, lets one request through or none, and is never
\* open again once it was used, revoked or deleted.
THEOREM OneTimeKeyKeepsPromise == Spec => KeepsPromise
  <1>1. KeysInv /\ [Next]_vars => [Promise!Next]_<<stages, passed>>
    <2>1. ASSUME KeysInv, Next PROVE [Promise!Next]_<<stages, passed>>
      BY <2>1, NextMoves, RowsKeepPromise DEF Moves
    <2>2. ASSUME UNCHANGED vars PROVE UNCHANGED <<stages, passed>>
      BY <2>2 DEF vars, stages, Stage, OneTime
    <2> QED BY <2>1, <2>2
  <1> QED BY <1>1, PromiseStarts, KeysInvHolds, PTL DEF Spec, KeepsPromise, Promise!Spec, stages

(***************************************************************************)
(* IpBlock                                                                 *)
(***************************************************************************)
(* Types *)

Empty(r) == ~r.there => r = NoRow

LEMMA NoRowType == NoRow \in Rows /\ Empty(NoRow)
BY DEF NoRow, Rows, Blocks, Empty

\* The row of an address after any step: what the step leaves of r.
RowStep(r, new) ==
    \/ new = r
    \/ new = Accrued(r)
    \/ \E n \in Nat : r.there /\ new = Blocked(r, n)
    \/ r.block = "lapsed" /\ new = Lifted(r)
    \/ r.block = "none" /\ new = [r EXCEPT !.failed = 0]
    \/ r.block = "temporary" /\ new = [r EXCEPT !.block = "lapsed"]
    \/ new = Closed(r)
    \/ new = NoRow

LEMMA RowStepType ==
  ASSUME NEW r \in Rows, Empty(r), NEW new, RowStep(r, new)  PROVE new \in Rows /\ Empty(new)
<1>1. CASE new = r \/ new = NoRow
  BY <1>1, NoRowType
<1>2. CASE new = Accrued(r)
  BY <1>2 DEF Accrued, Rows, Empty
<1>3. ASSUME NEW n \in Nat, r.there, new = Blocked(r, n)  PROVE new \in Rows /\ new.there
  BY <1>3 DEF Blocked, Rows, Blocks
<1>4. CASE r.block = "lapsed" /\ new = Lifted(r)
  <2>1. r.there
    BY <1>4 DEF Empty, NoRow
  <2> QED
    BY <1>4, <2>1 DEF Lifted, Rows, Blocks, Empty
<1>5. CASE r.block = "none" /\ new = [r EXCEPT !.failed = 0]
  <2>1. CASE r.there
    BY <1>5, <2>1 DEF Rows, Empty
  <2>2. CASE ~r.there
    <3>1. r = NoRow
      BY <2>2 DEF Empty
    <3>2. new = NoRow
      BY <1>5, <3>1 DEF NoRow
    <3> QED
      BY <3>2, NoRowType
  <2> QED
    BY <2>1, <2>2
<1>6. CASE r.block = "temporary" /\ new = [r EXCEPT !.block = "lapsed"]
  <2>1. r.there
    BY <1>6 DEF Empty, NoRow
  <2> QED
    BY <1>6, <2>1 DEF Rows, Blocks, Empty
<1>7. CASE new = Closed(r)
  BY <1>7 DEF Closed, Rows, Blocks, Empty
<1> QED
  BY <1>1, <1>2, <1>3, <1>4, <1>5, <1>6, <1>7 DEF RowStep, Empty

-----------------------------------------------------------------------------
(* The inductive invariant *)

\* What a task about to write a block knows of the row r it read: the count it
\* read is covered by the n blocks of the address, and one more is if the
\* address is blocked by now.
Covered(q, r, n) ==
    q.pc = "update" => /\ q.seen <= n
                       /\ r.block = "temporary" => q.seen < n

\* Unless the operator intervened, the count has moved on by at most one, and
\* not at all while there is no block.
Close(q, r) ==
    q.pc = "update" => /\ r.count = q.seen \/ r.count = q.seen + 1
                       /\ r.block = "none" => r.count = q.seen
                       /\ r.block # "lapsed"

\* Tasks about to block one address read the same count.
Together(p, q) ==
    p.pc = "update" /\ q.pc = "update" /\ p.ip = q.ip => p.seen = q.seen

RowsTyped  == row \in [Addresses -> Rows] /\ \A i \in Addresses : Empty(row[i])
TasksTyped ==
    /\ task \in [Tasks -> TaskRecords]
    /\ \A t \in Tasks : task[t].pc # "idle" => task[t].ip \in Addresses
CountsTyped == episodes \in [Addresses -> Nat]

TasksCovered ==
    \A t \in Tasks : task[t].ip \in Addresses
        => Covered(task[t], row[task[t].ip], episodes[task[t].ip])
TasksClose ==
    \A t \in Tasks : task[t].ip \in Addresses \ overtaken => Close(task[t], row[task[t].ip])
TasksTogether ==
    \A t, u \in Tasks : task[t].ip \notin overtaken => Together(task[t], task[u])

BlockInv ==
    /\ RowsTyped /\ TasksTyped /\ CountsTyped
    /\ EscalatesOncePerBlock /\ DebtIsAnswered
    /\ TasksCovered /\ TasksClose /\ TasksTogether

\* The part of the state the invariant is about.
blocks == <<row, task, episodes, lost, overtaken>>

LEMMA Untouched == BlockInv /\ UNCHANGED blocks => BlockInv'
BY DEF BlockInv, RowsTyped, TasksTyped, CountsTyped, EscalatesOncePerBlock, DebtIsAnswered,
       TasksCovered, TasksClose, TasksTogether, blocks

LEMMA BlockInvInit == BlockInit => BlockInv
<1> SUFFICES ASSUME BlockInit PROVE BlockInv
  OBVIOUS
<1>1. RowsTyped /\ EscalatesOncePerBlock /\ DebtIsAnswered /\ CountsTyped
  BY NoRowType, ThresholdAssumption
     DEF BlockInit, RowsTyped, EscalatesOncePerBlock, DebtIsAnswered, CountsTyped, NoRow
<1>2. TasksTyped /\ TasksCovered /\ TasksClose /\ TasksTogether
  BY DEF BlockInit, NoTask, TaskRecords, TasksTyped, TasksCovered, TasksClose, TasksTogether,
         Covered,
         Close, Together
<1> QED
  BY <1>1, <1>2 DEF BlockInv

\* A task that does not get to its UPDATE, in a slot that was not at work on a
\* debt, while the rows stay.
LEMMA QuietTask ==
  ASSUME BlockInv, UNCHANGED <<row, episodes, overtaken>>, lost \subseteq lost', NEW t \in Tasks,
         NEW q \in TaskRecords, task' = [task EXCEPT ![t] = q],
         q.pc # "update", q.pc # "idle" => q.ip \in Addresses,
         task[t].pc \in {"select", "update"}
           => \/ row[task[t].ip].block # "none"
              \/ row[task[t].ip].failed < Threshold
              \/ task[t].ip \in lost'
  PROVE  BlockInv'
<1>0. /\ task \in [Tasks -> TaskRecords]
      /\ \A u \in Tasks : task'[u] = IF u = t THEN q ELSE task[u]
  BY DEF BlockInv, TasksTyped
<1>1. RowsTyped' /\ CountsTyped' /\ EscalatesOncePerBlock'
  BY DEF BlockInv, RowsTyped, CountsTyped, EscalatesOncePerBlock
<1>2. TasksTyped'
  BY <1>0 DEF BlockInv, TasksTyped
<1>3. DebtIsAnswered'
  <2> SUFFICES ASSUME NEW i \in Addresses, row[i].failed >= Threshold, row[i].block = "none",
                      i \notin lost'
               PROVE  \E u \in Tasks : task'[u].ip = i /\ task'[u].pc \in {"select", "update"}
    BY DEF DebtIsAnswered
  <2>1. PICK u \in Tasks : task[u].ip = i /\ task[u].pc \in {"select", "update"}
    BY DEF BlockInv, DebtIsAnswered
  <2>2. row[i].failed \in Nat
    BY DEF BlockInv, RowsTyped, Rows
  <2>3. u # t
    BY <2>1, <2>2, ThresholdAssumption
  <2> QED
    BY <1>0, <2>1, <2>3
<1>4. TasksCovered' /\ TasksClose'
  BY <1>0 DEF BlockInv, TasksCovered, TasksClose, Covered, Close
<1>5. TasksTogether'
  BY <1>0 DEF BlockInv, TasksTogether, Together
<1> QED
  BY <1>1, <1>2, <1>3, <1>4, <1>5 DEF BlockInv

LEMMA Spawning ==
  ASSUME BlockInv, NEW t \in Tasks, NEW i \in Addresses, NEW label \in {"insert", "reset"},
         Spawn(t, label, i), UNCHANGED <<row, episodes, lost, overtaken>>
  PROVE  BlockInv'
<1> DEFINE q == [pc |-> label, ip |-> i, seen |-> 0]
<1>1. q \in TaskRecords /\ q.pc = label /\ q.ip = i
  BY DEF TaskRecords
<1>2. task' = [task EXCEPT ![t] = q] /\ task[t].pc = "idle"
  BY DEF Spawn
<1> HIDE DEF q
<1> QED
  BY <1>1, <1>2, QuietTask

LEMMA NoTaskType == NoTask \in TaskRecords /\ NoTask.pc = "idle"
BY DEF NoTask, TaskRecords

\* A step that rewrites rows while the tasks stay, and adds no debt: every row
\* keeps its bounds, and what the tasks know stays true.
LEMMA RowsRewritten ==
  ASSUME BlockInv, UNCHANGED <<episodes, lost>>, overtaken \subseteq overtaken', task' = task,
         DOMAIN row' = Addresses, row' = [i \in Addresses |-> row'[i]],
         \A i \in Addresses : RowStep(row[i], row'[i]),
         \A i \in Addresses : row'[i].count <= episodes[i],
         \A i \in Addresses : row'[i].failed >= Threshold /\ row'[i].block = "none"
            => row[i].failed >= Threshold /\ row[i].block = "none",
         \A t \in Tasks : task[t].ip \in Addresses
            => Covered(task[t], row'[task[t].ip], episodes[task[t].ip]),
         \A t \in Tasks : task[t].ip \in Addresses \ overtaken'
            => Close(task[t], row'[task[t].ip])
  PROVE  BlockInv'
<1>1. RowsTyped'
  <2>1. \A i \in Addresses : row'[i] \in Rows /\ Empty(row'[i])
    BY RowStepType DEF BlockInv, RowsTyped
  <2> QED
    BY <2>1 DEF RowsTyped
<1>2. TasksTyped' /\ CountsTyped' /\ EscalatesOncePerBlock' /\ DebtIsAnswered'
  BY DEF BlockInv, TasksTyped, CountsTyped, EscalatesOncePerBlock, DebtIsAnswered
<1>3. TasksCovered' /\ TasksClose' /\ TasksTogether'
  BY DEF BlockInv, TasksCovered, TasksClose, TasksTogether, Covered, Close, Together
<1> QED
  BY <1>1, <1>2, <1>3 DEF BlockInv

\* One row is rewritten.
LEMMA RowRewritten ==
  ASSUME BlockInv, UNCHANGED <<episodes, lost, task>>, overtaken \subseteq overtaken',
         NEW i \in Addresses, NEW new, RowStep(row[i], new),
         row' = [row EXCEPT ![i] = new],
         new.count <= row[i].count,
         new.failed >= Threshold /\ new.block = "none"
            => row[i].failed >= Threshold /\ row[i].block = "none",
         \A t \in Tasks : task[t].ip = i => Covered(task[t], new, episodes[i]),
         \A t \in Tasks : task[t].ip = i /\ i \notin overtaken' => Close(task[t], new)
  PROVE  BlockInv'
<1>0. row \in [Addresses -> Rows] /\ episodes \in [Addresses -> Nat]
  BY DEF BlockInv, RowsTyped, CountsTyped
<1>1. \A j \in Addresses : row'[j] = IF j = i THEN new ELSE row[j]
  BY <1>0
<1>2. DOMAIN row' = Addresses /\ row' = [j \in Addresses |-> row'[j]]
  BY <1>0
<1>3. \A j \in Addresses : RowStep(row[j], row'[j])
  <2>1. \A j \in Addresses : RowStep(row[j], row[j])
    BY DEF RowStep
  <2> QED
    BY <1>1, <2>1
<1>4. \A j \in Addresses : row'[j].count <= episodes[j]
  <2>1. new.count \in Nat /\ row[i].count \in Nat
    BY <1>0, RowStepType DEF BlockInv, RowsTyped, Rows
  <2>2. new.count <= episodes[i]
    BY <1>0, <2>1 DEF BlockInv, EscalatesOncePerBlock
  <2> QED
    BY <1>1, <2>2 DEF BlockInv, EscalatesOncePerBlock
<1>5. \A j \in Addresses : row'[j].failed >= Threshold /\ row'[j].block = "none"
            => row[j].failed >= Threshold /\ row[j].block = "none"
  BY <1>1
<1>6. \A t \in Tasks : task[t].ip \in Addresses
            => Covered(task[t], row'[task[t].ip], episodes[task[t].ip])
  BY <1>1 DEF BlockInv, TasksCovered
<1>7. \A t \in Tasks : task[t].ip \in Addresses \ overtaken' => Close(task[t], row'[task[t].ip])
  BY <1>1 DEF BlockInv, TasksClose
<1> QED
  BY <1>2, <1>3, <1>4, <1>5, <1>6, <1>7, RowsRewritten

-----------------------------------------------------------------------------
(* The operator, the clock and the cleanup *)

LEMMA RowFields ==
  ASSUME BlockInv, NEW i \in Addresses
  PROVE  /\ row[i] \in Rows /\ Empty(row[i]) /\ row[i].failed \in Nat /\ row[i].count \in Nat
         /\ row[i].block \in Blocks /\ row[i].there \in BOOLEAN
         /\ episodes[i] \in Nat /\ row[i].count <= episodes[i]
BY DEF BlockInv, RowsTyped, CountsTyped, EscalatesOncePerBlock, Rows

LEMMA TaskFields ==
  ASSUME BlockInv, NEW t \in Tasks
  PROVE  /\ task[t] \in TaskRecords /\ task[t].seen \in Nat
         /\ task[t].pc \in {"idle", "insert", "select", "update", "reset"}
         /\ task[t].pc # "idle" => task[t].ip \in Addresses
BY DEF BlockInv, TasksTyped, TaskRecords

LEMMA Lapsing ==
  ASSUME BlockInv, NEW i \in Addresses, BlockLapses(i)  PROVE BlockInv'
<1> DEFINE new == [row[i] EXCEPT !.block = "lapsed"]
<1>1. /\ row[i].block = "temporary" /\ row' = [row EXCEPT ![i] = new]
      /\ \A t \in Tasks : task[t].ip # i
      /\ UNCHANGED <<episodes, lost, overtaken, task>>
  BY DEF BlockLapses, UnchangedHistory
<1>2. new.count = row[i].count /\ new.block = "lapsed" /\ RowStep(row[i], new)
  BY <1>1, RowFields DEF Rows, RowStep
<1>3. new.count <= row[i].count
  BY <1>2, RowFields
<1> HIDE DEF new
<1> QED
  BY <1>1, <1>2, <1>3, RowRewritten

LEMMA Unblocking ==
  ASSUME BlockInv, NEW i \in Addresses, UnblockIp(i)  PROVE BlockInv'
<1>1. /\ row' = [row EXCEPT ![i] = NoRow] /\ UNCHANGED <<episodes, lost, task>>
      /\ overtaken' = overtaken \cup {task[t].ip : t \in {t \in Tasks : task[t].pc = "update"
                                                                  /\ task[t].ip = i}}
  BY DEF UnblockIp
<1>2. NoRow.count = 0 /\ NoRow.failed = 0 /\ NoRow.block = "none" /\ RowStep(row[i], NoRow)
  BY DEF NoRow, RowStep
<1>3. NoRow.count <= row[i].count /\ ~(NoRow.failed >= Threshold)
  BY <1>2, RowFields, ThresholdAssumption
<1>4. ASSUME NEW t \in Tasks, task[t].ip = i
      PROVE  Covered(task[t], NoRow, episodes[i])
  BY <1>2, <1>4 DEF BlockInv, TasksCovered, Covered
<1>5. ASSUME NEW t \in Tasks, task[t].ip = i, i \notin overtaken'
      PROVE  Close(task[t], NoRow)
  BY <1>1, <1>5 DEF Close
<1> QED
  BY <1>1, <1>2, <1>3, <1>4, <1>5, RowRewritten

LEMMA Closing ==
  ASSUME BlockInv, NEW i \in Addresses, BlockForGood(i)  PROVE BlockInv'
<1> DEFINE new == Closed(row[i])
<1>1. row' = [row EXCEPT ![i] = new] /\ UNCHANGED <<episodes, lost, overtaken, task>>
  BY DEF BlockForGood, UnchangedHistory
<1>2. new.count = row[i].count /\ new.block = "permanent" /\ RowStep(row[i], new)
  BY DEF Closed, RowStep
<1>3. new.count <= row[i].count
  BY <1>2, RowFields
<1>4. ASSUME NEW t \in Tasks, task[t].ip = i
      PROVE  Covered(task[t], new, episodes[i])
  BY <1>2, <1>4 DEF BlockInv, TasksCovered, Covered
<1>5. ASSUME NEW t \in Tasks, task[t].ip = i, i \notin overtaken'
      PROVE  Close(task[t], new)
  BY <1>1, <1>2, <1>5 DEF BlockInv, TasksClose, Close
<1> HIDE DEF new
<1> QED
  BY <1>1, <1>2, <1>3, <1>4, <1>5, RowRewritten

LEMMA Cleaning == BlockInv /\ CleanUp => BlockInv'
<1> SUFFICES ASSUME BlockInv, CleanUp PROVE BlockInv'
  OBVIOUS
<1>1. /\ UNCHANGED <<episodes, lost, overtaken, task>>
      /\ row' = [i \in Addresses |-> IF Lapsed(row[i]) THEN Lifted(row[i]) ELSE row[i]]
  BY DEF CleanUp, UnchangedHistory
<1>2. \A i \in Addresses : row'[i] = IF Lapsed(row[i]) THEN Lifted(row[i]) ELSE row[i]
  BY <1>1
<1>3. ASSUME NEW i \in Addresses
      PROVE  /\ RowStep(row[i], row'[i]) /\ row'[i].count <= episodes[i]
             /\ row'[i].failed >= Threshold /\ row'[i].block = "none"
                  => row[i].failed >= Threshold /\ row[i].block = "none"
  BY <1>2, RowFields, ThresholdAssumption DEF RowStep, Lapsed, Lifted
<1>4. ASSUME NEW t \in Tasks, task[t].ip \in Addresses
      PROVE  Covered(task[t], row'[task[t].ip], episodes[task[t].ip])
  <2> DEFINE i == task[t].ip
  <2>1. i \in Addresses /\ Covered(task[t], row[i], episodes[i])
    BY <1>4 DEF BlockInv, TasksCovered
  <2>2. Lifted(row[i]).block = "none"
    BY DEF Lifted
  <2>3. row'[i].block = "temporary" => row[i].block = "temporary"
    BY <1>2, <2>1, <2>2
  <2> HIDE DEF i
  <2>4. Covered(task[t], row'[i], episodes[i])
    BY <2>1, <2>3 DEF Covered
  <2> QED
    BY <2>4 DEF i
<1>5. ASSUME NEW t \in Tasks, task[t].ip \in Addresses \ overtaken'
      PROVE  Close(task[t], row'[task[t].ip])
  BY <1>1, <1>2, <1>5 DEF BlockInv, TasksClose, Close, Lapsed
<1> QED
  BY <1>1, <1>2, <1>3, <1>4, <1>5, RowsRewritten

LEMMA Restarting == BlockInv /\ Restart => BlockInv'
<1> SUFFICES ASSUME BlockInv, Restart PROVE BlockInv'
  OBVIOUS
<1>1. /\ UNCHANGED <<row, episodes, overtaken>> /\ task' = [t \in Tasks |-> NoTask]
      /\ lost' = lost \cup {task[t].ip : t \in {u \in Tasks : task[u].pc \in {"select", "update"}}}
  BY DEF Restart, Swallowed
<1>2. RowsTyped' /\ CountsTyped' /\ EscalatesOncePerBlock'
  BY <1>1 DEF BlockInv, RowsTyped, CountsTyped, EscalatesOncePerBlock
<1>3. TasksTyped' /\ TasksCovered' /\ TasksClose' /\ TasksTogether'
  BY <1>1, NoTaskType DEF TasksTyped, TasksCovered, TasksClose, TasksTogether, Covered, Close,
                          Together
<1>4. DebtIsAnswered'
  BY <1>1 DEF BlockInv, DebtIsAnswered
<1> QED
  BY <1>2, <1>3, <1>4 DEF BlockInv

-----------------------------------------------------------------------------
(* record_auth_failure and reset_failures_on_success *)

\* A step of task t that leaves q of it, new of the row of its address and n
\* episodes, and touches nothing else.
TaskAndRowStep(t, q, new, n) ==
    /\ task[t].pc # "idle" /\ q \in TaskRecords /\ (q.ip = task[t].ip \/ q.pc = "idle")
    /\ RowStep(row[task[t].ip], new) /\ n \in Nat /\ new.count <= n
    /\ task' = [task EXCEPT ![t] = q]
    /\ row' = [row EXCEPT ![task[t].ip] = new]
    /\ episodes' = [episodes EXCEPT ![task[t].ip] = n]
    /\ lost \subseteq lost' \cup {task[t].ip} /\ UNCHANGED overtaken

LEMMA TaskAndRow ==
  ASSUME BlockInv, NEW t \in Tasks, NEW q, NEW new, NEW n, TaskAndRowStep(t, q, new, n)
  PROVE  /\ RowsTyped' /\ TasksTyped' /\ CountsTyped' /\ EscalatesOncePerBlock'
         /\ \A u \in Tasks : task'[u] = IF u = t THEN q ELSE task[u]
         /\ \A j \in Addresses : row'[j] = IF j = task[t].ip THEN new ELSE row[j]
         /\ \A j \in Addresses : episodes'[j] = IF j = task[t].ip THEN n ELSE episodes[j]
<1> USE DEF TaskAndRowStep
<1> DEFINE i == task[t].ip
<1>0. i \in Addresses
  BY TaskFields
<1>1. \A u \in Tasks : task'[u] = IF u = t THEN q ELSE task[u]
  BY DEF BlockInv, TasksTyped
<1>2. \A j \in Addresses : row'[j] = IF j = i THEN new ELSE row[j]
  BY <1>0 DEF BlockInv, RowsTyped
<1>3. \A j \in Addresses : episodes'[j] = IF j = i THEN n ELSE episodes[j]
  BY <1>0 DEF BlockInv, CountsTyped
<1>4. RowsTyped'
  <2>1. new \in Rows /\ Empty(new)
    BY <1>0, RowFields, RowStepType
  <2>2. row' \in [Addresses -> Rows]
    BY <1>0, <2>1 DEF BlockInv, RowsTyped
  <2> QED
    BY <1>2, <2>1, <2>2 DEF BlockInv, RowsTyped
<1>5. TasksTyped'
  <2>1. task' \in [Tasks -> TaskRecords]
    BY DEF BlockInv, TasksTyped
  <2> QED
    BY <1>0, <1>1, <2>1 DEF BlockInv, TasksTyped
<1>6. CountsTyped'
  BY <1>0 DEF BlockInv, CountsTyped
<1>7. EscalatesOncePerBlock'
  BY <1>2, <1>3 DEF BlockInv, EscalatesOncePerBlock
<1> QED
  BY <1>1, <1>2, <1>3, <1>4, <1>5, <1>6, <1>7

\* Such a step keeps the invariant when the task is not about to write a block,
\* is at work on the debt it leaves, and the other tasks of its address still
\* know what they knew of the row.
LEMMA OneTask ==
  ASSUME BlockInv, NEW t \in Tasks, NEW q, NEW new, NEW n, TaskAndRowStep(t, q, new, n),
         q.pc # "update",
         new.failed >= Threshold /\ new.block = "none"
            => q.pc = "select" /\ q.ip = task[t].ip,
         \A u \in Tasks : task[u].ip = task[t].ip => Covered(task[u], new, n) \/ u = t,
         \A u \in Tasks : task[u].ip = task[t].ip /\ task[t].ip \notin overtaken
            => Close(task[u], new) \/ u = t
  PROVE  BlockInv'
<1> DEFINE i == task[t].ip
<1>1. lost \subseteq lost' \cup {i} /\ UNCHANGED overtaken
  BY DEF TaskAndRowStep
<1>2. /\ RowsTyped' /\ TasksTyped' /\ CountsTyped' /\ EscalatesOncePerBlock'
      /\ \A u \in Tasks : task'[u] = IF u = t THEN q ELSE task[u]
      /\ \A j \in Addresses : row'[j] = IF j = i THEN new ELSE row[j]
      /\ \A j \in Addresses : episodes'[j] = IF j = i THEN n ELSE episodes[j]
  BY TaskAndRow
<1>3. DebtIsAnswered'
  <2> SUFFICES ASSUME NEW j \in Addresses, row'[j].failed >= Threshold, row'[j].block = "none",
                      j \notin lost'
               PROVE  \E u \in Tasks : task'[u].ip = j /\ task'[u].pc \in {"select", "update"}
    BY DEF DebtIsAnswered
  <2>1. CASE j = i
    BY <1>2, <2>1
  <2>2. CASE j # i
    <3>1. PICK u \in Tasks : task[u].ip = j /\ task[u].pc \in {"select", "update"}
      BY <1>1, <1>2, <2>2 DEF BlockInv, DebtIsAnswered
    <3> QED
      BY <1>2, <2>2, <3>1
  <2> QED
    BY <2>1, <2>2
<1>4. TasksCovered'
  <2> SUFFICES ASSUME NEW u \in Tasks, task'[u].ip \in Addresses
               PROVE  Covered(task'[u], row'[task'[u].ip], episodes'[task'[u].ip])
    BY DEF TasksCovered
  <2>1. CASE u = t
    BY <1>2, <2>1 DEF Covered
  <2>2. CASE u # t /\ task[u].ip = i
    BY <1>2, <2>2
  <2>3. CASE u # t /\ task[u].ip # i
    BY <1>2, <2>3 DEF BlockInv, TasksCovered
  <2> QED
    BY <2>1, <2>2, <2>3
<1>5. TasksClose'
  <2> SUFFICES ASSUME NEW u \in Tasks, task'[u].ip \in Addresses \ overtaken
               PROVE  Close(task'[u], row'[task'[u].ip])
    BY <1>1 DEF TasksClose
  <2>1. CASE u = t
    BY <1>2, <2>1 DEF Close
  <2>2. CASE u # t /\ task[u].ip = i
    BY <1>2, <2>2
  <2>3. CASE u # t /\ task[u].ip # i
    BY <1>2, <2>3 DEF BlockInv, TasksClose
  <2> QED
    BY <2>1, <2>2, <2>3
<1>6. TasksTogether'
  BY <1>1, <1>2 DEF BlockInv, TasksTogether, Together
<1> QED
  BY <1>2, <1>3, <1>4, <1>5, <1>6 DEF BlockInv

LEMMA Inserting ==
  ASSUME BlockInv, NEW t \in Tasks, InsertFailure(t)  PROVE BlockInv'
<1> DEFINE i   == task[t].ip
           q   == [task[t] EXCEPT !.pc = "select"]
           new == Accrued(row[i])
<1>1. /\ task[t].pc = "insert" /\ task' = [task EXCEPT ![t] = q]
      /\ row' = [row EXCEPT ![i] = new]
      /\ lost' = lost \ {i} /\ UNCHANGED <<episodes, overtaken>>
  BY DEF InsertFailure
<1>2. i \in Addresses
  BY <1>1, TaskFields
<1>3. q \in TaskRecords /\ q.ip = i /\ q.pc = "select"
  BY TaskFields DEF TaskRecords
<1>4. /\ RowStep(row[i], new) /\ new.count = row[i].count /\ new.block = row[i].block
      /\ new.count <= episodes[i] /\ episodes[i] \in Nat
  BY <1>2, RowFields DEF Accrued, RowStep
<1>5. episodes' = [episodes EXCEPT ![i] = episodes[i]]
  BY <1>1, <1>2 DEF BlockInv, CountsTyped
<1> HIDE DEF q, new
<1>6. TaskAndRowStep(t, q, new, episodes[i])
  BY <1>1, <1>3, <1>4, <1>5 DEF TaskAndRowStep
<1>7. ASSUME NEW u \in Tasks, task[u].ip = i  PROVE Covered(task[u], new, episodes[i])
  BY <1>2, <1>4, <1>7 DEF BlockInv, TasksCovered, Covered
<1>8. ASSUME NEW u \in Tasks, task[u].ip = i, i \notin overtaken  PROVE Close(task[u], new)
  BY <1>2, <1>4, <1>8 DEF BlockInv, TasksClose, Close
<1> QED
  BY <1>3, <1>6, <1>7, <1>8, OneTask

LEMMA Selecting ==
  ASSUME BlockInv, NEW t \in Tasks, SelectState(t)  PROVE BlockInv'
<1> DEFINE i == task[t].ip
           q == [task[t] EXCEPT !.pc = "update", !.seen = row[i].count]
<1>1. /\ task[t].pc = "select"
      /\ task' = [task EXCEPT ![t] = IF EarnsBlock(row[i]) THEN q ELSE NoTask]
      /\ UNCHANGED <<row, episodes, lost, overtaken>>
  BY DEF SelectState, UnchangedHistory
<1>2. i \in Addresses
  BY <1>1, TaskFields
<1>3. CASE ~EarnsBlock(row[i])
  <2>1. task' = [task EXCEPT ![t] = NoTask]
    BY <1>1, <1>3
  <2>2. row[i].block # "none" \/ row[i].failed < Threshold
    <3>1. CASE ~row[i].there
      <4>1. row[i].failed = 0
        BY <1>2, <3>1, RowFields DEF Empty, NoRow
      <4> QED
        BY <4>1, ThresholdAssumption
    <3>2. CASE row[i].there
      BY <1>2, <1>3, <3>2, RowFields, ThresholdAssumption DEF EarnsBlock
    <3> QED
      BY <3>1, <3>2
  <2> QED
    BY <1>1, <2>1, <2>2, NoTaskType, QuietTask
<1>4. CASE EarnsBlock(row[i])
  <2>1. task' = [task EXCEPT ![t] = q] /\ row[i].block = "none"
    BY <1>1, <1>4 DEF EarnsBlock
  <2>2. /\ q \in TaskRecords /\ q.ip = i /\ q.pc = "update"
        /\ q.seen = row[i].count /\ q.seen \in Nat /\ q.seen <= episodes[i]
    BY <1>2, TaskFields, RowFields DEF TaskRecords
  <2>3. \A u \in Tasks : task'[u] = IF u = t THEN q ELSE task[u]
    BY <2>1 DEF BlockInv, TasksTyped
  <2> HIDE DEF q
  <2>4. RowsTyped' /\ CountsTyped' /\ EscalatesOncePerBlock'
    BY <1>1 DEF BlockInv, RowsTyped, CountsTyped, EscalatesOncePerBlock
  <2>5. TasksTyped'
    <3>1. task' \in [Tasks -> TaskRecords]
      BY <2>1, <2>2 DEF BlockInv, TasksTyped
    <3> QED
      BY <1>2, <2>2, <2>3, <3>1 DEF BlockInv, TasksTyped
  <2>6. DebtIsAnswered'
    <3> SUFFICES ASSUME NEW j \in Addresses, row[j].failed >= Threshold,
                        row[j].block = "none", j \notin lost
                 PROVE  \E u \in Tasks : task'[u].ip = j
                                           /\ task'[u].pc \in {"select", "update"}
      BY <1>1 DEF DebtIsAnswered
    <3>1. PICK u \in Tasks : task[u].ip = j /\ task[u].pc \in {"select", "update"}
      BY DEF BlockInv, DebtIsAnswered
    <3> QED
      BY <2>2, <2>3, <3>1
  <2>7. TasksCovered'
    <3>1. Covered(q, row[i], episodes[i])
      BY <2>1, <2>2 DEF Covered
    <3> QED
      BY <1>1, <2>2, <2>3, <3>1 DEF BlockInv, TasksCovered
  <2>8. TasksClose'
    <3>1. Close(q, row[i])
      BY <2>1, <2>2 DEF Close
    <3> QED
      BY <1>1, <2>2, <2>3, <3>1 DEF BlockInv, TasksClose
  <2>9. TasksTogether'
    <3>1. ASSUME NEW u \in Tasks, i \notin overtaken, task[u].pc = "update", task[u].ip = i
          PROVE  task[u].seen = q.seen
      BY <1>2, <2>1, <2>2, <3>1 DEF BlockInv, TasksClose, Close
    <3> SUFFICES ASSUME NEW u \in Tasks, NEW v \in Tasks, task'[u].ip \notin overtaken
                 PROVE  Together(task'[u], task'[v])
      BY <1>1 DEF TasksTogether
    <3>2. CASE u # t /\ v # t
      BY <2>3, <3>2 DEF BlockInv, TasksTogether
    <3>3. CASE u = t
      BY <2>2, <2>3, <3>1, <3>3 DEF Together
    <3>4. CASE v = t
      BY <2>2, <2>3, <3>1, <3>4 DEF Together
    <3> QED
      BY <3>2, <3>3, <3>4
  <2> QED
    BY <2>4, <2>5, <2>6, <2>7, <2>8, <2>9 DEF BlockInv
<1> QED
  BY <1>3, <1>4

LEMMA Applying ==
  ASSUME BlockInv, NEW t \in Tasks, ApplyBlock(t)  PROVE BlockInv'
<1> DEFINE i   == task[t].ip
           new == Blocked(row[i], task[t].seen)
           n   == IF row[i].block # "temporary" THEN episodes[i] + 1 ELSE episodes[i]
<1>1. /\ task[t].pc = "update" /\ task' = [task EXCEPT ![t] = NoTask]
      /\ row' = IF HasRow(row[i]) THEN [row EXCEPT ![i] = new] ELSE row
      /\ episodes' = IF HasRow(row[i]) /\ row[i].block # "temporary"
                     THEN [episodes EXCEPT ![i] = @ + 1] ELSE episodes
      /\ UNCHANGED <<lost, overtaken>>
  BY DEF ApplyBlock
<1>2. i \in Addresses
  BY <1>1, TaskFields
<1>3. CASE ~HasRow(row[i])
  <2>1. row[i].failed = 0
    BY <1>2, <1>3, RowFields DEF HasRow, Empty, NoRow
  <2>2. row[i].failed < Threshold /\ UNCHANGED <<row, episodes, lost, overtaken>>
    BY <1>1, <1>3, <2>1, ThresholdAssumption
  <2> QED
    BY <1>1, <1>3, <2>1, <2>2, NoTaskType, QuietTask
<1>4. CASE HasRow(row[i])
  <2>1. /\ new.count = task[t].seen + 1 /\ new.block = "temporary"
        /\ row[i].there /\ RowStep(row[i], new)
    BY <1>4, TaskFields DEF HasRow, Blocked, RowStep
  <2>2. Covered(task[t], row[i], episodes[i])
    BY <1>2 DEF BlockInv, TasksCovered
  <2>3. n \in Nat /\ episodes[i] \in Nat
    BY <1>2, RowFields
  <2>4. episodes' = [episodes EXCEPT ![i] = n]
    BY <1>1, <1>2, <1>4 DEF BlockInv, CountsTyped
  <2>5. ASSUME NEW u \in Tasks, Covered(task[u], row[i], episodes[i]), task[u].pc = "update"
        PROVE  task[u].seen < n
    BY <2>3, <2>5, TaskFields DEF Covered
  <2>6. new.count <= n
    BY <1>1, <2>1, <2>2, <2>3, <2>5, TaskFields
  <2> HIDE DEF n, new
  <2>7. TaskAndRowStep(t, NoTask, new, n)
    BY <1>1, <1>4, <2>1, <2>3, <2>4, <2>6, NoTaskType DEF TaskAndRowStep
  <2>8. ASSUME NEW u \in Tasks, task[u].ip = i  PROVE Covered(task[u], new, n)
    <3>1. Covered(task[u], row[i], episodes[i])
      BY <1>2, <2>8 DEF BlockInv, TasksCovered
    <3> QED
      BY <2>3, <2>5, <3>1, TaskFields DEF Covered
  <2>9. ASSUME NEW u \in Tasks, task[u].ip = i, i \notin overtaken  PROVE Close(task[u], new)
    <3>1. task[u].pc = "update" => task[u].seen = task[t].seen
      BY <1>1, <2>9 DEF BlockInv, TasksTogether, Together
    <3> QED
      BY <2>1, <3>1 DEF Close
  <2> QED
    BY <2>1, <2>7, <2>8, <2>9, NoTaskType, OneTask
<1> QED
  BY <1>3, <1>4

LEMMA Resetting ==
  ASSUME BlockInv, NEW t \in Tasks, ResetFailures(t)  PROVE BlockInv'
<1> DEFINE i   == task[t].ip
           new == [row[i] EXCEPT !.failed = 0]
<1>1. /\ task[t].pc = "reset" /\ task' = [task EXCEPT ![t] = NoTask]
      /\ row' = IF Resetable(row[i]) THEN [row EXCEPT ![i] = new] ELSE row
      /\ UNCHANGED <<episodes, lost, overtaken>>
  BY DEF ResetFailures, UnchangedHistory
<1>2. i \in Addresses
  BY <1>1, TaskFields
<1>3. CASE ~Resetable(row[i])
  BY <1>1, <1>3, NoTaskType, QuietTask
<1>4. CASE Resetable(row[i])
  <2>1. /\ RowStep(row[i], new) /\ new.failed = 0 /\ new.count = row[i].count
        /\ new.block = row[i].block
    BY <1>2, <1>4, RowFields DEF Resetable, RowStep, Rows
  <2>2. new.count <= episodes[i] /\ episodes[i] \in Nat
    BY <1>2, <2>1, RowFields
  <2>3. episodes' = [episodes EXCEPT ![i] = episodes[i]]
    BY <1>1, <1>2 DEF BlockInv, CountsTyped
  <2> HIDE DEF new
  <2>4. TaskAndRowStep(t, NoTask, new, episodes[i])
    BY <1>1, <1>4, <2>1, <2>2, <2>3, NoTaskType DEF TaskAndRowStep
  <2>5. ASSUME NEW u \in Tasks, task[u].ip = i  PROVE Covered(task[u], new, episodes[i])
    BY <1>2, <2>1, <2>5 DEF BlockInv, TasksCovered, Covered
  <2>6. ASSUME NEW u \in Tasks, task[u].ip = i, i \notin overtaken  PROVE Close(task[u], new)
    BY <1>2, <2>1, <2>6 DEF BlockInv, TasksClose, Close
  <2> QED
    BY <2>1, <2>4, <2>5, <2>6, NoTaskType, ThresholdAssumption, OneTask
<1> QED
  BY <1>3, <1>4

LEMMA Failing ==
  ASSUME BlockInv, NEW t \in Tasks, StatementFails(t)
  PROVE  BlockInv' /\ lost' \subseteq lost \cup {task[t].ip}
<1>1. /\ task' = [task EXCEPT ![t] = NoTask] /\ UNCHANGED <<row, episodes, overtaken>>
      /\ lost' = lost \cup Swallowed({t})
  BY DEF StatementFails
<1>2. /\ lost \subseteq lost' /\ lost' \subseteq lost \cup {task[t].ip}
      /\ task[t].pc \in {"select", "update"} => task[t].ip \in lost'
  BY <1>1 DEF Swallowed
<1> QED
  BY <1>1, <1>2, NoTaskType, QuietTask

-----------------------------------------------------------------------------
(* The requests and the counters *)

\* A request in the layers belongs to an address.
RequestsTyped ==
    /\ request \in [Requests -> RequestRecords]
    /\ \A r \in Requests : request[r].pc # "idle" => request[r].ip \in Addresses

LayersInv ==
    /\ RequestsTyped
    /\ counter \in [Addresses -> Nat]
    /\ restarts \in Nat /\ lost \subseteq Addresses /\ overtaken \subseteq Addresses

LEMMA NoRequestType == NoRequest \in RequestRecords /\ NoRequest.pc = "idle"
BY DEF NoRequest, RequestRecords

LEMMA RequestFields ==
  ASSUME LayersInv, NEW r \in Requests, request[r].pc # "idle"
  PROVE  request[r].ip \in Addresses
BY DEF LayersInv, RequestsTyped

\* A request arrives, advances or leaves.
Legal(q) == q \in RequestRecords /\ (q.pc # "idle" => q.ip \in Addresses)

LEMMA RequestMoves ==
  ASSUME LayersInv, NEW r \in Requests, NEW q, Legal(q), request' = [request EXCEPT ![r] = q]
  PROVE  /\ RequestsTyped'
         /\ \A s \in Requests : request'[s] = IF s = r THEN q ELSE request[s]
BY DEF LayersInv, RequestsTyped, Legal

LEMMA Arrived ==
  ASSUME NEW i \in Addresses
  PROVE  LET q == [pc |-> "limit", ip |-> i] IN Legal(q) /\ q.pc = "limit" /\ q.ip = i
BY DEF Legal, RequestRecords

LEMMA Advanced ==
  ASSUME LayersInv, NEW r \in Requests, request[r].pc # "idle", NEW label \in {"handler", "count"}
  PROVE  LET q == [request[r] EXCEPT !.pc = label]
         IN  Legal(q) /\ q.pc = label /\ q.ip = request[r].ip
BY DEF LayersInv, RequestsTyped, Legal, RequestRecords

LEMMA Gone == Legal(NoRequest)
BY NoRequestType DEF Legal

-----------------------------------------------------------------------------
(* The limit of the counters *)

LetIn(i) == {r \in Requests : request[r].ip = i /\ request[r].pc \in {"handler", "count"}}

LEMMA LetInCard ==
  ASSUME NEW i \in Addresses
  PROVE  /\ IsFiniteSet(LetIn(i)) /\ Cardinality(LetIn(i)) \in Nat
         /\ Cardinality(LetIn(i)) <= Cardinality(Requests)
<1>1. LetIn(i) \subseteq Requests
  BY DEF LetIn
<1> QED
  BY <1>1, RequestAssumption, FS_Subset, FS_CardinalityType

LEMMA LetInCardNext ==
  ASSUME NEW i \in Addresses
  PROVE  /\ IsFiniteSet(LetIn(i)') /\ Cardinality(LetIn(i)') \in Nat
         /\ Cardinality(LetIn(i)') <= Cardinality(Requests)
<1>1. LetIn(i)' \subseteq Requests
  BY DEF LetIn
<1> QED
  BY <1>1, RequestAssumption, FS_Subset, FS_CardinalityType

LimitKept(i) == counter[i] + Cardinality(LetIn(i)) < Limit + Cardinality(Requests)

LEMMA LimitIsKept == LimitOvershootBounded <=> \A i \in Addresses : LimitKept(i)
BY DEF LimitOvershootBounded, LimitKept, LetIn

\* A step that lets no one in.
LEMMA FewerIn ==
  ASSUME NEW i \in Addresses, counter[i] \in Nat, LimitKept(i),
         LetIn(i)' \subseteq LetIn(i), counter'[i] = counter[i]
  PROVE  LimitKept(i)'
<1>1. Cardinality(LetIn(i)') <= Cardinality(LetIn(i))
  BY LetInCard, FS_Subset
<1>2. Cardinality(Requests) \in Nat
  BY RequestAssumption, FS_CardinalityType
<1> QED
  BY <1>1, <1>2, LetInCard, LetInCardNext, LimitAssumption DEF LimitKept

\* A counter at zero, or one that was below the limit.
LEMMA LowCounter ==
  ASSUME NEW i \in Addresses, counter'[i] \in Nat, counter'[i] < Limit
  PROVE  LimitKept(i)'
<1>1. Cardinality(Requests) \in Nat
  BY RequestAssumption, FS_CardinalityType
<1> QED
  BY <1>1, LetInCardNext, LimitAssumption DEF LimitKept

\* A failure counted: its request is no longer in.
LEMMA OneCounted ==
  ASSUME NEW i \in Addresses, counter[i] \in Nat, LimitKept(i),
         NEW r \in LetIn(i), LetIn(i)' = LetIn(i) \ {r}, counter'[i] = counter[i] + 1
  PROVE  LimitKept(i)'
<1>1. Cardinality(LetIn(i)') = Cardinality(LetIn(i)) - 1
  BY LetInCard, FS_RemoveElement
<1>2. Cardinality(Requests) \in Nat
  BY RequestAssumption, FS_CardinalityType
<1> QED
  BY <1>1, <1>2, LetInCard, LetInCardNext, LimitAssumption DEF LimitKept

LayersOK == LayersInv /\ LimitOvershootBounded

LEMMA LayersFields ==
  ASSUME LayersOK, NEW i \in Addresses
  PROVE  LayersInv /\ counter[i] \in Nat /\ LimitKept(i)
BY LimitIsKept DEF LayersOK, LayersInv

LEMMA LimitIsKeptNext == (\A i \in Addresses : LimitKept(i)') => LimitOvershootBounded'
BY DEF LimitOvershootBounded, LimitKept, LetIn

others == <<counter, restarts, lost, overtaken>>

\* One request moves, and comes from no further out than it gets.
LEMMA NoOneLetIn ==
  ASSUME LayersOK, UNCHANGED others, NEW r \in Requests, NEW q, Legal(q),
         request' = [request EXCEPT ![r] = q],
         q.pc \in {"handler", "count"}
            => request[r].pc \in {"handler", "count"} /\ q.ip = request[r].ip
  PROVE  LayersOK'
<1>1. RequestsTyped' /\ \A s \in Requests : request'[s] = IF s = r THEN q ELSE request[s]
  BY RequestMoves DEF LayersOK
<1>2. LayersInv'
  BY <1>1 DEF LayersOK, LayersInv, others
<1>3. \A i \in Addresses : LimitKept(i)'
  <2> SUFFICES ASSUME NEW i \in Addresses PROVE LimitKept(i)'
    OBVIOUS
  <2>1. LetIn(i)' \subseteq LetIn(i)
    BY <1>1 DEF LetIn
  <2>2. counter'[i] = counter[i]
    BY DEF others
  <2> QED
    BY <2>1, <2>2, LayersFields, FewerIn
<1> QED
  BY <1>2, <1>3, LimitIsKeptNext DEF LayersOK

\* No request moves.
LEMMA NoOneMoves ==
  ASSUME LayersOK, UNCHANGED <<request, counter>>, restarts' \in Nat,
         lost' \subseteq Addresses, overtaken' \subseteq Addresses
  PROVE  LayersOK'
BY DEF LayersOK, LayersInv, RequestsTyped, LimitOvershootBounded

LEMMA LettingIn ==
  ASSUME LayersOK, NEW r \in Requests, CheckLimit(r)  PROVE LayersOK'
<1> DEFINE i == request[r].ip
           q == [request[r] EXCEPT !.pc = "handler"]
<1>1. /\ request[r].pc = "limit" /\ UNCHANGED others
      /\ request' = [request EXCEPT ![r] = IF UnderLimit(i) THEN q ELSE NoRequest]
  BY DEF CheckLimit, UnchangedHistory, others
<1>2. CASE ~UnderLimit(i)
  BY <1>1, <1>2, Gone, NoRequestType, NoOneLetIn
<1>3. CASE UnderLimit(i)
  <2>1. request' = [request EXCEPT ![r] = q] /\ counter[i] < Limit
    BY <1>1, <1>3 DEF UnderLimit
  <2>2. Legal(q) /\ q.pc = "handler" /\ q.ip = i
    BY <1>1, Advanced DEF LayersOK
  <2> HIDE DEF q
  <2>3. RequestsTyped' /\ \A s \in Requests : request'[s] = IF s = r THEN q ELSE request[s]
    BY <2>1, <2>2, RequestMoves DEF LayersOK
  <2>4. LayersInv'
    BY <1>1, <2>3 DEF LayersOK, LayersInv, others
  <2>5. ASSUME NEW j \in Addresses PROVE LimitKept(j)'
    <3>1. counter'[j] = counter[j] /\ counter[j] \in Nat
      BY <1>1, LayersFields DEF others
    <3>2. CASE j = i
      BY <2>1, <3>1, <3>2, LowCounter
    <3>3. CASE j # i
      <4>1. LetIn(j)' \subseteq LetIn(j)
        BY <2>2, <2>3, <3>3 DEF LetIn
      <4> QED
        BY <3>1, <4>1, LayersFields, FewerIn
    <3> QED
      BY <3>2, <3>3
  <2> QED
    BY <2>4, <2>5, LimitIsKeptNext DEF LayersOK
<1> QED
  BY <1>2, <1>3

LEMMA Counting ==
  ASSUME LayersOK, NEW r \in Requests, CountFailure(r)  PROVE LayersOK'
<1> DEFINE i == request[r].ip
<1>1. /\ request[r].pc = "count" /\ UNCHANGED <<restarts, lost, overtaken>>
      /\ request' = [request EXCEPT ![r] = NoRequest]
      /\ counter' = [counter EXCEPT ![i] = @ + 1]
  BY DEF CountFailure, UnchangedHistory
<1>2. i \in Addresses
  BY <1>1, RequestFields DEF LayersOK
<1>3. /\ RequestsTyped'
      /\ \A s \in Requests : request'[s] = IF s = r THEN NoRequest ELSE request[s]
  BY <1>1, Gone, RequestMoves DEF LayersOK
<1>4. /\ counter' \in [Addresses -> Nat]
      /\ \A j \in Addresses : counter'[j] = IF j = i THEN counter[i] + 1 ELSE counter[j]
  BY <1>1, <1>2 DEF LayersOK, LayersInv
<1>5. LayersInv'
  BY <1>1, <1>3, <1>4 DEF LayersOK, LayersInv
<1>6. ASSUME NEW j \in Addresses PROVE LimitKept(j)'
  <2>1. CASE j = i
    <3>1. r \in LetIn(j) /\ LetIn(j)' = LetIn(j) \ {r}
      BY <1>1, <1>3, <2>1, NoRequestType DEF LetIn
    <3> QED
      BY <1>4, <2>1, <3>1, LayersFields, OneCounted
  <2>2. CASE j # i
    <3>1. LetIn(j)' \subseteq LetIn(j)
      BY <1>3, NoRequestType DEF LetIn
    <3> QED
      BY <1>4, <2>2, <3>1, LayersFields, FewerIn
  <2> QED
    BY <2>1, <2>2
<1> QED
  BY <1>5, <1>6, LimitIsKeptNext DEF LayersOK

LEMMA LayersInit == BlockInit => LayersOK
<1> SUFFICES ASSUME BlockInit PROVE LayersOK
  OBVIOUS
<1>1. LayersInv
  BY NoRequestType DEF BlockInit, LayersInv, RequestsTyped
<1>2. \A i \in Addresses : LetIn(i) = {} /\ counter[i] = 0
  BY NoRequestType DEF BlockInit, LetIn
<1>3. \A i \in Addresses : LimitKept(i)
  <2>1. Cardinality({}) = 0 /\ Cardinality(Requests) \in Nat
    BY FS_EmptySet, FS_CardinalityType, RequestAssumption
  <2> SUFFICES ASSUME NEW i \in Addresses PROVE LimitKept(i)
    OBVIOUS
  <2>2. Cardinality(LetIn(i)) = 0 /\ counter[i] = 0
    BY <1>2, <2>1
  <2> QED
    BY <2>1, <2>2, LimitAssumption DEF LimitKept
<1> QED
  BY <1>1, <1>3, LimitIsKept DEF LayersOK

-----------------------------------------------------------------------------
(* The induction *)

BlockingInv == BlockInv /\ LayersOK

LEMMA Requesting ==
  ASSUME BlockingInv, NEW r \in Requests, RequestStep(r)  PROVE BlockingInv'
<1>0. BlockInv /\ LayersOK /\ LayersInv
  BY DEF BlockingInv, LayersOK
<1>1. CASE CheckLimit(r)
  <2>1. UNCHANGED blocks
    BY <1>1 DEF CheckLimit, UnchangedHistory, blocks
  <2> QED
    BY <1>0, <1>1, <2>1, LettingIn, Untouched DEF BlockingInv
<1>2. CASE CountFailure(r)
  <2>1. UNCHANGED blocks
    BY <1>2 DEF CountFailure, UnchangedHistory, blocks
  <2> QED
    BY <1>0, <1>2, <2>1, Counting, Untouched DEF BlockingInv
<1>3. CASE FailRecorded(r) \/ FailUnrecorded(r)
  <2> DEFINE q == [request[r] EXCEPT !.pc = "count"]
  <2>1. /\ request[r].pc = "handler" /\ request' = [request EXCEPT ![r] = q]
        /\ UNCHANGED others /\ UNCHANGED <<row, episodes, lost, overtaken>>
    BY <1>3 DEF FailRecorded, FailUnrecorded, UnchangedHistory, others
  <2>2. Legal(q) /\ q.ip = request[r].ip /\ request[r].ip \in Addresses
    BY <1>0, <2>1, Advanced, RequestFields
  <2>3. task' = task \/ \E t \in Tasks : Spawn(t, "insert", request[r].ip)
    BY <1>3 DEF FailRecorded, FailUnrecorded
  <2>4. BlockInv'
    BY <1>0, <2>1, <2>2, <2>3, Spawning, Untouched DEF blocks
  <2> HIDE DEF q
  <2>5. LayersOK'
    BY <1>0, <2>1, <2>2, NoOneLetIn
  <2> QED
    BY <2>4, <2>5 DEF BlockingInv
<1>4. CASE BearerSucceeds(r) \/ KeySucceeds(r) \/ HangUp(r)
  <2>1. /\ request[r].pc # "idle" /\ request' = [request EXCEPT ![r] = NoRequest]
        /\ UNCHANGED others /\ UNCHANGED <<row, episodes, lost, overtaken>>
    BY <1>4 DEF BearerSucceeds, KeySucceeds, HangUp, UnchangedHistory, others
  <2>2. request[r].ip \in Addresses
    BY <1>0, <2>1, RequestFields
  <2>3. task' = task \/ \E t \in Tasks : Spawn(t, "reset", request[r].ip)
    BY <1>4 DEF BearerSucceeds, KeySucceeds, HangUp
  <2>4. BlockInv'
    BY <1>0, <2>1, <2>2, <2>3, Spawning, Untouched DEF blocks
  <2>5. LayersOK'
    BY <1>0, <2>1, Gone, NoRequestType, NoOneLetIn
  <2> QED
    BY <2>4, <2>5 DEF BlockingInv
<1> QED
  BY <1>1, <1>2, <1>3, <1>4 DEF RequestStep

LEMMA Arriving ==
  ASSUME BlockingInv, NEW r \in Requests, NEW i \in Addresses, Arrive(r, i)  PROVE BlockingInv'
<1> DEFINE q == [pc |-> "limit", ip |-> i]
<1>1. /\ request' = [request EXCEPT ![r] = q] /\ UNCHANGED others /\ UNCHANGED blocks
  BY DEF Arrive, UnchangedHistory, others, blocks
<1>2. Legal(q) /\ q.pc = "limit"
  BY Arrived
<1> HIDE DEF q
<1> QED
  BY <1>1, <1>2, NoOneLetIn, Untouched DEF BlockingInv

LEMMA Working ==
  ASSUME BlockingInv, NEW t \in Tasks, TaskStep(t) \/ StatementFails(t)  PROVE BlockingInv'
<1>0. BlockInv /\ LayersOK /\ LayersInv
  BY DEF BlockingInv, LayersOK
<1>1. UNCHANGED <<request, counter, restarts, overtaken>>
  BY DEF TaskStep, InsertFailure, SelectState, ApplyBlock, ResetFailures, StatementFails,
         UnchangedHistory
<1>2. lost' \subseteq Addresses
  <2>1. CASE TaskStep(t)
    BY <1>0, <2>1 DEF LayersInv, TaskStep, InsertFailure, SelectState, ApplyBlock, ResetFailures,
                      UnchangedHistory
  <2>2. CASE StatementFails(t)
    <3>1. task[t].ip \in Addresses
      BY <1>0, <2>2, TaskFields DEF StatementFails
    <3> QED
      BY <1>0, <2>2, <3>1, Failing DEF LayersInv
  <2> QED
    BY <2>1, <2>2
<1>3. LayersOK'
  BY <1>0, <1>1, <1>2, NoOneMoves DEF LayersInv
<1> QED
  BY <1>0, <1>3, Inserting, Selecting, Applying, Resetting, Failing DEF BlockingInv, TaskStep

LEMMA BlockingInductive == BlockingInv /\ [BlockNext]_blockVars => BlockingInv'
<1> SUFFICES ASSUME BlockingInv, [BlockNext]_blockVars PROVE BlockingInv'
  OBVIOUS
<1>0. BlockInv /\ LayersOK /\ LayersInv
  BY DEF BlockingInv, LayersOK
<1>1. ASSUME NEW r \in Requests, NEW i \in Addresses, Arrive(r, i)  PROVE BlockingInv'
  BY <1>1, Arriving
<1>2. ASSUME NEW r \in Requests, RequestStep(r)  PROVE BlockingInv'
  BY <1>2, Requesting
<1>3. ASSUME NEW t \in Tasks, TaskStep(t) \/ StatementFails(t)  PROVE BlockingInv'
  BY <1>3, Working
<1>4. ASSUME NEW i \in Addresses, BlockLapses(i) \/ BlockForGood(i)  PROVE BlockingInv'
  <2>1. UNCHANGED <<request, counter, restarts, lost, overtaken>>
    BY <1>4 DEF BlockLapses, BlockForGood, UnchangedHistory
  <2>2. LayersOK'
    BY <1>0, <2>1, NoOneMoves DEF LayersInv
  <2> QED
    BY <1>0, <1>4, <2>2, Lapsing, Closing DEF BlockingInv
<1>5. ASSUME NEW i \in Addresses, UnblockIp(i)  PROVE BlockingInv'
  <2>1. /\ UNCHANGED <<request, counter, restarts, lost>>
        /\ overtaken' \subseteq overtaken \cup {i}
    BY <1>5 DEF UnblockIp
  <2>2. LayersOK'
    BY <1>0, <2>1, NoOneMoves DEF LayersInv
  <2> QED
    BY <1>0, <1>5, <2>2, Unblocking DEF BlockingInv
<1>6. CASE CleanUp
  <2>1. UNCHANGED <<request, counter, restarts, lost, overtaken>>
    BY <1>6 DEF CleanUp, UnchangedHistory
  <2>2. LayersOK'
    BY <1>0, <2>1, NoOneMoves DEF LayersInv
  <2> QED
    BY <1>0, <1>6, <2>2, Cleaning DEF BlockingInv
<1>7. CASE ClearCounters
  <2>1. /\ UNCHANGED blocks /\ UNCHANGED <<request, restarts>>
        /\ counter' = [i \in Addresses |-> 0]
    BY <1>7 DEF ClearCounters, UnchangedHistory, blocks
  <2>2. LayersInv'
    BY <1>0, <2>1 DEF LayersInv, RequestsTyped, blocks
  <2>3. LimitOvershootBounded'
    BY <2>1, LimitAssumption, LowCounter, LimitIsKeptNext
  <2> QED
    BY <1>0, <2>1, <2>2, <2>3, Untouched DEF BlockingInv, LayersOK
<1>8. CASE Restart
  <2>1. /\ UNCHANGED overtaken /\ restarts' = restarts + 1
        /\ counter' = [i \in Addresses |-> 0]
        /\ request' = [r \in Requests |-> NoRequest]
        /\ lost' = lost
              \cup {task[t].ip : t \in {u \in Tasks : task[u].pc \in {"select", "update"}}}
    BY <1>8 DEF Restart, Swallowed
  <2>2. LayersInv'
    BY <1>0, <2>1, NoRequestType, TaskFields DEF LayersInv, RequestsTyped
  <2>3. LimitOvershootBounded'
    BY <2>1, LimitAssumption, LowCounter, LimitIsKeptNext
  <2> QED
    BY <1>0, <1>8, <2>2, <2>3, Restarting DEF BlockingInv, LayersOK
<1>9. CASE UNCHANGED blockVars
  <2>1. UNCHANGED blocks /\ UNCHANGED <<request, counter, restarts, lost, overtaken>>
    BY <1>9 DEF blockVars, blocks
  <2>2. LayersOK'
    BY <1>0, <2>1, NoOneMoves DEF LayersInv
  <2> QED
    BY <1>0, <2>1, <2>2, Untouched DEF BlockingInv
<1> QED
  BY <1>1, <1>2, <1>3, <1>4, <1>5, <1>6, <1>7, <1>8, <1>9 DEF BlockNext

LEMMA BlockingInvHolds == BlockSpec => []BlockingInv
<1>1. BlockInit => BlockingInv
  BY BlockInvInit, LayersInit DEF BlockingInv
<1> QED
  BY <1>1, BlockingInductive, PTL DEF BlockSpec

-----------------------------------------------------------------------------
(* The theorems *)

\* The tables, counters, requests and tasks stay well formed, and a row that
\* is not there stays empty.
THEOREM BlockTypesCorrect == BlockSpec => []BlockTypeOK
<1>1. BlockingInv => BlockTypeOK
  BY DEF BlockingInv, BlockInv, LayersOK, LayersInv, RowsTyped, TasksTyped, CountsTyped,
         RequestsTyped,
         Empty, BlockTypeOK
<1> QED
  BY <1>1, BlockingInvHolds, PTL

\* rate_limit::layer: the check on the way in and the increment on the way out
\* are apart, and an address passes its limit only by requests let in before.
THEOREM LimitHolds == BlockSpec => []LimitOvershootBounded
<1>1. BlockingInv => LimitOvershootBounded
  BY DEF BlockingInv, LayersOK
<1> QED
  BY <1>1, BlockingInvHolds, PTL

\* record_auth_failure: an address over the threshold is blocked or about to be,
\* whatever the interleaving of the tasks that count its failures; an answer that
\* a restart or a failed statement swallowed comes with the next failure.
THEOREM DebtsAnswered == BlockSpec => []DebtIsAnswered
<1>1. BlockingInv => DebtIsAnswered
  BY DEF BlockingInv, BlockInv
<1> QED
  BY <1>1, BlockingInvHolds, PTL

\* record_auth_failure: tasks that cross the threshold together count one block.
THEOREM OneStepPerBlock == BlockSpec => []EscalatesOncePerBlock
<1>1. BlockingInv => EscalatesOncePerBlock
  BY DEF BlockingInv, BlockInv
<1> QED
  BY <1>1, BlockingInvHolds, PTL

\* Rows whose count a step cannot lower.
LEMMA CountKept ==
  ASSUME BlockingInv, BlockNext, NEW i \in Addresses, row'[i].there, i \notin overtaken
  PROVE  row'[i].count >= row[i].count
<1>0. /\ row \in [Addresses -> Rows] /\ row[i].count \in Nat /\ BlockInv
      /\ row[i] \in Rows /\ BlockingInv
  BY RowFields DEF BlockingInv, BlockInv, RowsTyped
<1>1. CASE row' = row
  BY <1>0, <1>1
<1>2. ASSUME NEW t \in Tasks, TaskStep(t)  PROVE row'[i].count >= row[i].count
  <2>1. CASE InsertFailure(t)
    BY <1>0, <2>1 DEF InsertFailure, Accrued
  <2>2. CASE SelectState(t)
    BY <1>0, <2>2 DEF SelectState
  <2>3. CASE ApplyBlock(t)
    <3>1. task[t].pc = "update" /\ task[t].ip \in Addresses /\ task[t].seen \in Nat
      BY <1>0, <2>3, TaskFields DEF ApplyBlock
    <3>2. CASE row'[i] = row[i]
      BY <1>0, <3>2
    <3>3. CASE row'[i] # row[i]
      <4>1. task[t].ip = i /\ row'[i] = Blocked(row[i], task[t].seen)
        BY <1>0, <2>3, <3>1, <3>3 DEF ApplyBlock
      <4>2. row'[i].count = task[t].seen + 1
        BY <4>1 DEF Blocked
      <4>3. row[i].count = task[t].seen \/ row[i].count = task[t].seen + 1
        BY <1>0, <3>1, <4>1 DEF BlockInv, TasksClose, Close
      <4> QED
        BY <1>0, <3>1, <4>2, <4>3
    <3> QED
      BY <3>2, <3>3
  <2>4. CASE ResetFailures(t)
    BY <1>0, <2>4 DEF ResetFailures, Rows
  <2> QED
    BY <1>2, <2>1, <2>2, <2>3, <2>4 DEF TaskStep
<1>3. ASSUME NEW j \in Addresses, BlockLapses(j)  PROVE row'[i].count >= row[i].count
  BY <1>0, <1>3 DEF BlockLapses, Rows
<1>4. ASSUME NEW j \in Addresses, UnblockIp(j)  PROVE row'[i].count >= row[i].count
  <2>1. row'[i] = IF i = j THEN NoRow ELSE row[i]
    BY <1>0, <1>4 DEF UnblockIp
  <2>2. row'[i] = row[i]
    BY <2>1 DEF NoRow
  <2> QED
    BY <1>0, <2>2
<1>5. ASSUME NEW j \in Addresses, BlockForGood(j)  PROVE row'[i].count >= row[i].count
  BY <1>0, <1>5 DEF BlockForGood, Closed
<1>6. CASE CleanUp
  BY <1>0, <1>6 DEF CleanUp, Lifted
<1>7. ASSUME NEW r \in Requests, RequestStep(r)  PROVE row' = row
  BY <1>7 DEF RequestStep, CheckLimit, FailRecorded, FailUnrecorded, BearerSucceeds, KeySucceeds,
              CountFailure, HangUp
<1>8. ASSUME NEW r \in Requests, NEW j \in Addresses, Arrive(r, j)  PROVE row' = row
  BY <1>8 DEF Arrive
<1>9. CASE ClearCounters \/ Restart \/ \E t \in Tasks : StatementFails(t)
  BY <1>1, <1>9 DEF ClearCounters, Restart, StatementFails
<1> QED
  BY <1>1, <1>2, <1>3, <1>4, <1>5, <1>6, <1>7, <1>8, <1>9 DEF BlockNext

\* block_count never falls while its row stands: not through the cleanup, a
\* reset, nor a task that writes the count it read before another task's block.
THEOREM HistoryHolds == BlockSpec => HistoryIsKept
<1>1. BlockingInv /\ [BlockNext]_blockVars
        => [\A i \in Addresses : row'[i].there /\ i \notin overtaken
                                  => row'[i].count >= row[i].count]_blockVars
  BY CountKept
<1> QED
  BY <1>1, BlockingInvHolds, PTL DEF BlockSpec, HistoryIsKept

=============================================================================
