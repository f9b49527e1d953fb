------------------------- MODULE CollectLinksProofs -------------------------
(***************************************************************************)
(* Theorems about CollectLinks, for any number of links, names, entries    *)
(* and concurrent transactions.                                            *)
(***************************************************************************)
EXTENDS CollectLinks, TLAPS

-----------------------------------------------------------------------------
(* The inductive invariant *)

TablesTyped ==
    /\ request \in [Requests -> RequestRows]
    /\ entry \in [Keys -> EntryRows]
    /\ share \in [Shares -> ShareStates]
    /\ uses \in [Requests \cup Shares -> Nat]
Notices ==
    /\ notice \subseteq Requests \X Names
    /\ \A n \in notice : request[n[1]].status = "fulfilled" /\ n[2] \in request[n[1]].required
CallsTyped == call \in [Calls -> CallRecords]

LEMMA TypeParts == TypeOK <=> TablesTyped /\ Notices /\ CallsTyped
BY DEF TypeOK, TablesTyped, Notices, CallsTyped

\* What a submission is about to write accounts for every name the row requires.
Accounts(r, inserts, bypassed) ==
    /\ bypassed \subseteq request[r].required
    /\ \A n \in request[r].required :
          n \in bypassed \/ <<Final[request[r].prefix][n], TRUE>> \in inserts

\* What a transaction has read is still so while nobody committed.
Snapshot(t) ==
    /\ t.pc = "submit" =>
         /\ t.request \in Requests
         /\ t.fresh => /\ request[t.request].status = "pending"
                       /\ Accounts(t.request, t.inserts, t.bypassed)
    /\ t.pc = "claim" =>
         /\ t.share \in Shares
         /\ t.fresh => share[t.share] \in {"open", "expired"}
Snapshots == \A c \in Calls : Snapshot(call[c])

UnusedWhileOpen ==
    /\ \A r \in Requests : request[r].status \in {"absent", "pending"} => uses[r] = 0
    /\ \A s \in Shares : share[s] \in {"absent", "open", "expired"} => uses[s] = 0

\* A request that can be answered has a prefix.
PrefixKnown == \A r \in Requests : request[r].status = "pending" => request[r].prefix \in Prefixes

IInv == /\ TablesTyped /\ Notices /\ CallsTyped /\ Snapshots /\ UnusedWhileOpen
        /\ PrefixKnown

LEMMA EmptyCall == NoCall \in CallRecords /\ NoCall.pc = "idle" /\ Snapshot(NoCall)
BY DEF NoCall, CallRecords, Snapshot

LEMMA InitInv == Init => IInv
<1> SUFFICES ASSUME Init PROVE IInv
  OBVIOUS
<1>1. TablesTyped
  BY DEF Init, TablesTyped, NoRequest, RequestRows, NoEntry, EntryRows, ShareStates
<1>2. Notices /\ UnusedWhileOpen /\ PrefixKnown
  BY DEF Init, NoRequest, Notices, UnusedWhileOpen, PrefixKnown
<1>3. CallsTyped /\ Snapshots
  BY EmptyCall DEF Init, CallsTyped, Snapshots
<1> QED
  BY <1>1, <1>2, <1>3 DEF IInv

-----------------------------------------------------------------------------
(* Transactions *)

LEMMA CallSound == ASSUME IInv, NEW c \in Calls PROVE call[c] \in CallRecords /\ Snapshot(call[c])
BY DEF IInv, CallsTyped, Snapshots

\* A snapshot that is stale says nothing of the tables.
Idle(t) ==
    /\ t \in CallRecords
    /\ ~t.fresh
    /\ t.pc = "submit" => t.request \in Requests
    /\ t.pc = "claim" => t.share \in Shares

LEMMA StaleIdle == ASSUME IInv, NEW c \in Calls PROVE Idle(Stale[c])
<1>1. PICK t \in CallRecords : t = [call[c] EXCEPT !.fresh = FALSE]
  BY CallSound DEF CallRecords
<1>2. t.pc = call[c].pc /\ t.request = call[c].request /\ t.share = call[c].share /\ ~t.fresh
  BY <1>1, CallSound DEF CallRecords
<1>3. Idle(t)
  BY <1>2, CallSound DEF Snapshot, Idle
<1> QED
  BY <1>1, <1>3 DEF Stale

LEMMA CommitKeeps ==
  ASSUME IInv, CommitsAlone \/ \E c \in Calls : CommitsAs(c)
  PROVE  CallsTyped' /\ Snapshots'
<1>1. ASSUME NEW x \in Calls PROVE Idle(call'[x])
  <2>1. Idle(NoCall)
    BY EmptyCall DEF Idle, NoCall
  <2> QED
    BY <2>1, StaleIdle DEF CommitsAlone, CommitsAs, Stale
<1>2. CallsTyped'
  BY <1>1 DEF CommitsAlone, CommitsAs, Stale, Idle, CallsTyped
<1>3. Snapshots'
  BY <1>1 DEF Idle, Snapshots, Snapshot
<1> QED
  BY <1>2, <1>3

\* A read or a roll-back: the tables stay.
LEMMA TablesKept ==
  ASSUME IInv, UNCHANGED <<request, notice, entry, share, uses>>
  PROVE  TablesTyped' /\ Notices' /\ UnusedWhileOpen' /\ PrefixKnown'
BY DEF IInv, TablesTyped, Notices, UnusedWhileOpen, PrefixKnown

LEMMA QuietStep ==
  ASSUME IInv, NEW c \in Calls, NEW t \in CallRecords, Snapshot(t),
         call' = [call EXCEPT ![c] = t], UNCHANGED <<request, notice, entry, share, uses>>
  PROVE  IInv'
<1>1. CallsTyped'
  BY DEF IInv, CallsTyped
<1>2. ASSUME NEW x \in Calls PROVE Snapshot(call[x])'
  <2>1. call'[x] = t \/ call'[x] = call[x]
    BY DEF IInv, CallsTyped
  <2>2. Snapshot(call'[x])
    BY <2>1, CallSound
  <2> QED
    BY <2>2 DEF Snapshot, Accounts
<1> QED
  BY <1>1, <1>2, TablesKept DEF IInv, Snapshots

-----------------------------------------------------------------------------
(* The owner and the cleanup *)

LEMMA RequestRowWritten ==
  ASSUME IInv, NEW r \in Requests, NEW row \in RequestRows, request' = [request EXCEPT ![r] = row],
         row.status \in {"absent", "pending"} => request[r].status \in {"absent", "pending"},
         row.status = "pending" => row.prefix \in Prefixes,
         notice' \subseteq notice, \A n \in notice' : n[1] # r,
         UNCHANGED <<entry, share, uses>>, CommitsAlone
  PROVE  IInv'
<1>1. TablesTyped'
  BY DEF IInv, TablesTyped
<1>2. Notices'
  BY DEF IInv, TablesTyped, Notices
<1>3. UnusedWhileOpen' /\ PrefixKnown'
  BY DEF IInv, TablesTyped, UnusedWhileOpen, PrefixKnown
<1> QED
  BY <1>1, <1>2, <1>3, CommitKeeps DEF IInv

LEMMA CreateRequestInv ==
  ASSUME IInv, NEW r \in Requests, NEW required \in SUBSET Names, NEW p \in Prefixes,
         CreateRequest(r, required, p)
  PROVE  IInv'
<1> DEFINE row == [status |-> "pending", required |-> required, prefix |-> p]
<1>1. row \in RequestRows /\ row.status = "pending" /\ row.prefix = p
  BY DEF RequestRows
<1>2. request[r].status = "absent" /\ request' = [request EXCEPT ![r] = row]
  BY DEF CreateRequest
<1>3. \A n \in notice : n[1] # r
  BY <1>2 DEF IInv, Notices
<1> HIDE DEF row
<1> QED
  BY <1>1, <1>2, <1>3, RequestRowWritten DEF CreateRequest

LEMMA RevokeRequestInv == ASSUME IInv, NEW r \in Requests, RevokeRequest(r) PROVE IInv'
<1>1. request[r] \in RequestRows /\ request[r].status = "pending"
  BY DEF RevokeRequest, IInv, TablesTyped
<1>2. PICK row \in RequestRows : row = [request[r] EXCEPT !.status = "revoked"]
  BY <1>1 DEF RequestRows
<1>3. row.status = "revoked"
  BY <1>1, <1>2 DEF RequestRows
<1>4. request' = [request EXCEPT ![r] = row]
  BY <1>2 DEF RevokeRequest, IInv, TablesTyped
<1>5. \A n \in notice : n[1] # r
  BY <1>1 DEF IInv, Notices
<1> QED
  BY <1>3, <1>4, <1>5, RequestRowWritten DEF RevokeRequest

LEMMA DeleteRequestInv == ASSUME IInv, NEW r \in Requests, DeleteRequest(r) PROVE IInv'
<1>1. PICK row \in RequestRows : row = [NoRequest EXCEPT !.status = "deleted"]
  BY DEF NoRequest, RequestRows
<1>2. row.status = "deleted"
  BY <1>1 DEF NoRequest
<1>3. request' = [request EXCEPT ![r] = row]
  BY <1>1 DEF DeleteRequest
<1>4. notice' \subseteq notice /\ \A n \in notice' : n[1] # r
  BY DEF DeleteRequest, NoticesWithout
<1> QED
  BY <1>2, <1>3, <1>4, RequestRowWritten DEF DeleteRequest

LEMMA DismissNoticeInv == ASSUME IInv, NEW n \in notice, DismissNotice(n) PROVE IInv'
<1>1. TablesTyped' /\ Notices' /\ UnusedWhileOpen' /\ PrefixKnown'
  BY DEF DismissNotice, IInv, TablesTyped, Notices, UnusedWhileOpen, PrefixKnown
<1> QED
  BY <1>1, CommitKeeps DEF DismissNotice, IInv

\* Entries that are written, deleted, expired or swept.
LEMMA EntriesWritten ==
  ASSUME IInv, entry' \in [Keys -> EntryRows], UNCHANGED <<request, notice, share, uses>>,
         CommitsAlone \/ UNCHANGED call
  PROVE  IInv'
<1>1. TablesTyped' /\ Notices' /\ UnusedWhileOpen' /\ PrefixKnown'
  BY DEF IInv, TablesTyped, Notices, UnusedWhileOpen, PrefixKnown
<1>2. CASE CommitsAlone
  BY <1>1, <1>2, CommitKeeps DEF IInv
<1>3. CASE UNCHANGED call
  <2>1. CallsTyped' /\ Snapshots'
    BY <1>3 DEF IInv, CallsTyped, Snapshots, Snapshot, Accounts
  <2> QED
    BY <1>1, <2>1 DEF IInv
<1> QED
  BY <1>2, <1>3

LEMMA EntryStepInv ==
  ASSUME IInv, NEW k \in Keys, OwnerWrites(k) \/ OwnerDeletes(k) \/ EntryExpires(k) PROVE IInv'
<1>1. CASE OwnerWrites(k)
  <2>1. [state |-> "live", by |-> None, filled |-> TRUE] \in EntryRows
    BY DEF EntryRows
  <2>2. entry' \in [Keys -> EntryRows]
    BY <1>1, <2>1 DEF OwnerWrites, IInv, TablesTyped
  <2> QED
    BY <1>1, <2>2, EntriesWritten DEF OwnerWrites
<1>2. CASE OwnerDeletes(k)
  <2>1. NoEntry \in EntryRows
    BY DEF NoEntry, EntryRows
  <2>2. entry' \in [Keys -> EntryRows]
    BY <1>2, <2>1 DEF OwnerDeletes, IInv, TablesTyped
  <2> QED
    BY <1>2, <2>2, EntriesWritten DEF OwnerDeletes
<1>3. CASE EntryExpires(k)
  <2>1. PICK row \in EntryRows : row = [entry[k] EXCEPT !.state = "expired"]
    BY DEF IInv, TablesTyped, EntryRows
  <2>2. entry' \in [Keys -> EntryRows]
    BY <1>3, <2>1 DEF EntryExpires, IInv, TablesTyped
  <2> QED
    BY <1>3, <2>2, EntriesWritten DEF EntryExpires
<1> QED
  BY <1>1, <1>2, <1>3

LEMMA SweepEntriesInv == ASSUME IInv, SweepEntries PROVE IInv'
<1>1. NoEntry \in EntryRows
  BY DEF NoEntry, EntryRows
<1>2. entry' \in [Keys -> EntryRows]
  BY <1>1 DEF SweepEntries, IInv, TablesTyped
<1> QED
  BY <1>2, EntriesWritten DEF SweepEntries

LEMMA CreateShareInv == ASSUME IInv, NEW s \in Shares, CreateShare(s) PROVE IInv'
<1>1. TablesTyped' /\ Notices' /\ UnusedWhileOpen' /\ PrefixKnown'
  BY DEF CreateShare, IInv, TablesTyped, ShareStates, Notices, UnusedWhileOpen, PrefixKnown
<1> QED
  BY <1>1, CommitKeeps DEF CreateShare, IInv

\* A share may run out between the reads and the writes of a claim.
LEMMA ShareExpiresInv == ASSUME IInv, NEW s \in Shares, ShareExpires(s) PROVE IInv'
<1>1. TablesTyped' /\ Notices' /\ UnusedWhileOpen' /\ PrefixKnown'
  BY DEF ShareExpires, IInv, TablesTyped, ShareStates, Notices, UnusedWhileOpen, PrefixKnown
<1>2. CallsTyped' /\ Snapshots'
  BY DEF ShareExpires, IInv, TablesTyped, CallsTyped, Snapshots, Snapshot, Accounts
<1> QED
  BY <1>1, <1>2 DEF IInv

LEMMA SweepSharesInv == ASSUME IInv, SweepShares PROVE IInv'
<1>1. TablesTyped' /\ Notices' /\ UnusedWhileOpen' /\ PrefixKnown'
  BY DEF SweepShares, IInv, TablesTyped, ShareStates, Notices, UnusedWhileOpen, PrefixKnown
<1> QED
  BY <1>1, CommitKeeps DEF SweepShares, IInv

-----------------------------------------------------------------------------
(* Submissions and claims *)

LEMMA InsertsTyped ==
  ASSUME IInv, NEW r \in Requests, request[r].status = "pending", request[r].prefix \in Prefixes,
         NEW body \in Submissions
  PROVE  Inserts(r, body) \subseteq Keys \X BOOLEAN
BY FinalAssumption DEF Inserts, Submissions

\* The bypassed names and the inserts cover the required names of a complete body.
LEMMA CompleteAccounts ==
  ASSUME NEW r \in Requests, NEW body \in Submissions, Complete(r, body)
  PROVE  Accounts(r, Inserts(r, body), body.bypasses \cap request[r].required)
<1> DEFINE p == request[r].prefix
<1>1. ASSUME NEW n \in request[r].required, n \notin body.bypasses
      PROVE  <<Final[p][n], TRUE>> \in Inserts(r, body)
  <2>1. <<n, TRUE>> \in {x \in body.entries : x[1] \notin body.bypasses}
    BY <1>1 DEF Complete
  <2>2. PICK e \in {x \in body.entries : x[1] \notin body.bypasses} : e[1] = n /\ e[2] = TRUE
    BY <2>1
  <2>3. <<Final[p][e[1]], e[2]>> \in Inserts(r, body)
    BY <2>2 DEF Inserts
  <2> QED
    BY <2>2, <2>3
<1> QED
  BY <1>1 DEF Accounts

LEMMA SubmitReadInv ==
  ASSUME IInv, NEW c \in Calls, NEW r \in Requests, NEW body \in Submissions,
         SubmitRead(c, r, body)
  PROVE  IInv'
<1> DEFINE bypassed == body.bypasses \cap request[r].required
<1>1. Inserts(r, body) \subseteq Keys \X BOOLEAN /\ bypassed \subseteq Names
  BY InsertsTyped DEF SubmitRead, IInv, PrefixKnown, Submissions
<1>2. Accounts(r, Inserts(r, body), bypassed)
  BY CompleteAccounts DEF SubmitRead
<1>3. PICK t \in CallRecords :
        t = [NoCall EXCEPT !.pc = "submit", !.request = r, !.fresh = TRUE,
                           !.inserts = Inserts(r, body), !.bypassed = bypassed]
  BY <1>1 DEF NoCall, CallRecords
<1>4. t.pc = "submit" /\ t.request = r /\ t.inserts = Inserts(r, body) /\ t.bypassed = bypassed
  BY <1>3 DEF NoCall
<1>5. Snapshot(t)
  BY <1>2, <1>4 DEF SubmitRead, Snapshot
<1> QED
  BY <1>3, <1>5, QuietStep DEF SubmitRead

LEMMA ClaimReadInv == ASSUME IInv, NEW c \in Calls, NEW s \in Shares, ClaimRead(c, s) PROVE IInv'
<1>1. PICK t \in CallRecords :
        t = [NoCall EXCEPT !.pc = "claim", !.share = s, !.fresh = TRUE]
  BY DEF NoCall, CallRecords
<1>2. t.pc = "claim" /\ t.share = s
  BY <1>1 DEF NoCall
<1>3. Snapshot(t)
  BY <1>2 DEF ClaimRead, Unexpired, Snapshot
<1> QED
  BY <1>1, <1>3, QuietStep DEF ClaimRead

LEMMA RollBackInv == ASSUME IInv, NEW c \in Calls, RollBack(c) PROVE IInv'
BY EmptyCall, QuietStep DEF RollBack, RollsBack

\* The writes find what the reads found, because nobody committed in between.
LEMMA SubmitFinds ==
  ASSUME IInv, NEW c \in Calls, SubmitWrite(c)
  PROVE  /\ call[c].request \in Requests
         /\ request[call[c].request].status = "pending"
         /\ Accounts(call[c].request, call[c].inserts, call[c].bypassed)
         /\ call[c].inserts \subseteq Keys \X BOOLEAN /\ call[c].bypassed \subseteq Names
BY CallSound DEF SubmitWrite, MayWrite, Snapshot, CallRecords

LEMMA SubmitWriteInv == ASSUME IInv, NEW c \in Calls, SubmitWrite(c) PROVE IInv'
<1> DEFINE r == call[c].request
           inserts == call[c].inserts
<1>1. /\ r \in Requests /\ request[r] \in RequestRows /\ request[r].status = "pending"
      /\ call[c].bypassed \subseteq request[r].required /\ call[c].bypassed \subseteq Names
      /\ inserts \subseteq Keys \X BOOLEAN
  BY SubmitFinds DEF Accounts, IInv, TablesTyped
<1>2. PICK row \in RequestRows : row = [request[r] EXCEPT !.status = "fulfilled"]
  BY <1>1 DEF RequestRows
<1>3. row.status = "fulfilled" /\ row.required = request[r].required
  BY <1>1, <1>2 DEF RequestRows
<1>4. request' = [request EXCEPT ![r] = row]
  BY <1>1, <1>2 DEF SubmitWrite, IInv, TablesTyped
<1>5. entry' \in [Keys -> EntryRows]
  <2>1. ASSUME NEW k \in Keys
        PROVE  [state |-> "live", by |-> r, filled |-> <<k, TRUE>> \in inserts] \in EntryRows
    BY <1>1 DEF EntryRows
  <2> QED
    BY <2>1 DEF SubmitWrite, Inserted, IInv, TablesTyped
<1>6. uses' = [uses EXCEPT ![r] = @ + 1] /\ UNCHANGED share
  BY DEF SubmitWrite
<1>7. TablesTyped'
  BY <1>1, <1>4, <1>5, <1>6 DEF IInv, TablesTyped
<1>8. Notices'
  <2>1. notice' = notice \cup {<<r, n>> : n \in call[c].bypassed}
    BY DEF SubmitWrite
  <2> QED
    BY <1>1, <1>3, <1>4, <2>1 DEF IInv, TablesTyped, Notices
<1>9. UnusedWhileOpen' /\ PrefixKnown'
  BY <1>1, <1>3, <1>4, <1>6, LinkAssumption DEF IInv, TablesTyped, UnusedWhileOpen, PrefixKnown
<1> QED
  BY <1>7, <1>8, <1>9, CommitKeeps DEF SubmitWrite, IInv

LEMMA ClaimFinds ==
  ASSUME IInv, NEW c \in Calls, ClaimWrite(c)
  PROVE  call[c].share \in Shares /\ share[call[c].share] \in {"open", "expired"}
BY CallSound DEF ClaimWrite, MayWrite, Snapshot

LEMMA ClaimWriteInv == ASSUME IInv, NEW c \in Calls, ClaimWrite(c) PROVE IInv'
<1> DEFINE s == call[c].share
<1>1. s \in Shares /\ share[s] \in {"open", "expired"}
  BY ClaimFinds
<1>2. /\ share' = [share EXCEPT ![s] = "gone"] /\ uses' = [uses EXCEPT ![s] = @ + 1]
      /\ UNCHANGED <<request, notice, entry>>
  BY DEF ClaimWrite
<1>3. TablesTyped' /\ Notices'
  BY <1>1, <1>2 DEF IInv, TablesTyped, ShareStates, Notices
<1>4. UnusedWhileOpen' /\ PrefixKnown'
  BY <1>1, <1>2, LinkAssumption DEF IInv, TablesTyped, UnusedWhileOpen, PrefixKnown
<1> QED
  BY <1>3, <1>4, CommitKeeps DEF ClaimWrite, IInv

-----------------------------------------------------------------------------
(* Every step *)

LEMMA StutterInv == ASSUME IInv, UNCHANGED vars PROVE IInv'
<1>1. UNCHANGED <<request, notice, entry, share, uses>> /\ UNCHANGED call
  BY DEF vars
<1>2. CallsTyped' /\ Snapshots'
  BY <1>1 DEF IInv, CallsTyped, Snapshots, Snapshot, Accounts
<1> QED
  BY <1>1, <1>2, TablesKept DEF IInv

LEMMA OwnerInv == ASSUME IInv, Owner PROVE IInv'
BY CreateRequestInv, RevokeRequestInv, DeleteRequestInv, DismissNoticeInv, CreateShareInv,
   EntryStepInv DEF Owner

LEMMA ReadsInv == ASSUME IInv, NEW c \in Calls, Reads(c) PROVE IInv'
BY SubmitReadInv, ClaimReadInv DEF Reads

LEMMA NextInv == IInv /\ [Next]_vars => IInv'
<1> SUFFICES ASSUME IInv, [Next]_vars PROVE IInv'
  OBVIOUS
<1> QED
  BY OwnerInv, ReadsInv, SubmitWriteInv, ClaimWriteInv, RollBackInv, EntryStepInv, ShareExpiresInv,
     SweepEntriesInv, SweepSharesInv, StutterInv DEF Next

LEMMA Invariance == Spec => []IInv
<1> QED
  BY InitInv, NextInv, PTL DEF Spec

\* Rows and transactions have their types, and a notice belongs to a fulfilled request
\* that required its name.
THEOREM TypeCorrect == Spec => []TypeOK
<1>1. IInv => TypeOK
  BY TypeParts DEF IInv
<1> QED
  BY <1>1, Invariance, PTL

-----------------------------------------------------------------------------
(* What a submission does *)

\* Everything but a submission leaves no row of a request newly fulfilled.
LEMMA OnlySubmissionsFulfil ==
  ASSUME IInv, [Next]_vars, NEW r \in Requests,
         request[r].status = "pending", request'[r].status = "fulfilled"
  PROVE  \E c \in Calls : SubmitWrite(c) /\ call[c].request = r
<1>1. request' # request
  OBVIOUS
<1>2. ASSUME Owner PROVE FALSE
  <2>1. CASE UNCHANGED request
    BY <1>1, <2>1
  <2>2. ASSUME NEW q \in Requests, NEW required \in SUBSET Names, NEW p \in Prefixes,
               CreateRequest(q, required, p)
        PROVE  FALSE
    BY <2>2 DEF CreateRequest, IInv, TablesTyped
  <2>3. ASSUME NEW q \in Requests, RevokeRequest(q) PROVE FALSE
    BY <2>3 DEF RevokeRequest, IInv, TablesTyped, RequestRows
  <2>4. ASSUME NEW q \in Requests, DeleteRequest(q) PROVE FALSE
    BY <2>4 DEF DeleteRequest, NoRequest, IInv, TablesTyped
  <2> QED
    BY <1>2, <2>1, <2>2, <2>3, <2>4 DEF Owner, DismissNotice, CreateShare, OwnerWrites, OwnerDeletes
<1>3. PICK c \in Calls : SubmitWrite(c)
  BY <1>1, <1>2 DEF Next, Reads, SubmitRead, ClaimRead, ClaimWrite, RollBack, EntryExpires,
     ShareExpires, SweepEntries, SweepShares, vars
<1>4. call[c].request = r
  BY <1>3, SubmitFinds DEF SubmitWrite, IInv, TablesTyped
<1> QED
  BY <1>3, <1>4

\* Fulfilment accounts for every name the request required, whatever other
\* transactions did between the check and the commit.
THEOREM NamesAccountedFor == Spec => RequiredNamesAccountedFor
<1>1. IInv /\ [Next]_vars =>
        \A r \in Requests :
          request[r].status = "pending" /\ request'[r].status = "fulfilled" =>
             \A n \in request[r].required :
                \/ <<r, n>> \in notice'
                \/ entry'[Final[request[r].prefix][n]]
                     = [state |-> "live", by |-> r, filled |-> TRUE]
  <2> SUFFICES ASSUME IInv, [Next]_vars, NEW r \in Requests, request[r].status = "pending",
                      request'[r].status = "fulfilled", NEW n \in request[r].required
               PROVE  \/ <<r, n>> \in notice'
                      \/ entry'[Final[request[r].prefix][n]]
                           = [state |-> "live", by |-> r, filled |-> TRUE]
    OBVIOUS
  <2>1. PICK c \in Calls : SubmitWrite(c) /\ call[c].request = r
    BY OnlySubmissionsFulfil
  <2>2. Accounts(r, call[c].inserts, call[c].bypassed)
    BY <2>1, SubmitFinds
  <2>3. CASE n \in call[c].bypassed
    BY <2>1, <2>3 DEF SubmitWrite
  <2>4. CASE n \notin call[c].bypassed
    <3> DEFINE k == Final[request[r].prefix][n]
    <3>1. <<k, TRUE>> \in call[c].inserts
      BY <2>2, <2>4 DEF Accounts
    <3>2. k \in Keys /\ \E i \in call[c].inserts : i[1] = k
      BY <2>1, <3>1, SubmitFinds
    <3> HIDE DEF k
    <3>3. entry'[k] = [state |-> "live", by |-> r, filled |-> TRUE]
      BY <2>1, <3>1, <3>2 DEF SubmitWrite, Inserted
    <3> QED
      BY <3>3 DEF k
  <2> QED
    BY <2>3, <2>4
<1> QED
  BY <1>1, Invariance, PTL DEF Spec, RequiredNamesAccountedFor

\* A submission replaces no entry and uses its link up in the step that writes.
THEOREM NothingReplaced == Spec => SubmissionsReplaceNothing
<1>1. IInv /\ [Next]_vars =>
        \A k \in Keys, r \in Requests :
          entry'[k].by = r /\ entry'[k] # entry[k] =>
             /\ entry[k].state = "absent"
             /\ request[r].status = "pending" /\ request'[r].status = "fulfilled"
  <2> SUFFICES ASSUME IInv, [Next]_vars, NEW k \in Keys, NEW r \in Requests,
                      entry'[k].by = r, entry'[k] # entry[k]
               PROVE  /\ entry[k].state = "absent"
                      /\ request[r].status = "pending" /\ request'[r].status = "fulfilled"
    OBVIOUS
  <2>1. r # None
    BY NoneAssumption
  <2>2. ASSUME NEW q \in Keys, OwnerWrites(q) \/ OwnerDeletes(q) \/ EntryExpires(q) PROVE FALSE
    BY <2>1, <2>2 DEF OwnerWrites, OwnerDeletes, EntryExpires, NoEntry, IInv, TablesTyped, EntryRows
  <2>3. ASSUME SweepEntries PROVE FALSE
    BY <2>1, <2>3 DEF SweepEntries, NoEntry
  <2>4. entry' # entry
    OBVIOUS
  <2>5. PICK c \in Calls : SubmitWrite(c)
    BY <2>2, <2>3, <2>4 DEF Next, Owner, CreateRequest, RevokeRequest, DeleteRequest, DismissNotice,
       CreateShare, Reads, SubmitRead, ClaimRead, ClaimWrite, RollBack, ShareExpires, SweepShares,
       vars
  <2>6. (\E i \in call[c].inserts : i[1] = k) /\ call[c].request = r
    BY <2>5 DEF SubmitWrite, Inserted
  <2>7. entry[k].state = "absent"
    BY <2>5, <2>6 DEF SubmitWrite, MayInsert
  <2>8. request[r].status = "pending" /\ request[r] \in RequestRows
    BY <2>5, <2>6, SubmitFinds DEF IInv, TablesTyped
  <2>9. request'[r].status = "fulfilled"
    BY <2>5, <2>6, <2>8 DEF SubmitWrite, IInv, TablesTyped, RequestRows
  <2> QED
    BY <2>7, <2>8, <2>9
<1> QED
  BY <1>1, Invariance, PTL DEF Spec, SubmissionsReplaceNothing

-----------------------------------------------------------------------------
(* The promise of LinkUse *)

Links == Requests \cup Shares

LEMMA PromiseInit == Init => Promise!Init
BY DEF Init, NoRequest, Stage, RequestStage, ShareStage, Promise!Init

\* Steps of the promise, in terms of the stages.
LEMMA Stays ==
  ASSUME \A l \in Links : Stage(l)' = Stage(l), UNCHANGED uses
  PROVE  UNCHANGED <<[l \in Requests \cup Shares |-> Stage(l)], uses>>
BY DEF Links

LEMMA Makes ==
  ASSUME NEW r \in Links, Stage(r) = "absent", UNCHANGED uses,
         \A l \in Links : Stage(l)' = IF l = r THEN "open" ELSE Stage(l)
  PROVE  Promise!Next
<1>1. Promise!Make(r)
  BY DEF Promise!Make, Links
<1> QED
  BY <1>1 DEF Promise!Next, Links

LEMMA Uses ==
  ASSUME NEW r \in Links, Stage(r) = "open", uses' = [uses EXCEPT ![r] = @ + 1],
         \A l \in Links : Stage(l)' = IF l = r THEN "used" ELSE Stage(l)
  PROVE  Promise!Next
<1>1. Promise!Use(r)
  BY DEF Promise!Use, Links
<1> QED
  BY <1>1 DEF Promise!Next, Links

LEMMA Closes ==
  ASSUME NEW gone \in SUBSET Links, \A l \in gone : Stage(l) = "open", UNCHANGED uses,
         \A l \in Links : Stage(l)' = IF l \in gone THEN "closed" ELSE Stage(l)
  PROVE  Promise!Next
<1>1. Promise!Close(gone)
  BY DEF Promise!Close, Links
<1> QED
  BY <1>1 DEF Promise!Next, Links

LinkStep == \/ Promise!Next
            \/ UNCHANGED <<[l \in Requests \cup Shares |-> Stage(l)], uses>>

LEMMA QuietLinks == ASSUME UNCHANGED <<request, share, uses>> PROVE LinkStep
<1>1. \A l \in Links : Stage(l)' = Stage(l)
  BY DEF Stage, RequestStage, ShareStage, Outcome
<1> QED
  BY <1>1, Stays DEF LinkStep

LEMMA CreateRequestLinks ==
  ASSUME IInv, NEW r \in Requests, NEW required \in SUBSET Names, NEW p \in Prefixes,
         CreateRequest(r, required, p)
  PROVE  LinkStep
<1>1. r \in Links /\ Stage(r) = "absent"
  BY DEF Links, CreateRequest, Stage, RequestStage
<1>2. ASSUME NEW l \in Links PROVE Stage(l)' = IF l = r THEN "open" ELSE Stage(l)
  BY DEF CreateRequest, Stage, RequestStage, ShareStage, Outcome, IInv, TablesTyped
<1> QED
  BY <1>1, <1>2, Makes DEF CreateRequest, LinkStep

LEMMA RevokeRequestLinks == ASSUME IInv, NEW r \in Requests, RevokeRequest(r) PROVE LinkStep
<1>1. r \in Links /\ Stage(r) = "open" /\ uses[r] = 0
  BY DEF Links, RevokeRequest, Stage, RequestStage, IInv, UnusedWhileOpen
<1>2. request'[r].status = "revoked" /\ \A q \in Requests : q # r => request'[q] = request[q]
  BY DEF RevokeRequest, IInv, TablesTyped, RequestRows
<1>3. ASSUME NEW l \in Links PROVE Stage(l)' = IF l \in {r} THEN "closed" ELSE Stage(l)
  BY <1>1, <1>2 DEF RevokeRequest, Stage, RequestStage, ShareStage, Outcome
<1> QED
  BY <1>1, <1>3, Closes DEF RevokeRequest, LinkStep

\* The deletion of a request that was answered or revoked is no step of the promise.
LEMMA DeleteRequestLinks == ASSUME IInv, NEW r \in Requests, DeleteRequest(r) PROVE LinkStep
<1>1. r \in Links
  BY DEF Links
<1>2. request'[r].status = "deleted" /\ \A q \in Requests : q # r => request'[q] = request[q]
  BY DEF DeleteRequest, NoRequest, IInv, TablesTyped
<1>3. UNCHANGED <<share, uses>>
  BY DEF DeleteRequest
<1>4. CASE request[r].status = "pending"
  <2>1. Stage(r) = "open" /\ uses[r] = 0
    BY <1>4 DEF Stage, RequestStage, IInv, UnusedWhileOpen
  <2>2. ASSUME NEW l \in Links PROVE Stage(l)' = IF l \in {r} THEN "closed" ELSE Stage(l)
    BY <1>2, <1>3, <2>1 DEF Stage, RequestStage, ShareStage, Outcome
  <2> QED
    BY <1>1, <1>3, <2>1, <2>2, Closes DEF LinkStep
<1>5. CASE request[r].status \in {"fulfilled", "revoked"}
  <2>1. ASSUME NEW l \in Links PROVE Stage(l)' = Stage(l)
    BY <1>2, <1>3, <1>5 DEF Stage, RequestStage, ShareStage, Outcome
  <2> QED
    BY <1>3, <2>1, Stays DEF LinkStep
<1> QED
  BY <1>4, <1>5 DEF DeleteRequest

LEMMA SubmitLinks == ASSUME IInv, NEW c \in Calls, SubmitWrite(c) PROVE LinkStep
<1>1. PICK r \in Requests : r = call[c].request
  BY SubmitFinds
<1>2. r \in Links /\ Stage(r) = "open" /\ uses[r] = 0
  BY <1>1, SubmitFinds DEF Links, Stage, RequestStage, IInv, UnusedWhileOpen
<1>3. request'[r].status = "fulfilled" /\ \A q \in Requests : q # r => request'[q] = request[q]
  BY <1>1 DEF SubmitWrite, IInv, TablesTyped, RequestRows
<1>4. /\ uses' = [uses EXCEPT ![r] = @ + 1] /\ UNCHANGED share /\ uses'[r] = 1
      /\ \A l \in Links : l # r => uses'[l] = uses[l]
  BY <1>1, <1>2 DEF SubmitWrite, IInv, TablesTyped, Links
<1>5. ASSUME NEW l \in Links PROVE Stage(l)' = IF l = r THEN "used" ELSE Stage(l)
  BY <1>2, <1>3, <1>4 DEF Stage, RequestStage, ShareStage, Outcome
<1> QED
  BY <1>2, <1>4, <1>5, Uses DEF LinkStep

LEMMA CreateShareLinks == ASSUME IInv, NEW s \in Shares, CreateShare(s) PROVE LinkStep
<1>1. s \in Links /\ s \notin Requests /\ Stage(s) = "absent"
  BY LinkAssumption DEF Links, CreateShare, Stage, ShareStage
<1>2. ASSUME NEW l \in Links PROVE Stage(l)' = IF l = s THEN "open" ELSE Stage(l)
  BY <1>1 DEF CreateShare, Links, Stage, RequestStage, ShareStage, Outcome, IInv, TablesTyped
<1> QED
  BY <1>1, <1>2, Makes DEF CreateShare, LinkStep

LEMMA ClaimLinks == ASSUME IInv, NEW c \in Calls, ClaimWrite(c) PROVE LinkStep
<1>1. PICK s \in Shares : s = call[c].share
  BY ClaimFinds
<1>2. s \in Links /\ s \notin Requests /\ Stage(s) = "open" /\ uses[s] = 0
  BY <1>1, ClaimFinds, LinkAssumption DEF Links, Stage, ShareStage, IInv, UnusedWhileOpen
<1>3. /\ uses' = [uses EXCEPT ![s] = @ + 1] /\ UNCHANGED request /\ uses'[s] = 1
      /\ share' = [share EXCEPT ![s] = "gone"]
      /\ \A l \in Links : l # s => uses'[l] = uses[l]
  BY <1>1, <1>2 DEF ClaimWrite, IInv, TablesTyped, Links
<1>4. ASSUME NEW l \in Links PROVE Stage(l)' = IF l = s THEN "used" ELSE Stage(l)
  BY <1>2, <1>3 DEF Links, Stage, RequestStage, ShareStage, Outcome, IInv, TablesTyped
<1> QED
  BY <1>2, <1>3, <1>4, Uses DEF LinkStep

LEMMA ShareExpiresLinks == ASSUME IInv, NEW s \in Shares, ShareExpires(s) PROVE LinkStep
<1>1. ASSUME NEW l \in Links PROVE Stage(l)' = Stage(l)
  BY DEF ShareExpires, Links, Stage, RequestStage, ShareStage, Outcome, IInv, TablesTyped
<1> QED
  BY <1>1, Stays DEF ShareExpires, LinkStep

LEMMA SweepSharesLinks == ASSUME IInv, SweepShares PROVE LinkStep
<1> DEFINE gone == {s \in Shares : share[s] = "expired"}
<1>1. PICK some : some = gone
  OBVIOUS
<1>2. some \subseteq Links /\ \A l \in some : Stage(l) = "open"
  BY <1>1, LinkAssumption DEF Links, Stage, ShareStage
<1>3. ASSUME NEW l \in Links PROVE Stage(l)' = IF l \in some THEN "closed" ELSE Stage(l)
  <2>1. CASE l \in Requests
    <3>1. l \notin some
      BY <1>1, <2>1, LinkAssumption
    <3> QED
      BY <2>1, <3>1 DEF SweepShares, Stage, RequestStage, Outcome
  <2>2. CASE l \in Shares /\ l \notin Requests
    <3>1. share'[l] = IF l \in some THEN "gone" ELSE share[l]
      BY <1>1, <2>2 DEF SweepShares
    <3>2. l \in some => uses[l] = 0
      BY <1>1, <2>2 DEF IInv, UnusedWhileOpen
    <3> QED
      BY <2>2, <3>1, <3>2 DEF SweepShares, Stage, ShareStage, Outcome
  <2> QED
    BY <2>1, <2>2 DEF Links
<1> QED
  BY <1>2, <1>3, Closes DEF SweepShares, LinkStep

LEMMA StepLinks == ASSUME IInv, [Next]_vars PROVE LinkStep
<1>1. CASE Owner
  BY <1>1, CreateRequestLinks, RevokeRequestLinks, DeleteRequestLinks, CreateShareLinks, QuietLinks
     DEF Owner, DismissNotice, OwnerWrites, OwnerDeletes
<1>2. ASSUME NEW c \in Calls, Reads(c) PROVE LinkStep
  BY <1>2, QuietLinks DEF Reads, SubmitRead, ClaimRead
<1>3. CASE UNCHANGED vars
  BY <1>3, QuietLinks DEF vars
<1> QED
  BY <1>1, <1>2, <1>3, SubmitLinks, ClaimLinks, ShareExpiresLinks, SweepSharesLinks, QuietLinks
     DEF Next, RollBack, EntryExpires, SweepEntries

\* A link is used at most once, and not after it was withdrawn or swept, although
\* neither the UPDATE of a submission nor the DELETE of a claim is guarded.
THEOREM LinksKeepTheirPromise == Spec => KeepsPromise
<1>1. IInv /\ [Next]_vars =>
        [Promise!Next]_<<[l \in Requests \cup Shares |-> Stage(l)], uses>>
  BY StepLinks DEF LinkStep
<1>2. Spec => Promise!Spec
  BY <1>1, PromiseInit, Invariance, PTL DEF Spec, Promise!Spec
<1> QED
  BY <1>2 DEF KeepsPromise

=============================================================================
