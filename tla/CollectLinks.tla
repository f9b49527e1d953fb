---------------------------- MODULE CollectLinks ----------------------------
(***************************************************************************)
(* Links that anybody may use once: the secret requests of                 *)
(* src/src/admin/handlers.rs, with the notices of bypassed names, and the  *)
(* shares of src/src/shares/handlers.rs.                                   *)
(*                                                                         *)
(* submit and claim read and write in one deferred transaction.  In SQLite's *)
(* write-ahead mode its reads see one snapshot, and its first write fails  *)
(* when anybody committed since: that, and no guard of the UPDATE, is what *)
(* keeps two submissions apart.  A transaction is therefore two steps, the *)
(* reads and the writes with the commit.                                   *)
(* An operator XSlip is X with one plausible slip, used by no action.      *)
(***************************************************************************)
EXTENDS Naturals, FiniteSets

CONSTANTS
    Requests,  \* ids of secret requests, never reused
    Shares,    \* ids of one-time shares, never reused
    Names,     \* names a submission may use, trimmed and not empty
    Prefixes,  \* key prefixes of the requests, the empty one among them
    Keys,      \* names of key-value entries
    Final,     \* Final[p][n]: the name n with the prefix p
    Calls,     \* slots for concurrent submissions and claims
    None

ASSUME FinalAssumption == Final \in [Prefixes -> [Names -> Keys]]
ASSUME NoneAssumption == None \notin Requests \cup Shares \cup Prefixes
ASSUME LinkAssumption == Requests \cap Shares = {}

VARIABLES
    request,  \* secret_requests
    notice,   \* faux_approvals
    entry,    \* kv_entries of the owner
    share,    \* one_time_shares
    call,     \* running transactions
    uses      \* history: how often a link was used

vars == <<request, notice, entry, share, call, uses>>

RequestRows == [status : {"absent", "pending", "fulfilled", "revoked", "deleted"},
                required : SUBSET Names, prefix : Prefixes \cup {None}]
NoRequest == [status |-> "absent", required |-> {}, prefix |-> None]

\* by: the request whose submission wrote the entry, None for the owner; filled:
\* the value is not empty.  An expired entry waits for the cleanup.
EntryRows == [state : {"absent", "live", "expired"}, by : Requests \cup {None}, filled : BOOLEAN]
NoEntry == [state |-> "absent", by |-> None, filled |-> FALSE]

ShareStates == {"absent", "open", "expired", "gone"}

\* What a submission is about to write: names of entries with whether the value
\* is filled, and required names that were bypassed.
CallRecords == [pc : {"idle", "submit", "claim"}, request : Requests \cup {None},
                share : Shares \cup {None}, inserts : SUBSET (Keys \X BOOLEAN),
                bypassed : SUBSET Names, fresh : BOOLEAN]
NoCall == [pc |-> "idle", request |-> None, share |-> None, inserts |-> {}, bypassed |-> {},
           fresh |-> FALSE]

Init ==
    /\ request = [r \in Requests |-> NoRequest]
    /\ notice = {}
    /\ entry = [k \in Keys |-> NoEntry]
    /\ share = [s \in Shares |-> "absent"]
    /\ call = [c \in Calls |-> NoCall]
    /\ uses = [l \in Requests \cup Shares |-> 0]

\* Somebody commits: every open snapshot is stale from now on.
Stale == [c \in Calls |-> [call[c] EXCEPT !.fresh = FALSE]]
CommitsAlone == call' = Stale
CommitsAs(c) == call' = [Stale EXCEPT ![c] = NoCall]
RollsBack(c) == call' = [call EXCEPT ![c] = NoCall]

(***************************************************************************)
(* The owner                                                               *)
(***************************************************************************)
\* create_secret_request
CreateRequest(r, required, p) ==
    /\ request[r].status = "absent"
    /\ request' = [request EXCEPT ![r] =
                     [status |-> "pending", required |-> required, prefix |-> p]]
    /\ CommitsAlone
    /\ UNCHANGED <<notice, entry, share, uses>>

\* UPDATE ... WHERE status = 'pending'
RevokeRequest(r) ==
    /\ request[r].status = "pending"
    /\ request' = [request EXCEPT ![r] = [@ EXCEPT !.status = "revoked"]]
    /\ CommitsAlone
    /\ UNCHANGED <<notice, entry, share, uses>>

\* The notices cascade with their request.
NoticesWithoutSlip(r) == notice
NoticesWithout(r)     == {n \in notice : n[1] # r}

DeleteRequest(r) ==
    /\ request[r].status \in {"pending", "fulfilled", "revoked"}
    /\ request' = [request EXCEPT ![r] = [NoRequest EXCEPT !.status = "deleted"]]
    /\ notice' = NoticesWithout(r)
    /\ CommitsAlone
    /\ UNCHANGED <<entry, share, uses>>

\* dismiss_faux_approval
DismissNotice(n) ==
    /\ n \in notice
    /\ notice' = notice \ {n}
    /\ CommitsAlone
    /\ UNCHANGED <<request, entry, share, uses>>

\* create_share
CreateShare(s) ==
    /\ share[s] = "absent"
    /\ share' = [share EXCEPT ![s] = "open"]
    /\ CommitsAlone
    /\ UNCHANGED <<request, notice, entry, uses>>

\* Writes, deletions and expiry of entries (module KvEntries).
OwnerWrites(k) ==
    /\ entry' = [entry EXCEPT ![k] = [state |-> "live", by |-> None, filled |-> TRUE]]
    /\ CommitsAlone
    /\ UNCHANGED <<request, notice, share, uses>>
OwnerDeletes(k) ==
    /\ entry[k].state # "absent"
    /\ entry' = [entry EXCEPT ![k] = NoEntry]
    /\ CommitsAlone
    /\ UNCHANGED <<request, notice, share, uses>>

(***************************************************************************)
(* submit_secret_request                                                   *)
(***************************************************************************)
Submissions == [entries : SUBSET (Names \X BOOLEAN), bypasses : SUBSET Names]

\* Every required name has a value that is not empty or is bypassed.
CompleteSlip(r, body) ==
    \A n \in request[r].required :
        (\E e \in body.entries : e[1] = n) \/ n \in body.bypasses
Complete(r, body) ==
    \A n \in request[r].required : <<n, TRUE>> \in body.entries \/ n \in body.bypasses

\* entries_to_insert: bypassed names are left out, the prefix is put before.
Inserts(r, body) ==
    {<<Final[request[r].prefix][e[1]], e[2]>> : e \in {x \in body.entries :
                                                        x[1] \notin body.bypasses}}

Conflicts(inserts) == \E i \in inserts : entry[i[1]].state = "live"

\* The SELECTs, all of one snapshot.
SubmitRead(c, r, body) ==
    /\ call[c].pc = "idle"
    /\ request[r].status = "pending"
    /\ Complete(r, body)
    /\ ~Conflicts(Inserts(r, body))
    /\ call' = [call EXCEPT ![c] =
                  [NoCall EXCEPT !.pc = "submit", !.request = r, !.fresh = TRUE,
                                 !.inserts = Inserts(r, body),
                                 !.bypassed = body.bypasses \cap request[r].required]]
    /\ UNCHANGED <<request, notice, entry, share, uses>>

\* The first write takes the lock only for a snapshot nobody committed over.
MayWriteSlip(c) == TRUE
MayWrite(c)     == call[c].fresh

\* The primary key: an expired row is still a row, and a name comes once.
MayInsertSlip(inserts) == \A i, j \in inserts : i[1] = j[1] => i = j
MayInsert(inserts) ==
    /\ \A i \in inserts : entry[i[1]].state = "absent"
    /\ \A i, j \in inserts : i[1] = j[1] => i = j

Inserted(r, inserts) ==
    [k \in Keys |-> IF \E i \in inserts : i[1] = k
                    THEN [state |-> "live", by |-> r, filled |-> <<k, TRUE>> \in inserts]
                    ELSE entry[k]]

\* The UPDATE, which is not guarded by the status, the INSERTs and the notices.
SubmitWrite(c) ==
    LET r == call[c].request
    IN  /\ call[c].pc = "submit"
        /\ MayWrite(c)
        /\ MayInsert(call[c].inserts)
        /\ request' = [request EXCEPT ![r] = [@ EXCEPT !.status = "fulfilled"]]
        /\ entry' = Inserted(r, call[c].inserts)
        /\ notice' = notice \cup {<<r, n>> : n \in call[c].bypassed}
        /\ uses' = [uses EXCEPT ![r] = @ + 1]
        /\ CommitsAs(c)
        /\ UNCHANGED share

(***************************************************************************)
(* claim_share                                                             *)
(***************************************************************************)
Unexpired(s) == share[s] = "open"

ClaimRead(c, s) ==
    /\ call[c].pc = "idle"
    /\ Unexpired(s)
    /\ call' = [call EXCEPT ![c] = [NoCall EXCEPT !.pc = "claim", !.share = s, !.fresh = TRUE]]
    /\ UNCHANGED <<request, notice, entry, share, uses>>

\* DELETE and commit; the rows affected are not looked at.
ClaimWrite(c) ==
    LET s == call[c].share
    IN  /\ call[c].pc = "claim"
        /\ MayWrite(c)
        /\ share' = [share EXCEPT ![s] = "gone"]
        /\ uses' = [uses EXCEPT ![s] = @ + 1]
        /\ CommitsAs(c)
        /\ UNCHANGED <<request, notice, entry>>

(***************************************************************************)
(* Around the transactions                                                 *)
(***************************************************************************)
\* A stale snapshot, a key that is taken, a dropped connection.
RollBack(c) ==
    /\ call[c].pc # "idle"
    /\ RollsBack(c)
    /\ UNCHANGED <<request, notice, entry, share, uses>>

\* Time passes for an entry with a ttl or a share with an expiry: no commit.
EntryExpires(k) ==
    /\ entry[k].state = "live" /\ entry[k].by = None
    /\ entry' = [entry EXCEPT ![k] = [@ EXCEPT !.state = "expired"]]
    /\ UNCHANGED <<request, notice, share, call, uses>>
ShareExpires(s) ==
    /\ share[s] = "open"
    /\ share' = [share EXCEPT ![s] = "expired"]
    /\ UNCHANGED <<request, notice, entry, call, uses>>

\* Two statements of the cleanup.
SweepEntries ==
    /\ \E k \in Keys : entry[k].state = "expired"
    /\ entry' = [k \in Keys |-> IF entry[k].state = "expired" THEN NoEntry ELSE entry[k]]
    /\ CommitsAlone
    /\ UNCHANGED <<request, notice, share, uses>>
SweepShares ==
    /\ \E s \in Shares : share[s] = "expired"
    /\ share' = [s \in Shares |-> IF share[s] = "expired" THEN "gone" ELSE share[s]]
    /\ CommitsAlone
    /\ UNCHANGED <<request, notice, entry, uses>>

(***************************************************************************)
(* The specification                                                       *)
(***************************************************************************)
Owner ==
    \/ \E r \in Requests, required \in SUBSET Names, p \in Prefixes :
          CreateRequest(r, required, p)
    \/ \E r \in Requests : RevokeRequest(r) \/ DeleteRequest(r)
    \/ \E n \in notice : DismissNotice(n)
    \/ \E s \in Shares : CreateShare(s)
    \/ \E k \in Keys : OwnerWrites(k) \/ OwnerDeletes(k)

Reads(c) ==
    /\ call[c].pc = "idle"
    /\ \/ \E r \in Requests : /\ request[r].status = "pending"
                              /\ \E body \in Submissions : SubmitRead(c, r, body)
       \/ \E s \in Shares : ClaimRead(c, s)

Next ==
    \/ Owner
    \/ \E c \in Calls : Reads(c) \/ SubmitWrite(c) \/ ClaimWrite(c) \/ RollBack(c)
    \/ \E k \in Keys : EntryExpires(k)
    \/ \E s \in Shares : ShareExpires(s)
    \/ SweepEntries \/ SweepShares

Spec == Init /\ [][Next]_vars

(***************************************************************************)
(* Properties                                                              *)
(***************************************************************************)
\* Types; a notice belongs to a request that still exists, and was bypassed.
TypeOK ==
    /\ request \in [Requests -> RequestRows]
    /\ notice \subseteq Requests \X Names
    /\ entry \in [Keys -> EntryRows]
    /\ share \in [Shares -> ShareStates]
    /\ call \in [Calls -> CallRecords]
    /\ uses \in [Requests \cup Shares -> Nat]
    /\ \A n \in notice : request[n[1]].status = "fulfilled" /\ n[2] \in request[n[1]].required

\* When a request is fulfilled, each name it requires is there: stored by this
\* submission with a value, or told to the owner by a notice.
RequiredNamesAccountedFor ==
    [][\A r \in Requests :
          request[r].status = "pending" /\ request'[r].status = "fulfilled" =>
             \A n \in request[r].required :
                \/ <<r, n>> \in notice'
                \/ entry'[Final[request[r].prefix][n]]
                     = [state |-> "live", by |-> r, filled |-> TRUE]]_vars

\* A submission adds entries and replaces none, not even one that its conflict
\* check passed over, already expired and not yet swept, and writes only in the step that
\* uses up its link.
SubmissionsReplaceNothing ==
    [][\A k \in Keys, r \in Requests :
          entry'[k].by = r /\ entry'[k] # entry[k] =>
             /\ entry[k].state = "absent"
             /\ request[r].status = "pending" /\ request'[r].status = "fulfilled"]_vars

\* A request and a share keep the promise of LinkUse: used once at most, and not
\* after a revocation, a deletion or the sweep of an expired share.
Outcome(l) == IF uses[l] > 0 THEN "used" ELSE "closed"
RequestStage(r) == IF request[r].status = "absent" THEN "absent"
                   ELSE IF request[r].status = "pending" THEN "open" ELSE Outcome(r)
ShareStage(s)   == IF share[s] = "absent" THEN "absent"
                   ELSE IF share[s] \in {"open", "expired"} THEN "open" ELSE Outcome(s)
Stage(l) == IF l \in Requests THEN RequestStage(l) ELSE ShareStage(l)
Promise == INSTANCE LinkUse WITH Links <- Requests \cup Shares,
                                 stage <- [l \in Requests \cup Shares |-> Stage(l)],
                                 uses  <- uses
KeepsPromise == Promise!Spec

=============================================================================
