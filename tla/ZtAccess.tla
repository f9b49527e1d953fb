----------------------------- MODULE ZtAccess -----------------------------
(***************************************************************************)
(* Reading a zero-trust entry: src/src/webauthn/handlers.rs (passkeys and  *)
(* the ceremonies held in memory) and get_zt_payload of                    *)
(* src/src/kv/handlers.rs (the one-use token and the table zt_used_tokens).*)
(*                                                                         *)
(* begin checks the zero_trust key and snapshots the passkeys; finish      *)
(* takes the challenge out of the map, verifies the assertion and signs a  *)
(* token for one entry; get_zt_payload looks the token up, records it and  *)
(* reads the payload, in three statements.                                 *)
(* An operator XSlip is X with one plausible slip, used by no action.      *)
(***************************************************************************)
EXTENDS Naturals, FiniteSets

CONSTANTS
    Passkeys,    \* ids of hardware credentials, registered and deleted at will
    Entries,     \* names of zero-trust entries
    Challenges,  \* ids of challenges, never reused
    Tokens,      \* jti of tokens, never reused
    Calls,       \* slots for concurrent calls
    MaxRestarts, \* bound on server restarts
    None

ASSUME CallsAssumption == IsFiniteSet(Calls)
ASSUME NoneAssumption  == None \notin Passkeys \cup Entries \cup Challenges \cup Tokens

VARIABLES
    registered,  \* zero_trust_credentials
    keyActive,   \* the zero_trust API key of the reader is active
    bound,       \* zt_credential_id of an entry, None for no zero-trust row
    challenge,   \* webauthn_auth_challenges
    token,       \* tokens signed so far
    used,        \* zt_used_tokens
    call,        \* running get_zt_payload calls
    restarts,
    issued,      \* history: tokens a challenge was turned into
    served,      \* history: how often the payload was read with a token
    closed       \* history: tokens recorded when a call arrived

vars == <<registered, keyActive, bound, challenge, token, used, call, restarts, issued, served,
          closed>>

ChallengeRecords == [state : {"absent", "open", "gone"}, entry : Entries \cup {None},
                     passkeys : SUBSET Passkeys]
NoChallenge == [state |-> "absent", entry |-> None, passkeys |-> {}]
TokenRecords == [state : {"absent", "valid", "expired"}, entry : Entries \cup {None},
                 passkey : Passkeys \cup {None}]
NoToken == [state |-> "absent", entry |-> None, passkey |-> None]
CallRecords == [pc : {"idle", "lookup", "record", "read"}, token : Tokens \cup {None}]
NoCall == [pc |-> "idle", token |-> None]

Init ==
    /\ registered = {}
    /\ keyActive = TRUE
    /\ bound = [e \in Entries |-> None]
    /\ challenge = [h \in Challenges |-> NoChallenge]
    /\ token = [t \in Tokens |-> NoToken]
    /\ used = {}
    /\ call = [c \in Calls |-> NoCall]
    /\ restarts = 0
    /\ issued = [h \in Challenges |-> 0]
    /\ served = [t \in Tokens |-> 0]
    /\ closed = [c \in Calls |-> {}]

UnchangedOwner   == UNCHANGED <<registered, keyActive, bound>>
UnchangedHistory == UNCHANGED <<restarts, issued, served>>

(***************************************************************************)
(* The owner: passkeys, the reader's key, entries                          *)
(***************************************************************************)
\* register_finish and delete_credential
Register(p) ==
    /\ registered' = registered \cup {p}
    /\ UNCHANGED <<keyActive, bound, challenge, token, used, call, closed>> /\ UnchangedHistory
DeleteCredential(p) ==
    /\ p \in registered
    /\ registered' = registered \ {p}
    /\ UNCHANGED <<keyActive, bound, challenge, token, used, call, closed>> /\ UnchangedHistory

RevokeKey ==
    /\ keyActive' = FALSE
    /\ UNCHANGED <<registered, bound, challenge, token, used, call, closed>>
    /\ UnchangedHistory

\* upsert_entry with zero-trust fields, whose zt_credential_id names a passkey
\* registered or not, without them, or a deletion (module KvEntries).
Bind(e) ==
    /\ \E p \in Passkeys \cup {None} : bound' = [bound EXCEPT ![e] = p]
    /\ UNCHANGED <<registered, keyActive, challenge, token, used, call, closed>>
    /\ UnchangedHistory

(***************************************************************************)
(* The ceremony                                                            *)
(***************************************************************************)
\* authenticate_begin: the passkeys of the owner that the entry is bound to.
OffersSlip(e) == registered
Offers(e)     == registered \cap {bound[e]}

\* The SELECTs of the key, the entry and the passkeys are taken as one step: the
\* challenge keeps what they returned, and no property depends on a change between.
AuthenticateBegin(h, e) ==
    /\ challenge[h].state = "absent"
    /\ keyActive
    /\ bound[e] # None
    /\ Offers(e) # {}
    /\ challenge' = [challenge EXCEPT ![h] =
                       [state |-> "open", entry |-> e, passkeys |-> Offers(e)]]
    /\ UNCHANGED <<token, used, call, closed>> /\ UnchangedOwner /\ UnchangedHistory

\* authenticate_finish: remove() takes the challenge, whatever the assertion.
TakenSlip(h) == challenge
Taken(h)     == [challenge EXCEPT ![h] = [@ EXCEPT !.state = "gone"]]

\* The assertion is by one of the passkeys of the challenge, deleted since or
\* not, or is refused.  Nothing is awaited in between.
AuthenticateFinish(h) ==
    /\ challenge[h].state = "open"
    /\ challenge' = Taken(h)
    /\ \/ \E t \in Tokens, p \in challenge[h].passkeys :
            /\ token[t].state = "absent"
            /\ token' = [token EXCEPT ![t] = [state |-> "valid", passkey |-> p,
                                              entry |-> challenge[h].entry]]
            /\ issued' = [issued EXCEPT ![h] = @ + 1]
       \/ UNCHANGED <<token, issued>>
    /\ UNCHANGED <<used, call, restarts, served, closed>> /\ UnchangedOwner

(***************************************************************************)
(* get_zt_payload                                                          *)
(***************************************************************************)
\* The signature, the expiry and the entry the token is scoped to.
PresentToken(c, t) ==
    /\ call[c].pc = "idle"
    /\ token[t].state = "valid"
    /\ call' = [call EXCEPT ![c] = [pc |-> "lookup", token |-> t]]
    /\ closed' = [closed EXCEPT ![c] = used]
    /\ UNCHANGED <<challenge, token, used>> /\ UnchangedOwner /\ UnchangedHistory

NewSlip(t) == TRUE
New(t)     == t \notin used

LookUp(c) ==
    /\ call[c].pc = "lookup"
    /\ call' = [call EXCEPT ![c] = IF New(@.token) THEN [@ EXCEPT !.pc = "record"] ELSE NoCall]
    /\ UNCHANGED <<challenge, token, used, closed>> /\ UnchangedOwner /\ UnchangedHistory

\* INSERT OR IGNORE: it goes on whether or not the row was there.
Record(c) ==
    /\ call[c].pc = "record"
    /\ used' = used \cup {call[c].token}
    /\ call' = [call EXCEPT ![c] = [@ EXCEPT !.pc = "read"]]
    /\ UNCHANGED <<challenge, token, closed>> /\ UnchangedOwner /\ UnchangedHistory

ReadPayload(c) ==
    LET t == call[c].token
    IN  /\ call[c].pc = "read"
        /\ served' = IF bound[token[t].entry] # None
                     THEN [served EXCEPT ![t] = @ + 1] ELSE served
        /\ call' = [call EXCEPT ![c] = NoCall]
        /\ UNCHANGED <<challenge, token, used, closed, restarts, issued>> /\ UnchangedOwner

(***************************************************************************)
(* Around the calls                                                        *)
(***************************************************************************)
Abort(c) ==
    /\ call[c].pc # "idle"
    /\ call' = [call EXCEPT ![c] = NoCall]
    /\ UNCHANGED <<challenge, token, used, closed>> /\ UnchangedOwner /\ UnchangedHistory

\* Sixty seconds pass.
TokenExpires(t) ==
    /\ token[t].state = "valid"
    /\ token' = [token EXCEPT ![t] = [@ EXCEPT !.state = "expired"]]
    /\ UNCHANGED <<challenge, used, call, closed>> /\ UnchangedOwner /\ UnchangedHistory

\* Challenges live in memory, used tokens in the database; the signing key is
\* configured, so tokens stay valid.
Restart ==
    /\ restarts < MaxRestarts
    /\ restarts' = restarts + 1
    /\ challenge' = [h \in Challenges |->
                       IF challenge[h].state = "open" THEN [challenge[h] EXCEPT !.state = "gone"]
                       ELSE challenge[h]]
    /\ call' = [c \in Calls |-> NoCall]
    /\ UNCHANGED <<token, used, issued, served, closed>> /\ UnchangedOwner

(***************************************************************************)
(* The specification                                                       *)
(***************************************************************************)
Step(c) ==
    \/ \E t \in Tokens : PresentToken(c, t)
    \/ LookUp(c) \/ Record(c) \/ ReadPayload(c)
    \/ Abort(c)

Next ==
    \/ \E c \in Calls : Step(c)
    \/ \E h \in Challenges, e \in Entries : AuthenticateBegin(h, e)
    \/ \E h \in Challenges : AuthenticateFinish(h)
    \/ \E p \in Passkeys : Register(p) \/ DeleteCredential(p)
    \/ \E e \in Entries : Bind(e)
    \/ \E t \in Tokens : TokenExpires(t)
    \/ RevokeKey \/ Restart

Spec == Init /\ [][Next]_vars

(***************************************************************************)
(* Properties                                                              *)
(***************************************************************************)
\* Types; an open challenge offers the one passkey its entry was bound to, and
\* every token was signed for a passkey and an entry.
TypeOK ==
    /\ registered \subseteq Passkeys /\ keyActive \in BOOLEAN
    /\ bound \in [Entries -> Passkeys \cup {None}]
    /\ challenge \in [Challenges -> ChallengeRecords]
    /\ token \in [Tokens -> TokenRecords]
    /\ used \subseteq Tokens
    /\ call \in [Calls -> CallRecords]
    /\ restarts \in Nat /\ issued \in [Challenges -> Nat] /\ served \in [Tokens -> Nat]
    /\ closed \in [Calls -> SUBSET Tokens]
    /\ \A h \in Challenges : challenge[h].state = "open" => Cardinality(challenge[h].passkeys) = 1
    /\ \A t \in Tokens :
         token[t].state # "absent" => token[t].entry \in Entries /\ token[t].passkey \in Passkeys

\* The promise of a ceremony is that of a link (module LinkUse): its challenge is
\* open until the one finish that takes it, which gives one token or none, however
\* often finish is sent and whatever restarts in between.
Stage(h) == CASE challenge[h].state # "gone" -> challenge[h].state
              [] OTHER -> IF issued[h] > 0 THEN "used" ELSE "closed"

Promise == INSTANCE LinkUse WITH Links <- Challenges, uses <- issued,
                                 stage <- [h \in Challenges |-> Stage(h)]
CeremonyKeepsPromise == Promise!Spec

\* A token that was presented is spent for every request that comes later, also
\* when the first was cut off after recording it, and across a restart.
SpentTokenIsRefused ==
    \A c \in Calls : call[c].pc \in {"record", "read"} => call[c].token \notin closed[c]

\* Violated: a token reads the payload once.
TokenIsUsedOnce == \A t \in Tokens : served[t] <= 1

=============================================================================
