--------------------------- MODULE ZtAccessProofs ---------------------------
(***************************************************************************)
(* Theorems about ZtAccess, for any number of passkeys, entries,           *)
(* challenges, tokens and concurrent readers, and any number of restarts.  *)
(***************************************************************************)
EXTENDS ZtAccess, FiniteSetTheorems, TLAPS

-----------------------------------------------------------------------------
(* The inductive invariant *)

OwnerTyped ==
    /\ registered \subseteq Passkeys /\ keyActive \in BOOLEAN
    /\ bound \in [Entries -> Passkeys \cup {None}]
    /\ restarts \in Nat
CeremonyTyped ==
    /\ challenge \in [Challenges -> ChallengeRecords]
    /\ issued \in [Challenges -> Nat]
    /\ \A h \in Challenges : challenge[h].state = "open" =>
         Cardinality(challenge[h].passkeys) = 1 /\ challenge[h].entry \in Entries
TokensTyped ==
    /\ token \in [Tokens -> TokenRecords]
    /\ \A t \in Tokens :
         token[t].state # "absent" => token[t].entry \in Entries /\ token[t].passkey \in Passkeys
ReadersTyped ==
    /\ used \subseteq Tokens
    /\ call \in [Calls -> CallRecords]
    /\ served \in [Tokens -> Nat]
    /\ closed \in [Calls -> SUBSET Tokens]
    /\ \A c \in Calls : call[c].pc # "idle" => call[c].token \in Tokens

\* A challenge that can still be answered was turned into no token yet.
UnspentWhileOpen ==
    \A h \in Challenges : IF challenge[h].state = "gone" THEN issued[h] <= 1 ELSE issued[h] = 0

\* The tokens recorded when a call arrived are recorded for good.
ClosedAreUsed == \A c \in Calls : closed[c] \subseteq used

IInv == /\ OwnerTyped /\ CeremonyTyped /\ TokensTyped /\ ReadersTyped
        /\ UnspentWhileOpen /\ ClosedAreUsed /\ SpentTokenIsRefused

LEMMA InvImplies == IInv => TypeOK /\ SpentTokenIsRefused
BY DEF IInv, OwnerTyped, CeremonyTyped, TokensTyped, ReadersTyped, TypeOK

LEMMA InitInv == Init => IInv
<1> SUFFICES ASSUME Init PROVE IInv
  OBVIOUS
<1>1. OwnerTyped
  BY DEF Init, OwnerTyped
<1>2. CeremonyTyped /\ UnspentWhileOpen
  BY DEF Init, CeremonyTyped, UnspentWhileOpen, NoChallenge, ChallengeRecords
<1>3. TokensTyped
  BY DEF Init, TokensTyped, NoToken, TokenRecords
<1>4. ReadersTyped /\ ClosedAreUsed /\ SpentTokenIsRefused
  BY DEF Init, ReadersTyped, ClosedAreUsed, SpentTokenIsRefused, NoCall, CallRecords
<1> QED
  BY <1>1, <1>2, <1>3, <1>4 DEF IInv

-----------------------------------------------------------------------------
(* The owner *)

\* What concerns the ceremonies, the tokens and the readers stays.
LEMMA CeremonyKept ==
  ASSUME CeremonyTyped, UnspentWhileOpen, UNCHANGED <<challenge, issued>>
  PROVE  CeremonyTyped' /\ UnspentWhileOpen'
BY DEF CeremonyTyped, UnspentWhileOpen

LEMMA ReadersKept ==
  ASSUME ReadersTyped, ClosedAreUsed, SpentTokenIsRefused, UNCHANGED <<used, call, served, closed>>
  PROVE  ReadersTyped' /\ ClosedAreUsed' /\ SpentTokenIsRefused'
BY DEF ReadersTyped, ClosedAreUsed, SpentTokenIsRefused

LEMMA TokensKept == ASSUME TokensTyped, UNCHANGED token PROVE TokensTyped'
BY DEF TokensTyped

LEMMA OwnerKept == ASSUME OwnerTyped, UnchangedOwner, UNCHANGED restarts PROVE OwnerTyped'
BY DEF OwnerTyped, UnchangedOwner

LEMMA OwnerStep ==
  ASSUME IInv,
         \/ \E p \in Passkeys : Register(p) \/ DeleteCredential(p)
         \/ \E e \in Entries : Bind(e)
         \/ RevokeKey
  PROVE  IInv'
<1>1. UNCHANGED <<challenge, token, used, call, closed, issued, served>>
  BY DEF Register, DeleteCredential, Bind, RevokeKey, UnchangedHistory
<1>2. OwnerTyped'
  <2>1. CASE \E p \in Passkeys : Register(p) \/ DeleteCredential(p)
    BY <2>1 DEF IInv, OwnerTyped, Register, DeleteCredential, UnchangedHistory
  <2>2. CASE \E e \in Entries : Bind(e)
    BY <2>2 DEF IInv, OwnerTyped, Bind, UnchangedHistory
  <2>3. CASE RevokeKey
    BY <2>3 DEF IInv, OwnerTyped, RevokeKey, UnchangedHistory
  <2> QED
    BY <2>1, <2>2, <2>3
<1> QED
  BY <1>1, <1>2, CeremonyKept, ReadersKept, TokensKept DEF IInv

-----------------------------------------------------------------------------
(* The ceremony *)

LEMMA BeginStep ==
  ASSUME IInv, NEW h \in Challenges, NEW e \in Entries, AuthenticateBegin(h, e)
  PROVE  IInv'
<1> DEFINE new == [state |-> "open", entry |-> e, passkeys |-> Offers(e)]
<1>1. Offers(e) = {bound[e]} /\ Offers(e) \subseteq Passkeys
  BY DEF AuthenticateBegin, Offers, IInv, OwnerTyped
<1>2. Cardinality(Offers(e)) = 1
  BY <1>1, FS_Singleton
<1>3. new \in ChallengeRecords
  BY <1>1 DEF ChallengeRecords
<1>4. challenge' = [challenge EXCEPT ![h] = new] /\ challenge[h].state = "absent"
  BY DEF AuthenticateBegin
<1>5. UNCHANGED issued
  BY DEF AuthenticateBegin, UnchangedHistory
<1>6. CeremonyTyped'
  BY <1>2, <1>3, <1>4, <1>5 DEF IInv, CeremonyTyped
<1>7. UnspentWhileOpen'
  BY <1>4, <1>5 DEF IInv, CeremonyTyped, UnspentWhileOpen
<1>8. OwnerTyped'
  BY OwnerKept DEF IInv, AuthenticateBegin, UnchangedHistory
<1> QED
  BY <1>6, <1>7, <1>8, ReadersKept, TokensKept
  DEF IInv, AuthenticateBegin, UnchangedHistory

\* The challenge is taken out first, so that a second finish finds none.
LEMMA FinishStep ==
  ASSUME IInv, NEW h \in Challenges, AuthenticateFinish(h)
  PROVE  IInv'
<1>1. /\ challenge' = [challenge EXCEPT ![h] = [@ EXCEPT !.state = "gone"]]
      /\ challenge[h].state = "open"
  BY DEF AuthenticateFinish, Taken
<1>2. /\ challenge[h] \in ChallengeRecords
      /\ challenge[h].entry \in Entries /\ challenge[h].passkeys \subseteq Passkeys
      /\ issued[h] = 0
  BY <1>1 DEF IInv, CeremonyTyped, UnspentWhileOpen, ChallengeRecords
<1>3. \/ issued' = [issued EXCEPT ![h] = @ + 1]
      \/ UNCHANGED issued
  BY DEF AuthenticateFinish
<1>4. CeremonyTyped'
  <2>1. [challenge[h] EXCEPT !.state = "gone"] \in ChallengeRecords
    BY <1>2 DEF ChallengeRecords
  <2>2. issued' \in [Challenges -> Nat]
    BY <1>2, <1>3 DEF IInv, CeremonyTyped
  <2>3. \A x \in Challenges : x # h => challenge'[x] = challenge[x]
    BY <1>1 DEF IInv, CeremonyTyped
  <2>4. challenge'[h].state = "gone"
    BY <1>1, <1>2 DEF IInv, CeremonyTyped, ChallengeRecords
  <2> QED
    BY <1>1, <2>1, <2>2, <2>3, <2>4 DEF IInv, CeremonyTyped
<1>5. UnspentWhileOpen'
  <2>1. challenge'[h].state = "gone"
    BY <1>1, <1>2 DEF IInv, CeremonyTyped, ChallengeRecords
  <2>2. issued'[h] <= 1
    BY <1>2, <1>3 DEF IInv, CeremonyTyped
  <2>3. \A x \in Challenges : x # h => challenge'[x] = challenge[x] /\ issued'[x] = issued[x]
    BY <1>1, <1>3 DEF IInv, CeremonyTyped
  <2> QED
    BY <2>1, <2>2, <2>3 DEF IInv, UnspentWhileOpen
<1>6. TokensTyped'
  <2>1. CASE UNCHANGED token
    BY <2>1, TokensKept DEF IInv
  <2>2. CASE \E t \in Tokens, p \in challenge[h].passkeys :
               token' = [token EXCEPT ![t] = [state |-> "valid", passkey |-> p,
                                              entry |-> challenge[h].entry]]
    <3>1. PICK t \in Tokens, p \in challenge[h].passkeys :
               token' = [token EXCEPT ![t] = [state |-> "valid", passkey |-> p,
                                              entry |-> challenge[h].entry]]
      BY <2>2
    <3> QED
      BY <1>2, <3>1 DEF IInv, TokensTyped, TokenRecords
  <2> QED
    BY <2>1, <2>2 DEF AuthenticateFinish
<1>7. OwnerTyped'
  BY OwnerKept DEF IInv, AuthenticateFinish
<1> QED
  BY <1>4, <1>5, <1>6, <1>7, ReadersKept DEF IInv, AuthenticateFinish

-----------------------------------------------------------------------------
(* Readers *)

\* One call moves, and what is recorded only grows.
LEMMA ReaderStep ==
  ASSUME IInv, NEW c \in Calls, NEW r \in CallRecords,
         call' = [call EXCEPT ![c] = r],
         r.pc # "idle" => r.token \in Tokens,
         r.pc \in {"record", "read"} => r.token \notin closed[c],
         used \subseteq used', used' \subseteq Tokens,
         UNCHANGED closed, served' \in [Tokens -> Nat]
  PROVE  ReadersTyped' /\ ClosedAreUsed' /\ SpentTokenIsRefused'
<1>1. /\ call'[c] = r
      /\ \A x \in Calls : x # c => call'[x] = call[x]
  BY DEF IInv, ReadersTyped
<1>2. ReadersTyped'
  BY <1>1 DEF IInv, ReadersTyped
<1>3. ClosedAreUsed'
  BY DEF IInv, ClosedAreUsed
<1>4. SpentTokenIsRefused'
  BY <1>1 DEF IInv, SpentTokenIsRefused
<1> QED
  BY <1>2, <1>3, <1>4

LEMMA IdleCall == NoCall \in CallRecords /\ NoCall.pc = "idle"
BY DEF NoCall, CallRecords

LEMMA CallFields ==
  ASSUME IInv, NEW c \in Calls
  PROVE  /\ call[c] \in CallRecords
         /\ call[c].pc # "idle" => call[c].token \in Tokens
         /\ closed[c] \subseteq used
         /\ call[c].pc \in {"record", "read"} => call[c].token \notin closed[c]
         /\ \A pc \in {"record", "read"} :
              /\ [call[c] EXCEPT !.pc = pc] \in CallRecords
              /\ [call[c] EXCEPT !.pc = pc].pc = pc
              /\ [call[c] EXCEPT !.pc = pc].token = call[c].token
BY DEF IInv, ReadersTyped, ClosedAreUsed, SpentTokenIsRefused, CallRecords

LEMMA PresentStep ==
  ASSUME IInv, NEW c \in Calls, NEW t \in Tokens, PresentToken(c, t)
  PROVE  ReadersTyped' /\ ClosedAreUsed' /\ SpentTokenIsRefused'
<1> DEFINE r == [pc |-> "lookup", token |-> t]
<1>1. r \in CallRecords
  BY DEF CallRecords
<1>2. /\ call' = [call EXCEPT ![c] = r] /\ closed' = [closed EXCEPT ![c] = used]
      /\ UNCHANGED <<used, served>>
  BY DEF PresentToken, UnchangedHistory
<1>3. /\ call'[c] = r /\ closed'[c] = used
      /\ \A x \in Calls : x # c => call'[x] = call[x] /\ closed'[x] = closed[x]
  BY <1>2 DEF IInv, ReadersTyped
<1>4. ReadersTyped'
  BY <1>1, <1>2, <1>3 DEF IInv, ReadersTyped
<1>5. ClosedAreUsed'
  BY <1>2, <1>3 DEF IInv, ClosedAreUsed
<1>6. SpentTokenIsRefused'
  BY <1>3 DEF IInv, SpentTokenIsRefused
<1> QED
  BY <1>4, <1>5, <1>6

\* The lookup is the step that tells: the token is not recorded now, hence was
\* not when the call arrived.
LEMMA CallStep ==
  ASSUME IInv, NEW c \in Calls, Step(c)
  PROVE  IInv'
<1>1. ReadersTyped' /\ ClosedAreUsed' /\ SpentTokenIsRefused'
  <2>1. CASE \E t \in Tokens : PresentToken(c, t)
    BY <2>1, PresentStep
  <2>2. CASE LookUp(c)
    <3>1. used' = used /\ closed' = closed /\ served' = served
      BY <2>2 DEF LookUp, UnchangedHistory
    <3>2. CASE call[c].token \notin used
      <4>1. call' = [call EXCEPT ![c] = [call[c] EXCEPT !.pc = "record"]]
        BY <2>2, <3>2 DEF LookUp, New
      <4>2. call[c].token \in Tokens /\ call[c].token \notin closed[c]
        BY <2>2, <3>2, CallFields DEF LookUp
      <4> QED
        BY <3>1, <4>1, <4>2, CallFields, ReaderStep DEF IInv, ReadersTyped
    <3>3. CASE call[c].token \in used
      <4>1. call' = [call EXCEPT ![c] = NoCall]
        BY <2>2, <3>3 DEF LookUp, New
      <4> QED
        BY <3>1, <4>1, IdleCall, ReaderStep DEF IInv, ReadersTyped
    <3> QED
      BY <3>2, <3>3
  <2>3. CASE Record(c)
    <3>1. /\ call' = [call EXCEPT ![c] = [call[c] EXCEPT !.pc = "read"]]
          /\ used' = used \cup {call[c].token} /\ UNCHANGED <<closed, served>>
          /\ call[c].pc = "record"
      BY <2>3 DEF Record, UnchangedHistory
    <3>2. call[c].token \in Tokens /\ call[c].token \notin closed[c]
      BY <3>1, CallFields
    <3>3. used' \subseteq Tokens /\ served' \in [Tokens -> Nat]
      BY <3>1, <3>2 DEF IInv, ReadersTyped
    <3> QED
      BY <3>1, <3>2, <3>3, CallFields, ReaderStep
  <2>4. CASE ReadPayload(c)
    <3>1. /\ call' = [call EXCEPT ![c] = NoCall] /\ UNCHANGED <<used, closed>>
          /\ call[c].token \in Tokens
      BY <2>4, CallFields DEF ReadPayload
    <3>2. served' \in [Tokens -> Nat]
      BY <2>4, <3>1 DEF ReadPayload, IInv, ReadersTyped
    <3> QED
      BY <3>1, <3>2, IdleCall, ReaderStep DEF IInv, ReadersTyped
  <2>5. CASE Abort(c)
    <3>1. call' = [call EXCEPT ![c] = NoCall] /\ UNCHANGED <<used, closed, served>>
      BY <2>5 DEF Abort, UnchangedHistory
    <3> QED
      BY <3>1, IdleCall, ReaderStep DEF IInv, ReadersTyped
  <2> QED
    BY <2>1, <2>2, <2>3, <2>4, <2>5 DEF Step
<1>2. UNCHANGED <<challenge, token, issued, restarts>> /\ UnchangedOwner
  BY DEF Step, PresentToken, LookUp, Record, ReadPayload, Abort, UnchangedHistory
<1> QED
  BY <1>1, <1>2, OwnerKept, CeremonyKept, TokensKept DEF IInv

-----------------------------------------------------------------------------
(* Time and restarts *)

LEMMA ExpiryStep ==
  ASSUME IInv, NEW t \in Tokens, TokenExpires(t)
  PROVE  IInv'
<1>1. TokensTyped'
  BY DEF IInv, TokensTyped, TokenExpires, TokenRecords
<1> QED
  BY <1>1, OwnerKept, CeremonyKept, ReadersKept DEF IInv, TokenExpires, UnchangedHistory

LEMMA RestartStep ==
  ASSUME IInv, Restart
  PROVE  IInv'
<1>1. /\ challenge' \in [Challenges -> ChallengeRecords]
      /\ \A h \in Challenges :
           /\ challenge'[h].state # "open"
           /\ challenge[h].state = "gone" => challenge'[h].state = "gone"
           /\ challenge'[h].state = "gone" => challenge[h].state \in {"gone", "open"}
  BY DEF IInv, CeremonyTyped, Restart, ChallengeRecords
<1>2. UNCHANGED <<issued, token, used, served, closed>> /\ UnchangedOwner
  BY DEF Restart
<1>3. CeremonyTyped'
  BY <1>1, <1>2 DEF IInv, CeremonyTyped
<1>4. UnspentWhileOpen'
  BY <1>1, <1>2 DEF IInv, UnspentWhileOpen
<1>5. ReadersTyped' /\ ClosedAreUsed' /\ SpentTokenIsRefused'
  BY <1>2, IdleCall DEF Restart, IInv, ReadersTyped, ClosedAreUsed, SpentTokenIsRefused
<1>6. OwnerTyped'
  BY <1>2 DEF Restart, IInv, OwnerTyped, UnchangedOwner
<1> QED
  BY <1>2, <1>3, <1>4, <1>5, <1>6, TokensKept DEF IInv

-----------------------------------------------------------------------------
LEMMA NextInv == IInv /\ [Next]_vars => IInv'
<1> SUFFICES ASSUME IInv, [Next]_vars PROVE IInv'
  OBVIOUS
<1>1. CASE \E c \in Calls : Step(c)
  BY <1>1, CallStep
<1>2. CASE \E h \in Challenges, e \in Entries : AuthenticateBegin(h, e)
  BY <1>2, BeginStep
<1>3. CASE \E h \in Challenges : AuthenticateFinish(h)
  BY <1>3, FinishStep
<1>4. CASE \/ \E p \in Passkeys : Register(p) \/ DeleteCredential(p)
           \/ \E e \in Entries : Bind(e)
           \/ RevokeKey
  BY <1>4, OwnerStep
<1>5. CASE \E t \in Tokens : TokenExpires(t)
  BY <1>5, ExpiryStep
<1>6. CASE Restart
  BY <1>6, RestartStep
<1>7. CASE UNCHANGED vars
  BY <1>7, OwnerKept, CeremonyKept, TokensKept, ReadersKept DEF IInv, vars, UnchangedOwner
<1> QED
  BY <1>1, <1>2, <1>3, <1>4, <1>5, <1>6, <1>7 DEF Next

LEMMA Inductive == Spec => []IInv
BY InitInv, NextInv, PTL DEF Spec

\* Types; an open challenge offers exactly one passkey (handlers.rs filters the
\* passkeys by the entry's zt_credential_id), and every token names what it is for.
THEOREM TypeCorrect == Spec => []TypeOK
BY Inductive, InvImplies, PTL

\* A token recorded in zt_used_tokens when a request arrives gets that request no
\* payload, whatever else reads, is cut off or restarts in between.
THEOREM SpentTokensAreRefused == Spec => []SpentTokenIsRefused
BY Inductive, InvImplies, PTL

-----------------------------------------------------------------------------
(* A ceremony keeps the promise of a link *)

stages == [h \in Challenges |-> Stage(h)]

LEMMA PromiseKept ==
  ASSUME IInv, UNCHANGED <<challenge, issued>>
  PROVE  UNCHANGED <<stages, issued>>
BY DEF stages, Stage

LEMMA BeginMakes ==
  ASSUME IInv, NEW h \in Challenges, NEW e \in Entries, AuthenticateBegin(h, e)
  PROVE  Promise!Make(h)
<1>1. /\ challenge'[h].state = "open" /\ challenge[h].state = "absent"
      /\ \A x \in Challenges : x # h => challenge'[x] = challenge[x]
      /\ UNCHANGED issued
  BY DEF AuthenticateBegin, IInv, CeremonyTyped, UnchangedHistory
<1>2. \A x \in Challenges : Stage(x)' = IF x = h THEN "open" ELSE Stage(x)
  BY <1>1 DEF Stage
<1>3. Stage(h) = "absent"
  BY <1>1 DEF Stage
<1> QED
  BY <1>1, <1>2, <1>3 DEF Promise!Make

\* The finish that takes the challenge uses it or closes it.
LEMMA FinishUsesOrCloses ==
  ASSUME IInv, NEW h \in Challenges, AuthenticateFinish(h)
  PROVE  Promise!Use(h) \/ Promise!Close({h})
<1>1. /\ challenge[h].state = "open" /\ challenge[h] \in ChallengeRecords /\ issued[h] = 0
      /\ challenge' = [challenge EXCEPT ![h] = [@ EXCEPT !.state = "gone"]]
  BY DEF AuthenticateFinish, Taken, IInv, CeremonyTyped, UnspentWhileOpen
<1>2. /\ challenge'[h].state = "gone"
      /\ \A x \in Challenges : x # h => challenge'[x] = challenge[x]
  BY <1>1 DEF IInv, CeremonyTyped, ChallengeRecords
<1>3. Stage(h) = "open"
  BY <1>1 DEF Stage
<1>4. CASE issued' = [issued EXCEPT ![h] = @ + 1]
  <2>1. issued'[h] = 1 /\ \A x \in Challenges : x # h => issued'[x] = issued[x]
    BY <1>1, <1>4 DEF IInv, CeremonyTyped
  <2>2. \A x \in Challenges : Stage(x)' = IF x = h THEN "used" ELSE Stage(x)
    BY <1>2, <2>1 DEF Stage
  <2> QED
    BY <1>3, <1>4, <2>2 DEF Promise!Use
<1>5. CASE UNCHANGED issued
  <2>1. \A x \in Challenges : Stage(x)' = IF x \in {h} THEN "closed" ELSE Stage(x)
    BY <1>1, <1>2, <1>5 DEF Stage
  <2> QED
    BY <1>3, <1>5, <2>1 DEF Promise!Close
<1> QED
  BY <1>4, <1>5 DEF AuthenticateFinish

\* The map of challenges is lost: every open ceremony is closed at once.
LEMMA RestartCloses ==
  ASSUME IInv, Restart
  PROVE  \E gone \in SUBSET Challenges : Promise!Close(gone)
<1> DEFINE gone == {h \in Challenges : challenge[h].state = "open"}
<1>1. UNCHANGED issued
  BY DEF Restart
<1>2. ASSUME NEW h \in gone PROVE Stage(h) = "open" /\ Stage(h)' = "closed"
  <2>1. challenge'[h] = [challenge[h] EXCEPT !.state = "gone"] /\ challenge[h] \in ChallengeRecords
    BY DEF Restart, IInv, CeremonyTyped
  <2>2. issued'[h] = 0 /\ challenge[h].state = "open"
    BY <1>1 DEF IInv, UnspentWhileOpen
  <2> QED
    BY <2>1, <2>2 DEF Stage, ChallengeRecords
<1>3. ASSUME NEW h \in Challenges \ gone PROVE Stage(h)' = Stage(h)
  BY <1>1 DEF Restart, Stage
<1>4. \A h \in Challenges : Stage(h)' = IF h \in gone THEN "closed" ELSE Stage(h)
  BY <1>2, <1>3
<1>5. \A h \in gone : Stage(h) = "open"
  BY <1>2
<1> HIDE DEF gone
<1>6. gone \subseteq Challenges
  BY DEF gone
<1> QED
  BY <1>1, <1>4, <1>5, <1>6 DEF Promise!Close

LEMMA NextKeepsPromise == IInv /\ [Next]_vars => [Promise!Next]_<<stages, issued>>
<1> SUFFICES ASSUME IInv, [Next]_vars PROVE [Promise!Next]_<<stages, issued>>
  OBVIOUS
<1>1. CASE \E h \in Challenges, e \in Entries : AuthenticateBegin(h, e)
  BY <1>1, BeginMakes DEF Promise!Next
<1>2. CASE \E h \in Challenges : AuthenticateFinish(h)
  <2>1. PICK h \in Challenges : AuthenticateFinish(h)
    BY <1>2
  <2>2. {h} \in SUBSET Challenges
    OBVIOUS
  <2> QED
    BY <2>1, <2>2, FinishUsesOrCloses DEF Promise!Next
<1>3. CASE Restart
  BY <1>3, RestartCloses DEF Promise!Next
<1>4. CASE UNCHANGED <<challenge, issued>>
  BY <1>4, PromiseKept
<1>5. Next => \/ \E h \in Challenges, e \in Entries : AuthenticateBegin(h, e)
              \/ \E h \in Challenges : AuthenticateFinish(h)
              \/ Restart
              \/ UNCHANGED <<challenge, issued>>
  BY DEF Next, Step, PresentToken, LookUp, Record, ReadPayload, Abort, Register,
         DeleteCredential, Bind, TokenExpires, RevokeKey, UnchangedHistory
<1> QED
  BY <1>1, <1>2, <1>3, <1>4, <1>5 DEF vars

LEMMA PromiseStarts == Init => Promise!Init
BY DEF Init, Promise!Init, Stage, NoChallenge

\* Spec implements LinkUse: however often a finish is sent, and across restarts, a
\* challenge that was taken out of the map is open no more, and was turned into
\* one token or none.
THEOREM CeremonyKeepsItsPromise == Spec => CeremonyKeepsPromise
BY Inductive, NextKeepsPromise, PromiseStarts, PTL
DEF Spec, CeremonyKeepsPromise, Promise!Spec, stages

-----------------------------------------------------------------------------
(* How far a token can be reused *)

\* The calls that looked the token up in time and may still read with it.
Readers(t) == {c \in Calls : call[c].pc \in {"record", "read"} /\ call[c].token = t}

\* Nobody joins the readers of a token once it is recorded, and nobody reads before.
Counted(t) ==
    /\ served[t] + Cardinality(Readers(t)) <= Cardinality(Calls)
    /\ t \notin used => served[t] = 0
ReadersCounted ==
    /\ \A t \in Tokens : Counted(t)
    /\ \A c \in Calls : call[c].pc = "read" => call[c].token \in used

ReuseBounded == \A t \in Tokens : served[t] <= Cardinality(Calls)

LEMMA ReadersFinite ==
  ASSUME NEW t
  PROVE  /\ IsFiniteSet(Readers(t)) /\ Cardinality(Readers(t)) \in Nat
         /\ Cardinality(Readers(t)) <= Cardinality(Calls) /\ Cardinality(Calls) \in Nat
BY CallsAssumption, FS_Subset, FS_CardinalityType DEF Readers

\* Readers that only leave keep the count.
LEMMA ReadersLeave ==
  ASSUME IInv, ReadersCounted, used \subseteq used', UNCHANGED served,
         \A t \in Tokens : Readers(t)' \subseteq Readers(t),
         \A c \in Calls : call'[c].pc = "read" => call'[c].token \in used'
  PROVE  ReadersCounted'
<1>1. ASSUME NEW t \in Tokens PROVE Counted(t)'
  <2>1. Cardinality(Readers(t)') <= Cardinality(Readers(t)) /\ Cardinality(Readers(t)') \in Nat
    BY ReadersFinite, FS_Subset, FS_CardinalityType
  <2>2. served[t] \in Nat /\ served'[t] = served[t]
    BY DEF IInv, ReadersTyped
  <2>3. Counted(t)
    BY DEF ReadersCounted
  <2> QED
    BY <2>1, <2>2, <2>3, ReadersFinite DEF Counted
<1> QED
  BY <1>1 DEF ReadersCounted

LEMMA ReadersUntouched ==
  ASSUME IInv, ReadersCounted, UNCHANGED <<used, call, served>>
  PROVE  ReadersCounted'
BY DEF ReadersCounted, Counted, Readers

LEMMA CallCounted ==
  ASSUME IInv, ReadersCounted, NEW c \in Calls, Step(c)
  PROVE  ReadersCounted'
<1>1. /\ call \in [Calls -> CallRecords] /\ served \in [Tokens -> Nat]
      /\ \A x \in Calls : call[x].pc = "read" => call[x].token \in used
  BY DEF IInv, ReadersTyped, ReadersCounted
<1>2. NoCall.pc = "idle"
  BY IdleCall
<1>3. CASE \E t \in Tokens : PresentToken(c, t)
  <2>1. PICK t \in Tokens : PresentToken(c, t)
    BY <1>3
  <2>2. /\ \A x \in Calls : x # c => call'[x] = call[x]
        /\ call'[c].pc = "lookup" /\ UNCHANGED <<used, served>>
    BY <1>1, <2>1 DEF PresentToken, UnchangedHistory
  <2> QED
    BY <1>1, <2>2, ReadersLeave DEF Readers
<1>4. CASE Abort(c)
  <2>1. /\ \A x \in Calls : x # c => call'[x] = call[x]
        /\ call'[c].pc = "idle" /\ UNCHANGED <<used, served>>
    BY <1>1, <1>2, <1>4 DEF Abort, UnchangedHistory
  <2> QED
    BY <1>1, <2>1, ReadersLeave DEF Readers
<1>5. CASE Record(c)
  <2>1. /\ \A x \in Calls : x # c => call'[x] = call[x]
        /\ call'[c] = [call[c] EXCEPT !.pc = "read"] /\ call[c].pc = "record"
        /\ used' = used \cup {call[c].token} /\ UNCHANGED served
    BY <1>1, <1>5 DEF Record, UnchangedHistory
  <2>2. call'[c].pc = "read" /\ call'[c].token = call[c].token
    BY <2>1, CallFields
  <2> QED
    BY <1>1, <2>1, <2>2, ReadersLeave DEF Readers
\* Only a token nobody recorded, hence nobody read with, gains readers.
<1>6. CASE LookUp(c)
  <2>1. /\ \A x \in Calls : x # c => call'[x] = call[x]
        /\ UNCHANGED <<used, served>> /\ call[c].pc = "lookup"
    BY <1>1, <1>6 DEF LookUp, UnchangedHistory
  <2>2. CASE call[c].token \in used
    <3>1. call'[c].pc = "idle"
      BY <1>1, <1>2, <1>6, <2>2 DEF LookUp, New
    <3> QED
      BY <1>1, <2>1, <3>1, ReadersLeave DEF Readers
  <2>3. CASE call[c].token \notin used
    <3>1. call'[c] = [call[c] EXCEPT !.pc = "record"]
      BY <1>1, <1>6, <2>3 DEF LookUp, New
    <3>2. call'[c].pc = "record" /\ call'[c].token = call[c].token
      BY <3>1, CallFields
    <3>3. ASSUME NEW t \in Tokens PROVE Counted(t)'
      <4>1. CASE t = call[c].token
        <5>1. served'[t] = 0
          BY <2>1, <2>3, <4>1 DEF ReadersCounted, Counted
        <5>2. Readers(t)' \subseteq Calls
          BY DEF Readers
        <5>3. Cardinality(Readers(t)') <= Cardinality(Calls) /\ Cardinality(Readers(t)') \in Nat
          BY <5>2, CallsAssumption, FS_Subset, FS_CardinalityType
        <5> QED
          BY <5>1, <5>3 DEF Counted
      <4>2. CASE t # call[c].token
        <5>1. Readers(t)' = Readers(t)
          BY <2>1, <3>2, <4>2 DEF Readers
        <5>2. Counted(t)
          BY DEF ReadersCounted
        <5> QED
          BY <2>1, <5>1, <5>2 DEF Counted
      <4> QED
        BY <4>1, <4>2
    <3>4. \A x \in Calls : call'[x].pc = "read" => call'[x].token \in used'
      BY <1>1, <2>1, <3>2
    <3> QED
      BY <3>3, <3>4 DEF ReadersCounted
  <2> QED
    BY <2>2, <2>3
\* A read turns a reader into a use.
<1>7. CASE ReadPayload(c)
  <2>1. PICK t \in Tokens : t = call[c].token
    BY <1>7, CallFields DEF ReadPayload
  <2>2. /\ \A x \in Calls : x # c => call'[x] = call[x]
        /\ call'[c].pc = "idle" /\ UNCHANGED used /\ call[c].pc = "read"
        /\ served' = [served EXCEPT ![t] = @ + 1] \/ served' = served
    BY <1>1, <1>2, <1>7, <2>1 DEF ReadPayload
  <2>3. t \in used
    BY <1>1, <2>1, <2>2
  <2>4. ASSUME NEW u \in Tokens PROVE Counted(u)'
    <3>1. served[u] \in Nat /\ Counted(u)
      BY <1>1 DEF ReadersCounted
    <3>2. CASE u = t
      <4>1. c \in Readers(u) /\ Readers(u)' = Readers(u) \ {c}
        BY <2>1, <2>2, <3>2 DEF Readers
      <4>2. Cardinality(Readers(u)') = Cardinality(Readers(u)) - 1
        BY <4>1, ReadersFinite, FS_RemoveElement
      <4>3. served'[u] <= served[u] + 1 /\ served'[u] \in Nat
        BY <1>1, <2>2, <3>2
      <4> QED
        BY <2>2, <2>3, <3>1, <3>2, <4>2, <4>3, ReadersFinite DEF Counted
    <3>3. CASE u # t
      <4>1. Readers(u)' = Readers(u) /\ served'[u] = served[u]
        BY <1>1, <2>1, <2>2, <3>3 DEF Readers
      <4> QED
        BY <2>2, <3>1, <4>1 DEF Counted
    <3> QED
      BY <3>2, <3>3
  <2>5. \A x \in Calls : call'[x].pc = "read" => call'[x].token \in used'
    BY <1>1, <2>2
  <2> QED
    BY <2>4, <2>5 DEF ReadersCounted
<1> QED
  BY <1>3, <1>4, <1>5, <1>6, <1>7 DEF Step

LEMMA RestartCounted == ASSUME IInv, ReadersCounted, Restart PROVE ReadersCounted'
<1>1. \A c \in Calls : call'[c].pc = "idle"
  BY IdleCall DEF Restart
<1> QED
  BY <1>1, ReadersLeave DEF Restart, Readers

LEMMA ReadersStart == Init => ReadersCounted
<1> SUFFICES ASSUME Init PROVE ReadersCounted
  OBVIOUS
<1>1. \A t \in Tokens : served[t] = 0
  BY DEF Init
<1>2. \A c \in Calls : call[c].pc = "idle"
  BY IdleCall DEF Init
<1>3. \A t \in Tokens : Counted(t)
  BY <1>1, ReadersFinite DEF Counted
<1> QED
  BY <1>2, <1>3 DEF ReadersCounted

LEMMA ReadersStayCounted == IInv /\ ReadersCounted /\ [Next]_vars => ReadersCounted'
<1> SUFFICES ASSUME IInv, ReadersCounted, [Next]_vars PROVE ReadersCounted'
  OBVIOUS
<1>1. CASE \E c \in Calls : Step(c)
  BY <1>1, CallCounted
<1>2. CASE Restart
  BY <1>2, RestartCounted
<1>3. CASE UNCHANGED <<used, call, served>>
  BY <1>3, ReadersUntouched
<1>4. Next => \/ \E c \in Calls : Step(c)
              \/ Restart
              \/ UNCHANGED <<used, call, served>>
  BY DEF Next, AuthenticateBegin, AuthenticateFinish, Register, DeleteCredential, Bind,
         TokenExpires, RevokeKey, UnchangedHistory
<1> QED
  BY <1>1, <1>2, <1>3, <1>4 DEF vars

\* A token can read the payload more than once (the run of TokenIsUsedOnce shows two
\* readers that both look it up before either records it), but never more often than
\* there are requests in progress at a time: nobody joins them once it is recorded.
THEOREM TokenReuseIsBounded == Spec => []ReuseBounded
<1>1. Spec => []ReadersCounted
  BY Inductive, ReadersStart, ReadersStayCounted, PTL DEF Spec
<1>2. ASSUME IInv, ReadersCounted PROVE ReuseBounded
  <2> SUFFICES ASSUME NEW t \in Tokens PROVE served[t] <= Cardinality(Calls)
    BY DEF ReuseBounded
  <2>1. served[t] \in Nat /\ Counted(t)
    BY <1>2 DEF IInv, ReadersTyped, ReadersCounted
  <2> QED
    BY <2>1, ReadersFinite DEF Counted
<1> QED
  BY <1>1, <1>2, Inductive, PTL
=============================================================================
