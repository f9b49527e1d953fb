-------------------------- MODULE KvEntriesProofs --------------------------
(***************************************************************************)
(* Theorems about KvEntries, for any number of names, devices and calls,   *)
(* any clock and any TTLs that have a longest one.                         *)
(***************************************************************************)
EXTENDS KvEntries, TLAPS

-----------------------------------------------------------------------------
(* Types *)

LEMMA NeverIsNat == Never \in Nat /\ \A t \in Ttls : Never > MaxTime + t
<1> DEFINE longest == CHOOSE m \in Ttls : \A t \in Ttls : t <= m
<1>1. longest \in Ttls /\ \A t \in Ttls : t <= longest
  BY TtlAssumption
<1>2. Never = MaxTime + 1 + longest
  BY DEF Never
<1> HIDE DEF longest
<1> QED
  BY <1>1, <1>2, TtlAssumption, TimeAssumption

LEMMA DueIsNat ==
  ASSUME now \in 0..MaxTime, NEW ttl \in Ttls \cup {0}  PROVE ExpiresAt(ttl) \in Nat
BY NeverIsNat, TtlAssumption, TimeAssumption DEF ExpiresAt

LEMMA EmptyCall == NoCall \in CallRecords
BY DEF NoCall, CallRecords

\* The statements of an entry yield an entry that has content.
Sound(e) ==
    /\ e \in Entries
    /\ IF e.there THEN e.plain \/ e.zt \/ e.sealed ELSE e = NoEntry

LEMMA NoEntryIsSound == Sound(NoEntry)
BY DEF Sound, NoEntry, Entries

LEMMA UpsertedIsSound ==
  ASSUME now \in 0..MaxTime, NEW e, Sound(e),
         NEW zt \in BOOLEAN, NEW sliding \in BOOLEAN, NEW ttl \in Ttls
  PROVE  Sound(Upserted(e, zt, ttl, sliding))
<1>1. ExpiresAt(ttl) \in Nat
  BY DueIsNat
<1> QED
  BY <1>1 DEF Sound, Upserted, Entries, NoEntry

LEMMA ImportedIsSound ==
  ASSUME now \in 0..MaxTime, NEW e, Sound(e), NEW sliding \in BOOLEAN, NEW ttl \in Ttls
  PROVE  Sound(Imported(e, ttl, sliding)) /\ Imported(e, ttl, sliding).sealed = e.sealed
<1> DEFINE due == ExpiresAt(ttl)
<1>1. due \in Nat
  BY DueIsNat
<1>2. Imported(e, ttl, sliding) =
        [e EXCEPT !.there = TRUE, !.plain = TRUE, !.ttl = ttl, !.sliding = sliding, !.due = due]
  BY DEF Imported
<1>3. e \in Entries
  BY DEF Sound
<1> HIDE DEF due
<1>4. Imported(e, ttl, sliding) =
        [there |-> TRUE, plain |-> TRUE, zt |-> e.zt, sealed |-> e.sealed,
         ttl |-> ttl, sliding |-> sliding, due |-> due]
  BY <1>2, <1>3 DEF Entries
<1> QED
  BY <1>1, <1>3, <1>4 DEF Sound, Entries

LEMMA SlideIsSound ==
  ASSUME NEW e, Sound(e), NEW due \in Nat
  PROVE  Sound(Slide(e, due)) /\ Slide(e, due).sealed = e.sealed /\ Slide(e, due).there = e.there
<1>1. CASE e.there
  <2>1. Slide(e, due) =
          [there |-> TRUE, plain |-> e.plain, zt |-> e.zt, sealed |-> e.sealed,
           ttl |-> e.ttl, sliding |-> e.sliding, due |-> due]
    BY <1>1 DEF Slide, Sound, Entries
  <2> QED
    BY <1>1, <2>1 DEF Sound, Entries, NoEntry
<1>2. CASE ~e.there
  BY <1>2 DEF Slide
<1> QED
  BY <1>1, <1>2

\* write_device_kv marks the entry, or creates it for the body alone.
SealedEntry(e) ==
    IF e.there THEN [e EXCEPT !.sealed = TRUE]
    ELSE [NoEntry EXCEPT !.there = TRUE, !.sealed = TRUE, !.due = Never]

LEMMA SealedIsSound ==
  ASSUME NEW e, Sound(e)  PROVE Sound(SealedEntry(e)) /\ SealedEntry(e).sealed
<1>1. CASE e.there
  <2>1. SealedEntry(e) =
          [there |-> TRUE, plain |-> e.plain, zt |-> e.zt, sealed |-> TRUE,
           ttl |-> e.ttl, sliding |-> e.sliding, due |-> e.due]
    BY <1>1 DEF SealedEntry, Sound, Entries
  <2> QED
    BY <2>1, <1>1 DEF Sound, Entries, NoEntry
<1>2. CASE ~e.there
  <2> DEFINE never == Never
  <2>1. SealedEntry(e) =
          [there |-> TRUE, plain |-> FALSE, zt |-> FALSE, sealed |-> TRUE,
           ttl |-> 0, sliding |-> FALSE, due |-> never]
    BY <1>2 DEF SealedEntry, NoEntry
  <2>2. never \in Nat
    BY NeverIsNat
  <2> HIDE DEF never
  <2> QED
    BY <2>1, <2>2 DEF Sound, Entries, NoEntry
<1> QED
  BY <1>1, <1>2

-----------------------------------------------------------------------------
(* The type invariant, seen one part at a time *)

EntriesSound == entry \in [Names -> Entries] /\ \A n \in Names : Sound(entry[n])
StoreTyped   == body \in [Names -> Nat] /\ wrap \in [Devices -> [Names -> Nat]] /\ versions \in Nat
CallsTyped   == call \in [Calls -> CallRecords]
RestTyped    == now \in 0..MaxTime /\ devices \subseteq Devices /\ denied \subseteq Names

LEMMA TypeParts == TypeOK <=> EntriesSound /\ StoreTyped /\ CallsTyped /\ RestTyped
BY DEF TypeOK, EntriesSound, StoreTyped, CallsTyped, RestTyped, Sound

LEMMA InitType == Init => TypeOK
<1> SUFFICES ASSUME Init PROVE TypeOK
  OBVIOUS
<1>1. NoEntry \in Entries /\ Sound(NoEntry)
  BY NoEntryIsSound DEF Sound
<1>2. EntriesSound
  BY <1>1 DEF Init, EntriesSound
<1>3. CallsTyped
  BY EmptyCall DEF Init, CallsTyped
<1>4. StoreTyped /\ RestTyped
  BY TimeAssumption DEF Init, StoreTyped, RestTyped
<1> QED
  BY <1>2, <1>3, <1>4, TypeParts

-----------------------------------------------------------------------------
(* The inductive invariant *)

\* A call at a statement knows the name and the device the statement is about.
Named(q) ==
    /\ q.pc \in {"get", "slide", "body", "wrap"} => q.name \in Names
    /\ q.pc \in {"body", "wrap"} => q.dev \in Devices

\* An import that writes has split what it found allowed into written and not.
Checked(q) ==
    /\ q.pc # "write" => q.done = {}
    /\ q.pc = "write" => q.done \cup q.todo = q.passed

\* The body a fetch has read is the stored one or an older one, and a wrap that
\* was read opens that body or a newer one.
Recent(q) ==
    /\ q.pc = "wrap" => q.seen <= body[q.name]
    /\ q.pc = "fetched" => q.opens >= q.seen

CallsInOrder == \A c \in Calls : Named(call[c]) /\ Checked(call[c]) /\ Recent(call[c])

\* Versions are handed out in order: no body is ahead of the counter.
BodiesInOrder == \A n \in Names : body[n] <= versions

IInv == TypeOK /\ WrapsOpenTheBody /\ BodiesInOrder /\ CallsInOrder

LEMMA InitInv == Init => IInv
<1> SUFFICES ASSUME Init PROVE IInv
  OBVIOUS
<1>1. WrapsOpenTheBody /\ BodiesInOrder
  BY DEF Init, WrapsOpenTheBody, BodiesInOrder
<1>2. CallsInOrder
  BY DEF Init, CallsInOrder, NoCall, Named, Checked, Recent
<1> QED
  BY <1>1, <1>2, InitType DEF IInv

-----------------------------------------------------------------------------
(* The steps of a call *)

\* A record that a call may move to.
Fit(q) == q \in CallRecords /\ Named(q) /\ Checked(q) /\ Recent(q)

LEMMA EmptyCallFits == Fit(NoCall)
BY EmptyCall DEF Fit, NoCall, Named, Checked, Recent

LEMMA CallsFit == IInv => CallsTyped /\ \A c \in Calls : Fit(call[c])
BY TypeParts DEF IInv, CallsInOrder, CallsTyped, Fit

\* While bodies only grow, a call that does not move still fits, and so does
\* one that moves to a record that fits.
LEMMA CallMoves ==
  ASSUME IInv, NEW c \in Calls, body' = body,
         \E q : Fit(q) /\ call' = [call EXCEPT ![c] = q]
  PROVE  CallsTyped' /\ CallsInOrder'
<1>1. PICK q : Fit(q) /\ call' = [call EXCEPT ![c] = q]
  OBVIOUS
<1>2. CallsTyped'
  BY <1>1, CallsFit DEF CallsTyped, Fit
<1>3. ASSUME NEW k \in Calls PROVE (Named(call[k]) /\ Checked(call[k]) /\ Recent(call[k]))'
  <2>1. Fit(call'[k])
    BY <1>1, CallsFit DEF CallsTyped
  <2> QED
    BY <2>1 DEF Fit, Named, Checked, Recent
<1> QED
  BY <1>2, <1>3 DEF CallsInOrder

LEMMA Returns ==
  ASSUME IInv, NEW c \in Calls, Return(c), body' = body
  PROVE  CallsTyped' /\ CallsInOrder'
BY EmptyCallFits, CallMoves DEF Return

\* A call that begins or reads moves to a record that fits.
LEMMA CallSteps ==
  ASSUME IInv, NEW c \in Calls, Step(c)  PROVE CallsTyped' /\ CallsInOrder'
<1> DEFINE q == call[c]
<1>0. Fit(q) /\ q \in CallRecords
  BY CallsFit DEF Fit
<1>a. EntriesSound /\ StoreTyped /\ RestTyped
  BY TypeParts DEF IInv
<1>1. CASE BeginImport(c)
  <2>1. PICK file \in SUBSET Names \ {{}} :
          call' = [call EXCEPT ![c] = [NoCall EXCEPT !.pc = "check", !.todo = file]]
    BY <1>1 DEF BeginImport
  <2>2. Fit([NoCall EXCEPT !.pc = "check", !.todo = file])
    BY DEF NoCall, CallRecords, Fit, Named, Checked, Recent
  <2> QED
    BY <1>1, <2>1, <2>2, CallMoves DEF BeginImport, UnchangedStore
<1>2. CASE CheckName(c)
  <2>0. body' = body /\ q.pc = "check" /\ q.done = {}
    BY <1>0, <1>2 DEF CheckName, UnchangedStore, Fit, Checked
  <2>1. PICK n \in q.todo :
          IF n \in denied THEN Return(c)
          ELSE LET rest == q.todo \ {n}
                   ok   == q.passed \cup {n}
               IN  call' = [call EXCEPT ![c] =
                      IF rest = {}
                      THEN [q EXCEPT !.pc = "write", !.passed = ok, !.todo = ok \cup rest]
                      ELSE [q EXCEPT !.passed = ok, !.todo = rest]]
    BY <1>2 DEF CheckName, AllChecked
  <2> DEFINE ok == q.passed \cup {n}
             rest == q.todo \ {n}
  <2>2. ok \in SUBSET Names /\ rest \in SUBSET Names
    BY <1>0 DEF CallRecords
  <2>3. \/ Return(c)
        \/ rest = {} /\ call' = [call EXCEPT ![c] =
                           [q EXCEPT !.pc = "write", !.passed = ok, !.todo = ok \cup rest]]
        \/ call' = [call EXCEPT ![c] = [q EXCEPT !.passed = ok, !.todo = rest]]
    BY <2>1
  <2> HIDE DEF ok, rest
  <2>4. rest = {} => Fit([q EXCEPT !.pc = "write", !.passed = ok, !.todo = ok \cup rest])
    BY <1>0, <2>0, <2>2 DEF CallRecords, Fit, Named, Checked, Recent
  <2>5. Fit([q EXCEPT !.passed = ok, !.todo = rest])
    BY <1>0, <2>0, <2>2 DEF CallRecords, Fit, Named, Checked, Recent
  <2> HIDE DEF q
  <2> QED
    BY <2>0, <2>3, <2>4, <2>5, CallMoves, Returns
<1>3. CASE WriteName(c)
  <2>0. body' = body /\ q.pc = "write"
    BY <1>3 DEF WriteName, UnchangedStore
  <2>1. PICK n \in q.todo :
          \/ call' = [call EXCEPT ![c] = NoCall]
          \/ LET rest    == q.todo \ {n}
                 written == q.done \cup {n}
             IN  call' = [call EXCEPT ![c] = [q EXCEPT !.todo = rest, !.done = written]]
    BY <1>3 DEF WriteName
  <2> DEFINE rest == q.todo \ {n}
             written == q.done \cup {n}
  <2>2. rest \in SUBSET Names /\ written \in SUBSET Names /\ written \cup rest = q.done \cup q.todo
    BY <1>0 DEF CallRecords
  <2>3. \/ call' = [call EXCEPT ![c] = NoCall]
        \/ call' = [call EXCEPT ![c] = [q EXCEPT !.todo = rest, !.done = written]]
    BY <2>1
  <2> HIDE DEF rest, written
  <2>4. Fit([q EXCEPT !.todo = rest, !.done = written])
    BY <1>0, <2>0, <2>2 DEF CallRecords, Fit, Named, Checked, Recent
  <2> HIDE DEF q
  <2> QED
    BY <2>0, <2>3, <2>4, EmptyCallFits, CallMoves
<1>4. CASE BeginGet(c)
  <2>1. PICK n \in Names :
          call' = [call EXCEPT ![c] = [NoCall EXCEPT !.pc = "get", !.name = n, !.dev = None]]
    BY <1>4 DEF BeginGet, Begin
  <2>2. Fit([NoCall EXCEPT !.pc = "get", !.name = n, !.dev = None])
    BY DEF NoCall, CallRecords, Fit, Named, Checked, Recent
  <2> QED
    BY <1>4, <2>1, <2>2, CallMoves DEF BeginGet, UnchangedStore
<1>5. CASE ReadEntry(c)
  <2> DEFINE t == entry[q.name].ttl
  <2>0. body' = body /\ q.pc = "get" /\ q.name \in Names
    BY <1>0, <1>5 DEF ReadEntry, UnchangedStore, Fit, Named
  <2>1. \/ Return(c)
        \/ call' = [call EXCEPT ![c] = [q EXCEPT !.pc = "slide", !.ttl = t]]
    BY <1>5 DEF ReadEntry
  <2>2. t \in Ttls \cup {0}
    BY <1>a, <2>0 DEF EntriesSound, Entries
  <2> HIDE DEF t
  <2>3. Fit([q EXCEPT !.pc = "slide", !.ttl = t])
    BY <1>0, <2>0, <2>2 DEF CallRecords, Fit, Named, Checked, Recent
  <2> HIDE DEF q
  <2> QED
    BY <2>0, <2>1, <2>3, CallMoves, Returns
<1>6. CASE SlideEntry(c) \/ EndFetch(c) \/ Abort(c)
  BY <1>6, Returns DEF SlideEntry, EndFetch, Abort, UnchangedStore
<1>7. CASE BeginFetch(c)
  <2>1. PICK n \in Names, d \in Devices :
          call' = [call EXCEPT ![c] = [NoCall EXCEPT !.pc = "body", !.name = n, !.dev = d]]
    BY <1>7, <1>a DEF BeginFetch, Begin, RestTyped
  <2>2. Fit([NoCall EXCEPT !.pc = "body", !.name = n, !.dev = d])
    BY DEF NoCall, CallRecords, Fit, Named, Checked, Recent
  <2> QED
    BY <1>7, <2>1, <2>2, CallMoves DEF BeginFetch, UnchangedStore
<1>8. CASE ReadBody(c)
  <2> DEFINE v == body[q.name]
  <2>0. body' = body /\ q.pc = "body" /\ q.name \in Names
    BY <1>0, <1>8 DEF ReadBody, UnchangedStore, Fit, Named
  <2>1. \/ Return(c)
        \/ call' = [call EXCEPT ![c] = [q EXCEPT !.pc = "wrap", !.seen = v]]
    BY <1>8 DEF ReadBody
  <2>2. v \in Nat /\ v <= body[q.name]
    BY <1>a, <2>0 DEF StoreTyped
  <2> HIDE DEF v
  <2>3. Fit([q EXCEPT !.pc = "wrap", !.seen = v])
    <3> DEFINE p == [q EXCEPT !.pc = "wrap", !.seen = v]
    <3>1. p \in CallRecords
      BY <1>0, <2>2 DEF CallRecords
    <3>2. /\ p.pc = "wrap" /\ p.seen = v /\ p.name = q.name
          /\ p.dev = q.dev /\ p.done = q.done
      BY <1>0 DEF CallRecords
    <3> HIDE DEF p
    <3>3. Named(p) /\ Checked(p) /\ Recent(p)
      BY <1>0, <2>0, <2>2, <3>2 DEF Fit, Named, Checked, Recent
    <3> QED
      BY <3>1, <3>3 DEF Fit, p
  <2> HIDE DEF q
  <2> QED
    BY <2>0, <2>1, <2>3, CallMoves, Returns
<1>9. CASE ReadWrap(c)
  <2> DEFINE v == wrap[q.dev][q.name]
  <2>0. body' = body /\ q.pc = "wrap" /\ q.name \in Names /\ q.dev \in Devices
    BY <1>0, <1>9 DEF ReadWrap, UnchangedStore, Fit, Named
  <2>1. \/ Return(c)
        \/ v # 0 /\ call' = [call EXCEPT ![c] = [q EXCEPT !.pc = "fetched", !.opens = v]]
    BY <1>9 DEF ReadWrap
  <2>2. v \in Nat /\ (v # 0 => v = body[q.name])
    BY <1>a, <2>0 DEF StoreTyped, IInv, WrapsOpenTheBody
  <2>3. v # 0 => v >= q.seen
    BY <1>0, <2>0, <2>2 DEF Fit, Recent
  <2> HIDE DEF v
  <2>4. v # 0 => Fit([q EXCEPT !.pc = "fetched", !.opens = v])
    BY <1>0, <2>0, <2>2, <2>3 DEF CallRecords, Fit, Named, Checked, Recent
  <2> HIDE DEF q
  <2> QED
    BY <2>0, <2>1, <2>4, CallMoves, Returns
<1> QED
  BY <1>1, <1>2, <1>3, <1>4, <1>5, <1>6, <1>7, <1>8, <1>9 DEF Step

-----------------------------------------------------------------------------
(* The entries *)

\* What any step does to an entry: nothing, a write, a slide, a sealing, or its
\* removal.
EntryStep(old, new) ==
    \/ new = old
    \/ new = NoEntry
    \/ \E zt, sliding \in BOOLEAN, ttl \in Ttls : new = Upserted(old, zt, ttl, sliding)
    \/ \E sliding \in BOOLEAN, ttl \in Ttls : new = Imported(old, ttl, sliding)
    \/ \E ttl \in Ttls \cup {0} : new = Slide(old, ExpiresAt(ttl))
    \/ new = SealedEntry(old)

LEMMA EntrySteps ==
  ASSUME IInv, [Next]_vars
  PROVE  /\ DOMAIN entry' = Names /\ entry' = [n \in Names |-> entry'[n]]
         /\ \A n \in Names : EntryStep(entry[n], entry'[n])
<1>0. entry \in [Names -> Entries]
  BY TypeParts DEF IInv, EntriesSound
<1>1. CASE entry' = entry
  BY <1>0, <1>1 DEF EntryStep
<1>2. ASSUME NEW n \in Names, NEW e, EntryStep(entry[n], e), entry' = [entry EXCEPT ![n] = e]
      PROVE  /\ DOMAIN entry' = Names /\ entry' = [m \in Names |-> entry'[m]]
             /\ \A m \in Names : EntryStep(entry[m], entry'[m])
  <2>1. \A m \in Names : entry'[m] = entry[m] \/ (m = n /\ entry'[m] = e)
    BY <1>0, <1>2
  <2>2. \A m \in Names : EntryStep(entry[m], entry[m])
    BY DEF EntryStep
  <2> QED
    BY <1>0, <1>2, <2>1, <2>2
<1>3. ASSUME NEW n \in Names, Upsert(n) \/ Delete(n) \/ WriteDeviceKv(n)
      PROVE  \E e : EntryStep(entry[n], e) /\ entry' = [entry EXCEPT ![n] = e]
  <2>1. CASE Upsert(n)
    <3>1. PICK zt \in BOOLEAN, sliding \in BOOLEAN, ttl \in Ttls :
            entry' = [entry EXCEPT ![n] = Upserted(entry[n], zt, ttl, sliding)]
      BY <2>1 DEF Upsert
    <3> QED
      BY <3>1 DEF EntryStep
  <2>2. CASE Delete(n)
    BY <2>2 DEF Delete, EntryStep
  <2>3. CASE WriteDeviceKv(n)
    <3>1. entry' = [entry EXCEPT ![n] = SealedEntry(entry[n])]
      BY <2>3 DEF WriteDeviceKv, SealedEntry
    <3> QED
      BY <3>1 DEF EntryStep
  <2> QED
    BY <1>3, <2>1, <2>2, <2>3
<1>4. ASSUME NEW c \in Calls, WriteName(c)
      PROVE  \E n \in Names : \E e : EntryStep(entry[n], e) /\ entry' = [entry EXCEPT ![n] = e]
  <2>1. PICK n \in call[c].todo, ttl \in Ttls, sliding \in BOOLEAN :
          entry' = [entry EXCEPT ![n] = Imported(entry[n], ttl, sliding)]
    BY <1>4 DEF WriteName
  <2>2. n \in Names
    BY CallsFit DEF Fit, CallRecords
  <2> QED
    BY <2>1, <2>2 DEF EntryStep
<1>5. ASSUME NEW c \in Calls, SlideEntry(c)
      PROVE  \E n \in Names : \E e : EntryStep(entry[n], e) /\ entry' = [entry EXCEPT ![n] = e]
  <2>1. call[c].name \in Names /\ call[c].ttl \in Ttls \cup {0}
    BY <1>5, CallsFit DEF SlideEntry, Fit, Named, CallRecords
  <2>2. entry' = [entry EXCEPT ![call[c].name] = Slide(entry[call[c].name], ExpiresAt(call[c].ttl))]
    BY <1>5 DEF SlideEntry
  <2> QED
    BY <2>1, <2>2 DEF EntryStep
<1>6. CASE CleanUp
  BY <1>0, <1>6 DEF CleanUp, EntryStep
<1>7. CASE \/ ChangePolicy \/ Tick \/ (\E d \in Devices : DeleteDevice(d)) \/ UNCHANGED vars
  BY <1>1, <1>7 DEF ChangePolicy, Tick, DeleteDevice, vars
<1>8. ASSUME NEW c \in Calls, Step(c), ~WriteName(c), ~SlideEntry(c)
      PROVE  entry' = entry
  BY <1>8 DEF Step, BeginImport, CheckName, BeginGet, ReadEntry, BeginFetch, ReadBody, ReadWrap,
              EndFetch, Abort
<1> QED
  BY <1>1, <1>2, <1>3, <1>4, <1>5, <1>6, <1>7, <1>8 DEF Next

LEMMA StepsAreSound ==
  ASSUME now \in 0..MaxTime, NEW old, Sound(old), NEW new, EntryStep(old, new)
  PROVE  Sound(new) /\ (old.sealed => new.sealed \/ ~new.there)
<1>1. CASE new = old
  BY <1>1
<1>2. CASE new = NoEntry
  BY <1>2, NoEntryIsSound DEF NoEntry
<1>3. ASSUME NEW zt \in BOOLEAN, NEW sliding \in BOOLEAN, NEW ttl \in Ttls,
             new = Upserted(old, zt, ttl, sliding)
      PROVE  Sound(new) /\ (old.sealed => new.sealed)
  BY <1>3, UpsertedIsSound DEF Upserted
<1>4. ASSUME NEW sliding \in BOOLEAN, NEW ttl \in Ttls, new = Imported(old, ttl, sliding)
      PROVE  Sound(new) /\ (old.sealed => new.sealed)
  BY <1>4, ImportedIsSound
<1>5. ASSUME NEW ttl \in Ttls \cup {0}, new = Slide(old, ExpiresAt(ttl))
      PROVE  Sound(new) /\ (old.sealed => new.sealed)
  BY <1>5, DueIsNat, SlideIsSound
<1>6. CASE new = SealedEntry(old)
  BY <1>6, SealedIsSound
<1> QED
  BY <1>1, <1>2, <1>3, <1>4, <1>5, <1>6 DEF EntryStep

LEMMA EntriesStaySound == ASSUME IInv, [Next]_vars PROVE EntriesSound'
<1>1. ASSUME NEW n \in Names PROVE Sound(entry'[n])
  BY EntrySteps, StepsAreSound, TypeParts DEF IInv, EntriesSound, RestTyped
<1>2. entry' = [n \in Names |-> entry'[n]]
  BY EntrySteps
<1>3. entry' \in [Names -> Entries]
  BY <1>1, <1>2 DEF Sound
<1> QED
  BY <1>1, <1>3 DEF EntriesSound, Sound

-----------------------------------------------------------------------------
(* Bodies, wraps and the rest *)

\* The tables of device-encrypted values: one transaction replaces them for a
\* name, a device takes its wraps along, and nothing else writes them.
StoreInv == StoreTyped /\ WrapsOpenTheBody /\ BodiesInOrder

LEMMA UntouchedStore ==
  ASSUME StoreInv, UNCHANGED <<body, wrap, devices, versions>>  PROVE StoreInv'
BY DEF StoreInv, StoreTyped, WrapsOpenTheBody, BodiesInOrder

LEMMA Sealing ==
  ASSUME StoreInv, RestTyped, NEW n \in Names, WriteDeviceKv(n)
  PROVE  StoreInv' /\ \A m \in Names : body'[m] >= body[m]
<1>1. PICK to \in SUBSET devices \ {{}} :
        wrap' = [d \in Devices |-> [wrap[d] EXCEPT ![n] = Replaced(@, d, to, versions + 1)]]
  BY DEF WriteDeviceKv
<1>2. versions' = versions + 1 /\ body' = [body EXCEPT ![n] = versions + 1] /\ devices' = devices
  BY DEF WriteDeviceKv
<1>3. /\ body \in [Names -> Nat] /\ versions \in Nat /\ wrap \in [Devices -> [Names -> Nat]]
      /\ \A m \in Names : body[m] <= versions
  BY DEF StoreInv, StoreTyped, BodiesInOrder
<1>4. \A m \in Names : body'[m] = IF m = n THEN versions + 1 ELSE body[m]
  BY <1>2, <1>3
<1>5. \A d \in Devices, m \in Names :
         wrap'[d][m] = IF m = n THEN IF d \in to THEN versions + 1 ELSE 0 ELSE wrap[d][m]
  BY <1>1, <1>3 DEF Replaced
<1>6. wrap' \in [Devices -> [Names -> Nat]]
  <2>1. ASSUME NEW d \in Devices
        PROVE  [wrap[d] EXCEPT ![n] = Replaced(@, d, to, versions + 1)] \in [Names -> Nat]
    BY <1>3 DEF Replaced
  <2> QED
    BY <1>1, <2>1
<1>7. WrapsOpenTheBody'
  BY <1>2, <1>4, <1>5 DEF StoreInv, WrapsOpenTheBody
<1>8. BodiesInOrder' /\ \A m \in Names : body'[m] >= body[m]
  BY <1>2, <1>3, <1>4 DEF BodiesInOrder
<1>9. body' \in [Names -> Nat] /\ versions' \in Nat
  BY <1>2, <1>3
<1> QED
  BY <1>6, <1>7, <1>8, <1>9 DEF StoreInv, StoreTyped

LEMMA Leaving ==
  ASSUME StoreInv, NEW d \in Devices, DeleteDevice(d)  PROVE StoreInv'
<1>1. /\ devices' = devices \ {d} /\ body' = body /\ versions' = versions
      /\ wrap' = [wrap EXCEPT ![d] = [n \in Names |-> 0]]
  BY DEF DeleteDevice
<1>2. wrap \in [Devices -> [Names -> Nat]]
  BY DEF StoreInv, StoreTyped
<1>3. \A e \in Devices, n \in Names : wrap'[e][n] = IF e = d THEN 0 ELSE wrap[e][n]
  BY <1>1, <1>2
<1>4. WrapsOpenTheBody'
  BY <1>1, <1>3 DEF StoreInv, WrapsOpenTheBody
<1> QED
  BY <1>1, <1>2, <1>4 DEF StoreInv, StoreTyped, BodiesInOrder

\* A call that does not move keeps its place while bodies only grow.
LEMMA CallsWait ==
  ASSUME IInv, call' = call, \A m \in Names : body'[m] >= body[m], body' \in [Names -> Nat]
  PROVE  CallsTyped' /\ CallsInOrder'
<1>1. CallsTyped'
  BY CallsFit DEF CallsTyped
<1>2. ASSUME NEW c \in Calls PROVE (Named(call[c]) /\ Checked(call[c]) /\ Recent(call[c]))'
  <2> DEFINE q == call[c]
  <2>1. Fit(q) /\ q.seen \in Nat /\ call'[c] = q
    BY CallsFit DEF Fit, CallRecords
  <2>2. q.pc = "wrap" => q.seen <= body[q.name] /\ q.name \in Names
    BY <2>1 DEF Fit, Named, Recent
  <2>3. body \in [Names -> Nat]
    BY TypeParts DEF IInv, StoreTyped
  <2> HIDE DEF q
  <2>4. q.pc = "wrap" => q.seen <= body'[q.name]
    BY <2>1, <2>2, <2>3
  <2> QED
    BY <2>1, <2>4 DEF Fit, Named, Checked, Recent
<1> QED
  BY <1>1, <1>2 DEF CallsInOrder

LEMMA CallsStayInOrder ==
  ASSUME IInv, [Next]_vars  PROVE StoreInv' /\ CallsTyped' /\ CallsInOrder' /\ RestTyped'
<1>0. StoreInv /\ RestTyped /\ body \in [Names -> Nat]
  BY TypeParts DEF IInv, StoreInv, StoreTyped
<1>1. ASSUME NEW c \in Calls, Step(c)
      PROVE  StoreInv' /\ CallsTyped' /\ CallsInOrder' /\ RestTyped'
  <2>1. UNCHANGED <<now, devices, denied>> /\ UNCHANGED <<body, wrap, devices, versions>>
    BY <1>1 DEF Step, BeginImport, CheckName, WriteName, BeginGet, ReadEntry, SlideEntry,
                BeginFetch, ReadBody, ReadWrap, EndFetch, Abort, UnchangedStore
  <2>2. RestTyped'
    BY <1>0, <2>1 DEF RestTyped
  <2> QED
    BY <1>0, <1>1, <2>1, <2>2, CallSteps, UntouchedStore
<1>2. ASSUME NEW n \in Names, WriteDeviceKv(n)
      PROVE  StoreInv' /\ CallsTyped' /\ CallsInOrder' /\ RestTyped'
  <2>1. StoreInv' /\ \A m \in Names : body'[m] >= body[m]
    BY <1>0, <1>2, Sealing
  <2>2. call' = call /\ UNCHANGED <<now, devices, denied>>
    BY <1>2 DEF WriteDeviceKv
  <2>3. CallsTyped' /\ CallsInOrder'
    BY <2>1, <2>2, CallsWait DEF StoreInv, StoreTyped
  <2> QED
    BY <1>0, <2>1, <2>2, <2>3 DEF RestTyped
<1>3. ASSUME NEW d \in Devices, DeleteDevice(d)
      PROVE  StoreInv' /\ CallsTyped' /\ CallsInOrder' /\ RestTyped'
  <2>1. call' = call /\ body' = body /\ UNCHANGED <<now, denied>> /\ devices' = devices \ {d}
    BY <1>3 DEF DeleteDevice
  <2>2. CallsTyped' /\ CallsInOrder'
    BY <1>0, <2>1, CallsWait
  <2> QED
    BY <1>0, <1>3, <2>1, <2>2, Leaving DEF RestTyped
<1>4. CASE \/ \E n \in Names : Upsert(n) \/ Delete(n)
           \/ CleanUp \/ ChangePolicy \/ Tick \/ UNCHANGED vars
  <2>1. call' = call /\ UNCHANGED <<body, wrap, devices, versions>>
    BY <1>4 DEF Upsert, Delete, CleanUp, ChangePolicy, Tick, vars, UnchangedStore
  <2>2. RestTyped'
    BY <1>0, <1>4, TimeAssumption
       DEF RestTyped, Upsert, Delete, CleanUp, ChangePolicy, Tick, vars, UnchangedStore
  <2>3. CallsTyped' /\ CallsInOrder'
    BY <1>0, <2>1, CallsWait
  <2> QED
    BY <1>0, <2>1, <2>2, <2>3, UntouchedStore
<1> QED
  BY <1>1, <1>2, <1>3, <1>4 DEF Next

LEMMA Inductive == IInv /\ [Next]_vars => IInv'
<1> SUFFICES ASSUME IInv, [Next]_vars PROVE IInv'
  OBVIOUS
<1>1. (EntriesSound /\ StoreInv /\ CallsTyped /\ CallsInOrder /\ RestTyped)'
  BY EntriesStaySound, CallsStayInOrder
<1>2. TypeOK'
  BY <1>1 DEF TypeOK, EntriesSound, StoreInv, StoreTyped, CallsTyped, RestTyped, Sound
<1> QED
  BY <1>1, <1>2 DEF IInv, StoreInv

LEMMA Invariance == Spec => []IInv
BY InitInv, Inductive, PTL DEF Spec

-----------------------------------------------------------------------------
\* Every value keeps its type, and an entry has content exactly while it is
\* there: no late slide or import leaves half an entry behind.
THEOREM TypeCorrect == Spec => []TypeOK
<1>1. IInv => TypeOK
  BY DEF IInv
<1> QED
  BY <1>1, Invariance, PTL

\* Re-encryption leaves no wrap of an older key, deletion none of the device.
THEOREM WrapsFit == Spec => []WrapsOpenTheBody
<1>1. IInv => WrapsOpenTheBody
  BY DEF IInv
<1> QED
  BY <1>1, Invariance, PTL

\* The two reads of get_device_kv can only be torn towards the newer key.
THEOREM FetchesAreRecent == Spec => []FetchedWrapIsNoOlder
<1>1. IInv => FetchedWrapIsNoOlder
  BY DEF IInv, CallsInOrder, Recent, FetchedWrapIsNoOlder
<1> QED
  BY <1>1, Invariance, PTL

\* An import has checked every name of its file before it writes the first.
THEOREM ImportsCheckFirst == Spec => []ImportChecksTheWholeFile
<1>1. IInv => ImportChecksTheWholeFile
  BY DEF IInv, CallsInOrder, Checked, ImportChecksTheWholeFile
<1> QED
  BY <1>1, Invariance, PTL

\* No write by any call unseals an entry; only its removal does.
THEOREM SealsHold == Spec => SealedStaysSealed
<1>1. IInv /\ [Next]_vars
        => \A n \in Names : entry[n].sealed => entry'[n].sealed \/ ~entry'[n].there
  BY EntrySteps, StepsAreSound, TypeParts DEF IInv, EntriesSound, RestTyped
<1> QED
  BY <1>1, Invariance, PTL DEF Spec, SealedStaysSealed
=============================================================================
