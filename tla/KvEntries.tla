----------------------------- MODULE KvEntries -----------------------------
(***************************************************************************)
(* The entries of one owner's key-value store: src/src/kv/handlers.rs, the *)
(* admin writes and the import of src/src/admin/handlers.rs, the device-   *)
(* encrypted bodies with their per-device wraps (write_device_kv,          *)
(* get_device_kv of src/src/devices/handlers.rs), and the cleanup.         *)
(*                                                                         *)
(* A value is present or not; what is told apart is who may see it: a      *)
(* plain value, a zero-trust payload, a device-encrypted body.  Calls      *)
(* interleave between their statements.                                    *)
(* An operator XSlip is X with one plausible slip, used by no action.      *)
(***************************************************************************)
EXTENDS Naturals, FiniteSets

CONSTANTS
    Names,       \* names of entries
    Devices,     \* devices of the owner, recipients of wraps
    Calls,       \* slots for concurrent calls
    Ttls,        \* ttl_hours a write may ask for; 0 stands for none
    MaxTime,     \* bound on the clock
    MaxVersion,  \* bound on the writes of device-encrypted bodies
    Ops,         \* the operations called in an instance
    None         \* no name, no device

ASSUME TtlAssumption  == Ttls \subseteq Nat /\ \E m \in Ttls : \A t \in Ttls : t <= m
ASSUME TimeAssumption == MaxTime \in Nat /\ MaxVersion \in Nat
ASSUME NoneAssumption == None \notin Names \cup Devices

VARIABLES
    now,        \* the clock of datetime('now')
    entry,      \* kv_entries
    body,       \* device_kv_bodies: the version of the last write, 0 for no row
    wrap,       \* device_kv_recipients: the version a wrap opens, 0 for no row
    devices,    \* devices of the owner still registered
    denied,     \* names the policy of the importing device denies
    call,       \* running calls
    versions    \* versions handed out to bodies so far

vars == <<now, entry, body, wrap, devices, denied, call, versions>>

Never == MaxTime + 1 + CHOOSE m \in Ttls : \A t \in Ttls : t <= m

Entries == [there : BOOLEAN, plain : BOOLEAN, zt : BOOLEAN, sealed : BOOLEAN,
            ttl : Ttls \cup {0}, sliding : BOOLEAN, due : Nat]
NoEntry == [there |-> FALSE, plain |-> FALSE, zt |-> FALSE, sealed |-> FALSE,
            ttl |-> 0, sliding |-> FALSE, due |-> 0]

\* ttl: what get_entry read; seen: the body version get_device_kv read;
\* todo, passed, done: the names an import has yet to handle, found allowed and wrote
CallRecords ==
    [pc : {"idle", "get", "slide", "check", "write", "body", "wrap", "fetched"},
     name : Names \cup {None}, dev : Devices \cup {None}, ttl : Ttls \cup {0}, seen : Nat,
     opens : Nat, todo : SUBSET Names, passed : SUBSET Names, done : SUBSET Names]
NoCall == [pc |-> "idle", name |-> None, dev |-> None, ttl |-> 0, seen |-> 0, opens |-> 0,
           todo |-> {}, passed |-> {}, done |-> {}]

Init ==
    /\ now = 0
    /\ entry = [n \in Names |-> NoEntry]
    /\ body = [n \in Names |-> 0]
    /\ wrap = [d \in Devices |-> [n \in Names |-> 0]]
    /\ devices = Devices
    /\ denied \in SUBSET Names
    /\ call = [c \in Calls |-> NoCall]
    /\ versions = 0

Live(n) == entry[n].there /\ entry[n].due > now

\* compute_expires_at
ExpiresAt(ttl) == IF ttl = 0 THEN Never ELSE now + ttl

Goto(c, label) == call' = [call EXCEPT ![c] = [@ EXCEPT !.pc = label]]
Return(c)      == call' = [call EXCEPT ![c] = NoCall]
Begin(c, op, label, n, d) ==
    /\ op \in Ops
    /\ call[c].pc = "idle"
    /\ call' = [call EXCEPT ![c] = [NoCall EXCEPT !.pc = label, !.name = n, !.dev = d]]
UnchangedStore == UNCHANGED <<body, wrap, versions>>

(***************************************************************************)
(* Writes                                                                  *)
(***************************************************************************)
\* upsert_entry and admin_write_kv: one statement that keeps device_encrypted.
\* Clients send no plain value with a zero-trust payload.
Upserted(e, zt, ttl, sliding) ==
    [there |-> TRUE, plain |-> ~zt, zt |-> zt, sealed |-> e.sealed, ttl |-> ttl,
     sliding |-> sliding, due |-> ExpiresAt(ttl)]

Upsert(n) ==
    /\ "upsert" \in Ops
    /\ \E zt, sliding \in BOOLEAN, ttl \in Ttls :
          entry' = [entry EXCEPT ![n] = Upserted(@, zt, ttl, sliding)]
    /\ UNCHANGED <<now, devices, denied, call>> /\ UnchangedStore

\* delete_entry and admin_delete_kv: the body and its wraps stay.
Delete(n) ==
    /\ "delete" \in Ops
    /\ entry' = [entry EXCEPT ![n] = NoEntry]
    /\ UNCHANGED <<now, devices, denied, call>> /\ UnchangedStore

\* write_device_kv: one transaction replaces the body and all the wraps of the
\* name and marks the entry.
ReplacedSlip(old, d, to, v) == IF d \in to THEN v ELSE old
Replaced(old, d, to, v)     == IF d \in to THEN v ELSE 0

WriteDeviceKv(n) ==
    /\ "seal" \in Ops
    /\ versions < MaxVersion
    /\ versions' = versions + 1
    /\ \E to \in SUBSET devices \ {{}} :
          wrap' = [d \in Devices |->
                     [wrap[d] EXCEPT ![n] = Replaced(@, d, to, versions + 1)]]
    /\ body' = [body EXCEPT ![n] = versions + 1]
    /\ entry' = [entry EXCEPT ![n] =
                   IF @.there THEN [@ EXCEPT !.sealed = TRUE]
                   ELSE [NoEntry EXCEPT !.there = TRUE, !.sealed = TRUE, !.due = Never]]
    /\ UNCHANGED <<now, devices, denied, call>>

(***************************************************************************)
(* admin_import_kv by a device: every name is checked, then every name is  *)
(* written, one statement each                                             *)
(***************************************************************************)
BeginImport(c) ==
    /\ "import" \in Ops
    /\ call[c].pc = "idle"
    /\ \E file \in SUBSET Names \ {{}} :
          call' = [call EXCEPT ![c] = [NoCall EXCEPT !.pc = "check", !.todo = file]]
    /\ UNCHANGED <<now, entry, devices, denied>> /\ UnchangedStore

AllCheckedSlip(rest) == TRUE
AllChecked(rest)     == rest = {}

\* authorize_key: the first denied name refuses the whole file.
CheckName(c) ==
    /\ call[c].pc = "check"
    /\ \E n \in call[c].todo :
         IF n \in denied THEN Return(c)
         ELSE LET rest == call[c].todo \ {n}
                  ok   == call[c].passed \cup {n}
              IN  call' = [call EXCEPT ![c] =
                     IF AllChecked(rest)
                     THEN [@ EXCEPT !.pc = "write", !.passed = ok, !.todo = ok \cup rest]
                     ELSE [@ EXCEPT !.passed = ok, !.todo = rest]]
    /\ UNCHANGED <<now, entry, devices, denied>> /\ UnchangedStore

\* The import's UPSERT leaves the zero-trust columns and device_encrypted alone.
\* Its options are those of the file; here each name picks its own.
Imported(e, ttl, sliding) ==
    [e EXCEPT !.there = TRUE, !.plain = TRUE, !.ttl = ttl, !.sliding = sliding,
              !.due = ExpiresAt(ttl)]

WriteName(c) ==
    /\ call[c].pc = "write"
    /\ \E n \in call[c].todo, ttl \in Ttls, sliding \in BOOLEAN :
         LET rest    == call[c].todo \ {n}
             written == call[c].done \cup {n}
         IN  /\ entry' = [entry EXCEPT ![n] = Imported(@, ttl, sliding)]
             /\ call' = [call EXCEPT ![c] =
                           IF rest = {} THEN NoCall
                           ELSE [@ EXCEPT !.todo = rest, !.done = written]]
    /\ UNCHANGED <<now, devices, denied>> /\ UnchangedStore

(***************************************************************************)
(* get_entry with a credential (without one, of an open entry, it reads)   *)
(***************************************************************************)
BeginGet(c) ==
    /\ \E n \in Names : Begin(c, "get", "get", n, None)
    /\ UNCHANGED <<now, entry, devices, denied>> /\ UnchangedStore

ServedPlain(e) == ~e.sealed /\ ~e.zt

\* A sliding entry with a TTL is pushed out in a second
\* statement, with the TTL read in the first.
ReadEntry(c) ==
    LET e == entry[call[c].name]
    IN  /\ call[c].pc = "get"
        /\ IF Live(call[c].name) /\ ServedPlain(e) /\ e.sliding /\ e.ttl # 0
           THEN call' = [call EXCEPT ![c] = [@ EXCEPT !.pc = "slide", !.ttl = e.ttl]]
           ELSE Return(c)
        /\ UNCHANGED <<now, entry, devices, denied>> /\ UnchangedStore

\* The UPDATE by key and owner.  It creates no row.
SlideSlip(e, due) == [e EXCEPT !.there = TRUE, !.due = due]
Slide(e, due)     == IF e.there THEN [e EXCEPT !.due = due] ELSE e

SlideEntry(c) ==
    /\ call[c].pc = "slide"
    /\ entry' = [entry EXCEPT ![call[c].name] = Slide(@, ExpiresAt(call[c].ttl))]
    /\ Return(c)
    /\ UNCHANGED <<now, devices, denied>> /\ UnchangedStore

(***************************************************************************)
(* get_device_kv                                                           *)
(***************************************************************************)
BeginFetch(c) ==
    /\ \E n \in Names, d \in devices : Begin(c, "fetch", "body", n, d)
    /\ UNCHANGED <<now, entry, devices, denied>> /\ UnchangedStore

ReadBody(c) ==
    LET v == body[call[c].name]
    IN  /\ call[c].pc = "body"
        /\ IF v = 0 THEN Return(c)
           ELSE call' = [call EXCEPT ![c] = [@ EXCEPT !.pc = "wrap", !.seen = v]]
        /\ UNCHANGED <<now, entry, devices, denied>> /\ UnchangedStore

ReadWrap(c) ==
    LET v == wrap[call[c].dev][call[c].name]
    IN  /\ call[c].pc = "wrap"
        /\ IF v = 0 THEN Return(c)
           ELSE call' = [call EXCEPT ![c] = [@ EXCEPT !.pc = "fetched", !.opens = v]]
        /\ UNCHANGED <<now, entry, devices, denied>> /\ UnchangedStore

EndFetch(c) ==
    /\ call[c].pc = "fetched"
    /\ Return(c)
    /\ UNCHANGED <<now, entry, devices, denied>> /\ UnchangedStore

(***************************************************************************)
(* Around the calls                                                        *)
(***************************************************************************)
Abort(c) ==
    /\ call[c].pc # "idle"
    /\ Return(c)
    /\ UNCHANGED <<now, entry, devices, denied>> /\ UnchangedStore

\* ttl_cleanup: expired entries go, bodies and wraps stay.
Overdue(e) == e.there /\ e.due <= now

CleanUp ==
    /\ entry' = [n \in Names |-> IF Overdue(entry[n]) THEN NoEntry ELSE entry[n]]
    /\ UNCHANGED <<now, devices, denied, call>> /\ UnchangedStore

\* devices delete: the wraps cascade.
DeleteDevice(d) ==
    /\ "unseal" \in Ops
    /\ d \in devices
    /\ devices' = devices \ {d}
    /\ wrap' = [wrap EXCEPT ![d] = [n \in Names |-> 0]]
    /\ UNCHANGED <<now, entry, body, denied, call, versions>>

\* PUT .../policy of the importing device.
ChangePolicy ==
    /\ "import" \in Ops
    /\ denied' \in SUBSET Names
    /\ UNCHANGED <<now, entry, devices, call>> /\ UnchangedStore

Tick ==
    /\ now < MaxTime
    /\ now' = now + 1
    /\ UNCHANGED <<entry, devices, denied, call>> /\ UnchangedStore

(***************************************************************************)
(* The specification                                                       *)
(***************************************************************************)
Step(c) ==
    \/ BeginImport(c) \/ CheckName(c) \/ WriteName(c)
    \/ BeginGet(c) \/ ReadEntry(c) \/ SlideEntry(c)
    \/ BeginFetch(c) \/ ReadBody(c) \/ ReadWrap(c) \/ EndFetch(c)
    \/ Abort(c)

Next ==
    \/ \E c \in Calls : Step(c)
    \/ \E n \in Names : Upsert(n) \/ Delete(n) \/ WriteDeviceKv(n)
    \/ \E d \in Devices : DeleteDevice(d)
    \/ CleanUp \/ ChangePolicy \/ Tick

Spec == Init /\ [][Next]_vars

(***************************************************************************)
(* Properties                                                              *)
(***************************************************************************)
\* Types; an entry has content while it is there and none when it is not: no
\* late slide brings back a row that a deletion took away.
TypeOK ==
    /\ now \in 0..MaxTime
    /\ entry \in [Names -> Entries]
    /\ body \in [Names -> Nat] /\ wrap \in [Devices -> [Names -> Nat]]
    /\ devices \subseteq Devices /\ denied \subseteq Names
    /\ call \in [Calls -> CallRecords]
    /\ versions \in Nat
    /\ \A n \in Names :
         IF entry[n].there THEN entry[n].plain \/ entry[n].zt \/ entry[n].sealed
         ELSE entry[n] = NoEntry

\* Every wrap a device holds opens the body that is stored now: a re-encryption
\* leaves no wrap of an older key behind, whoever its recipients are, and a
\* device that was deleted holds none.
WrapsOpenTheBody ==
    \A d \in Devices, n \in Names :
        wrap[d][n] # 0 => wrap[d][n] = body[n] /\ d \in devices

\* Once device-encrypted, an entry is plain again only after its deletion: no
\* write, import or slide by another call makes its value readable by name.
SealedStaysSealed ==
    [][\A n \in Names :
         entry[n].sealed => entry'[n].sealed \/ ~entry'[n].there]_vars

\* An import writes only when every name of the file was found allowed.
ImportChecksTheWholeFile ==
    \A c \in Calls : call[c].done # {} => call[c].done \cup call[c].todo = call[c].passed

\* The wrap a device is sent is never older than the body it comes with: reading
\* the body first, a racing re-encryption can only give it the newer key.
FetchedWrapIsNoOlder ==
    \A c \in Calls : call[c].pc = "fetched" => call[c].opens >= call[c].seen

=============================================================================
