# Verification of kv_server

kv_server is a self-hosted key-value store for secrets: an HTTP server (Rust,
axum, tokio) over one SQLite database, with an owner's web session, API keys of
several types, enrolled devices with policies and bans, zero-trust entries behind
a hardware key, and entries encrypted to devices. This directory models its core
in TLA+, checks it with TLC and proves part of it with TLAPS.

Paths below are relative to the server's Rust sources unless they say otherwise
(`device_policy/enforce.rs` is `src/src/device_policy/enforce.rs`).

## 1. Inventory

Every handler is an async function that runs one SQL statement after another
against a pool. A statement is atomic, an explicit transaction is atomic; between
two statements any other handler may run, and a handler may stop for good: the
client hangs up and axum drops the future, or a statement fails. This gives the
grain of the models: **one statement or one transaction is one step, and every
call may be aborted before each of its steps.** Detached tasks
(`tokio::spawn`) survive the request and die with the process. State in memory
(`state.rs:48-63`) is lost with the process; the database is kept.

| Component | State | Operations | Talks to |
|---|---|---|---|
| Device policies and bans (`device_policy/`) | `device_policies`, `device_policy_keys`, `device_bans` | `authorize_key`, `record_violation`, `update`, `unban`, ban check in every extractor | called by key-value handlers and import; rows go with `devices::delete`; bans end in the cleanup |
| Session requests (`session_request/`) | `session_request_challenges`, `session_requests` | `create_challenge`, `create_request`, `approve`, `reject`, `poll_status` | `approve` mints an `api_keys` row; policy and ban of the device |
| API keys and approvals (`admin/`, `auth/`, `middleware/api_key.rs`, `kv` `request_access`) | `api_keys`, `approval_requests` | create, revoke, delete, login, logout, session, CLI and device tokens, request, approve, reject, authentication | policy of the calling device; cleanup expires requests |
| Address blocks and rate limit (`middleware/ip_block.rs`, `rate_limit.rs`) | `blocked_ips`; `rate_counters` in memory | two layers, `record_auth_failure`, `reset_failures_on_success`, unblock | authentication spawns the tasks; cleanup lifts; midnight reset clears |
| Key-value entries (`kv/`, `admin/` writes and import, `devices::get_device_kv`) | `kv_entries`, `device_kv_bodies`, `device_kv_recipients` | upsert, delete, get with sliding expiry, device-encrypted write and fetch, import, cleanup | policy checks; recipients are devices |
| Zero-trust access (`webauthn/`, `kv` `get_zt_payload`) | `zero_trust_credentials`, `zt_used_tokens`; ceremonies in memory | register, begin, finish, present token | needs a `zero_trust` API key and a bound entry |
| Expiry cleanup (`tasks/ttl_cleanup.rs`) | none | one statement per table on an interval | all of the above |
| OIDC login (`auth/oidc.rs`, `tasks/oidc_retry.rs`) | one client in memory | discovery, callback, logout | `create_session_key` writes `api_keys` |
| Device enrolment and proposals (`devices/`) | `devices`, `device_proposals`; ceremonies in memory | begin, finish, propose, poll, link, reject, delete | deletion cascades through most tables |
| Secret requests (`admin/handlers.rs:987-1345`) | `secret_requests`, `faux_approvals` | create, submit, revoke, delete, dismiss a notice | writes `kv_entries` |
| One-time shares (`shares/`) | `one_time_shares` | create, claim | cleanup |
| Management and provisioned keys (`management_keys/`) | five tables of envelopes | create, defaults, revoke, provision, delete, read both envelopes | recipients are devices; `authorize_key` for each entry made of a provisioned key |
| Sealing (`crypto.rs`), configuration, notifications, access log, errors, CLI client, pages | none that decides anything | | |

**What is hard here.** Checks and the writes they guard are usually separate
statements; a few handlers use a transaction and some of those decide from a read
made before it. Devices, keys and policies can go or change under a running call.
Expiry is judged in one place and swept in another. Detached tasks write what
they read earlier. One-use things (nonces, tokens, one-time keys, challenges) are
claimed by guarded UPDATEs, or by a lookup and a write. What makes each component
correct:

- *policies and bans*: concurrent violations escalate once; no violation goes
  unpunished; a decision is the verdict of a policy that was in force; a banned
  device waits; a ban that ran out goes.
- *session requests*: a nonce opens one request; decisions are final; one token
  is minted for an approved request, none for another, and it is handed over at most once.
- *keys*: a credential follows the device it came from; a restricted device cannot
  act on others' credentials; one-time keys pass once; revocation is final; an
  active key that needs approval was approved.
- *blocks*: failures that reach the threshold are answered; concurrent ones
  escalate once; history is kept; blocks end; the overshoot of the limit is bounded.
- *entries*: a wrap opens the body that is stored; a sealed entry stays sealed; an
  import checks everything before it writes anything; expired entries go.
- *zero trust*: one ceremony, one token; a spent token is refused.
- *enrolment*: one touch enrols one device in the account that began; a name is
  taken once; a decided proposal stays decided and names the device that has its
  key; a restricted device enrols nothing.
- *links*: a secret request and a share are used once or never; a submission
  replaces no entry; every required name is stored or told to the owner.
- *management keys*: a stored key is whole and wrapped for enrolled devices only; a
  restricted device reads no envelope that was not judged for it.

`PROJECT.json` lists the hazards behind these properties, each at its line, and
for each the properties that would catch it or the reason there is none.

## 2. The modules

| Module | What it is |
|---|---|
| `DevicePolicy` | the ban checks, `load_policy` in its two reads, `record_violation` in its three statements, policy update, unban, device deletion, cleanup, time |
| `BanLedger` | abstract: a ledger of bans without requests or races |
| `DevicePolicyProofs` | theorems about `DevicePolicy`, the refinement of `BanLedger` among them |
| `SessionRequest` | challenge, request, approve, reject, poll and claim |
| `TokenHandover` | abstract: a token is decided once and handed over at most once; it may be taken back |
| `SessionRequestProofs` | theorems about `SessionRequest`, the refinement of `TokenHandover` among them |
| `ApiKeys` | `api_keys` and `approval_requests`: minting, use, revocation, approval, deletion of devices |
| `IpBlock` | the two layers, the detached tasks, escalation, cleanup, restart |
| `AuthenticationProofs` | theorems about `ApiKeys`, its refinement of `LinkUse` among them, and about `IpBlock` |
| `KvEntries` | entries, device-encrypted bodies and wraps, sliding expiry, import |
| `KvEntriesProofs` | theorems about `KvEntries` |
| `ZtAccess` | passkeys, ceremonies in memory, tokens, restart |
| `ZtAccessProofs` | theorems about `ZtAccess`, its refinement of `LinkUse` among them |
| `DeviceEnrolment` | the ceremony that enrols a device, deletion, proposals, restart |
| `DeviceEnrolmentProofs` | theorems about `DeviceEnrolment` |
| `CollectLinks` | secret requests with their notices, one-time shares; transactions over snapshots |
| `LinkUse` | abstract: a link (a one-time key, a ceremony) is made, used once or closed |
| `CollectLinksProofs` | theorems about `CollectLinks`, the refinement of `LinkUse` among them |
| `ManagementKeys` | management and provisioned keys, their envelopes and `authorize_provisioned_key` |
| `ManagementKeysProofs` | theorems about `ManagementKeys` |
| `MC_*` | symmetry sets for TLC; the `.cfg` files give the constants |

The parts meet in shared tables, not in messages. Each module therefore holds
the table it is about in full and what it needs of the others in the coarsest
form that can still disturb it: `banned` and `restricted` sets of devices that
change at any time in `SessionRequest` and `ApiKeys`, `restricted` alone in
`DeviceEnrolment`, a set of denied names in `KvEntries`, and device deletion in every module whose rows it removes.
`ApiKeys` and `IpBlock`, the two components in front of every handler, are proved about in
one module, so the names of `IpBlock` that `ApiKeys` has too begin with `Block`
(`BlockSpec`, `BlockTypeOK`).
Because those environments may change at every step, what holds in a module holds
for every behaviour `DevicePolicy` could give it.

### Correspondence

*Conventions.* A definition keeps the name of the function or table where TLA+
allows it. A call is a record with a program counter `pc` (one label per
statement to come) and the values it read earlier; `Goto` and `Return` move it.
`Abort` is a dropped future or a failed statement. `XSlip`, defined before `X`, is
`X` with a plausible slip (a dropped guard, an off-by-one, a missing reset); no
action uses it. They exist to show that each property can fail: with `XSlip` in
the place of `X` the run that checks the property must fail (`mutants` in
`PROJECT.json`). Variables called history in the declarations record what
happened for a property to speak of and decide nothing.

*DevicePolicy.* `policy`, `keys` and `ban` are the three tables of migration 0040.
`req[r]` is one request from the extractor's ban check (`CheckBanAuthn`) over the
check and the policy load of `authorize_key` (`CheckBanAuthz`, `LoadMode`,
`LoadKeys`) to the statements of `record_violation` (`EnsureBanRow`, `ReadBanRow`,
`ApplyBan`). A regex pattern is the set of names it matches. Time is a counter.

*SessionRequest.* Approve and `create_request` are transactions and one step each
after the reads that precede them; poll is read, ban check, claim, answer.
The 2- and 15-minute lives are flags `late` that the clock raises at any time.
`keys` counts the `api_keys` rows minted for a request that are there: the approval adds
one, the owner may delete it (`DeleteTokens`, the revocation before it is in `ApiKeys`)
while the request stays as it is, and a deleted device takes it along. A granted request
whose key is gone is still claimed: the answer then carries a dead token. `minted`
is the history of the same rows; `received` and `lost` count answers that carried the
envelope.

*ApiKeys.* `StartAdmin` merges the status lookup of the session and the ban SELECT
of `AdminAuth` (two reads in a row with nothing done in between but a comparison;
a change between them is the same change just before or just after);
`CheckPolicy` is `ensure_may_manage_*`; the statements follow. `zero_trust` and
`shareable` keys live like standard ones (`NewTypesAssumption`: `create_key` takes no type
beyond these). `lineage` is the device from whose session a key
descends.

*IpBlock.* A block is `none`, `temporary`, `lapsed` (`unblock_at` passed, `blocked_at`
not yet cleared) or `permanent` (an operator's row without `unblock_at`,
DEPLOYMENT.md). `BlockLapses` needs that no task of the address is running: a block lasts an hour
or more, a task three statements. `StatementFails` is a task whose statement fails:
it logs and ends, and the address is in `lost` until its next failure is recorded.

*KvEntries.* Of a value the model keeps whether it is there in plain, as a
zero-trust payload, or device-encrypted; of a body its version, of a wrap the
version of the body it opens. Bans and violations during import are in
`DevicePolicy`; here a denied name refuses the file.

*ZtAccess.* `challenge` is the map in memory, `used` the table. An assertion
is a choice of one of the passkeys the challenge offers. The ceremony for the PRF
alone, used when an entry is created, changes nothing that is kept. `AuthenticateBegin`
takes the SELECTs of the key, the entry and the passkeys as one step; the challenge
keeps what they returned, and no property depends on a change between them.

*DeviceEnrolment.* `challenge` is the map `device_reg_challenges` in memory, `device`
and `proposal` are tables. A call is `Check` (the credential guard), then the
statements of its handler: `BeginName` and `BeginChallenge`; `FinishTake` (the map's
`remove`, the owner and the assertion), `FinishName`, `FinishInsert`; `DeleteDevice`
(one transaction); `LinkProposal`, `LinkDevice`, `LinkMark`; `RejectMark`. The name
index is the guard of the INSERT. `material` is public key and key type. Which
passkeys an account has is in `ZtAccess`; an assertion that fails, and a confirm token
that is wrong, are the branches that return. `free` is history: the caller's device was
unrestricted or gone at some time since the request arrived.

*CollectLinks.* The pool opens deferred transactions on a database in WAL mode
(`db.rs`): the reads of a transaction see one snapshot, and its first write fails when
somebody committed since. `SubmitRead` and `ClaimRead` are the reads, `SubmitWrite` and
`ClaimWrite` the writes with the commit; `fresh` says that nobody committed in between, and
every step of anybody else that commits clears it (`Stale`). The prefix and the name
make an entry's name through the constant `Final`, so that two names can meet in one
entry. The owner's own calls need a caller that is not restricted
(`DeviceEnrolment` and `ManagementKeys` have that guard); here the owner may call at
any time. An entry an owner wrote may expire; one that was submitted has no expiry.

*ManagementKeys.* A key is its row with `whole` (its body) and `wraps` (the devices with
a recipient row). Writes are one transaction for the whole list of recipients after
`Check`; reading an envelope is `Check` or the statements of `authorize_provisioned_key`
(`CheckBan`, `CheckPolicy`, `ReadLinks`, one `Judge` per name), `ReadBody`, `ReadWrap`.
`Judge` is `authorize_key` in one step; `DevicePolicy` has its statements. `source` is the pair of `source_*` columns of
an entry, as the provisioned key it matches; two provisioned keys with one provider id
are left out, as are the limits offered for new keys and `last_used_at`, on
which nothing depends. `seen` and `linked` are history.

## 3. Runs

All runs use a handful of model values. Two concurrent calls over one row are the
smallest instance in which a check and its write can be separated by another
actor's whole operation; a third call adds no statement that two do not have,
because every statement touches one row or one owner. History variables
are bounded by the guards named below.

| Run | Instance and bounds | Shows |
|---|---|---|
| `DevicePolicy_bans` | 1 device, 2 racing requests, 1 name; bans of 1 and 2 time units (cap 2), `MaxTime` 3, `MaxArrivals` 2, under fairness | no unpunished violation, untorn decisions, banned devices wait, refinement of `BanLedger`, requests are answered |
| `SessionRequest_races` | 1 device, 1 challenge, 2 requests, 2 calls | one nonce, one request; token and decision agree, also while the owner deletes tokens; refinement of `TokenHandover` |
| `SessionRequest_rows` | 2 devices, 1 challenge, 2 requests, 1 call, under fairness | requests and challenges settle |
| `ApiKeys_keys` | 2 keys (`one_time`, `approval_required` or sessions), 1 approval row, 1 device, 2 calls of any kind | one-time keys, approvals, credentials that follow the device, no owner lockout |
| `IpBlock_blocks` | 1 address, 2 requests, 2 tasks, threshold 2, limit 3, `MaxFailed` 4, `MaxBlocks` 2, 1 restart, failing statements, under fairness | answers to failures, escalation, history, end of blocks |
| `KvEntries_store` | 2 names, 2 devices, 1 call, TTL 1, `MaxTime` 1, `MaxVersion` 2 | wraps and bodies, fetches, import checks the whole file |
| `ZtAccess_tokens` | 2 passkeys, 1 entry, 2 challenges, 2 tokens, 2 calls, 1 restart | ceremonies as links (`LinkUse`) and spent tokens |
| `DeviceEnrolment_races` | 2 accounts, 1 name, 2 key materials, 2 devices, 2 challenges, 1 proposal, 2 calls, restarts | one touch, one device; names; proposals; restricted devices |
| `CollectLinks_once` | 1 request, 1 share, 2 names, 2 prefixes of which one makes the names meet, 2 transactions | links are used once; nothing is replaced; required names |
| `ManagementKeys_envelopes` | 2 devices, 1 key of each kind, 2 entries, 1 call beside the owner's changes | envelopes are whole and judged |
| `ApiKeys_resurrect` | 2 keys, 1 approval, 2 calls | **violated**: a revoked key comes back |
| `ZtAccess_twice` | 1 token, 2 calls | **violated**: a token is used twice |

Why the bounds are enough. In `DevicePolicy_bans` a device violates its policy twice, at
once or one after the other with the first ban run out in between, so that ban counts 1
and 2 and the cap are met and `MaxTime` is past every due time. `MaxFailed` 4 with
threshold 2 lets two tasks cross the threshold and two more failures accrue while
lapsed; `MaxBlocks` 2 gives an escalated second block. Two versions of a body give a
replacement during a fetch, and an entry written at time 0 is overdue at `MaxTime`. Two
prefixes and two names in `CollectLinks_once` are the least that make two names meet in one
entry and leave a third entry for the other. Two challenges and two devices let two
ceremonies race for one name, in one account or in two. In `ManagementKeys_envelopes` the
races are between one call and the owner, who changes policies, links and devices at any
time; the second device makes a list of recipients of which one is deleted, or a caller
that is not the recipient. Two calls at once are left to the theorems, which hold
for any number of them. Names, devices and other
ids that are interchangeable are symmetric in the runs without liveness. No run disables the
deadlock check.

### Fairness

`FairSpec` (`DevicePolicy`, `SessionRequest`) and `BlockFairSpec` (`IpBlock`) assumes only what the runtime
does: tokio polls a live handler or task until it ends (weak fairness of each call's
step; aborting is never forced), the cleanup loop of `tasks/ttl_cleanup.rs` runs for ever
on its interval (weak fairness of each cleanup statement) and time passes (weak fairness
of the action that raises a `late` flag or lets a block lapse). Nothing is assumed about
clients, owners or operators, and no strong fairness is used.

### Violated properties

1. **A revoked key comes back** (`ApiKeys_resurrect`, `admin/handlers.rs:484`).
   `approve_request` reads the request before its transaction and then sets the
   key `active` by id alone. A revocation in between is undone.
   CODEBASE_ANALYSIS.md:454 says a revoked key is answered 401.
2. **A zero-trust token can be used twice** (`ZtAccess_twice`,
   `kv/handlers.rs:473`). Lookup and recording of the `jti` are two statements, and
   the `INSERT OR IGNORE` does not look at what it inserted. The comment above says
   single-use.

Known divergences that are modelled, or seen while modelling, and have no run:

- `load_policy` can decide by the mode of one policy and the keys of the next
  (`enforce.rs:119-142`; specs.md:135). `UntornDecision` is what is left: without a
  change in between the decision is right.
- A one-time key is spent during authentication, also by a request that is then
  refused (`middleware/api_key.rs:348-360`; specs.md:83).
- Two callers of `request_access` leave two pending approvals
  (`kv/handlers.rs:99-121`).
- A restricted device that is deleted counts as unrestricted for the rest of its
  running call (`enforce.rs:193-201`).
- A permanent block written under a running failure task is overwritten by a
  temporary one (`ip_block.rs:156-171`; DEPLOYMENT.md:22-24).
- A successful `X-Api-Key` request does not reset the failures of its address
  (`middleware/api_key.rs:375`; expected_behaviour_for_tests.md:27).
- An import over a zero-trust entry stores the value in plain next to the payload
  (`admin/handlers.rs:871-880`).
- A slide computed for a sliding entry can hit a fixed-expiry one that replaced it
  (`kv/handlers.rs:200-211`; specs.md:25), and open reads do not slide (specs.md:92).
- A proposal whose thirty minutes have passed can be linked or rejected until the sweep
  marks it (`devices/handlers.rs:456-459`).
- The second look at the name in `register_finish` and its INSERT are not under a
  transaction (`devices/handlers.rs:113-137`, against the comment at line 37); the unique
  index decides, and the loser is answered an internal error instead of a conflict.
- A submission that meets an expired entry the sweep has not removed fails on the
  primary key and is answered an internal error (`admin/handlers.rs:1216-1251`); it can
  be sent again after the sweep.
- The envelope of a revoked management key is still served, and keys can still be stored
  under it (`management_keys/handlers.rs:156-183`, `237-253`).

## 4. Proofs

The theorems hold for every value of the constants that meets the named ASSUMEs of
the modules: any sets of devices, requests, tasks, calls and names, any ban and
block bounds. They assume nothing else, and TLC evaluates the ASSUMEs in every run.

| Module | Theorem | Statement |
|---|---|---|
| `DevicePolicyProofs` | `TypeCorrect` | `Spec => []TypeOK` |
| | `ViolationsAreAnswered` | `Spec => []ViolationAnswered` |
| | `BansAreAppliedOnce` | `Spec => BanNeverReapplied` |
| | `DecisionsAreUntorn` | `Spec => []UntornDecision` |
| | `BannedDevicesWait` | `Spec => []BannedDeviceWaits` |
| | `LedgerImplemented` | `Spec => ImplementsLedger` (refinement of `BanLedger`) |
| `SessionRequestProofs` | `TypeCorrect` | `Spec => []TypeOK` |
| | `ChallengesOpenOnce` | `Spec => []ChallengeOpensOneRequest` |
| | `TokensMatchDecisions` | `Spec => []TokenMatchesDecision` |
| | `TokensAreHandedOnce` | `Spec => ImplementsHandover` (refinement of `TokenHandover`) |
| `AuthenticationProofs` | `KeysInvHolds` | `Spec => []KeysInv` (`ApiKeys`) |
| | `KeyTypesCorrect` | `Spec => []TypeOK` |
| | `OneTimeKeyPassesOnce` | `Spec => []OneTimePassesOnce` |
| | `OneTimeKeyKeepsPromise` | `Spec => KeepsPromise` (refinement of `LinkUse`) |
| | `ActiveKeyIsApproved` | `Spec => []ActiveKeyWasApproved` |
| | `DeviceCredentials` | `Spec => []CredentialsFollowTheDevice` |
| | `OwnerIsNotLockedOut` | `Spec => NoOwnerLockout` |
| | `KeyLifeCycle` | the status of a key follows the edges of `StatusEdge`; its type, device and lineage stay |
| | `RevocationIsFinal` | a revoked key that needs no approval stays revoked until it is deleted |
| | `BlockTypesCorrect` | `BlockSpec => []BlockTypeOK` (`IpBlock`) |
| | `LimitHolds` | `BlockSpec => []LimitOvershootBounded` |
| | `DebtsAnswered` | `BlockSpec => []DebtIsAnswered` |
| | `OneStepPerBlock` | `BlockSpec => []EscalatesOncePerBlock` |
| | `HistoryHolds` | `BlockSpec => HistoryIsKept` |
| `KvEntriesProofs` | `TypeCorrect` | `Spec => []TypeOK` |
| | `WrapsFit` | `Spec => []WrapsOpenTheBody` |
| | `FetchesAreRecent` | `Spec => []FetchedWrapIsNoOlder` |
| | `ImportsCheckFirst` | `Spec => []ImportChecksTheWholeFile` |
| | `SealsHold` | `Spec => SealedStaysSealed` |
| `ZtAccessProofs` | `TypeCorrect` | `Spec => []TypeOK` |
| | `SpentTokensAreRefused` | `Spec => []SpentTokenIsRefused` |
| | `CeremonyKeepsItsPromise` | `Spec => CeremonyKeepsPromise` (refinement of `LinkUse`) |
| | `TokenReuseIsBounded` | `Spec => []ReuseBounded`: a token is served at most as often as there are concurrent calls |
| `DeviceEnrolmentProofs` | `TypeCorrect` | `Spec => []TypeOK` |
| | `TouchEnrolsOnce` | `Spec => []OneDevicePerTouch` |
| | `ConfirmationsMatch` | `Spec => []ConfirmedProposalMatches` |
| | `RestrictedStaysOut` | `Spec => []RestrictedDeviceDoesNotEnrol` |
| | `DecisionsStand` | `Spec => DecisionIsFinal` |
| `CollectLinksProofs` | `TypeCorrect` | `Spec => []TypeOK` |
| | `NamesAccountedFor` | `Spec => RequiredNamesAccountedFor` |
| | `NothingReplaced` | `Spec => SubmissionsReplaceNothing` |
| | `LinksKeepTheirPromise` | `Spec => KeepsPromise` (refinement of `LinkUse`) |
| `ManagementKeysProofs` | `TypeCorrect` | `Spec => []TypeOK` |
| | `EnvelopesJudged` | `Spec => []EnvelopesAreJudged` |

Every safety property that a run expects to hold is proved.
Some theorems state what no run checks. `BansAreAppliedOnce` is the escalation that
`ImplementsLedger` observes; `SealsHold` needs an entry's whole life; `KeepsPromise` of
`ApiKeys` holds on the instance of `ApiKeys_keys` too, but takes TLC twice as long as
`OneTimePassesOnce`, whose bound it implies; `KeyLifeCycle` is what the proofs say of every step.
`RevocationIsFinal` and `TokenReuseIsBounded` bound the two violated properties: only keys
that need approval come back from revocation, and a token is reused only by the requests
that overlap its first use.

### DevicePolicy

The argument: a request that violated the policy ends in one of two ways, by its own
UPDATE, which raises `ban_count`, or by meeting a ban that another request
applied after its own ban check. `ViolationAnswered` alone is not inductive: it
says nothing of a request that is about to be answered. The invariant `IInv`
adds

- `AbsentRowIsEmpty`: a ban row that is not there is not banned and has count 0,
  so that the INSERT of `record_violation` changes no count; and
- `CountKnown`: the row of a device that exists is `Ahead` of what each of its
  requests knows: its count is at least the count the request noted at its ban
  check (`base`), or read in the SELECT (`seen`), and if it is still that count the
  device is not banned. So a ban that is met after the check was counted after it.

`Inductive` proves `IInv` step by step, one case per action, each with one part
per conjunct the action can disturb. `BansAreAppliedOnce` follows from the type
invariant and the guard of `ApplyBan` (`OwnsTheBan`), the only action that writes a ban
in force. `LedgerImplemented` uses the same: the `UPDATE` that matches finds a device that
exists and is not banned, so it is the ledger's offence; every other statement of a
request is a stutter, since a row that is not there reads as a clean page.

The other two properties need invariants of their own. `Judged`: a request between its two
reads knows a mode and a pattern that give, with the keys now stored, the verdict it
noted. `Watched`: a request whose device is not banned now has noted such a moment, and so
has every request past its ban checks; it needs that no request's own statement ends a
ban (`BanLasts`), which is `CountKnown` again.

### ApiKeys

Fifteen operations write the two tables, and a call holds, between its statements, a
credential, a device, a key and an approval that others may revoke, delete or decide
meanwhile. `KeysInv` says what is known of each row and of each call:

- `KeyFits`: a used one-time key has passed once and one still to be used never, no other
  key counts passes, and a row's device is that of its `lineage` and is enrolled (or none);
- `ApprovalFits`: an approval is for a key that needs approval, and is deleted exactly with
  it. This is what makes the two unguarded UPDATEs of `approve_request` safe for *other*
  properties than the violated one: they meet the pair the SELECT found, or neither row;
- `CallerFits`: a call's device is the one its credential descends from, so that what it
  mints inherits the right device;
- `LimitFits`: a call whose device was restricted all along is at its check, at its own
  logout, or at a credential of that device: all `NoOwnerLockout` needs;
- `SubjectFits`: a call about an approval holds a key that needs one.

The proof does not go action by conjunct. `Moves` names the seven things a step can do to a
key row (`KeyMoves`), the six to an approval row (`ApprovalMoves`), how devices go
(`DevicesMove`) and how a call goes on (`CallsMove`). One lemma per action shows that it
moves rows, devices and calls in this way (`CheckPolicyMoves`, `ConsumeMoves`, ...), and
`MovesKeepTheInvariant` shows once that such moves keep `KeysInv`. The action properties and the
refinement read the same summary: a key move is an edge of the life cycle (`StatusEdges`)
and, for a one-time key, a step of its stage (`StageMoves`); `KeysMoveApart` says that a
step moves a single key unless it revokes or deletes several, hence is one step of
`LinkUse` (`RowsKeepPromise`). `NewTypesAssumption` is the only assumption beside
`NoneAssumption`.

### SessionRequest

`OriginsSpent` (what a request came from was used up) makes one challenge open one
request. For the refinement `OneCopy` says where the token's one copy is: nowhere before
the claim, then with the single call about to answer, then counted as received or lost.
Each action is a step of `TokenHandover` or a stutter (`HandoverStep`); the cleanup refuses
a set of requests at once, a deleted device takes its own, the owner's deletion takes
tokens back (`WithdrawStep`) and leaves the decisions.

### ZtAccess

`UnspentWhileOpen` (a challenge still in the map was turned into no token) makes a
ceremony a link of `LinkUse`: the finish that takes the challenge uses it or closes it
(`FinishUsesOrCloses`), a restart closes all that are open at once (`RestartCloses`).
`ClosedAreUsed` (what was recorded when a call arrived is recorded for good) is what
the lookup before the `INSERT` needs. For the bound on reuse `ReadersCounted` adds up the reads
made with a token and the calls between lookup and read (`Readers`): nobody joins them once
the token is recorded, nobody reads before it is, and a read trades a reader for a use. It
assumes that the requests in progress at a time are finitely many (`CallsAssumption`).

### IpBlock

A detached task acts on what it read a statement ago, so none of the properties is
inductive: they say nothing of a task about to write. `BlockInv` adds, for the tasks
at their UPDATE,

- `TasksCovered`: the count a task read is at most the number of blocks of its
  address so far, and less once the address is blocked: when the task writes that
  count plus one it is covered, either by the block it starts or by the one it meets;
- `TasksClose`: unless the operator deleted the row meanwhile, the count in the row is
  the one the task read or one more, and the same one while there is no block, so
  that the write cannot lower it (`HistoryIsKept`); and
- `TasksTogether`: tasks of one address about to write read the same count.

The third is what keeps the second: a task that writes moves the row on by one
for all of them at once. That no temporary block lapses under a running task
(`BlockLapses`, an hour against three statements) is used here: a task left over from an
earlier block could otherwise meet a later one. `LayersOK` holds the limit: the counter of
an address and the requests let in together stay below the limit plus the
number of requests (`LettingIn` starts below the limit, `Counting` trades a request for a
failure). `Inductive` proves `BlockInv` and `LayersOK` by one lemma per action.

### KvEntries

`WrapsOpenTheBody` is about the tables alone and needs only that re-encryption replaces
all wraps of a name. What a call carries between its statements needs the rest of
`IInv`: `BodiesInOrder` (no body is ahead of the version counter, so a re-encryption makes a
newer one) and, for each call, `Named`, `Checked` (an import that writes has split
the names it found allowed into done and to do) and `Recent` (the body a fetch read is
the stored one or an older one).

### DeviceEnrolment

Two races are at stake: finishes of one ceremony, and two decisions about one
proposal. The properties do not say what a call holds between its statements; `IInv` adds

- `Origins`: an enrolled device comes from a used-up challenge of its owner, and no two
  come from one;
- `HoldsUnused` and `HeldOnce`: a finish past the removal of its challenge is alone in
  holding it, and no device came from it yet (the map's remove under the write lock);
- `KnowsKey`: a link past its reads knows the key the proposal is bound to, and that
  the device had it; proposals and devices only `Grow`, so the knowledge lasts;
- `Targeted` and `Checked`: what a call is about exists, and a call a restricted device
  makes is still at its check.

### CollectLinks

What a transaction read is still so while nobody committed after it began: that is
`Snapshot`, and SQLite's rule that a stale snapshot may not write does the rest. For a
`fresh` transaction it says that the request it fulfils is pending and that what it
holds accounts for the required names, or that the share it opens is unspent and not
expired. `UnusedWhileOpen` (an open link was used 0 times) and `PrefixKnown` complete
`IInv`. `LinksKeepTheirPromise` is shown action by action: each is a step of `LinkUse`
or a stutter (`LinkStep`).

### ManagementKeys

A call reads the restriction of its device, the entries and the policy in separate
statements. `Judged` ties them: the management key a provision will copy was found, and
in a call whose device stayed restricted the names allowed so far were judged, and those
no longer to be judged are among the names it has seen.

### Only model-checked

Liveness under fairness (`RequestAnswered`, `RowsSettle`, `TemporaryBlocksEnd`) is out of the
prover's reach and stays with TLC, as do facts by induction over data, which the models do
not need so far; and the two violated properties, whose counterexamples are TLC's.

## 5. Not modelled

- *Cryptography* (`crypto.rs`, WebAuthn assertions, token signatures): the models
  tell apart who can open what, and treat a forged token or assertion as impossible.
- *OIDC exchange and its retry, notifications*: I/O with third parties.
- *Access log, listings, pages, CLI client, headers, error texts, migrations*: no
  state that a decision reads.
- *SQLite contention*: `SQLITE_BUSY` is a failed statement, hence an `Abort`.
- *Several owners*: every statement is scoped by `owner_id`; the modules follow one
  owner, with a stranger in `SessionRequest` where scoping is by the device and
  two owners in `DeviceEnrolment`, where the map of challenges is common to all.

## 6. Plan

In order of weight:

1. `DevicePolicy`, `BanLedger` with proofs; `SessionRequest`, `TokenHandover`;
   `ApiKeys`; `IpBlock`; `KvEntries`; `ZtAccess` - done.
2. `DeviceEnrolment` with proofs - done.
3. `CollectLinks` and `LinkUse` (secret requests and one-time shares) with proofs and the
   refinement proved - done.
4. `ManagementKeys` with proofs - done.
5. `DurationMath`: the saturating shift of ban and block lengths in W-bit arithmetic
   against the exact value.
6. A composition of `SessionRequest` with `ApiKeys`: the minted row and its later
   revocation against the claim.
7. Proofs: `DevicePolicy` and its ledger, `SessionRequest` and its handover,
   `ApiKeys` and `ZtAccess` with their refinements of `LinkUse` - done.

## 7. Running

    tlc -workers 2 -config DevicePolicy_bans.cfg MC_DevicePolicy
    tlapm DevicePolicyProofs.tla

Every run ends within about two minutes on two cores.
