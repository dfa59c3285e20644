# Open Console Gateway: a TLA+ verification project

Open Console Gateway is a local AI gateway with a dashboard. Clients send it OpenAI- or
Anthropic-style requests; it picks one of the operator's provider accounts, sends the request
upstream, and falls back to another account when one is exhausted, rate limited or broken. This
directory models the parts of the gateway whose correctness depends on the order in which concurrent
requests, operator actions, background refreshes, clocks and crashes happen, and on which step of
several fails.

All source paths below are relative to the repository root.

## 1. Inventory

### Components, their state and their operations

| Component | Source | State | Operations |
|---|---|---|---|
| Recovery runtime | `crates/ocg-core/src/gateway/recovery.rs` | one mutex around `Inner`: ticket `sequence`, `restriction_seq`, `HashMap<ResourceKey, Slot>` (deadlines, probe lease, claim counter, fence, policy rows), the installed policy snapshot | `acquire`, `inspect_admission`, `reset_account`, `install_snapshot`, `clear_restriction`, `observe_*`, `confirm_success`, `Drop` of a `RecoveryPermit` |
| Resource identities | `gateway/recovery/context.rs` | none; a `ResourceSet` is a value captured from the routing snapshot | capture, keys, owners, generations, comparisons after the I/O |
| Failure facts | `gateway/failure.rs`, `failure/decode.rs` | none | what to record for a rejection; `Retry-After` parsing |
| Local temporary policies | `gateway/policy.rs`, `dashboard_v4/temporary_policy.rs` | rule layers, epoch, generations | compile a snapshot, match a reply, install, clear |
| Quota recovery | `quota_recovery.rs`, `db/quota_recovery.rs`, `QuotaTrialGuard` in `gateway/forwarder.rs`, `gateway/forwarder/live_send.rs` | `credentials.quota_recovery_json` (persistent), `CoreState.quota_probes` (process-local) | acquire a trial, settle it, retry by hand, reconcile with a usage report |
| Usage refresh | `usage_sync.rs`, `usage_sync/*.rs` | one global async lock, in-flight registry | capture an identity, fetch, compare and commit |
| Account selection | `crates/ocg-gateway/src/selector.rs`, `routing_runtime.rs` | one mutex around `SelectorState`: sticky-global account, round-robin cursor, conversation bindings (LRU queue, TTL) | `select_at`, `preview_at`, `sticky_binding_at`, `reset` |
| Executor | `gateway/executor.rs`, `crates/ocg-gateway/src/classify.rs` | per request: failed accounts, attempt and send counters, deadline, retry flag | the outer loop over candidates, the inner loop over attempts |
| Forwarder | `gateway/forwarder.rs` and `forwarder/` | per-attempt guards | one send, classification, recording, streaming |
| CPA runtime | `cpa_runtime.rs` | `managed.json`, `config.yaml`, `config.previous.yaml`, version directories, the integration's rows, the child process, `shutting_down` | install, update, rollback, remove, start, stop, restore at start-up, proxy sync, key rotation |
| Application hosts | `byok_application_host.rs` and `byok_application_host/`, `dsh_application_host.rs`, `copilot_application_host.rs` | the client's own files; receipt, journal, backups and origin under the data directory | inspect, configure, take over, remove, undo, recover |
| GOAT plan cooldowns | `goat_plan_cooldowns.rs` | persisted windows per account | record, reconcile, expire |
| Listener, sessions, gateway keys | `gateway/listener.rs`, `state.rs`, `dashboard_session.rs`, `gateway_keys.rs` | bound socket; session token; hashed keys | bind, rebind, stop; log in, log out; rotate |
| Protocol conversion, aliases, database, browser login, dashboard API, infrastructure, CLI and shell | see `PROJECT.json` | mostly I/O or data transformation | - |

`PROJECT.json` lists every component with its status.

### How they interact

The handler authenticates and parses a request and hands it to the executor. For every attempt the
executor materialises the candidates, asks the selector for one (skipping what the recovery runtime's
preview refuses), and the forwarder captures its `ResourceSet`, acquires a `RecoveryPermit`, verifies
the credential under the `db` lock, becomes a quota trial if the Key is exhausted and due, and sends.
The reply is recorded in the recovery runtime, and in the database for a trial; the permit and the
trial guard are values whose `Drop` cleans up when a stream is abandoned. The operator edits rules,
resets accounts, retries and replaces Keys from the dashboard at any time; the usage refresh runs in
the background. The lock order is settings gate, `db`, `quota_probes`. No lock is held during the
upstream exchange.

Beside the request path the gateway owns two things outside its own memory. It installs, configures
and runs CPA, a second gateway, as a child process, under one lock (`cpa_operations`) that serialises
the operations but not shutdown, settings changes, the child's death or the end of a client's
connection. And it writes provider entries into the configuration files of other programs (BYOK), in
several writes that a crash may separate, next to a user who edits the same files.

### What is hard

* Nothing is locked while a request is upstream: replies arrive in any order, after resets, rule
  edits, Key rotations, catalog refreshes and each other's outcomes.
* `reset_account` and `install_snapshot` run under the `db` lock; `clear_restriction`, `acquire`,
  `confirm_success` and `Drop` do not, and may fall between two steps of the policy loop.
* The slot table forgets slots; a fence that must stop a late reply lives in a slot.
* A quota trial's exclusivity is process-local while its wait is persistent: a crash loses one half.
* Two-stage confirmation of a send: the decision that a trial is needed is taken under one lock
  acquisition and acted on under another.
* Episodes are told apart by Key and epoch, and the epoch restarts.
* The selector is shared: a request's clock sample, candidates and exclusions are older than the lock
  it takes, and what it leaves behind steers everybody else.
* Between the executor's snapshot, its choice and its send the accounts change; some outcomes may
  already have been charged and must not be replayed.
* An update of CPA is a dozen steps over files, rows and a process; each can fail, so can each step of
  its compensation, and the report of what was undone is what the operator acts on.
* The BYOK host must be able to tell, after any crash, which bytes are the user's.

The hazards in `PROJECT.json` give the lines, with the properties that cover each.

## 2. Modules

| Module | Models | Used by |
|---|---|---|
| `ResourceSet` | `recovery/context.rs` | `Recovery` |
| `Failure` | the decisions of `failure.rs` and the deadlines of `failure/decode.rs` | `Recovery` |
| `Recovery` | `recovery.rs` and the recording steps of `forwarder.rs` | `MCRecovery`, proofs |
| `QuotaRecovery` | `quota_recovery.rs`, `db/quota_recovery.rs`, trial parts of `live_send.rs`, `forwarder.rs`, `usage_sync.rs` | `MCQuotaRecovery`, proofs |
| `SelectorState` | `selector.rs`: the state record and its operators | `Routing`, `Executor` |
| `Routing` | `routing_runtime.rs`: the selector behind its mutex, called by concurrent requests | `MCRouting`, proofs |
| `ConversationLease` | what conversation stickiness promises, without map, queue and timestamps | refined by `Routing` |
| `Executor` | `executor.rs`, `classify.rs`, the actions of `forwarder.rs` on an outcome; composed with the selector | `MCExecutor`, proofs |
| `CpaRuntime` | `cpa_runtime.rs` | `MCCpaRuntime`, proofs |
| `ByokStore` | the BYOK application host on Codex's two files | `MCByokStore`, proofs |
| `MCRecovery`, `MCQuotaRecovery`, `MCRouting`, `MCExecutor`, `MCCpaRuntime`, `MCByokStore` | small instances | the runs |
| `RecoverySafetyProofs`, `RecoveryEpisodeProofs`, `QuotaRecoveryProofs`, `SelectorProofs`, `RoutingProofs`, `ExecutorProofs`, `CpaProofs`, `ByokStoreProofs` | theorems | - |

Definitions keep the names of the Rust functions they translate. Names ending in `_mutant` are
deliberately wrong variants, unused by the specifications: a plausible mistake each, with which the
property named in `PROJECT.json` fails.

### Recovery

`tracked` and `slots` are the `HashMap`; a slot outside `tracked` is `EmptySlot`. `permit[t]` is the
`RecoveryPermit` of ticket `t` and `live` the permits not dropped. Each action is one critical section
of the runtime's mutex:

* `acquire` expires deadlines, drops obsolete slots, checks capacity and every enforced key, then
  claims all keys; `acquire_refused` keeps the cleanup. `inspect_admission` is the executor's preview.
* `temporary_429`, `plan_window`, `observe_openrouter_free_rejection` and `observe_free_rejection` are
  the replies that restrict a resource. They recapture the identity under the `db` lock first.
* `observe_local_policy` starts the forwarder's loop over matched rules. The loop takes the mutex once
  per step (`check_decision`, `observe_policy`, `observe_policy_retry`) with the `db` lock held
  (`db.holder`), so actions that need `db` wait and the others interleave.
* `confirm_success` and `drop` end a request; `reset_account`, `install_snapshot`,
  `clear_restriction` and `Reconfigure` are the operator's.

In production only the credential retry, credits, free egress and policy keys are ever restricted;
the others are claimed and counted, and the model has them too.

Abstractions. A SHA-256 digest is the tagged tuple of what is hashed. The backoff jitter (below a
tenth of the interval) is left out. The saturating doubling of a backoff is a table, exact for the
validated range 1..86400 s. `permit[t].revision` is kept for probes only, the only claims that read
it. The history variables `last_reset`, `evidence`, `revoked` and `permit[t].later` are read by
properties only. Read-only listings for the dashboard are not modelled. Recognising which provider
error a body states is text matching; the model lets any reply arrive that the recogniser can return.

### QuotaRecovery

`row[c]` is the persisted row of Key `c`, `probes[c]` the process-local probe, `req[r]` a request,
`sync[c]` a usage refresh between capture and commit. Every action is one critical section under `db`:

* `select`, `confirm_fast`, `confirm_slow`, `acquire_quota_trial_locked`, `acquire_fails`: the path of
  a request to its send. The escalation between the two confirmations releases the lock.
* `succeed`, `fail_nonquota`, `settle_without_write`: the settlement of a trial, with the observation
  check, the episode check, and the probe released in every case. The last two are also what `Drop`
  does, and `settle_without_write` also stands for a database that refuses the write.
* `refresh_begin`, `refresh_commit`, `refresh_abort`: one official refresh; the identity captured
  before the fetch is compared before the commit.
* `quota_retry`, `replace_key`, `set_enabled`, `reset_cooldown`: the operator.
* `restart`: requests, probes and refreshes are lost, rows are kept.

Abstractions. A Key is its number in the series of replacements, since each stores a new ciphertext
and version. `updated_at` is a flag of the refresh in flight: has the credential been written since
its capture. An absent instant is -1. The fields of a row that only the dashboard shows
(`failure_count`, `unknown_hits`, `observed_at`, reason and source) are dropped: `unknown_hits` never
exceeds one per report in production, so the unknown backoff is its first step. `hist` is history:
it numbers the episodes, so that properties can tell apart what the code cannot. Not modelled:
`snapshot_on`/`restore_on` around a projection rebuild, account deletion, the presentation of a row,
and `record_evidence_on` with `fail_quota`, which no production path calls.

### SelectorState, Routing, ConversationLease

`SelectorState` is the Rust struct as a record and its methods as operators from state to state:
`purge_expired`, `get_fresh`, `insert` and `touch_order` of the conversation map, the three policies,
`select_at` and `preview_at`. `Routing` makes actions of the calls that take the mutex: `Select`,
`Preview`, `StickyBinding` and `Reset`. A caller samples the clock before it loads the credentials and
takes the lock, so a call's `now` may be up to `MaxDelay` ticks old and samples arrive out of order;
`Instant::duration_since` saturates, and so does `Age`.

`ConversationLease` is the abstract specification: a conversation stays with what served it while that
can serve, and may be forgotten only when idle for the lease or when as many other conversations as
fit were used since. What can serve is not the specification's to choose: `call` records, at both
levels, the kind of the last call, its conversation and its `offers` (in `Routing`, the bindings made
from the available and not excluded candidates of that very call, `Offers`). A selection whose
conversation is bound to one of its offers must answer that binding (`Stay`), unless the binding was
idle for the lease (`Move`); so a selector that ignored or swapped a usable binding violates it.
`LeaseSpec` says that the map, its queue and its timestamps implement this; `bound` is the map without
timestamps, and clocks, calls and answers are the same.

Abstractions. `target` stands for channel and resolved model, which are only compared together. The
candidate lists are inputs: how a route becomes a candidate is the executor's `Candidates`.

### Executor

`req[r]` is one pass through `GatewayExecutor::run`: the live snapshot (`load`), the choice (`choose`,
`skip` when the recovery preview refuses, `no_candidate`), the inner loop (`dispatch`, `unsent` when a
check just before the send refuses, `no_more_sends`), and the classified outcome (`answer`). The
deadline may pass at any moment (`expire`). The recovery runtime and the database appear as the sets
`waiting` and `up` and the flag `freeWait`, which the outcomes and the environment change; `Recovery`
and `QuotaRecovery` model their own behaviour. `classify` and `ActionFor` are the tables of
`classify.rs` and `forward_action_for_class` over seven kinds of account.

Abstractions. Conversation bindings do not expire here (`now` is constant; `Routing` has the clock).
The wording of replies, request preparation and materialisation of routes are left out. `sends`,
`unknown` and `steady` are history.

### CpaRuntime

`disk` is everything that survives the process: manifest, both configs, version directories, and the
integration's rows as one record. `proc` is the child with the version and config it was started with,
`op` the operation that holds `cpa_operations` with its step and what it found. Every operation is
split at each call that can fail, await or be overtaken. A failed call, a settings change, the death
of the child, a dropped request (`cancel`) and a process end (`crash`) may come between any two steps,
`MaxEvents` of them in all; shutdown may come at any moment. A stop takes the session out of the host
before it closes the child's lifetime pipe and waits (`cpa_runtime/host.rs:471`), so a failed stop
leaves OCG without the child too. A failed commit puts rows and previous config back in steps that can
fail themselves (`PutBack`). `last` records what an operation reported, whether files and rows are as
before, whether the child is, and whether the report is one the code makes without having observed the
effect (`unobserved`); `marks` records which disturbances happened, for properties that promise less
after some of them.

Abstractions. `config.yaml` is the pair of proxy policy and protected key, the only inputs of its
rendering that change. Ports, checksums, archives and secrets are what makes a step fail. Not
modelled: additional client keys, the integration with a CPA that OCG does not manage
(`put_integration`), the details of download and extraction, and failures inside the `Drop` of the
file guards: what they put back is put back. A child whose stop failed may hold its port for a while;
that is a failed launch.

Behaviour the model shows and no property promises otherwise: a crash in a fresh install leaves
`config.yaml` and the version directory without a manifest, and install is refused until they are
deleted by hand; a crash in an update leaves the candidate's directory, and the update to that version
is refused; a client that disconnects during a probe leaves the candidate child running. Two
reports of no effect are not true of the child: the answer of the upstream key replacement was lost,
and the child has the new keys (`cpa_runtime.rs:2343`); and the stop at the beginning of a rollback or
a removal, or the stop of a runtime that was not wanted anyway, failed, and the child is gone
(`cpa_runtime.rs:1542`, `:1681`). `FailureLeavesNoTrace` excepts exactly these two, and files and rows
in neither.

### ByokStore

Codex is the client with two files, so it is the one modelled; the others run the same store with one
file. A file is the user's text and the block OCG manages, and a hash is the content. `inspect` fixes
the fingerprint (`seen`) that every operation compares. `configure`, `configure_reviewed` (takeover
and overwrite) and `remove` (with `undo_takeover`) compute a plan; then one action per write: backups,
journal, files, origin, receipt or its retirement, journal cleared. `write_plan_fails` and `recover`
lead into the rollback: validate, restore, prior receipt, clear. `Interrupt` is a process end or an
error that returns between two writes. `UserEdit` happens while no operation runs, which is also
between a crash and the recovery: the hosts require the client to be closed.

Abstractions. Whether the removal deletes a `config.toml` that OCG created and that holds no text of
the user's is a choice (`bare`): the code deletes it only when not even an empty table header is left.
Default-model selection and merging inside the managed block; the store's lookup by path
identity; the lock files, whose protocol excludes concurrent hosts and is taken as given. An edit by a
program that ignores the closed-client check, between the check and the rename, is the hazard without
a property.

Behaviour the model shows and no property promises otherwise: the view offers recovery also when an
edit since the crash will make it refuse, and everything is then refused until the bytes are restored
by hand; undoing the takeover of a client that had no catalog leaves an empty catalog instead of none.

## 3. Runs

| Run | Instance | Shows |
|---|---|---|
| `RecoveryFacts` | a Zen Free route and a paid key, 3 requests; rejections, 429s, plan windows, an unrepresentable `Retry-After` | one probe per waiting episode; a success never lifts a failure recorded after its admission; a live deadline is shortened only by a reset or a new generation |
| `RecoveryGenerations` | two pooled keys, rotation and catalog refresh in flight, a table with room for one generation and part of the next | claims counted exactly; capacity; resets final; preview equals admission |
| `RecoveryLiveness` | one Free route and one rule that is edited and cleared while the loops of 2 requests run, fairness | types; leases are held by live permits; revoked sources stay revoked; every refused route is admissible again |
| `QuotaEpisodes` | one Key replaced once, 2 requests, 2 episodes; a report due after one trial floor, so that a second trial starts by itself, and one with a reset beyond the floor and one not believed; restarts; fairness | types; a row waits for all it carries; trials 15 minutes apart across crashes; probes have owners; one trial per episode; evidence stays with its Key; older trials and refreshes decide nothing; no probe is held for ever |
| `QuotaReusedEpoch` | one request, 2 episodes; expected violation | see Findings |
| `RoutingLease` | 3 conversations in a cache of 2, a lease of 3 ticks, clock samples one tick late | the map and its queue agree; the refinement of `ConversationLease`: every call is answered with its conversation's binding while that is among the candidates of the call, and only idle or displaced conversations are forgotten |
| `RoutingCards` | 3 cards in every combination of up and down, one excluded or not, all policies, one sticky conversation | every card takes its turn; a request's own exclusion never moves the global account |
| `ExecutorOutcomes` | one request over a free, a GOAT and an HTTP account, every outcome, accounts and waits changing all the time, a budget of 2 | types; two sends per account at most; ambiguous outcomes are final; no healthy account is passed over; given-up accounts stay so; every request ends |
| `ExecutorReplay` | two paid accounts, a budget of 3; expected violation | see Findings |
| `CpaOperations` | 3 releases, 2 policies, 2 keys, 2 disturbances | a report of no effect or of compensation is true of files and rows, and of the child but for two named cases; no child after shutdown; child, keys, versions and owner marker agree |
| `CpaPolicy` | 2 releases, 1 disturbance; expected violation | see Findings |
| `ByokRecovery` | every initial content of both files, 2 generated blocks, 4 disturbances | blocks are owned; the origin is what was there before OCG; the user's text and unseen edits survive; a rollback restores everything |

The passing runs explore between 1.8 thousand and 1.5 million distinct states each, and between them
take every disjunct of every next-state relation.

**Bounds.** `MaxSequence` is the number of requests ever admitted: two suffice for a late reply
overtaken by an operator, three for a prober and two others. At the bound `acquire` refuses exactly as
the code does at `u64::MAX`. `MaxRevision` bounds operator resets of one slot. In the `Recovery` runs
the clock runs on while anything waits, so every wait started there can elapse; in `QuotaEpisodes` it
stops at `Horizon`, two trial floors: the waits of the short report elapse, and so does the wait its
first trial stores, so a second trial starts unforced, while those of the long report need not. `MaxTracked` is 9 in
`RecoveryGenerations`, where a second generation does not fit beside the first; elsewhere it never
binds. `MaxKey` and `MaxEpisodes` bound Key replacements and recorded episodes: an epoch is reused
within two episodes. One unit of quota time is the trial floor of 15 minutes; believed resets reach four
units. `MaxClock` exceeds the lease by one tick, so bindings expire and are renewed, and
three conversations overflow a cache of two. `MaxRequestAttempts` is 2, one retry and the exhausted
budget; the third account is reached through skips. `MaxEvents` counts disturbances, not operations:
two let a compensation fail after the step it compensates, or a crash follow a settings change; four
let a user edit, a crash, an edit before the recovery and a second crash happen to the same files.
Versions and keys are symmetric in the CPA runs. `CpaOperations` and the `Routing` runs have a VIEW without the
last report and the last call, which no action reads; of the report it keeps whether the property
about it holds. None of these bounds is in the theorems, except as
arbitrary values of the constants.

**Deadlock** is checked in every run but three, whose systems may really stop. In the `CpaRuntime` runs
a crash in a fresh install leaves files that no manifest claims, and every operation is refused until
they are deleted by hand; in `ByokRecovery` a journal may conflict with the files, and every operation
is refused until the user restores them.

**Fairness.** `Recovery`: weak fairness of `drop(t)` (a request ends or its future is dropped, and the
permit with it), of the policy loop (it runs to its end without awaiting anything), and of the clock.
Nothing is assumed of replies, operators or new requests. `QuotaRecovery`: weak fairness of the
settlement of each trial in flight, since `QuotaTrialGuard` settles in `Drop` whatever the stream does.
`Executor`: weak fairness of the steps of each request: the loop is one task, and every send has a
timeout, so it gets an outcome. Nothing is assumed of the environment or the deadline, so termination
rests on the loop's own counters. The other specifications state safety only.

### Findings

`QuotaReusedEpoch`: `reconcile_official_go_usage` (`db/quota_recovery.rs:185`) numbers an episode 1
whenever no row is stored. A trial of epoch 1 that is still in flight while one refresh removes the
row and the next one records a new row carries the same Key and epoch as the new row, and its success
removes it, although `docs/maintainer/runtime-invariants.md:170` says "A success from a stale Key
version or a previous episode cannot clear the current state." The properties `OneTrialPerEpisode` and
`OnlyOwnTrialClears` hold exactly outside this case (`hist[c].reused`).

`ExecutorReplay`: a stream that died before any output is retried once on the same account, and the
retry is classified on its own (`executor.rs:760`). A 429, 401, 403 or credit rejection of the retry
sends the request to another account, although the first attempt may have been charged;
`forwarder.rs:1911` says "The upstream outcome and quota charge can still be ambiguous, so the retry
remains bounded to the same account".

`CpaPolicy`: a settings change commits the proxy policy and then waits for `cpa_operations`. If an
update or a key rotation takes the lock first, it renders `config.yaml` with the new policy, and the
waiting sync finds the file current and returns (`cpa_runtime.rs:946`) without rewriting
`config.previous.yaml` or restarting the child. The child, after a rollback in the first case and at
once in the second, runs with the old policy; `docs/user/logs-settings.md:139` says that "changing the
policy rewrites the CPA config and restarts a running managed CPA".

## 4. Proofs

All theorems are of `Spec`, for every value of the constants that meets the named assumptions of the
modules: types of the constants, finiteness of the set of keys, sentinel values outside the sets they
extend, finiteness of the set of accounts, card orders that list every account once. `TurnsAreTaken`
alone has a hypothesis of its own, `OneOrder`: all requests list the same cards in the same order,
none twice and at least one. Where orders differ between requests the property does not hold, and
`EveryCardTakesItsTurn` does not claim it.

| Theorem | States | Rests on |
|---|---|---|
| `TypeCorrect` | `[]TypeOK` of `Recovery` | `LoopInv`: what the policy loop holds in `db` is a live permit and its rules |
| `NoOrphanedLease` | `[]LeasesAreHeld` | `Core` |
| `ClaimAccounting` | `[]ClaimsAreCounted` | `Core` |
| `ResetIsFinal` | `[]ResetForgetsOldReplies` | `ResetInv` |
| `TableIsBounded` | `[]CapacityHolds` | `Core` |
| `PreviewIsExact` | `[]PreviewAgreesWithAcquire` | `Core` |
| `RetirementIsFinal` | `[]RevokedSourceStaysRevoked` | `EpisodeInv` |
| `ProbesAreSingle` | `[]OneProbePerEpisode` | `EpisodeInv` |
| `SuccessIsNotRetroactive` | `ConfirmKeepsLaterFailures` | `EpisodeInv` |
| `WaitsAreHonoured` | `RetryAfterIsHonoured` | `RetryInv` |
| `QuotaTypeCorrect` | `[]TypeOK` of `QuotaRecovery` | inductive by itself |
| `WaitsAreKept` | `[]WaitCoversEvidence` | `WaitInv` |
| `SpacedTrials` | `TrialsAreSpaced` | `WaitInv`, `TrialInv` |
| `ProbesAreOwned` | `[]ProbeHasOwner` | `TrialInv` |
| `SingleTrial` | `[]OneTrialPerEpisode` | `TrialInv` |
| `OwnTrialClears` | `OnlyOwnTrialClears` | `TrialInv` |
| `EvidenceIsOfTheKey` | `[]RowBelongsToKey` | `RefreshInv` |
| `StaleEvidenceIsDropped` | `NoStaleEvidence` | `RefreshInv` |
| `StickyAccountStays` | `[]StickyGlobalStays` | `ShapedInv` |
| `TurnsAreTaken` | `[]EveryCardTakesItsTurn`, under `OneOrder` | `TurnInv` |
| `QueueAndMapAgree` | `[]QueueMatchesMap` | `LeaseInv` |
| `LeaseIsKept` | `LeaseSpec`: `Routing` implements `ConversationLease` | `LeaseInv` |
| `TwiceAtMost` | `[]TwicePerAccount` | `ExecutorInv` |
| `GivenUpIsFinal` | `GivenUpForGood` | `ExecutorInv` |
| `AmbiguityEndsTheRequest` | `[]AmbiguousOutcomeIsFinal` | `ExecutorInv`, the outcome tables |
| `NothingReachableIsSkipped` | `[]NoReachableAccountSkipped` | `ExecutorInv`, `CoverInv` |
| `BudgetsHold` | `[]TypeOK` of `Executor` | `ExecutorInv`, `CoverInv` |
| `ReceiptsAreHonest` | `[]FailureLeavesNoTrace` | `CpaInv` |
| `NothingIsOrphaned` | `[]OwnerMarkerIsLast` | `CpaInv` |
| `ChildMatchesManifest` | `[]ChildIsAsRecorded` | `CpaInv` |
| `ProtectedKeyAgrees` | `[]KeysAgree` | `CpaInv` |
| `RollbackStaysPossible` | `[]VersionsAreOnDisk` | `CpaInv` |
| `ShutdownIsFinal` | `[]NoChildAfterShutdown` | inductive by itself |
| `OwnedBlocks` | `[]BlocksAreOwned` | `IInv` of `ByokStoreProofs` |
| `OriginKept` | `[]OriginIsTheBaseline` | `IInv` |
| `RollbackIsComplete` | `RollbackRestoresAll` | `IInv` |
| `UserContentIsKept` | `UserContentSurvives` | `IInv` |

Why the strengthenings are needed:

* `Core`. A drop returns the lease and the claims of its permit only if the slots are still there,
  and they are because a slot with claims is never forgotten. So leases, claims, the range of tickets
  and the emptiness of forgotten slots are proved together. Every step but a granted acquire and a
  drop satisfies `Quiet`, for which `Core` is proved once.
* `ResetInv`. A reply on its way could restore forgotten evidence; the fence of its slot stops it, and
  the fence is there because the slot is claimed and lists every owner of the permit, so the reset
  reached it. `OwnersListed` and `ResetsFenced` say this.
* `EpisodeInv`. That a second probe of an episode is refused cannot be seen from the two permits: it
  follows from how episodes are numbered. The invariant adds that every policy row carries an issued
  id (`RowsIssued`), that what a probe noted of a slot is never ahead of the slot (`ProbesFollow`),
  that permits probing one key noted different episodes (`LeasesDiffer`), and that every revocation is
  fenced in the slot while somebody could still report against it (`RetiredFenced`). Every quiet step
  satisfies `Advances` (revisions, ids and fences only grow; a probe only learns of what it recorded),
  for which the invariant is proved once. `RetryInv` adds that the key of a slot determines its
  generation, so that a slot dropped as obsolete is one of an older generation.
* `WaitInv`. Two trials are apart because the first stored a wait of 15 minutes and nothing but an
  operator or a new episode shortens it; `Waits` keeps that wait beside what the row carries.
* `TrialInv`. A second trial is refused because the probe names the current episode; the probe
  survives older settlements because their episodes differ from it. `Separate` says both, as long
  as no epoch was reused under a trial in flight.
* `RefreshInv`. Every write stamps `updated_at`, so a refresh that a success overtook sees it.
* `ExecutorInv`. The retry flag is cleared with each new account, so by itself it bounds nothing: the
  invariant adds that every account sent to is the current one or excluded, that the current one is
  not excluded, and how many sends the flag stands for. It needs that the selector, in whatever state
  other requests left it and under every policy, answers with a candidate that is not excluded
  (`SelectAtSelects`), which in turn needs that a nonempty set of positions has a first one
  (`HasFirst`, from the well-foundedness of strict inclusion of finite sets).
* `CoverInv`. No account is skipped because what could serve all along (`steady`) is, at each point of
  the loop, still to be scanned, under trial, or sent to (`Covers`); the end of a scan without a
  candidate then leaves nothing, as the selector answers none only when no candidate is selectable
  (`SelectAtCovers`: the cyclic scan visits every position). `Budget` ties the counters to the phase.
* `ShapedInv`, `TurnInv`. `Shaped` gives the selector's record its four fields, enough to see which of
  them an operation leaves alone. A card's turn comes because the picks that passed it over and the
  cards still ahead of it in the scan stay below one round together (`Near`): each pick of an earlier
  card brings it nearer by one at least (`ServingBringsNearer`), and calls served by a conversation's
  own binding move neither (`SelectTurns`).
* `LeaseInv`. The lease says which conversations may be forgotten in terms of uses; the code knows
  only queue and timestamps. `Linked` relates them: the queue lists the keys of the map once each
  (`Queue`), behind a key stand only conversations used since (`Recent`), and `last_seen` is at most
  `MaxDelay` older than the last use. So an expired key timed out for the lease too, and the key
  evicted from a full queue has all the others, and the new one, used after it (`ManyUsed`). The step
  proof maps a selection to `Stay`, `Move`, `Starve` or `Anonymous` (`SelectOutcome`), a preview to
  `Preview`, a look-up to `Read`, and a duplicate list to `Refuse`. Since both levels record the same call, it must show that
  the index the policy finds is among that call's offers (`AnswerIsOffered`, `OffersAreBindings`). What the recursive
  filter of the queue computes (`DroppedRetains`) is proved for every queue from the first prefix on
  which it would be wrong, which exists by `HasFirst`.
* `CpaInv`. Whether a receipt is honest depends on what was there before the operation. The invariant
  says of every stage of every operation what files and row are in terms of `before`, and which child
  may run (`Stage`); between operations, and before the one under way, the disk is at rest (`Rest`):
  manifest, versions, configs, key and child agree. Once a put-back failed (`partial`) a stage fixes
  only the keys of what is left, which is all that the later steps of the compensation need.
* `IInv` of `ByokStoreProofs`. That a rollback is complete depends on what the journal says while the
  process was down: `JournalInv` keeps journal, backups and origin tied to the state before the
  operation through every later edit, `StepInv` says for each step which writes have happened,
  `PlanInv` that a plan keeps the user's text, `HistoryInv` that the recorded past was itself owned.

Checked by TLC only. Liveness (`RefusedRoutesRecover`, `ProbingEnds`, `EveryRequestEnds`) needs
fairness and `ENABLED`, out of the prover's reach. Every invariant and action property that a passing
run checks is also a theorem.

## 5. Not modelled

* Protocol conversion, stream translation, model aliases, provider error texts: transformations of
  JSON and text, without state over several steps; a model small enough to check would leave out what
  can go wrong.
* Schema migrations and the SQL behind each component: a transaction is one atomic step.
* Rule compilation and matching of local policies: pure functions over text; `Recovery` takes the
  sources they yield.
* Scheduling, throttling and joining of usage refreshes: `QuotaRecovery` has one refresh at a time, as
  the global lock enforces.
* GOAT plan cooldowns: their effect on admission is a plan window of `Recovery`; the stored windows
  and their reconciliation would be a module of their own.
* The listener's bind, rebind and stop, and the dashboard-trust recomputation after them.
* Dashboard sessions and gateway keys: one value under one lock each.
* DSH and Copilot hosts, and the one-file BYOK clients: file formats around the store that
  `ByokStore` models. The host lock (`lock.rs`) is taken as given. Read beside the model, it has two
  states no reclaim path clears: a sidecar left by a former directory with a crash right after the
  new directory is made, and a sidecar created but not yet written.
* Browser login, HTTP clients, encryption at rest, command line and desktop shell: I/O and libraries.

## 6. Plan

Done, in this order: `Recovery` with its parts, `QuotaRecovery`, `SelectorState` with `Routing` and its
refinement, `Executor`, `CpaRuntime`, `ByokStore`, each with its runs, and the theorems above, which
now cover every safety property of the passing runs. Next:

1. `GoatPlan` (stored plan windows and their reconciliation) and `Listener` (bind, rebind and stop with
   the trust recomputation) as modules of their own.
2. Proofs of the finding runs' counterparts: the weaker statements that the code does keep.
