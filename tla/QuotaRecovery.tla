--------------------------- MODULE QuotaRecovery ---------------------------
(***************************************************************************)
(* Per-Key quota exhaustion and its one-shot recovery trial                *)
(* (crates/ocg-core/src/quota_recovery.rs, db/quota_recovery.rs, the trial *)
(* acquisition of gateway/forwarder/live_send.rs and the QuotaTrialGuard   *)
(* of gateway/forwarder.rs).                                               *)
(*                                                                         *)
(* An official usage refresh that sees a rate-limited window stores a row  *)
(* (an episode) for the Key.  While the row waits no request is sent on    *)
(* the Key; once it is due the next request is a trial: it writes a        *)
(* crash-safe wait, takes the process-local probe, and on its completed    *)
(* success removes the row.  Requests, the usage refresh, the operator and *)
(* a process restart interleave; every action below is one critical        *)
(* section under the `db` lock.                                            *)
(*                                                                         *)
(* Instants are natural numbers; NoInstant stands for None and lies below  *)
(* every instant, so the later of two optional instants is their maximum.  *)
(* A stored Key is its number in the series of replacements: every         *)
(* replacement stores a fresh ciphertext.                                  *)
(***************************************************************************)
EXTENDS Integers

CONSTANTS
    Credentials,   \* the inference credentials
    Requests,      \* the client requests that may be in flight
    Snapshots,     \* the usage reports the provider may return
    TrialRetry,    \* FAILED_TRIAL_RETRY: 15 minutes
    FirstUnknown,  \* FIRST_UNKNOWN: 15 minutes
    MaxKnownReset, \* MAX_KNOWN_RESET: 40 days
    Horizon,       \* bound: the last instant
    MaxKey,        \* bound: Keys stored per credential
    MaxEpisodes,   \* bound: episodes recorded per credential
    NoRow,         \* None of Option<PersistedQuotaRecovery>
    NoEpisode,     \* None of Option<QuotaEpisode>
    NoSync,        \* no usage refresh is running
    NoCredential   \* the credential of an idle request

NoInstant == -1

Instants == Nat \cup {NoInstant}

Windows == {"FiveHours", "Week", "Month"}

\* A window of a usage report is healthy or rate limited for some minutes.
Healthy == -1

Reports == [Windows -> Nat \cup {Healthy}]

ASSUME QuotaAssumption ==
    /\ Snapshots \subseteq Reports
    /\ TrialRetry \in Nat \ {0}
    /\ FirstUnknown \in Nat \ {0}
    /\ MaxKnownReset \in Nat \ {0}
    /\ Horizon \in Nat
    /\ MaxKey \in Nat
    /\ MaxEpisodes \in Nat
    /\ NoCredential \notin Credentials

VARIABLES
    now,      \* the gateway clock
    key,      \* credentials.key_cipher and credential_version
    enabled,  \* credentials.enabled
    row,      \* credentials.quota_recovery_json, kept across a restart
    probes,   \* CoreState.quota_probes, lost at a restart
    req,      \* the requests of the process
    sync,     \* the usage refresh of each account, or NoSync
    hist      \* history: what the properties compare the state with

vars == <<now, key, enabled, row, probes, req, sync, hist>>

-----------------------------------------------------------------------------
(* Rows *)

Row == [epoch             : Nat,
        windows           : [Windows -> Instants],
        next_retry_at     : Nat,
        unknown_retry_at  : Instants,
        nonquota_floor_at : Instants]

Episode == [key : Nat, epoch : Nat]

later_instant(left, right) == IF left >= right THEN left ELSE right

\* The latest of the restrictions that still lie ahead, or now.
next_retry_for(windows, unknown, floor, at) ==
    later_instant(later_instant(later_instant(unknown, floor), at),
                  later_instant(windows.FiveHours,
                                later_instant(windows.Week, windows.Month)))

due_at(recovery, at) == recovery.next_retry_at <= at

EmptyWindows == [w \in Windows |-> NoInstant]

\* A reset further away than MAX_KNOWN_RESET is not believed.
parse_evidence_reset(minutes, at) ==
    LET delay == IF minutes >= 1 THEN minutes ELSE 1
    IN  IF delay <= MaxKnownReset THEN at + delay ELSE NoInstant

\* No trial reports evidence, so the evidence matches no episode.
from_evidence(previous, w, resets, at) ==
    LET old == IF previous = NoRow
               THEN [epoch |-> 0, windows |-> EmptyWindows, next_retry_at |-> 0,
                     unknown_retry_at |-> NoInstant, nonquota_floor_at |-> NoInstant]
               ELSE previous
        windows == [old.windows EXCEPT ![w] = later_instant(@, resets)]
        unknown == IF resets = NoInstant
                   THEN later_instant(old.unknown_retry_at, at + FirstUnknown)
                   ELSE old.unknown_retry_at
    IN  [epoch             |-> old.epoch + 1,
         windows           |-> windows,
         next_retry_at     |-> next_retry_for(windows, unknown, old.nonquota_floor_at, at),
         unknown_retry_at  |-> unknown,
         nonquota_floor_at |-> old.nonquota_floor_at]

\* Mutant: the crash-safe wait forgets the restrictions behind it.
crash_safe_mutant(recovery, at) ==
    [recovery EXCEPT !.next_retry_at = later_instant(@, at + TrialRetry)]

\* Mutant: a trial renews the waits of the evidence without the 15-minute floor.
crash_unsafe_mutant(recovery, at) ==
    [recovery EXCEPT !.next_retry_at =
        later_instant(@, next_retry_for(recovery.windows, recovery.unknown_retry_at,
                                        recovery.nonquota_floor_at, at))]

with_crash_safe_retry(recovery, at) ==
    [recovery EXCEPT !.next_retry_at =
        later_instant(later_instant(@, at + TrialRetry),
                      next_retry_for(recovery.windows, recovery.unknown_retry_at,
                                     recovery.nonquota_floor_at, at))]

with_nonquota_trial_failure(recovery, at) ==
    LET floor == later_instant(recovery.nonquota_floor_at, at + TrialRetry)
    IN  [recovery EXCEPT
            !.nonquota_floor_at = floor,
            !.next_retry_at =
                later_instant(later_instant(@, at + TrialRetry),
                              next_retry_for(recovery.windows, recovery.unknown_retry_at,
                                             floor, at))]

\* One usage report: each rate-limited window adds its evidence in turn.
Observed(previous, snapshot, w, at) ==
    IF snapshot[w] = Healthy
    THEN previous
    ELSE from_evidence(previous, w, parse_evidence_reset(snapshot[w], at), at)

official_go_quota_evidence(snapshot, at) ==
    Observed(Observed(Observed(NoRow, snapshot, "FiveHours", at),
                      snapshot, "Week", at),
             snapshot, "Month", at)

\* The report replaces the stored row, and a healthy one removes it.
reconcile_official_go_usage(previous, snapshot, at) ==
    LET next == official_go_quota_evidence(snapshot, at)
    IN  IF next = NoRow
        THEN NoRow
        ELSE [next EXCEPT !.epoch = IF previous = NoRow THEN 1 ELSE previous.epoch + 1]

-----------------------------------------------------------------------------
(* The live view of a credential *)

InRecovery(c) == row[c] # NoRow

CurrentEpisode(c) == [key |-> key[c], epoch |-> row[c].epoch]

\* apply_quota_probes: the probe counts only for the episode it names.
Probing(c) == InRecovery(c) /\ probes[c] = CurrentEpisode(c)

\* The credential part of verify_execution_authorization.
Authorized(c, k) ==
    /\ enabled[c]
    /\ key[c] = k
    /\ ~ Probing(c)
    /\ InRecovery(c) => due_at(row[c], now)

\* QuotaObservation::is_current: no account reset and no change of the
\* credential since the request was admitted.
ObservationIsCurrent(r) ==
    /\ req[r].fresh
    /\ enabled[req[r].cred]
    /\ key[req[r].cred] = req[r].key

IdleRequest == [pc |-> "idle", cred |-> NoCredential, key |-> 0, fresh |-> FALSE,
                episode |-> NoEpisode, number |-> 0]

InTrial(r) == req[r].pc = "sent" /\ req[r].episode # NoEpisode

\* The trials in flight on the credential.
TrialsOn(c) == {r \in Requests : InTrial(r) /\ req[r].cred = c}

-----------------------------------------------------------------------------
(* History                                                                 *)
(*                                                                         *)
(* hist[c].number counts the episodes recorded for c, so that two episodes *)
(* of the same epoch can be told apart; rowKey is the Key the evidence of  *)
(* the row was read with; tried is the last trial of the row's episode;    *)
(* manual says an operator made the row due since; reused says an episode  *)
(* was recorded under the epoch of a trial still in flight in this process.*)

History == [number : Nat, rowKey : Nat, tried : Instants,
            manual : BOOLEAN, reused : BOOLEAN]

NoHistory == [number |-> 0, rowKey |-> 0, tried |-> NoInstant,
              manual |-> FALSE, reused |-> FALSE]

\* A new episode of c, read with Key k.
Recorded(c, new, k) ==
    [hist[c] EXCEPT
        !.number = @ + 1,
        !.rowKey = k,
        !.tried  = NoInstant,
        !.manual = FALSE,
        !.reused = @ \/ \E r \in TrialsOn(c) :
                            req[r].episode = [key |-> key[c], epoch |-> new.epoch]]

-----------------------------------------------------------------------------
(* A usage refresh holds one global lock from its capture to its commit.   *)
(* `updated` says the credential's updated_at changed since the capture;   *)
(* `healed`, a history field, that a trial succeeded on it since.          *)

Identity == [key : Nat, row : Row \cup {NoRow}, updated : BOOLEAN, healed : BOOLEAN]

\* Every UPDATE of the credential stamps updated_at; the captured row decides
\* nothing after that, since the commit is refused, and is forgotten.
Touched(c, healed) ==
    IF sync[c] = NoSync
    THEN sync
    ELSE [sync EXCEPT ![c] = [key |-> sync[c].key, row |-> NoRow, updated |-> TRUE,
                              healed |-> sync[c].healed \/ healed]]

refresh_begin(c) ==
    /\ \A d \in Credentials : sync[d] = NoSync
    /\ sync' = [sync EXCEPT ![c] = [key |-> key[c], row |-> row[c],
                                    updated |-> FALSE, healed |-> FALSE]]
    /\ UNCHANGED <<now, key, enabled, row, probes, req, hist>>

\* Mutant: the refresh commits whatever happened since its capture.
identity_mutant(c) == TRUE

\* Mutant: only the Key is compared.
identity_key_mutant(c) == sync[c].key = key[c]

\* UsageRefreshIdentity::is_current
IdentityIsCurrent(c) ==
    /\ ~ sync[c].updated
    /\ sync[c].key = key[c]
    /\ sync[c].row = row[c]

refresh_commit(c, snapshot) ==
    LET next == reconcile_official_go_usage(row[c], snapshot, now)
    IN  /\ sync[c] # NoSync
        /\ IdentityIsCurrent(c)
        /\ next # NoRow => hist[c].number < MaxEpisodes
        /\ row' = [row EXCEPT ![c] = next]
        /\ sync' = [sync EXCEPT ![c] = NoSync]
        /\ hist' = IF next = NoRow THEN hist
                   ELSE [hist EXCEPT ![c] = Recorded(c, next, sync[c].key)]
        /\ UNCHANGED <<now, key, enabled, probes, req>>

\* The provider failed, or the identity changed while it answered.
refresh_abort(c) ==
    /\ sync[c] # NoSync
    /\ sync' = [sync EXCEPT ![c] = NoSync]
    /\ UNCHANGED <<now, key, enabled, row, probes, req, hist>>

-----------------------------------------------------------------------------
(* Requests *)

\* Selection on a live view, and the admission by the recovery runtime.
select(r, c) ==
    /\ req[r].pc = "idle"
    /\ Authorized(c, key[c])
    /\ req' = [req EXCEPT ![r] = [IdleRequest EXCEPT !.pc = "selected", !.cred = c,
                                                     !.key = key[c], !.fresh = TRUE]]
    /\ UNCHANGED <<now, key, enabled, row, probes, sync, hist>>

\* confirm_execution_send, fast path: under `db` alone.
confirm_fast(r) ==
    /\ req[r].pc = "selected"
    /\ req' = [req EXCEPT ![r] =
                 IF ~ Authorized(@.cred, @.key) THEN IdleRequest
                 ELSE [@ EXCEPT !.pc = IF InRecovery(req[r].cred) THEN "escalating" ELSE "sent"]]
    /\ UNCHANGED <<now, key, enabled, row, probes, sync, hist>>

\* confirm_execution_send, slow path: the view is read again, and a Key that
\* is no longer in recovery is simply sent on.
confirm_slow(r) ==
    /\ req[r].pc = "escalating"
    /\ ~ InRecovery(req[r].cred) \/ ~ Authorized(req[r].cred, req[r].key)
    /\ req' = [req EXCEPT ![r] =
                 IF Authorized(@.cred, @.key) THEN [@ EXCEPT !.pc = "sent"] ELSE IdleRequest]
    /\ UNCHANGED <<now, key, enabled, row, probes, sync, hist>>

\* The crash-safe wait is stored before the probe is taken.
acquire_quota_trial_locked(r) ==
    LET c == req[r].cred
    IN  /\ req[r].pc = "escalating"
        /\ InRecovery(c)
        /\ Authorized(c, req[r].key)
        /\ row' = [row EXCEPT ![c] = with_crash_safe_retry(@, now)]
        /\ probes' = [probes EXCEPT ![c] = CurrentEpisode(c)]
        /\ req' = [req EXCEPT ![r].pc = "sent", ![r].episode = CurrentEpisode(c),
                              ![r].number = hist[c].number]
        /\ sync' = Touched(c, FALSE)
        /\ hist' = [hist EXCEPT ![c].tried = now, ![c].manual = FALSE]
        /\ UNCHANGED <<now, key, enabled>>

\* The row could not be stored: the attempt is refused and no probe is taken.
acquire_fails(r) ==
    /\ req[r].pc = "escalating"
    /\ InRecovery(req[r].cred)
    /\ Authorized(req[r].cred, req[r].key)
    /\ req' = [req EXCEPT ![r] = IdleRequest]
    /\ UNCHANGED <<now, key, enabled, row, probes, sync, hist>>

\* An ordinary request ends.
finish(r) ==
    /\ req[r].pc = "sent"
    /\ req[r].episode = NoEpisode
    /\ req' = [req EXCEPT ![r] = IdleRequest]
    /\ UNCHANGED <<now, key, enabled, row, probes, sync, hist>>

\* Mutant: the epoch is not compared.
matches_mutant(r) == InRecovery(req[r].cred) /\ req[r].episode.key = key[req[r].cred]

\* clear_matching_on and release_nonquota_trial_on write only to the row of
\* the trial's own Key and epoch.
Matches(r) ==
    LET c == req[r].cred
    IN  InRecovery(c) /\ req[r].episode = CurrentEpisode(c)

\* Mutant: the probe is removed whoever holds it.
release_mutant(r) == probes' = [probes EXCEPT ![req[r].cred] = NoEpisode]

\* Mutant: the probe is released only when the row is still the trial's.
release_matching_mutant(r) ==
    probes' = IF Matches(r) THEN [probes EXCEPT ![req[r].cred] = NoEpisode] ELSE probes

\* Mutant: the probe is never released.
release_never_mutant(r) == probes' = probes

\* persist_quota_write: whatever became of the write, the probe is released
\* when it is still this trial's.
ReleaseProbe(r) ==
    probes' = [probes EXCEPT ![req[r].cred] = IF @ = req[r].episode THEN NoEpisode ELSE @]

\* QuotaTrialGuard::succeed
succeed(r) ==
    LET c == req[r].cred
    IN  /\ InTrial(r)
        /\ ObservationIsCurrent(r)
        /\ Matches(r)
        /\ row' = [row EXCEPT ![c] = NoRow]
        /\ sync' = Touched(c, TRUE)
        /\ ReleaseProbe(r)
        /\ req' = [req EXCEPT ![r] = IdleRequest]
        /\ UNCHANGED <<now, key, enabled, hist>>

\* QuotaTrialGuard::fail_nonquota, also from Drop.
fail_nonquota(r) ==
    LET c == req[r].cred
    IN  /\ InTrial(r)
        /\ ObservationIsCurrent(r)
        /\ Matches(r)
        /\ row' = [row EXCEPT ![c] = with_nonquota_trial_failure(@, now)]
        /\ sync' = Touched(c, FALSE)
        /\ ReleaseProbe(r)
        /\ req' = [req EXCEPT ![r] = IdleRequest]
        /\ UNCHANGED <<now, key, enabled, hist>>

\* Either outcome when the observation is stale, the episode is no longer the
\* stored one, or the database refuses the write.
settle_without_write(r) ==
    /\ InTrial(r)
    /\ ReleaseProbe(r)
    /\ req' = [req EXCEPT ![r] = IdleRequest]
    /\ UNCHANGED <<now, key, enabled, row, sync, hist>>

-----------------------------------------------------------------------------
(* The operator, the clock and the process *)

\* Mutant: a retry erases the deadline instead of setting it to now.
quota_retry_mutant(c) ==
    /\ InRecovery(c)
    /\ ~ Probing(c)
    /\ ~ due_at(row[c], now)
    /\ row' = [row EXCEPT ![c].next_retry_at = NoInstant]
    /\ sync' = Touched(c, FALSE)
    /\ hist' = [hist EXCEPT ![c].manual = TRUE]
    /\ UNCHANGED <<now, key, enabled, probes, req>>

\* POST quota-retry: idempotent while ready or probing.
quota_retry(c) ==
    /\ InRecovery(c)
    /\ ~ Probing(c)
    /\ ~ due_at(row[c], now)
    /\ row' = [row EXCEPT ![c].next_retry_at = now]
    /\ sync' = Touched(c, FALSE)
    /\ hist' = [hist EXCEPT ![c].manual = TRUE]
    /\ UNCHANGED <<now, key, enabled, probes, req>>

\* Rotation, account update, import or verification with another Key.
replace_key(c) ==
    /\ key[c] < MaxKey
    /\ key' = [key EXCEPT ![c] = @ + 1]
    /\ row' = [row EXCEPT ![c] = NoRow]
    /\ sync' = Touched(c, FALSE)
    /\ UNCHANGED <<now, enabled, probes, req, hist>>

set_enabled(c) ==
    /\ enabled' = [enabled EXCEPT ![c] = ~ @]
    /\ sync' = Touched(c, FALSE)
    /\ UNCHANGED <<now, key, row, probes, req, hist>>

\* RecoveryRuntime::reset_account fences the requests admitted before it.
reset_cooldown(c) ==
    /\ req' = [r \in Requests |-> IF req[r].cred = c THEN [req[r] EXCEPT !.fresh = FALSE]
                                                      ELSE req[r]]
    /\ sync' = Touched(c, FALSE)
    /\ UNCHANGED <<now, key, enabled, row, probes, hist>>

\* The process dies and starts again: only the database survives.
restart ==
    /\ req' = [r \in Requests |-> IdleRequest]
    /\ probes' = [c \in Credentials |-> NoEpisode]
    /\ sync' = [c \in Credentials |-> NoSync]
    /\ hist' = [c \in Credentials |-> [hist[c] EXCEPT !.reused = FALSE]]
    /\ UNCHANGED <<now, key, enabled, row>>

tick ==
    /\ now < Horizon
    /\ now' = now + 1
    /\ UNCHANGED <<key, enabled, row, probes, req, sync, hist>>

-----------------------------------------------------------------------------

Init ==
    /\ now = 0
    /\ key = [c \in Credentials |-> 1]
    /\ enabled = [c \in Credentials |-> TRUE]
    /\ row = [c \in Credentials |-> NoRow]
    /\ probes = [c \in Credentials |-> NoEpisode]
    /\ req = [r \in Requests |-> IdleRequest]
    /\ sync = [c \in Credentials |-> NoSync]
    /\ hist = [c \in Credentials |-> NoHistory]

RequestStep(r) ==
    \/ \E c \in Credentials : select(r, c)
    \/ confirm_fast(r)
    \/ confirm_slow(r)
    \/ acquire_quota_trial_locked(r)
    \/ acquire_fails(r)
    \/ finish(r)
    \/ succeed(r)
    \/ fail_nonquota(r)
    \/ settle_without_write(r)

CredentialStep(c) ==
    \/ refresh_begin(c)
    \/ \E snapshot \in Snapshots : refresh_commit(c, snapshot)
    \/ refresh_abort(c)
    \/ quota_retry(c)
    \/ replace_key(c)
    \/ set_enabled(c)
    \/ reset_cooldown(c)

Next ==
    \/ \E r \in Requests : RequestStep(r)
    \/ \E c \in Credentials : CredentialStep(c)
    \/ restart
    \/ tick

\* A sent trial ends: the client stream completes or is dropped, and the
\* guard's Drop settles what nothing else did.
settle(r) == succeed(r) \/ fail_nonquota(r) \/ settle_without_write(r)

Spec == Init /\ [][Next]_vars

FairSpec == Spec /\ \A r \in Requests : WF_vars(settle(r))

-----------------------------------------------------------------------------
(* Properties *)

RequestType ==
    [pc      : {"idle", "selected", "escalating", "sent"},
     cred    : Credentials \cup {NoCredential},
     key     : Nat,
     fresh   : BOOLEAN,
     episode : Episode \cup {NoEpisode},
     number  : Nat]

\* The state has the types the structs of quota_recovery.rs declare, and a
\* request past its selection names the credential it was selected for.
TypeOK ==
    /\ now \in Nat
    /\ key \in [Credentials -> Nat]
    /\ enabled \in [Credentials -> BOOLEAN]
    /\ row \in [Credentials -> Row \cup {NoRow}]
    /\ probes \in [Credentials -> Episode \cup {NoEpisode}]
    /\ req \in [Requests -> RequestType]
    /\ \A r \in Requests : req[r].pc # "idle" => req[r].cred \in Credentials
    /\ sync \in [Credentials -> Identity \cup {NoSync}]
    /\ hist \in [Credentials -> History]

\* A probe blocks its Key for every other request, and only the settlement of
\* a trial removes it (persist_quota_write); so each probe is the episode of
\* a trial still in flight, however refreshes, Key changes and overtaking
\* trials interleaved.  An orphaned probe would block the Key until a restart.
ProbeHasOwner ==
    \A c \in Credentials :
        probes[c] # NoEpisode =>
            \E r \in TrialsOn(c) : req[r].episode = probes[c]

\* "the next request ... is the single trial": acquire_quota_trial_locked never
\* lets two trials of one episode be in flight together, unless a refresh
\* recorded an episode under the epoch of a trial still in flight.
OneTrialPerEpisode ==
    \A c \in Credentials :
        hist[c].reused \/
            \A r, s \in TrialsOn(c) : req[r].number = req[s].number => r = s

\* Evidence read with one Key is never stored for its replacement: a refresh
\* that started before the Key was replaced does not commit
\* (UsageRefreshIdentity::is_current), and a replacement drops the row.
RowBelongsToKey ==
    \A c \in Credentials : InRecovery(c) => hist[c].rowKey = key[c]

\* The row is not due before anything it carries.
Covered(recovery) ==
    /\ \A w \in Windows : recovery.windows[w] <= recovery.next_retry_at
    /\ recovery.unknown_retry_at <= recovery.next_retry_at
    /\ recovery.nonquota_floor_at <= recovery.next_retry_at

\* Trials, their failures and restarts never make the row due before a reset,
\* a backoff or a 15-minute floor it still carries; only an operator does, and
\* the trial that follows restores the wait (with_crash_safe_retry).
WaitCoversEvidence ==
    \A c \in Credentials : InRecovery(c) /\ ~ hist[c].manual => Covered(row[c])

\* Request r becomes a trial on c.
Starts(r, c) == ~ InTrial(r) /\ InTrial(r)' /\ req'[r].cred = c

\* Two trials of one episode are at least 15 minutes apart, even when the
\* process died during the first, its settlement could not be stored, or its
\* observation went stale; only an operator's retry shortens that.
TrialsAreSpaced ==
    [][\A r \in Requests, c \in Credentials :
         Starts(r, c) /\ hist[c].tried # NoInstant /\ ~ hist[c].manual
         => now >= hist[c].tried + TrialRetry]_vars

\* Request r ends on c and takes its row away.
Clears(r, c) ==
    /\ InTrial(r)
    /\ req[r].cred = c
    /\ req'[r].pc = "idle"
    /\ InRecovery(c)
    /\ row'[c] = NoRow

\* A trial's success removes only the episode it is the trial of, as long as
\* no episode was recorded under the epoch of a trial still in flight.
OnlyOwnTrialClears ==
    [][\A r \in Requests, c \in Credentials :
         Clears(r, c) => hist[c].reused \/ req[r].number = hist[c].number]_vars

\* "A success from a stale Key version or a previous episode cannot clear the
\* current state" (docs/maintainer/runtime-invariants.md), of clear_matching_on.
PreviousEpisodeNeverClears ==
    [][\A r \in Requests, c \in Credentials :
         Clears(r, c) => req[r].number = hist[c].number]_vars

\* A usage refresh whose evidence was fetched before a trial succeeded does not
\* put the Key back into exhaustion after that success.
NoStaleEvidence ==
    [][\A c \in Credentials :
         sync[c] # NoSync /\ sync[c].healed => hist'[c].number = hist[c].number]_vars

\* A trial does not hold its Key forever: every settlement path, the Drop of an
\* abandoned one included, gives the probe back.
ProbingEnds ==
    \A c \in Credentials : Probing(c) ~> ~ Probing(c)

=============================================================================
