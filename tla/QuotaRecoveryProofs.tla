------------------------ MODULE QuotaRecoveryProofs ------------------------
(***************************************************************************)
(* Proofs about QuotaRecovery, for any set of credentials and requests,    *)
(* any usage reports and any values of the time constants.                 *)
(***************************************************************************)
EXTENDS QuotaRecovery, TLAPS

\* What the comparisons of optional instants return.
LEMMA LaterInstant ==
    \A a, b \in Instants :
        /\ later_instant(a, b) \in Instants
        /\ later_instant(a, b) >= a
        /\ later_instant(a, b) >= b
        /\ a \in Nat \/ b \in Nat => later_instant(a, b) \in Nat
BY DEF later_instant, Instants, NoInstant

\* next_retry_for lies at or after now and after every restriction.
LEMMA NextRetryFor ==
    ASSUME NEW windows \in [Windows -> Instants],
           NEW unknown \in Instants, NEW floor \in Instants, NEW at \in Nat
    PROVE  /\ next_retry_for(windows, unknown, floor, at) \in Nat
           /\ \A w \in Windows : windows[w] <= next_retry_for(windows, unknown, floor, at)
           /\ unknown <= next_retry_for(windows, unknown, floor, at)
           /\ floor <= next_retry_for(windows, unknown, floor, at)
<1>1. /\ windows["FiveHours"] \in Instants
      /\ windows["Week"] \in Instants
      /\ windows["Month"] \in Instants
  BY DEF Windows
<1>2. next_retry_for(windows, unknown, floor, at) =
        later_instant(later_instant(later_instant(unknown, floor), at),
                      later_instant(windows["FiveHours"],
                                    later_instant(windows["Week"], windows["Month"])))
  BY DEF next_retry_for
<1>3. /\ next_retry_for(windows, unknown, floor, at) \in Nat
      /\ windows["FiveHours"] <= next_retry_for(windows, unknown, floor, at)
      /\ windows["Week"] <= next_retry_for(windows, unknown, floor, at)
      /\ windows["Month"] <= next_retry_for(windows, unknown, floor, at)
      /\ unknown <= next_retry_for(windows, unknown, floor, at)
      /\ floor <= next_retry_for(windows, unknown, floor, at)
  BY <1>1, <1>2 DEF later_instant, Instants, NoInstant
<1> QED BY <1>3 DEF Windows

\* The stored wait of a trial: a row again, of the same episode, not due before
\* its restrictions nor within TrialRetry of the send.
LEMMA CrashSafeRetry ==
    ASSUME NEW recovery \in Row, NEW at \in Nat
    PROVE  /\ with_crash_safe_retry(recovery, at) \in Row
           /\ with_crash_safe_retry(recovery, at).epoch = recovery.epoch
           /\ with_crash_safe_retry(recovery, at).next_retry_at >= at + TrialRetry
           /\ Covered(with_crash_safe_retry(recovery, at))
<1> DEFINE restriction == next_retry_for(recovery.windows, recovery.unknown_retry_at,
                                         recovery.nonquota_floor_at, at)
           wait == later_instant(later_instant(recovery.next_retry_at, at + TrialRetry),
                                 restriction)
<1>1. /\ recovery.windows \in [Windows -> Instants]
      /\ recovery.unknown_retry_at \in Instants
      /\ recovery.nonquota_floor_at \in Instants
      /\ recovery.next_retry_at \in Nat
      /\ recovery.epoch \in Nat
  BY DEF Row
<1>2. /\ restriction \in Nat
      /\ \A w \in Windows : recovery.windows[w] <= restriction
      /\ recovery.unknown_retry_at <= restriction
      /\ recovery.nonquota_floor_at <= restriction
  BY <1>1, NextRetryFor
<1>3. at + TrialRetry \in Nat
  BY QuotaAssumption
<1> HIDE DEF restriction
<1>4. /\ wait \in Nat
      /\ wait >= restriction
      /\ wait >= at + TrialRetry
  BY <1>1, <1>2, <1>3, LaterInstant DEF later_instant
<1>5. with_crash_safe_retry(recovery, at) = [recovery EXCEPT !.next_retry_at = wait]
  BY DEF with_crash_safe_retry, restriction
<1> HIDE DEF wait
<1>6. with_crash_safe_retry(recovery, at) \in Row
  BY <1>1, <1>4, <1>5 DEF Row
<1>7. /\ with_crash_safe_retry(recovery, at).epoch = recovery.epoch
      /\ with_crash_safe_retry(recovery, at).windows = recovery.windows
      /\ with_crash_safe_retry(recovery, at).unknown_retry_at = recovery.unknown_retry_at
      /\ with_crash_safe_retry(recovery, at).nonquota_floor_at = recovery.nonquota_floor_at
      /\ with_crash_safe_retry(recovery, at).next_retry_at = wait
  BY <1>5 DEF Row
<1>8. Covered(with_crash_safe_retry(recovery, at))
  <2>1. \A w \in Windows : recovery.windows[w] \in Instants
    BY <1>1
  <2> QED BY <2>1, <1>1, <1>2, <1>4, <1>7 DEF Covered, Instants, NoInstant
<1> QED BY <1>4, <1>6, <1>7, <1>8

\* A failed trial: the same, with a floor TrialRetry after the failure.
LEMMA NonquotaTrialFailure ==
    ASSUME NEW recovery \in Row, NEW at \in Nat
    PROVE  /\ with_nonquota_trial_failure(recovery, at) \in Row
           /\ with_nonquota_trial_failure(recovery, at).epoch = recovery.epoch
           /\ with_nonquota_trial_failure(recovery, at).next_retry_at >= recovery.next_retry_at
           /\ Covered(with_nonquota_trial_failure(recovery, at))
<1> DEFINE floor == later_instant(recovery.nonquota_floor_at, at + TrialRetry)
           restriction == next_retry_for(recovery.windows, recovery.unknown_retry_at,
                                         floor, at)
           wait == later_instant(later_instant(recovery.next_retry_at, at + TrialRetry),
                                 restriction)
<1>1. /\ recovery.windows \in [Windows -> Instants]
      /\ recovery.unknown_retry_at \in Instants
      /\ recovery.nonquota_floor_at \in Instants
      /\ recovery.next_retry_at \in Nat
      /\ recovery.epoch \in Nat
  BY DEF Row
<1>2. at + TrialRetry \in Nat
  BY QuotaAssumption
<1>3. floor \in Instants
  BY <1>1, <1>2 DEF later_instant, Instants, NoInstant
<1>4. with_nonquota_trial_failure(recovery, at) =
        [recovery EXCEPT !.nonquota_floor_at = floor, !.next_retry_at = wait]
  BY DEF with_nonquota_trial_failure
<1> HIDE DEF floor
<1>5. /\ restriction \in Nat
      /\ \A w \in Windows : recovery.windows[w] <= restriction
      /\ recovery.unknown_retry_at <= restriction
      /\ floor <= restriction
  BY <1>1, <1>3, NextRetryFor
<1> HIDE DEF restriction
<1>6. /\ wait \in Nat
      /\ wait >= restriction
      /\ wait >= recovery.next_retry_at
  BY <1>1, <1>2, <1>5 DEF later_instant
<1> HIDE DEF wait
<1>7. with_nonquota_trial_failure(recovery, at) \in Row
  BY <1>1, <1>3, <1>4, <1>6 DEF Row
<1>8. /\ with_nonquota_trial_failure(recovery, at).epoch = recovery.epoch
      /\ with_nonquota_trial_failure(recovery, at).windows = recovery.windows
      /\ with_nonquota_trial_failure(recovery, at).unknown_retry_at = recovery.unknown_retry_at
      /\ with_nonquota_trial_failure(recovery, at).nonquota_floor_at = floor
      /\ with_nonquota_trial_failure(recovery, at).next_retry_at = wait
  BY <1>4 DEF Row
<1>9. Covered(with_nonquota_trial_failure(recovery, at))
  <2>1. \A w \in Windows : recovery.windows[w] \in Instants
    BY <1>1
  <2> QED BY <2>1, <1>1, <1>3, <1>5, <1>6, <1>8 DEF Covered, Instants, NoInstant
<1> QED BY <1>6, <1>7, <1>8, <1>9

\* Evidence yields a row that covers all of it.
LEMMA FromEvidence ==
    ASSUME NEW previous \in Row \cup {NoRow}, NEW w \in Windows,
           NEW resets \in Instants, NEW at \in Nat
    PROVE  /\ from_evidence(previous, w, resets, at) \in Row
           /\ Covered(from_evidence(previous, w, resets, at))
<1> DEFINE old == IF previous = NoRow
                  THEN [epoch |-> 0, windows |-> EmptyWindows, next_retry_at |-> 0,
                        unknown_retry_at |-> NoInstant, nonquota_floor_at |-> NoInstant]
                  ELSE previous
           windows == [old.windows EXCEPT ![w] = later_instant(@, resets)]
           unknown == IF resets = NoInstant
                      THEN later_instant(old.unknown_retry_at, at + FirstUnknown)
                      ELSE old.unknown_retry_at
           next == next_retry_for(windows, unknown, old.nonquota_floor_at, at)
<1>1. from_evidence(previous, w, resets, at) =
        [epoch             |-> old.epoch + 1,
         windows           |-> windows,
         next_retry_at     |-> next,
         unknown_retry_at  |-> unknown,
         nonquota_floor_at |-> old.nonquota_floor_at]
  BY DEF from_evidence
<1>2. /\ old.epoch \in Nat
      /\ old.windows \in [Windows -> Instants]
      /\ old.unknown_retry_at \in Instants
      /\ old.nonquota_floor_at \in Instants
  BY DEF Row, EmptyWindows, Instants
<1> HIDE DEF old
<1>3. windows \in [Windows -> Instants]
  <2>1. later_instant(old.windows[w], resets) \in Instants
    BY <1>2, LaterInstant
  <2> QED BY <1>2, <2>1
<1>4. unknown \in Instants
  BY <1>2, QuotaAssumption DEF later_instant, Instants, NoInstant
<1> HIDE DEF windows, unknown
<1>5. /\ next \in Nat
      /\ \A v \in Windows : windows[v] <= next
      /\ unknown <= next
      /\ old.nonquota_floor_at <= next
  BY <1>2, <1>3, <1>4, NextRetryFor
<1> HIDE DEF next
<1> QED BY <1>1, <1>2, <1>3, <1>4, <1>5 DEF Row, Covered

\* A usage report yields no row, or a row that covers all it says.
LEMMA Reconcile ==
    ASSUME NEW previous \in Row \cup {NoRow}, NEW snapshot \in Snapshots, NEW at \in Nat
    PROVE  reconcile_official_go_usage(previous, snapshot, at) # NoRow =>
             /\ reconcile_official_go_usage(previous, snapshot, at) \in Row
             /\ Covered(reconcile_official_go_usage(previous, snapshot, at))
<1> DEFINE Fine(x) == x = NoRow \/ (x \in Row /\ Covered(x))
<1>1. \A x : \A w \in Windows : Fine(x) => Fine(Observed(x, snapshot, w, at))
  <2> SUFFICES ASSUME NEW x, NEW w \in Windows, Fine(x)
               PROVE  Fine(Observed(x, snapshot, w, at))
    OBVIOUS
  <2>1. CASE snapshot[w] = Healthy
    BY <2>1 DEF Observed
  <2>2. CASE snapshot[w] # Healthy
    <3>1. snapshot[w] \in Nat
      BY <2>2, QuotaAssumption DEF Reports
    <3>2. parse_evidence_reset(snapshot[w], at) \in Instants
      BY <3>1, QuotaAssumption DEF parse_evidence_reset, Instants, NoInstant
    <3>3. x \in Row \cup {NoRow}
      OBVIOUS
    <3>4. Fine(from_evidence(x, w, parse_evidence_reset(snapshot[w], at), at))
      BY <3>2, <3>3, FromEvidence
    <3> QED BY <2>2, <3>4 DEF Observed
  <2> QED BY <2>1, <2>2
<1>2. Fine(official_go_quota_evidence(snapshot, at))
  <2> HIDE DEF Fine
  <2>1. Fine(NoRow)
    BY DEF Fine
  <2>2. Fine(Observed(NoRow, snapshot, "FiveHours", at))
    BY <1>1, <2>1 DEF Windows
  <2>3. Fine(Observed(Observed(NoRow, snapshot, "FiveHours", at), snapshot, "Week", at))
    BY <1>1, <2>2 DEF Windows
  <2> QED BY <1>1, <2>3 DEF Windows, official_go_quota_evidence
<1> DEFINE next == official_go_quota_evidence(snapshot, at)
           epoch == IF previous = NoRow THEN 1 ELSE previous.epoch + 1
<1>3. ASSUME next # NoRow
      PROVE  /\ [next EXCEPT !.epoch = epoch] \in Row
             /\ Covered([next EXCEPT !.epoch = epoch])
  <2>1. next \in Row /\ Covered(next)
    BY <1>2, <1>3
  <2>2. epoch \in Nat
    BY DEF Row
  <2> HIDE DEF next, epoch
  <2> QED BY <2>1, <2>2 DEF Row, Covered
<1> QED BY <1>3 DEF reconcile_official_go_usage

-----------------------------------------------------------------------------
(* Types *)

LEMMA IdleType == IdleRequest \in RequestType
BY DEF IdleRequest, RequestType

\* A write that stamps updated_at keeps the captured identities well typed.
LEMMA TouchedType ==
    ASSUME TypeOK, NEW c \in Credentials, NEW healed \in BOOLEAN
    PROVE  Touched(c, healed) \in [Credentials -> Identity \cup {NoSync}]
<1> DEFINE new == [key |-> sync[c].key, row |-> NoRow, updated |-> TRUE,
                   healed |-> sync[c].healed \/ healed]
<1>1. sync \in [Credentials -> Identity \cup {NoSync}]
  BY DEF TypeOK
<1>2. Touched(c, healed) = IF sync[c] = NoSync THEN sync ELSE [sync EXCEPT ![c] = new]
  BY DEF Touched
<1>3. ASSUME sync[c] # NoSync
      PROVE  new \in Identity
  <2>1. sync[c].key \in Nat /\ sync[c].row \in Row \cup {NoRow}
    BY <1>1, <1>3 DEF Identity
  <2>2. (sync[c].healed \/ healed) \in BOOLEAN
    OBVIOUS
  <2> QED BY <2>1, <2>2, Zenon DEF Identity
<1> HIDE DEF new
<1> QED BY <1>1, <1>2, <1>3

\* A request may take a new value of its type.
LEMMA RequestUpdate ==
    ASSUME TypeOK, NEW r \in Requests, NEW q \in RequestType,
           q.pc # "idle" => q.cred \in Credentials,
           req' = [req EXCEPT ![r] = q]
    PROVE  /\ req' \in [Requests -> RequestType]
           /\ \A s \in Requests : req'[s].pc # "idle" => req'[s].cred \in Credentials
BY DEF TypeOK

\* The parts of a request past its selection.
LEMMA RequestFields ==
    ASSUME TypeOK, NEW r \in Requests, req[r].pc # "idle"
    PROVE  /\ req[r].cred \in Credentials
           /\ req[r].key \in Nat
           /\ req[r].fresh \in BOOLEAN
           /\ req[r].episode \in Episode \cup {NoEpisode}
           /\ req[r].number \in Nat
           /\ req[r] \in RequestType
BY DEF TypeOK, RequestType

LEMMA EpisodeType ==
    ASSUME TypeOK, NEW c \in Credentials, InRecovery(c)
    PROVE  CurrentEpisode(c) \in Episode
<1>1. row[c] \in Row /\ key[c] \in Nat
  BY DEF TypeOK, InRecovery
<1> QED BY <1>1 DEF CurrentEpisode, Episode, Row

\* ReleaseProbe keeps the probes well typed.
LEMMA ReleaseType ==
    ASSUME TypeOK, NEW r \in Requests, req[r].pc # "idle", ReleaseProbe(r)
    PROVE  probes' \in [Credentials -> Episode \cup {NoEpisode}]
BY DEF TypeOK, ReleaseProbe

LEMMA RecordedType ==
    ASSUME TypeOK, NEW c \in Credentials, NEW new, NEW k \in Nat
    PROVE  Recorded(c, new, k) \in History
<1> DEFINE h == hist[c]
           flag == h.reused \/ \E r \in TrialsOn(c) :
                                  req[r].episode = [key |-> key[c], epoch |-> new.epoch]
<1>1. h \in History
  BY DEF TypeOK
<1>2. Recorded(c, new, k) = [h EXCEPT !.number = h.number + 1, !.rowKey = k,
                                      !.tried = NoInstant, !.manual = FALSE, !.reused = flag]
  BY DEF Recorded
<1>3. flag \in BOOLEAN
  OBVIOUS
<1> HIDE DEF h, flag
<1>4. h.number + 1 \in Nat
  BY <1>1 DEF History
<1>5. Recorded(c, new, k) = [number |-> h.number + 1, rowKey |-> k, tried |-> NoInstant,
                             manual |-> FALSE, reused |-> flag]
  BY <1>1, <1>2 DEF History
<1>6. NoInstant \in Instants
  BY DEF Instants
<1> QED BY <1>3, <1>4, <1>5, <1>6 DEF History

LEMMA TypeInit == Init => TypeOK
<1> SUFFICES ASSUME Init PROVE TypeOK
  OBVIOUS
<1>1. /\ now \in Nat
      /\ key \in [Credentials -> Nat]
      /\ enabled \in [Credentials -> BOOLEAN]
      /\ row \in [Credentials -> Row \cup {NoRow}]
      /\ probes \in [Credentials -> Episode \cup {NoEpisode}]
      /\ sync \in [Credentials -> Identity \cup {NoSync}]
  BY DEF Init
<1>2. req \in [Requests -> RequestType]
  BY IdleType DEF Init
<1>3. \A r \in Requests : req[r].pc = "idle"
  BY DEF Init, IdleRequest
<1>4. NoHistory \in History
  BY DEF NoHistory, History, Instants
<1>5. hist \in [Credentials -> History]
  BY <1>4 DEF Init
<1> QED BY <1>1, <1>2, <1>3, <1>5 DEF TypeOK

\* A request's step keeps the types.
LEMMA TypeRequest ==
    ASSUME TypeOK, NEW r \in Requests, RequestStep(r)
    PROVE  TypeOK'
<1>t. /\ now \in Nat
      /\ key \in [Credentials -> Nat]
      /\ enabled \in [Credentials -> BOOLEAN]
      /\ row \in [Credentials -> Row \cup {NoRow}]
      /\ probes \in [Credentials -> Episode \cup {NoEpisode}]
      /\ sync \in [Credentials -> Identity \cup {NoSync}]
      /\ hist \in [Credentials -> History]
  BY DEF TypeOK
<1>i. IdleRequest.pc = "idle"
  BY DEF IdleRequest
<1>1. ASSUME NEW c \in Credentials, select(r, c)
      PROVE  TypeOK'
  <2> DEFINE q == [IdleRequest EXCEPT !.pc = "selected", !.cred = c,
                                      !.key = key[c], !.fresh = TRUE]
  <2>1. q \in RequestType /\ q.cred = c
    BY <1>t DEF IdleRequest, RequestType
  <2>2. req' = [req EXCEPT ![r] = q]
    BY <1>1 DEF select
  <2> HIDE DEF q
  <2> QED BY <1>1, <1>t, <2>1, <2>2, RequestUpdate DEF select, TypeOK
<1>2. ASSUME confirm_fast(r) PROVE TypeOK'
  <2>1. req[r].pc # "idle"
    BY <1>2 DEF confirm_fast
  <2>2. PICK p \in {"escalating", "sent"} :
          req' = [req EXCEPT ![r] = [req[r] EXCEPT !.pc = p]]
            \/ req' = [req EXCEPT ![r] = IdleRequest]
    BY <1>2 DEF confirm_fast
  <2>3. [req[r] EXCEPT !.pc = p] \in RequestType
        /\ [req[r] EXCEPT !.pc = p].cred \in Credentials
    BY <2>1, RequestFields DEF RequestType
  <2>4. /\ req' \in [Requests -> RequestType]
        /\ \A s \in Requests : req'[s].pc # "idle" => req'[s].cred \in Credentials
    BY <2>2, <2>3, <1>i, IdleType, RequestUpdate
  <2> QED BY <1>2, <1>t, <2>4 DEF confirm_fast, TypeOK
<1>3. ASSUME confirm_slow(r) PROVE TypeOK'
  <2>1. req[r].pc # "idle"
    BY <1>3 DEF confirm_slow
  <2>2. req' = [req EXCEPT ![r] = [req[r] EXCEPT !.pc = "sent"]]
          \/ req' = [req EXCEPT ![r] = IdleRequest]
    BY <1>3 DEF confirm_slow
  <2>3. [req[r] EXCEPT !.pc = "sent"] \in RequestType
        /\ [req[r] EXCEPT !.pc = "sent"].cred \in Credentials
    BY <2>1, RequestFields DEF RequestType
  <2>4. /\ req' \in [Requests -> RequestType]
        /\ \A s \in Requests : req'[s].pc # "idle" => req'[s].cred \in Credentials
    BY <2>2, <2>3, <1>i, IdleType, RequestUpdate
  <2> QED BY <1>3, <1>t, <2>4 DEF confirm_slow, TypeOK
<1>4. ASSUME acquire_quota_trial_locked(r) PROVE TypeOK'
  <2> DEFINE c == req[r].cred
             q == [req[r] EXCEPT !.pc = "sent", !.episode = CurrentEpisode(c),
                                 !.number = hist[c].number]
  <2>1. req[r].pc # "idle" /\ InRecovery(c)
    BY <1>4 DEF acquire_quota_trial_locked
  <2>2. c \in Credentials
    BY <2>1, RequestFields
  <2>3. CurrentEpisode(c) \in Episode
    BY <2>1, <2>2, EpisodeType
  <2>4. hist[c] \in History /\ hist[c].number \in Nat
    BY <1>t, <2>2 DEF History
  <2>5. req' = [req EXCEPT ![r] = q]
    BY <1>4 DEF acquire_quota_trial_locked, TypeOK
  <2>6. q \in RequestType /\ q.cred \in Credentials
    BY <2>1, <2>3, <2>4, RequestFields DEF RequestType
  <2>7. /\ row' = [row EXCEPT ![c] = with_crash_safe_retry(row[c], now)]
        /\ probes' = [probes EXCEPT ![c] = CurrentEpisode(c)]
        /\ sync' = Touched(c, FALSE)
        /\ hist' = [hist EXCEPT ![c] = [hist[c] EXCEPT !.tried = now, !.manual = FALSE]]
        /\ UNCHANGED <<now, key, enabled>>
    BY <1>4, <1>t, <2>2 DEF acquire_quota_trial_locked
  <2> HIDE DEF c, q
  <2>8. /\ req' \in [Requests -> RequestType]
        /\ \A s \in Requests : req'[s].pc # "idle" => req'[s].cred \in Credentials
    BY <2>5, <2>6, RequestUpdate
  <2>9. row' \in [Credentials -> Row \cup {NoRow}]
    <3>1. row[c] \in Row
      BY <1>t, <2>1, <2>2 DEF InRecovery
    <3> QED BY <1>t, <2>7, <3>1, CrashSafeRetry
  <2>10. hist' \in [Credentials -> History]
    <3>1. [hist[c] EXCEPT !.tried = now, !.manual = FALSE] \in History
      BY <1>t, <2>4 DEF History, Instants
    <3> QED BY <1>t, <2>7, <3>1
  <2>11. sync' \in [Credentials -> Identity \cup {NoSync}]
    BY <2>2, <2>7, TouchedType
  <2>12. probes' \in [Credentials -> Episode \cup {NoEpisode}]
    BY <1>t, <2>3, <2>7
  <2> QED BY <1>t, <2>7, <2>8, <2>9, <2>10, <2>11, <2>12 DEF TypeOK
<1>5. ASSUME acquire_fails(r) PROVE TypeOK'
  BY <1>5, <1>t, <1>i, IdleType, RequestUpdate DEF acquire_fails, TypeOK
<1>6. ASSUME finish(r) PROVE TypeOK'
  BY <1>6, <1>t, <1>i, IdleType, RequestUpdate DEF finish, TypeOK
<1>7. ASSUME succeed(r) PROVE TypeOK'
  <2>1. req[r].pc # "idle"
    BY <1>7 DEF succeed, InTrial
  <2>2. req[r].cred \in Credentials
    BY <2>1, RequestFields
  <2>3. probes' \in [Credentials -> Episode \cup {NoEpisode}]
    BY <1>7, <2>1, ReleaseType DEF succeed
  <2>4. sync' \in [Credentials -> Identity \cup {NoSync}]
    BY <1>7, <2>2, TouchedType DEF succeed
  <2>5. row' \in [Credentials -> Row \cup {NoRow}]
    BY <1>7, <1>t DEF succeed
  <2>6. /\ req' \in [Requests -> RequestType]
        /\ \A s \in Requests : req'[s].pc # "idle" => req'[s].cred \in Credentials
    BY <1>7, <1>i, IdleType, RequestUpdate DEF succeed
  <2> QED BY <1>7, <1>t, <2>3, <2>4, <2>5, <2>6 DEF succeed, TypeOK
<1>8. ASSUME fail_nonquota(r) PROVE TypeOK'
  <2>1. req[r].pc # "idle"
    BY <1>8 DEF fail_nonquota, InTrial
  <2>2. req[r].cred \in Credentials
    BY <2>1, RequestFields
  <2>3. probes' \in [Credentials -> Episode \cup {NoEpisode}]
    BY <1>8, <2>1, ReleaseType DEF fail_nonquota
  <2>4. sync' \in [Credentials -> Identity \cup {NoSync}]
    BY <1>8, <2>2, TouchedType DEF fail_nonquota
  <2>5. row' \in [Credentials -> Row \cup {NoRow}]
    <3>1. row[req[r].cred] \in Row
      BY <1>8, <1>t, <2>2 DEF fail_nonquota, Matches, InRecovery
    <3> QED BY <1>8, <1>t, <3>1, NonquotaTrialFailure DEF fail_nonquota
  <2>6. /\ req' \in [Requests -> RequestType]
        /\ \A s \in Requests : req'[s].pc # "idle" => req'[s].cred \in Credentials
    BY <1>8, <1>i, IdleType, RequestUpdate DEF fail_nonquota
  <2> QED BY <1>8, <1>t, <2>3, <2>4, <2>5, <2>6 DEF fail_nonquota, TypeOK
<1>9. ASSUME settle_without_write(r) PROVE TypeOK'
  <2>1. req[r].pc # "idle"
    BY <1>9 DEF settle_without_write, InTrial
  <2>2. probes' \in [Credentials -> Episode \cup {NoEpisode}]
    BY <1>9, <2>1, ReleaseType DEF settle_without_write
  <2>3. /\ req' \in [Requests -> RequestType]
        /\ \A s \in Requests : req'[s].pc # "idle" => req'[s].cred \in Credentials
    BY <1>9, <1>i, IdleType, RequestUpdate DEF settle_without_write
  <2> QED BY <1>9, <1>t, <2>2, <2>3 DEF settle_without_write, TypeOK
<1> QED BY <1>1, <1>2, <1>3, <1>4, <1>5, <1>6, <1>7, <1>8, <1>9 DEF RequestStep

\* A step of the refresh or of the operator keeps the types.
LEMMA TypeCredential ==
    ASSUME TypeOK, NEW c \in Credentials, CredentialStep(c)
    PROVE  TypeOK'
<1>t. /\ now \in Nat
      /\ key \in [Credentials -> Nat]
      /\ enabled \in [Credentials -> BOOLEAN]
      /\ row \in [Credentials -> Row \cup {NoRow}]
      /\ probes \in [Credentials -> Episode \cup {NoEpisode}]
      /\ sync \in [Credentials -> Identity \cup {NoSync}]
      /\ hist \in [Credentials -> History]
      /\ req \in [Requests -> RequestType]
      /\ \A r \in Requests : req[r].pc # "idle" => req[r].cred \in Credentials
  BY DEF TypeOK
<1>1. ASSUME refresh_begin(c) PROVE TypeOK'
  <2>1. [key |-> key[c], row |-> row[c], updated |-> FALSE, healed |-> FALSE] \in Identity
    BY <1>t DEF Identity
  <2> QED BY <1>1, <1>t, <2>1 DEF refresh_begin, TypeOK
<1>2. ASSUME NEW snapshot \in Snapshots, refresh_commit(c, snapshot) PROVE TypeOK'
  <2> DEFINE next == reconcile_official_go_usage(row[c], snapshot, now)
  <2>1. next \in Row \cup {NoRow}
    BY <1>t, Reconcile
  <2>2. sync[c].key \in Nat
    BY <1>2, <1>t DEF refresh_commit, Identity
  <2>3. Recorded(c, next, sync[c].key) \in History
    BY <2>2, RecordedType
  <2>4. /\ row' = [row EXCEPT ![c] = next]
        /\ sync' = [sync EXCEPT ![c] = NoSync]
        /\ hist' = hist \/ hist' = [hist EXCEPT ![c] = Recorded(c, next, sync[c].key)]
        /\ UNCHANGED <<now, key, enabled, probes, req>>
    BY <1>2 DEF refresh_commit
  <2> HIDE DEF next
  <2> QED BY <1>t, <2>1, <2>3, <2>4 DEF TypeOK
<1>3. ASSUME refresh_abort(c) PROVE TypeOK'
  BY <1>3, <1>t DEF refresh_abort, TypeOK
<1>4. ASSUME quota_retry(c) PROVE TypeOK'
  <2>1. row[c] \in Row
    BY <1>4, <1>t DEF quota_retry, InRecovery
  <2>2. [row[c] EXCEPT !.next_retry_at = now] \in Row
    BY <1>t, <2>1 DEF Row
  <2>3. [hist[c] EXCEPT !.manual = TRUE] \in History
    BY <1>t DEF History
  <2>4. sync' \in [Credentials -> Identity \cup {NoSync}]
    BY <1>4, TouchedType DEF quota_retry
  <2>5. /\ row' = [row EXCEPT ![c] = [row[c] EXCEPT !.next_retry_at = now]]
        /\ hist' = [hist EXCEPT ![c] = [hist[c] EXCEPT !.manual = TRUE]]
        /\ UNCHANGED <<now, key, enabled, probes, req>>
    BY <1>4, <1>t DEF quota_retry
  <2> QED BY <1>t, <2>2, <2>3, <2>4, <2>5 DEF TypeOK
<1>5. ASSUME replace_key(c) PROVE TypeOK'
  <2>1. sync' \in [Credentials -> Identity \cup {NoSync}]
    BY <1>5, TouchedType DEF replace_key
  <2>2. key' \in [Credentials -> Nat]
    BY <1>5, <1>t DEF replace_key
  <2>3. row' \in [Credentials -> Row \cup {NoRow}]
    BY <1>5, <1>t DEF replace_key
  <2> QED BY <1>5, <1>t, <2>1, <2>2, <2>3 DEF replace_key, TypeOK
<1>6. ASSUME set_enabled(c) PROVE TypeOK'
  <2>1. sync' \in [Credentials -> Identity \cup {NoSync}]
    BY <1>6, TouchedType DEF set_enabled
  <2> QED BY <1>6, <1>t, <2>1 DEF set_enabled, TypeOK
<1>7. ASSUME reset_cooldown(c) PROVE TypeOK'
  <2>1. sync' \in [Credentials -> Identity \cup {NoSync}]
    BY <1>7, TouchedType DEF reset_cooldown
  <2>2. \A r \in Requests :
          /\ [req[r] EXCEPT !.fresh = FALSE] \in RequestType
          /\ [req[r] EXCEPT !.fresh = FALSE].pc = req[r].pc
          /\ [req[r] EXCEPT !.fresh = FALSE].cred = req[r].cred
    BY <1>t DEF RequestType
  <2>3. /\ req' \in [Requests -> RequestType]
        /\ \A s \in Requests : req'[s].pc # "idle" => req'[s].cred \in Credentials
    BY <1>7, <1>t, <2>2 DEF reset_cooldown
  <2> QED BY <1>7, <1>t, <2>1, <2>3 DEF reset_cooldown, TypeOK
<1> QED BY <1>1, <1>2, <1>3, <1>4, <1>5, <1>6, <1>7 DEF CredentialStep

LEMMA TypeNext == TypeOK /\ [Next]_vars => TypeOK'
<1> SUFFICES ASSUME TypeOK, [Next]_vars PROVE TypeOK'
  OBVIOUS
<1>1. ASSUME restart PROVE TypeOK'
  <2>1. \A c \in Credentials : [hist[c] EXCEPT !.reused = FALSE] \in History
    BY DEF TypeOK, History
  <2>2. IdleRequest.pc = "idle"
    BY DEF IdleRequest
  <2> QED BY <1>1, <2>1, <2>2, IdleType DEF restart, TypeOK
<1>2. ASSUME tick PROVE TypeOK'
  BY <1>2 DEF tick, TypeOK
<1>3. ASSUME UNCHANGED vars PROVE TypeOK'
  BY <1>3 DEF vars, TypeOK
<1> QED BY <1>1, <1>2, <1>3, TypeRequest, TypeCredential DEF Next

\* The state of quota recovery is well typed: no deadline is lost, no row keeps
\* a partial value, and a request past its selection names its credential.
THEOREM QuotaTypeCorrect == Spec => []TypeOK
<1> QED BY TypeInit, TypeNext, PTL DEF Spec

-----------------------------------------------------------------------------
(* Safety of quota recovery: the waits of a row (WaitInv), the trials of a *)
(* Key (TrialInv) and the evidence of a refresh (RefreshInv).              *)
(*                                                                         *)
(* OneTrialPerEpisode alone is not inductive: a second trial is refused    *)
(* because the probe names the current episode, and the probe survives the *)
(* settlement of older trials because their episodes differ from it.       *)
(* Separate states both, for as long as no epoch was reused under a trial  *)
(* in flight.                                                              *)

\* The row of c waits for all it carries and, since its last trial, for the
\* 15 minutes that trial stored.
Waits(c) ==
    InRecovery(c) /\ ~ hist[c].manual =>
        /\ Covered(row[c])
        /\ hist[c].tried # NoInstant => row[c].next_retry_at >= hist[c].tried + TrialRetry

WaitInv == \A c \in Credentials : Waits(c)

\* The trials in flight on c are of different episodes; the one of the current
\* episode holds the probe, and no other carries its Key and epoch.
Separate(c) ==
    \A r \in TrialsOn(c) :
        /\ req[r].number <= hist[c].number
        /\ InRecovery(c) /\ req[r].number = hist[c].number =>
             req[r].episode = CurrentEpisode(c) /\ probes[c] = CurrentEpisode(c)
        /\ InRecovery(c) /\ req[r].number < hist[c].number =>
             req[r].episode # CurrentEpisode(c)
        /\ \A s \in TrialsOn(c) : req[r].number = req[s].number => r = s

\* A request carries an episode only once it is sent.
NoEarlyEpisode == \A r \in Requests : req[r].pc # "sent" => req[r].episode = NoEpisode

TrialInv ==
    /\ NoEarlyEpisode
    /\ ProbeHasOwner
    /\ \A c \in Credentials : hist[c].reused \/ Separate(c)

-----------------------------------------------------------------------------
(* Waits *)

LEMMA WaitInit == Init => WaitInv
BY DEF Init, WaitInv, Waits, InRecovery

\* A step that leaves rows and their history alone leaves the waits alone.
LEMMA WaitSame ==
    ASSUME WaitInv, UNCHANGED <<row, hist>>
    PROVE  WaitInv'
<1> SUFFICES ASSUME NEW d \in Credentials PROVE Waits(d)'
  BY DEF WaitInv
<1> QED BY DEF WaitInv, Waits, InRecovery

LEMMA WaitRequest ==
    ASSUME TypeOK, WaitInv, NEW r \in Requests, RequestStep(r)
    PROVE  WaitInv'
<1>t. /\ now \in Nat
      /\ row \in [Credentials -> Row \cup {NoRow}]
      /\ hist \in [Credentials -> History]
  BY DEF TypeOK
<1> DEFINE c == req[r].cred
<1>1. CASE acquire_quota_trial_locked(r)
  <2> SUFFICES ASSUME NEW d \in Credentials PROVE Waits(d)'
    BY DEF WaitInv
  <2>1. req[r].pc # "idle" /\ InRecovery(c)
    BY <1>1 DEF acquire_quota_trial_locked
  <2>2. c \in Credentials
    BY <2>1, RequestFields
  <2>3. /\ row' = [row EXCEPT ![c] = with_crash_safe_retry(row[c], now)]
        /\ hist' = [hist EXCEPT ![c] = [hist[c] EXCEPT !.tried = now, !.manual = FALSE]]
    BY <1>1, <1>t, <2>2 DEF acquire_quota_trial_locked
  <2>4. row[c] \in Row /\ hist[c] \in History
    BY <1>t, <2>1, <2>2 DEF InRecovery
  <2> HIDE DEF c
  <2>5. CASE d = c
    <3>1. /\ Covered(row'[c])
          /\ row'[c].next_retry_at >= now + TrialRetry
      BY <1>t, <2>2, <2>3, <2>4, CrashSafeRetry
    <3>2. hist'[c].tried = now
      BY <1>t, <2>2, <2>3, <2>4 DEF History
    <3> QED BY <2>5, <3>1, <3>2 DEF Waits
  <2>6. CASE d # c
    <3>1. row'[d] = row[d] /\ hist'[d] = hist[d]
      BY <1>t, <2>2, <2>3, <2>6
    <3> QED BY <3>1 DEF WaitInv, Waits, InRecovery
  <2> QED BY <2>5, <2>6
<1>2. CASE succeed(r)
  <2> SUFFICES ASSUME NEW d \in Credentials PROVE Waits(d)'
    BY DEF WaitInv
  <2>1. row' = [row EXCEPT ![c] = NoRow] /\ hist' = hist
    BY <1>2 DEF succeed
  <2>2. row'[d] = NoRow \/ row'[d] = row[d]
    BY <1>t, <2>1
  <2> QED BY <2>1, <2>2 DEF WaitInv, Waits, InRecovery
<1>3. CASE fail_nonquota(r)
  <2> SUFFICES ASSUME NEW d \in Credentials PROVE Waits(d)'
    BY DEF WaitInv
  <2>1. req[r].pc # "idle" /\ InRecovery(c)
    BY <1>3 DEF fail_nonquota, InTrial, Matches
  <2>2. c \in Credentials
    BY <2>1, RequestFields
  <2>3. /\ row' = [row EXCEPT ![c] = with_nonquota_trial_failure(row[c], now)]
        /\ hist' = hist
    BY <1>3 DEF fail_nonquota
  <2>4. row[c] \in Row /\ hist[c] \in History
    BY <1>t, <2>1, <2>2 DEF InRecovery
  <2> HIDE DEF c
  <2>5. CASE d = c
    <3> DEFINE new == with_nonquota_trial_failure(row[c], now)
    <3>1. row'[c] = new
      BY <1>t, <2>2, <2>3
    <3>2. new \in Row /\ Covered(new) /\ new.next_retry_at >= row[c].next_retry_at
      BY <1>t, <2>4, NonquotaTrialFailure
    <3>3. /\ row[c].next_retry_at \in Nat
          /\ new.next_retry_at \in Nat
          /\ hist[c].tried # NoInstant => hist[c].tried \in Nat
      BY <2>4, <3>2 DEF Row, History, Instants
    <3> HIDE DEF new
    <3>4. ~ hist[c].manual /\ hist[c].tried # NoInstant =>
            row[c].next_retry_at >= hist[c].tried + TrialRetry
      BY <2>1, <2>2 DEF WaitInv, Waits
    <3> QED BY <2>3, <2>5, <3>1, <3>2, <3>3, <3>4, QuotaAssumption DEF Waits
  <2>6. CASE d # c
    <3>1. row'[d] = row[d] /\ hist'[d] = hist[d]
      BY <1>t, <2>2, <2>3, <2>6
    <3> QED BY <3>1 DEF WaitInv, Waits, InRecovery
  <2> QED BY <2>5, <2>6
<1>4. ASSUME \/ \E d \in Credentials : select(r, d)
             \/ confirm_fast(r)
             \/ confirm_slow(r)
             \/ acquire_fails(r)
             \/ finish(r)
             \/ settle_without_write(r)
      PROVE  WaitInv'
  BY <1>4, WaitSame DEF select, confirm_fast, confirm_slow, acquire_fails, finish,
                        settle_without_write
<1> QED BY <1>1, <1>2, <1>3, <1>4 DEF RequestStep

LEMMA WaitCredential ==
    ASSUME TypeOK, WaitInv, NEW c \in Credentials, CredentialStep(c)
    PROVE  WaitInv'
<1>t. /\ now \in Nat
      /\ row \in [Credentials -> Row \cup {NoRow}]
      /\ hist \in [Credentials -> History]
  BY DEF TypeOK
<1>1. ASSUME NEW snapshot \in Snapshots, refresh_commit(c, snapshot) PROVE WaitInv'
  <2> SUFFICES ASSUME NEW d \in Credentials PROVE Waits(d)'
    BY DEF WaitInv
  <2> DEFINE next == reconcile_official_go_usage(row[c], snapshot, now)
  <2>1. next # NoRow => Covered(next)
    BY <1>t, Reconcile
  <2>2. /\ row' = [row EXCEPT ![c] = next]
        /\ hist' = IF next = NoRow THEN hist
                   ELSE [hist EXCEPT ![c] = Recorded(c, next, sync[c].key)]
    BY <1>1 DEF refresh_commit
  <2> HIDE DEF next
  <2>3. Recorded(c, next, sync[c].key).tried = NoInstant
    BY <1>t DEF Recorded, History
  <2>4. CASE d = c
    <3>1. row'[c] = next
      BY <1>t, <2>2
    <3>2. next # NoRow => hist'[c].tried = NoInstant
      BY <1>t, <2>2, <2>3
    <3> QED BY <2>1, <2>4, <3>1, <3>2 DEF Waits, InRecovery
  <2>5. CASE d # c
    <3>1. row'[d] = row[d] /\ hist'[d] = hist[d]
      BY <1>t, <2>2, <2>5
    <3> QED BY <3>1 DEF WaitInv, Waits, InRecovery
  <2> QED BY <2>4, <2>5
<1>2. ASSUME quota_retry(c) PROVE WaitInv'
  <2> SUFFICES ASSUME NEW d \in Credentials PROVE Waits(d)'
    BY DEF WaitInv
  <2>1. /\ row' = [row EXCEPT ![c] = [row[c] EXCEPT !.next_retry_at = now]]
        /\ hist' = [hist EXCEPT ![c] = [hist[c] EXCEPT !.manual = TRUE]]
    BY <1>2, <1>t DEF quota_retry
  <2>2. CASE d = c
    <3>1. hist'[c].manual = TRUE
      BY <1>t, <2>1 DEF History
    <3> QED BY <2>2, <3>1 DEF Waits
  <2>3. CASE d # c
    <3>1. row'[d] = row[d] /\ hist'[d] = hist[d]
      BY <1>t, <2>1, <2>3
    <3> QED BY <3>1 DEF WaitInv, Waits, InRecovery
  <2> QED BY <2>2, <2>3
<1>3. ASSUME replace_key(c) PROVE WaitInv'
  <2> SUFFICES ASSUME NEW d \in Credentials PROVE Waits(d)'
    BY DEF WaitInv
  <2>1. row' = [row EXCEPT ![c] = NoRow] /\ hist' = hist
    BY <1>3 DEF replace_key
  <2>2. row'[d] = NoRow \/ row'[d] = row[d]
    BY <1>t, <2>1
  <2> QED BY <2>1, <2>2 DEF WaitInv, Waits, InRecovery
<1>4. ASSUME \/ refresh_begin(c)
             \/ refresh_abort(c)
             \/ set_enabled(c)
             \/ reset_cooldown(c)
      PROVE  WaitInv'
  BY <1>4, WaitSame DEF refresh_begin, refresh_abort, set_enabled, reset_cooldown
<1> QED BY <1>1, <1>2, <1>3, <1>4 DEF CredentialStep

LEMMA WaitNext == TypeOK /\ WaitInv /\ [Next]_vars => WaitInv'
<1> SUFFICES ASSUME TypeOK, WaitInv, [Next]_vars PROVE WaitInv'
  OBVIOUS
<1>1. ASSUME restart PROVE WaitInv'
  <2> SUFFICES ASSUME NEW d \in Credentials PROVE Waits(d)'
    BY DEF WaitInv
  <2>1. /\ row' = row
        /\ hist'[d].manual = hist[d].manual
        /\ hist'[d].tried = hist[d].tried
    BY <1>1 DEF restart, TypeOK, History
  <2> QED BY <2>1 DEF WaitInv, Waits, InRecovery
<1>2. ASSUME tick PROVE WaitInv'
  BY <1>2, WaitSame DEF tick
<1>3. ASSUME UNCHANGED vars PROVE WaitInv'
  BY <1>3, WaitSame DEF vars
<1> QED BY <1>1, <1>2, <1>3, WaitRequest, WaitCredential DEF Next

LEMMA WaitInvariant == Spec => []WaitInv
<1> QED BY WaitInit, WaitNext, QuotaTypeCorrect, PTL DEF Spec

\* A stored row is never due before a reset, a backoff or a floor it carries,
\* except after an operator's retry, whatever trials and restarts happened.
THEOREM WaitsAreKept == Spec => []WaitCoversEvidence
<1>1. WaitInv => WaitCoversEvidence
  BY DEF WaitInv, Waits, WaitCoversEvidence
<1> QED BY <1>1, WaitInvariant, PTL

-----------------------------------------------------------------------------
(* Trials *)

\* The trials in flight are the same, and so is what they carry.
SameTrials ==
    \A r \in Requests :
        /\ InTrial(r)' <=> InTrial(r)
        /\ InTrial(r) => /\ req'[r].cred = req[r].cred
                         /\ req'[r].episode = req[r].episode
                         /\ req'[r].number = req[r].number

\* A step that touches no trial, probe, Key, row or history.
Quiet == UNCHANGED <<key, row, probes, hist>> /\ SameTrials

\* Only request r changes.
LEMMA OthersKept ==
    ASSUME TypeOK, NEW r \in Requests, NEW q, req' = [req EXCEPT ![r] = q]
    PROVE  req'[r] = q /\ \A s \in Requests : s # r => req'[s] = req[s]
BY DEF TypeOK

LEMMA QuietRequest ==
    ASSUME TypeOK, NoEarlyEpisode, NEW r \in Requests,
           \/ \E c \in Credentials : select(r, c)
           \/ confirm_fast(r)
           \/ confirm_slow(r)
           \/ acquire_fails(r)
           \/ finish(r)
    PROVE  Quiet /\ NoEarlyEpisode'
<1>1. UNCHANGED <<key, row, probes, hist>>
  BY DEF select, confirm_fast, confirm_slow, acquire_fails, finish
<1>2. req[r].episode = NoEpisode
  BY DEF NoEarlyEpisode, select, confirm_fast, confirm_slow, acquire_fails, finish
<1>3. PICK q : req' = [req EXCEPT ![r] = q] /\ q.episode = NoEpisode
  <2>1. IdleRequest.episode = NoEpisode
    BY DEF IdleRequest
  <2>2. \A p : [req[r] EXCEPT !.pc = p].episode = NoEpisode
    BY <1>2 DEF TypeOK, RequestType
  <2>3. CASE \E c \in Credentials : select(r, c)
    <3>1. PICK c \in Credentials : select(r, c)
      BY <2>3
    <3>2. [IdleRequest EXCEPT !.pc = "selected", !.cred = c,
                              !.key = key[c], !.fresh = TRUE].episode = NoEpisode
      BY DEF IdleRequest
    <3> QED BY <3>1, <3>2 DEF select
  <2>4. CASE confirm_fast(r)
    <3>1. PICK p : req' = [req EXCEPT ![r] = [req[r] EXCEPT !.pc = p]]
                     \/ req' = [req EXCEPT ![r] = IdleRequest]
      BY <2>4 DEF confirm_fast
    <3> QED BY <2>1, <2>2, <3>1
  <2>5. CASE confirm_slow(r)
    <3>1. req' = [req EXCEPT ![r] = [req[r] EXCEPT !.pc = "sent"]]
            \/ req' = [req EXCEPT ![r] = IdleRequest]
      BY <2>5 DEF confirm_slow
    <3> QED BY <2>1, <2>2, <3>1
  <2>6. CASE acquire_fails(r) \/ finish(r)
    BY <2>1, <2>6 DEF acquire_fails, finish
  <2> QED BY <2>3, <2>4, <2>5, <2>6
<1>4. req'[r].episode = NoEpisode /\ \A s \in Requests : s # r => req'[s] = req[s]
  BY <1>3, OthersKept
<1>5. SameTrials
  BY <1>2, <1>4 DEF SameTrials, InTrial
<1> QED BY <1>1, <1>4, <1>5 DEF Quiet, NoEarlyEpisode

LEMMA QuietOther ==
    ASSUME TypeOK, NoEarlyEpisode,
           \/ \E c \in Credentials : \/ refresh_begin(c)
                                     \/ refresh_abort(c)
                                     \/ set_enabled(c)
                                     \/ reset_cooldown(c)
           \/ tick
           \/ UNCHANGED vars
    PROVE  Quiet /\ NoEarlyEpisode'
<1>1. UNCHANGED <<key, row, probes, hist>>
  BY DEF refresh_begin, refresh_abort, set_enabled, reset_cooldown, tick, vars
<1>2. \A r \in Requests : /\ req'[r].pc = req[r].pc
                          /\ req'[r].cred = req[r].cred
                          /\ req'[r].episode = req[r].episode
                          /\ req'[r].number = req[r].number
  <2>1. ASSUME NEW c \in Credentials, reset_cooldown(c), NEW r \in Requests
        PROVE  /\ req'[r].pc = req[r].pc
               /\ req'[r].cred = req[r].cred
               /\ req'[r].episode = req[r].episode
               /\ req'[r].number = req[r].number
    <3>1. req[r] \in RequestType
      BY DEF TypeOK
    <3>2. req'[r] = [req[r] EXCEPT !.fresh = FALSE] \/ req'[r] = req[r]
      BY <2>1 DEF reset_cooldown
    <3> QED BY <3>1, <3>2 DEF RequestType
  <2> QED BY <2>1 DEF refresh_begin, refresh_abort, set_enabled, tick, vars
<1> QED BY <1>1, <1>2 DEF Quiet, SameTrials, InTrial, NoEarlyEpisode

LEMMA QuietKeeps ==
    ASSUME Quiet, ProbeHasOwner, \A c \in Credentials : hist[c].reused \/ Separate(c)
    PROVE  /\ ProbeHasOwner'
           /\ \A c \in Credentials : (hist[c].reused \/ Separate(c))'
<1>1. \A c \in Credentials : TrialsOn(c)' = TrialsOn(c)
  BY DEF Quiet, SameTrials, TrialsOn
<1>2. \A c \in Credentials : \A r \in TrialsOn(c) :
        req'[r].episode = req[r].episode /\ req'[r].number = req[r].number
  BY DEF Quiet, SameTrials, TrialsOn
<1>3. /\ UNCHANGED <<probes, hist>>
      /\ \A c \in Credentials : /\ InRecovery(c)' <=> InRecovery(c)
                                /\ CurrentEpisode(c)' = CurrentEpisode(c)
  BY DEF Quiet, InRecovery, CurrentEpisode
<1>4. ProbeHasOwner'
  BY <1>1, <1>2, <1>3 DEF ProbeHasOwner
<1>5. \A c \in Credentials : Separate(c) => Separate(c)'
  BY <1>1, <1>2, <1>3 DEF Separate
<1> QED BY <1>3, <1>4, <1>5

\* Trial r ends: it leaves the table, its probe is released if it is its own,
\* and no row is created or changes its epoch.
Settled(r) ==
    /\ InTrial(r)
    /\ req' = [req EXCEPT ![r] = IdleRequest]
    /\ ReleaseProbe(r)
    /\ UNCHANGED <<key, hist>>
    /\ \A c \in Credentials : InRecovery(c)' => InRecovery(c) /\ row'[c].epoch = row[c].epoch

LEMMA SettlesTrial ==
    ASSUME TypeOK, NEW r \in Requests,
           succeed(r) \/ fail_nonquota(r) \/ settle_without_write(r)
    PROVE  Settled(r)
<1>1. CASE succeed(r)
  BY <1>1 DEF succeed, Settled, InRecovery, TypeOK
<1>2. CASE fail_nonquota(r)
  <2> DEFINE c == req[r].cred
  <2>1. req[r].pc # "idle" /\ InRecovery(c)
    BY <1>2 DEF fail_nonquota, InTrial, Matches
  <2>2. c \in Credentials
    BY <2>1, RequestFields
  <2>3. row[c] \in Row /\ now \in Nat
    BY <2>1, <2>2 DEF InRecovery, TypeOK
  <2>4. row' = [row EXCEPT ![c] = with_nonquota_trial_failure(row[c], now)]
    BY <1>2 DEF fail_nonquota
  <2>5. with_nonquota_trial_failure(row[c], now).epoch = row[c].epoch
    BY <2>3, NonquotaTrialFailure
  <2> HIDE DEF c
  <2>6. \A d \in Credentials : InRecovery(d)' => InRecovery(d) /\ row'[d].epoch = row[d].epoch
    BY <2>1, <2>2, <2>4, <2>5 DEF InRecovery, TypeOK
  <2> QED BY <1>2, <2>6 DEF fail_nonquota, Settled
<1>3. CASE settle_without_write(r)
  BY <1>3 DEF settle_without_write, Settled, InRecovery
<1> QED BY <1>1, <1>2, <1>3

LEMMA SettleKeeps ==
    ASSUME TypeOK, TrialInv, NEW r \in Requests, Settled(r)
    PROVE  TrialInv'
<1>1. req'[r] = IdleRequest /\ \A s \in Requests : s # r => req'[s] = req[s]
  BY OthersKept DEF Settled
<1>2. IdleRequest.episode = NoEpisode /\ IdleRequest.pc = "idle"
  BY DEF IdleRequest
<1>3. NoEarlyEpisode'
  BY <1>1, <1>2 DEF NoEarlyEpisode, TrialInv
<1>4. ASSUME NEW c \in Credentials
      PROVE  /\ TrialsOn(c)' = TrialsOn(c) \ {r}
             /\ \A s \in TrialsOn(c)' : req'[s] = req[s]
  BY <1>1, <1>2 DEF TrialsOn, InTrial
<1>5. ASSUME NEW c \in Credentials
      PROVE  probes'[c] = IF c = req[r].cred /\ probes[c] = req[r].episode
                          THEN NoEpisode ELSE probes[c]
  BY DEF Settled, ReleaseProbe, TypeOK
<1>6. ProbeHasOwner'
  <2> SUFFICES ASSUME NEW c \in Credentials, probes'[c] # NoEpisode
               PROVE  \E s \in TrialsOn(c)' : req'[s].episode = probes'[c]
    BY DEF ProbeHasOwner
  <2>1. probes'[c] = probes[c] /\ ~ (c = req[r].cred /\ probes[c] = req[r].episode)
    BY <1>5
  <2>2. PICK s \in TrialsOn(c) : req[s].episode = probes[c]
    BY <2>1 DEF ProbeHasOwner, TrialInv
  <2>3. s # r
    BY <2>1, <2>2 DEF TrialsOn
  <2> QED BY <1>4, <2>1, <2>2, <2>3
<1>7. ASSUME NEW c \in Credentials, ~ hist'[c].reused
      PROVE  Separate(c)'
  <2>1. Separate(c) /\ hist' = hist
    BY <1>7 DEF TrialInv, Settled
  <2>2. CurrentEpisode(c)' = CurrentEpisode(c) \/ ~ InRecovery(c)'
    BY DEF Settled, CurrentEpisode
  <2>3. InRecovery(c)' => InRecovery(c)
    BY DEF Settled
  <2> SUFFICES ASSUME NEW s \in TrialsOn(c)'
               PROVE  /\ req'[s].number <= hist'[c].number
                      /\ InRecovery(c)' /\ req'[s].number = hist'[c].number =>
                           /\ req'[s].episode = CurrentEpisode(c)'
                           /\ probes'[c] = CurrentEpisode(c)'
                      /\ InRecovery(c)' /\ req'[s].number < hist'[c].number =>
                           req'[s].episode # CurrentEpisode(c)'
                      /\ \A u \in TrialsOn(c)' : req'[s].number = req'[u].number => s = u
    BY DEF Separate
  <2>4. s \in TrialsOn(c) /\ s # r /\ req'[s] = req[s]
    BY <1>4
  <2>5. ASSUME InRecovery(c), req[s].number = hist[c].number
        PROVE  probes'[c] = probes[c]
    <3>1. CASE r \in TrialsOn(c)
      <4>1. req[r].number # req[s].number
        BY <2>1, <2>4, <3>1 DEF Separate
      <4>2. req[r].number <= hist[c].number
        BY <2>1, <3>1 DEF Separate
      <4>3. req[r].number \in Nat /\ hist[c].number \in Nat
        BY DEF TypeOK, RequestType, History
      <4>4. req[r].episode # CurrentEpisode(c)
        BY <2>1, <2>5, <3>1, <4>1, <4>2, <4>3 DEF Separate
      <4>5. probes[c] = CurrentEpisode(c)
        BY <2>1, <2>4, <2>5 DEF Separate
      <4> QED BY <1>5, <4>4, <4>5
    <3>2. CASE r \notin TrialsOn(c)
      <4>1. req[r].cred # c
        BY <3>2 DEF TrialsOn, Settled
      <4> QED BY <1>5, <4>1
    <3> QED BY <3>1, <3>2
  <2> QED BY <1>4, <2>1, <2>2, <2>3, <2>4, <2>5 DEF Separate
<1> QED BY <1>3, <1>6, <1>7 DEF TrialInv

LEMMA TrialInit == Init => TrialInv
<1> SUFFICES ASSUME Init PROVE TrialInv
  OBVIOUS
<1>1. \A r \in Requests : req[r].pc = "idle" /\ req[r].episode = NoEpisode
  BY DEF Init, IdleRequest
<1>2. \A c \in Credentials : TrialsOn(c) = {} /\ probes[c] = NoEpisode
  BY <1>1 DEF Init, TrialsOn, InTrial
<1> QED BY <1>1, <1>2 DEF TrialInv, NoEarlyEpisode, ProbeHasOwner, Separate

LEMMA AcquireKeeps ==
    ASSUME TypeOK, TrialInv, NEW r \in Requests, acquire_quota_trial_locked(r)
    PROVE  TrialInv'
<1>1. /\ req[r].pc = "escalating"
      /\ req[r].cred \in Credentials
      /\ req[r] \in RequestType
  <2>1. req[r].pc = "escalating"
    BY DEF acquire_quota_trial_locked
  <2> QED BY <2>1, RequestFields
<1> PICK c \in Credentials : c = req[r].cred
  BY <1>1
<1> DEFINE q == [req[r] EXCEPT !.pc = "sent", !.episode = CurrentEpisode(c),
                               !.number = hist[c].number]
<1>2. InRecovery(c) /\ ~ Probing(c)
  BY DEF acquire_quota_trial_locked, Authorized
<1>3. /\ row' = [row EXCEPT ![c] = with_crash_safe_retry(row[c], now)]
      /\ probes' = [probes EXCEPT ![c] = CurrentEpisode(c)]
      /\ req' = [req EXCEPT ![r] = q]
      /\ hist' = [hist EXCEPT ![c] = [hist[c] EXCEPT !.tried = now, !.manual = FALSE]]
      /\ key' = key
  BY DEF acquire_quota_trial_locked, TypeOK
<1>4. /\ q.pc = "sent" /\ q.cred = c /\ q.episode = CurrentEpisode(c)
      /\ q.number = hist[c].number
  BY <1>1 DEF RequestType
<1> HIDE DEF q
<1>5. req'[r] = q /\ \A s \in Requests : s # r => req'[s] = req[s]
  BY <1>3, OthersKept
<1>6. ~ InTrial(r)
  BY <1>1 DEF InTrial
<1>7. \A d \in Credentials : /\ hist'[d].number = hist[d].number
                             /\ hist'[d].reused = hist[d].reused
                             /\ InRecovery(d)' => InRecovery(d)
                             /\ CurrentEpisode(d)' = CurrentEpisode(d)
  <2>1. \A d \in Credentials : /\ hist'[d].number = hist[d].number
                               /\ hist'[d].reused = hist[d].reused
    BY <1>2, <1>3 DEF TypeOK, History
  <2>2. row[c] \in Row /\ now \in Nat
    BY <1>1, <1>2 DEF InRecovery, TypeOK
  <2>3. row'[c].epoch = row[c].epoch /\ \A d \in Credentials : d # c => row'[d] = row[d]
    BY <1>2, <1>3, <2>2, CrashSafeRetry DEF TypeOK
  <2> QED BY <1>2, <1>3, <2>1, <2>3 DEF InRecovery, CurrentEpisode
<1>8. ASSUME NEW d \in Credentials
      PROVE  /\ TrialsOn(d) \subseteq TrialsOn(d)'
             /\ \A s \in TrialsOn(d)' : (s \in TrialsOn(d) /\ req'[s] = req[s] /\ s # r)
                                        \/ (d = c /\ s = r)
  BY <1>4, <1>5, <1>6 DEF TrialsOn, InTrial
<1>9. NoEarlyEpisode'
  BY <1>4, <1>5 DEF TrialInv, NoEarlyEpisode
<1>10. ProbeHasOwner'
  <2> SUFFICES ASSUME NEW d \in Credentials, probes'[d] # NoEpisode
               PROVE  \E s \in TrialsOn(d)' : req'[s].episode = probes'[d]
    BY DEF ProbeHasOwner
  <2>1. CASE d = c
    <3>1. probes'[d] = CurrentEpisode(c)
      BY <1>2, <1>3, <2>1 DEF TypeOK
    <3>2. r \in TrialsOn(c)'
      BY <1>4, <1>5, <2>1, <3>1 DEF TrialsOn, InTrial
    <3> QED BY <1>4, <1>5, <2>1, <3>1, <3>2
  <2>2. CASE d # c
    <3>1. probes'[d] = probes[d]
      BY <1>3, <2>2 DEF TypeOK
    <3>2. PICK s \in TrialsOn(d) : req[s].episode = probes[d]
      BY <3>1 DEF TrialInv, ProbeHasOwner
    <3>3. s \in Requests /\ s # r
      BY <1>6, <3>2 DEF TrialsOn
    <3> QED BY <1>5, <1>8, <3>1, <3>2, <3>3
  <2> QED BY <2>1, <2>2
<1>11. ASSUME NEW d \in Credentials, ~ hist'[d].reused
       PROVE  Separate(d)'
  <2>1. Separate(d)
    BY <1>7, <1>11 DEF TrialInv
  <2>2. CASE d # c
    <3>1. probes'[d] = probes[d]
      BY <1>3, <2>2 DEF TypeOK
    <3>2. TrialsOn(d)' = TrialsOn(d) /\ \A s \in TrialsOn(d) : req'[s] = req[s]
      BY <1>8, <2>2
    <3> QED BY <1>7, <2>1, <3>1, <3>2 DEF Separate
  <2>3. CASE d = c
    <3>1. probes'[c] = CurrentEpisode(c)'
      BY <1>2, <1>3, <1>7 DEF TypeOK
    <3>2. ASSUME NEW s \in TrialsOn(c)
          PROVE  req[s].number # hist[c].number
      BY <1>2, <2>1, <2>3, <3>2 DEF Separate, Probing
    <3>3. ASSUME NEW s \in TrialsOn(c)'
          PROVE  /\ req'[s].number <= hist'[c].number
                 /\ InRecovery(c)' /\ req'[s].number = hist'[c].number =>
                      /\ req'[s].episode = CurrentEpisode(c)'
                      /\ probes'[c] = CurrentEpisode(c)'
                 /\ InRecovery(c)' /\ req'[s].number < hist'[c].number =>
                      req'[s].episode # CurrentEpisode(c)'
                 /\ \A u \in TrialsOn(c)' : req'[s].number = req'[u].number => s = u
      <4>1. hist[c].number \in Nat
        BY <1>2 DEF TypeOK, History
      <4>2. CASE s = r
        <5>1. req'[s].number = hist'[c].number /\ req'[s].episode = CurrentEpisode(c)'
          BY <1>2, <1>4, <1>5, <1>7, <4>2
        <5>2. \A u \in TrialsOn(c)' : u # r => req'[u].number # hist[c].number
          BY <1>2, <1>8, <3>2
        <5> QED BY <1>2, <1>7, <3>1, <4>1, <4>2, <5>1, <5>2
      <4>3. CASE s # r
        <5>1. s \in TrialsOn(c) /\ req'[s] = req[s]
          BY <1>2, <1>8, <3>3, <4>3
        <5>2. req[s].number # hist[c].number
          BY <3>2, <5>1
        <5>3. req'[r].number = hist[c].number
          BY <1>4, <1>5
        <5>4. \A u \in TrialsOn(c)' : req'[s].number = req'[u].number => s = u
          BY <1>2, <1>8, <2>1, <2>3, <5>1, <5>2, <5>3 DEF Separate
        <5> QED BY <1>2, <1>7, <2>1, <2>3, <5>1, <5>2, <5>4 DEF Separate
      <4> QED BY <4>2, <4>3
    <3> QED BY <2>3, <3>3 DEF Separate
  <2> QED BY <2>2, <2>3
<1> QED BY <1>9, <1>10, <1>11 DEF TrialInv

LEMMA CommitKeeps ==
    ASSUME TypeOK, TrialInv, NEW c \in Credentials, NEW snapshot \in Snapshots,
           refresh_commit(c, snapshot)
    PROVE  TrialInv'
<1> DEFINE next == reconcile_official_go_usage(row[c], snapshot, now)
<1>1. /\ row' = [row EXCEPT ![c] = next]
      /\ hist' = IF next = NoRow THEN hist
                 ELSE [hist EXCEPT ![c] = Recorded(c, next, sync[c].key)]
      /\ UNCHANGED <<key, probes, req>>
  BY DEF refresh_commit
<1> HIDE DEF next
<1>2. /\ Recorded(c, next, sync[c].key).number = hist[c].number + 1
      /\ ~ Recorded(c, next, sync[c].key).reused =>
           /\ ~ hist[c].reused
           /\ \A r \in TrialsOn(c) :
                req[r].episode # [key |-> key[c], epoch |-> next.epoch]
  BY DEF Recorded, TypeOK, History
<1>3. \A d \in Credentials : TrialsOn(d)' = TrialsOn(d)
  BY <1>1 DEF TrialsOn, InTrial
<1>4. NoEarlyEpisode' /\ ProbeHasOwner'
  BY <1>1, <1>3 DEF TrialInv, NoEarlyEpisode, ProbeHasOwner
<1>5. ASSUME NEW d \in Credentials, ~ hist'[d].reused
      PROVE  Separate(d)'
  <2>1. CASE d = c /\ next # NoRow
    <3>1. hist'[c] = Recorded(c, next, sync[c].key)
      BY <1>1, <2>1 DEF TypeOK
    <3>2. Separate(c)
      BY <1>2, <1>5, <2>1, <3>1 DEF TrialInv
    <3>3. CurrentEpisode(c)' = [key |-> key[c], epoch |-> next.epoch]
      BY <1>1 DEF CurrentEpisode, TypeOK
    <3>4. \A r \in TrialsOn(c) : req[r].number \in Nat /\ hist[c].number \in Nat
      BY DEF TrialsOn, TypeOK, RequestType, History
    <3>5. \A r \in TrialsOn(c) : /\ req[r].number < hist'[c].number
                                 /\ req[r].episode # CurrentEpisode(c)'
      BY <1>2, <1>5, <2>1, <3>1, <3>2, <3>3, <3>4 DEF Separate
    <3>6. hist'[c].number \in Nat
      BY <1>2, <3>1 DEF TypeOK, History
    <3> QED BY <1>1, <1>3, <2>1, <3>2, <3>4, <3>5, <3>6 DEF Separate
  <2>2. CASE d = c /\ next = NoRow
    <3>1. ~ InRecovery(c)'
      BY <1>1, <2>2 DEF InRecovery, TypeOK
    <3>2. Separate(c) /\ hist' = hist
      BY <1>1, <1>5, <2>2 DEF TrialInv
    <3> QED BY <1>1, <1>3, <2>2, <3>1, <3>2 DEF Separate
  <2>3. CASE d # c
    <3>1. hist'[d] = hist[d] /\ row'[d] = row[d]
      BY <1>1, <2>3 DEF TypeOK
    <3>2. Separate(d)
      BY <1>5, <3>1 DEF TrialInv
    <3> QED BY <1>1, <1>3, <3>1, <3>2 DEF Separate, InRecovery, CurrentEpisode
  <2> QED BY <2>1, <2>2, <2>3
<1> QED BY <1>4, <1>5 DEF TrialInv

\* An operator's retry and a Key replacement create no episode.
LEMMA OperatorKeeps ==
    ASSUME TypeOK, TrialInv, NEW c \in Credentials, quota_retry(c) \/ replace_key(c)
    PROVE  TrialInv'
<1>1. UNCHANGED <<probes, req>>
  BY DEF quota_retry, replace_key
<1>2. \A d \in Credentials : /\ hist'[d].number = hist[d].number
                             /\ hist'[d].reused = hist[d].reused
  <2>1. CASE quota_retry(c)
    <3>1. hist' = [hist EXCEPT ![c] = [hist[c] EXCEPT !.manual = TRUE]]
      BY <2>1 DEF quota_retry, TypeOK
    <3>2. hist \in [Credentials -> History]
      BY DEF TypeOK
    <3> QED BY <3>1, <3>2 DEF History
  <2>2. CASE replace_key(c)
    BY <2>2 DEF replace_key
  <2> QED BY <2>1, <2>2
<1>3. \A d \in Credentials : InRecovery(d)' => /\ InRecovery(d)
                                               /\ CurrentEpisode(d)' = CurrentEpisode(d)
  <2> SUFFICES ASSUME NEW d \in Credentials, InRecovery(d)'
               PROVE  InRecovery(d) /\ CurrentEpisode(d)' = CurrentEpisode(d)
    OBVIOUS
  <2>1. CASE quota_retry(c)
    <3>1. row' = [row EXCEPT ![c] = [row[c] EXCEPT !.next_retry_at = now]] /\ key' = key
      BY <2>1 DEF quota_retry, TypeOK
    <3>2. row[c] \in Row /\ InRecovery(c)
      BY <2>1 DEF quota_retry, InRecovery, TypeOK
    <3>3. row'[d].epoch = row[d].epoch /\ InRecovery(d)
      BY <3>1, <3>2 DEF InRecovery, TypeOK, Row
    <3> QED BY <3>1, <3>3 DEF CurrentEpisode
  <2>2. CASE replace_key(c)
    <3>1. d # c
      BY <2>2 DEF replace_key, InRecovery, TypeOK
    <3>2. row'[d] = row[d] /\ key'[d] = key[d]
      BY <2>2, <3>1 DEF replace_key, TypeOK
    <3> QED BY <3>2 DEF InRecovery, CurrentEpisode
  <2> QED BY <2>1, <2>2
<1>4. \A d \in Credentials : TrialsOn(d)' = TrialsOn(d)
  BY <1>1 DEF TrialsOn, InTrial
<1>5. NoEarlyEpisode' /\ ProbeHasOwner'
  BY <1>1, <1>4 DEF TrialInv, NoEarlyEpisode, ProbeHasOwner
<1>6. ASSUME NEW d \in Credentials, ~ hist'[d].reused
      PROVE  Separate(d)'
  <2>1. Separate(d)
    BY <1>2, <1>6 DEF TrialInv
  <2> QED BY <1>1, <1>2, <1>3, <1>4, <2>1 DEF Separate
<1> QED BY <1>5, <1>6 DEF TrialInv

LEMMA RestartKeeps ==
    ASSUME restart
    PROVE  TrialInv'
<1>1. \A r \in Requests : req'[r].pc = "idle" /\ req'[r].episode = NoEpisode
  BY DEF restart, IdleRequest
<1>2. \A c \in Credentials : TrialsOn(c)' = {} /\ probes'[c] = NoEpisode
  BY <1>1 DEF restart, TrialsOn, InTrial
<1> QED BY <1>1, <1>2 DEF TrialInv, NoEarlyEpisode, ProbeHasOwner, Separate

LEMMA TrialNext == TypeOK /\ TrialInv /\ [Next]_vars => TrialInv'
<1> SUFFICES ASSUME TypeOK, TrialInv, [Next]_vars PROVE TrialInv'
  OBVIOUS
<1>1. ASSUME Quiet, NoEarlyEpisode' PROVE TrialInv'
  BY <1>1, QuietKeeps DEF TrialInv
<1>2. ASSUME NEW r \in Requests, RequestStep(r) PROVE TrialInv'
  BY <1>1, <1>2, QuietRequest, AcquireKeeps, SettlesTrial, SettleKeeps
     DEF RequestStep, TrialInv
<1>3. ASSUME NEW c \in Credentials, CredentialStep(c) PROVE TrialInv'
  BY <1>1, <1>3, QuietOther, CommitKeeps, OperatorKeeps DEF CredentialStep, TrialInv
<1>4. ASSUME tick \/ UNCHANGED vars PROVE TrialInv'
  BY <1>1, <1>4, QuietOther DEF TrialInv
<1> QED BY <1>2, <1>3, <1>4, RestartKeeps DEF Next

LEMMA TrialInvariant == Spec => []TrialInv
<1> QED BY TrialInit, TrialNext, QuotaTypeCorrect, PTL DEF Spec

\* No probe is orphaned: whatever overtakes it, a probe is the episode of a
\* trial in flight on its Key, whose settlement will remove it.
THEOREM ProbesAreOwned == Spec => []ProbeHasOwner
<1>1. TrialInv => ProbeHasOwner
  BY DEF TrialInv
<1> QED BY <1>1, TrialInvariant, PTL

\* No episode has two trials in flight, unless an epoch was reused under one.
THEOREM SingleTrial == Spec => []OneTrialPerEpisode
<1>1. TrialInv => OneTrialPerEpisode
  BY DEF TrialInv, Separate, OneTrialPerEpisode
<1> QED BY <1>1, TrialInvariant, PTL

-----------------------------------------------------------------------------
(* What a step may do to trials *)

\* Only acquire_quota_trial_locked starts a trial.
LEMMA StartStep ==
    ASSUME TypeOK, NoEarlyEpisode, [Next]_vars,
           NEW r \in Requests, NEW c \in Credentials, Starts(r, c)
    PROVE  acquire_quota_trial_locked(r) /\ req[r].cred = c
<1>1. ~ InTrial(r) /\ InTrial(r)' /\ req'[r].cred = c
  BY DEF Starts
<1>2. ~ SameTrials
  BY <1>1 DEF SameTrials
<1>3. req'[r] # req[r]
  BY <1>1 DEF InTrial
<1>4. req'[r] # IdleRequest
  BY <1>1 DEF InTrial, IdleRequest
<1>5. ASSUME NEW s \in Requests, RequestStep(s)
      PROVE  s = r /\ acquire_quota_trial_locked(r)
  <2>1. \/ acquire_quota_trial_locked(s)
        \/ Settled(s)
    BY <1>2, <1>5, QuietRequest, SettlesTrial DEF RequestStep, Quiet
  <2>2. \A u \in Requests : u # s => req'[u] = req[u]
    BY <2>1 DEF acquire_quota_trial_locked, Settled, TypeOK
  <2>3. s = r
    BY <1>3, <2>2
  <2>4. ~ Settled(s)
    BY <1>4, <2>3, OthersKept DEF Settled
  <2> QED BY <2>1, <2>3, <2>4
<1>6. ASSUME NEW d \in Credentials, CredentialStep(d) PROVE FALSE
  BY <1>2, <1>3, <1>6, QuietOther
     DEF CredentialStep, Quiet, refresh_commit, quota_retry, replace_key
<1>7. ~ restart
  BY <1>4 DEF restart
<1>8. ~ (tick \/ UNCHANGED vars)
  BY <1>2, QuietOther DEF Quiet
<1>9. acquire_quota_trial_locked(r)
  BY <1>5, <1>6, <1>7, <1>8 DEF Next
<1>10. req'[r].cred = req[r].cred
  BY <1>9 DEF acquire_quota_trial_locked, TypeOK, RequestType
<1> QED BY <1>1, <1>9, <1>10

\* Only the trial of the stored Key and epoch takes a row away.
LEMMA ClearStep ==
    ASSUME TypeOK, NoEarlyEpisode, [Next]_vars,
           NEW r \in Requests, NEW c \in Credentials, Clears(r, c)
    PROVE  Matches(r)
<1>1. /\ InTrial(r)
      /\ req[r].pc = "sent"
      /\ req'[r].pc = "idle"
      /\ row'[c] # row[c]
  BY DEF Clears, InTrial, InRecovery
<1>2. row' # row /\ req' # req
  BY <1>1
<1>3. ASSUME NEW s \in Requests, RequestStep(s) PROVE Matches(r)
  <2>1. acquire_quota_trial_locked(s) \/ settle(s)
    BY <1>2, <1>3, QuietRequest DEF RequestStep, Quiet, settle
  <2>2. \A u \in Requests : u # s => req'[u] = req[u]
    BY <2>1, SettlesTrial DEF acquire_quota_trial_locked, settle, Settled, TypeOK
  <2>3. s = r
    BY <1>1, <2>2
  <2>4. ~ acquire_quota_trial_locked(r)
    BY <1>1 DEF acquire_quota_trial_locked
  <2>5. ~ settle_without_write(r)
    BY <1>2 DEF settle_without_write
  <2> QED BY <2>1, <2>3, <2>4, <2>5 DEF settle, succeed, fail_nonquota
<1>4. ASSUME NEW d \in Credentials, CredentialStep(d) PROVE FALSE
  BY <1>2, <1>4, QuietOther
     DEF CredentialStep, Quiet, refresh_commit, quota_retry, replace_key
<1>5. ~ restart
  BY <1>2 DEF restart
<1>6. ~ (tick \/ UNCHANGED vars)
  BY <1>2, QuietOther DEF Quiet
<1> QED BY <1>3, <1>4, <1>5, <1>6 DEF Next

\* Two trials of one episode are at least 15 minutes apart across crashes,
\* failed writes and stale observations; only an operator's retry is excepted.
THEOREM SpacedTrials == Spec => TrialsAreSpaced
<1> DEFINE Spaced ==
      \A r \in Requests, c \in Credentials :
         Starts(r, c) /\ hist[c].tried # NoInstant /\ ~ hist[c].manual
         => now >= hist[c].tried + TrialRetry
<1>1. TypeOK /\ WaitInv /\ TrialInv /\ [Next]_vars => [Spaced]_vars
  <2> SUFFICES ASSUME TypeOK, WaitInv, TrialInv, [Next]_vars,
                      NEW r \in Requests, NEW c \in Credentials,
                      Starts(r, c), hist[c].tried # NoInstant, ~ hist[c].manual
               PROVE  now >= hist[c].tried + TrialRetry
    OBVIOUS
  <2>1. acquire_quota_trial_locked(r) /\ req[r].cred = c
    BY StartStep DEF TrialInv
  <2>2. InRecovery(c) /\ row[c].next_retry_at <= now
    BY <2>1 DEF acquire_quota_trial_locked, Authorized, due_at
  <2>3. row[c].next_retry_at >= hist[c].tried + TrialRetry
    BY <2>2 DEF WaitInv, Waits
  <2>4. now \in Nat /\ row[c].next_retry_at \in Nat /\ hist[c].tried \in Nat
    BY <2>2 DEF TypeOK, InRecovery, Row, History, Instants
  <2> QED BY <2>2, <2>3, <2>4, QuotaAssumption
<1> QED BY <1>1, QuotaTypeCorrect, WaitInvariant, TrialInvariant, PTL
        DEF Spec, TrialsAreSpaced

\* A success clears the episode it is the trial of and no other, as long as no
\* epoch was reused under a trial in flight.
THEOREM OwnTrialClears == Spec => OnlyOwnTrialClears
<1> DEFINE Own ==
      \A r \in Requests, c \in Credentials :
         Clears(r, c) => hist[c].reused \/ req[r].number = hist[c].number
<1>1. TypeOK /\ TrialInv /\ [Next]_vars => [Own]_vars
  <2> SUFFICES ASSUME TypeOK, TrialInv, [Next]_vars,
                      NEW r \in Requests, NEW c \in Credentials,
                      Clears(r, c), ~ hist[c].reused
               PROVE  req[r].number = hist[c].number
    OBVIOUS
  <2>1. InRecovery(c) /\ req[r].episode = CurrentEpisode(c)
    BY ClearStep DEF TrialInv, Clears, Matches
  <2>2. r \in TrialsOn(c) /\ Separate(c)
    BY DEF TrialsOn, Clears, TrialInv
  <2>3. req[r].number \in Nat /\ hist[c].number \in Nat
    BY DEF TypeOK, RequestType, History
  <2> QED BY <2>1, <2>2, <2>3 DEF Separate
<1> QED BY <1>1, QuotaTypeCorrect, TrialInvariant, PTL DEF Spec, OnlyOwnTrialClears

-----------------------------------------------------------------------------
(* Usage refreshes *)

\* A trial's success stamps the credential, so a refresh that was overtaken by
\* one can tell.
HealedIsSeen == \A c \in Credentials : sync[c] # NoSync /\ sync[c].healed => sync[c].updated

RefreshInv == RowBelongsToKey /\ HealedIsSeen

\* Stamping a credential keeps HealedIsSeen.
LEMMA TouchedSeen ==
    ASSUME TypeOK, HealedIsSeen, NEW c, NEW healed, sync' = Touched(c, healed)
    PROVE  HealedIsSeen'
<1> SUFFICES ASSUME NEW d \in Credentials, sync'[d] # NoSync, sync'[d].healed
             PROVE  sync'[d].updated
  BY DEF HealedIsSeen
<1>1. CASE sync'[d] = sync[d]
  BY <1>1 DEF HealedIsSeen
<1>2. CASE sync'[d] # sync[d]
  <2>1. sync'[d] = [key |-> sync[c].key, row |-> NoRow, updated |-> TRUE,
                    healed |-> sync[c].healed \/ healed]
    BY <1>2 DEF Touched, TypeOK
  <2> QED BY <2>1
<1> QED BY <1>1, <1>2

LEMMA RefreshInit == Init => RefreshInv
BY DEF Init, RefreshInv, RowBelongsToKey, HealedIsSeen, InRecovery

LEMMA RefreshRequest ==
    ASSUME TypeOK, RefreshInv, NEW r \in Requests, RequestStep(r)
    PROVE  RefreshInv'
<1>1. HealedIsSeen'
  <2>1. sync' = sync \/ \E c, healed : sync' = Touched(c, healed)
    BY DEF RequestStep, select, confirm_fast, confirm_slow, acquire_quota_trial_locked,
           acquire_fails, finish, succeed, fail_nonquota, settle_without_write
  <2> QED BY <2>1, TouchedSeen DEF RefreshInv, HealedIsSeen
<1>2. key' = key /\ \A c \in Credentials : hist'[c].rowKey = hist[c].rowKey
  <2>1. ASSUME acquire_quota_trial_locked(r), NEW c \in Credentials
        PROVE  hist'[c].rowKey = hist[c].rowKey
    BY <2>1 DEF acquire_quota_trial_locked, TypeOK, History
  <2> QED BY <2>1 DEF RequestStep, select, confirm_fast, confirm_slow,
             acquire_quota_trial_locked, acquire_fails, finish, succeed, fail_nonquota,
             settle_without_write
<1>3. \A c \in Credentials : InRecovery(c)' => InRecovery(c)
  <2>1. CASE acquire_quota_trial_locked(r)
    BY <2>1 DEF acquire_quota_trial_locked, InRecovery, TypeOK
  <2>2. CASE settle(r)
    BY <2>2, SettlesTrial DEF settle, Settled
  <2> QED BY <2>1, <2>2 DEF RequestStep, settle, select, confirm_fast, confirm_slow,
             acquire_fails, finish, InRecovery
<1> QED BY <1>1, <1>2, <1>3 DEF RefreshInv, RowBelongsToKey

LEMMA RefreshCredential ==
    ASSUME TypeOK, RefreshInv, NEW c \in Credentials, CredentialStep(c)
    PROVE  RefreshInv'
<1>1. ASSUME refresh_begin(c) PROVE RefreshInv'
  <2>1. sync' = [sync EXCEPT ![c] = [key |-> key[c], row |-> row[c],
                                     updated |-> FALSE, healed |-> FALSE]]
    BY <1>1 DEF refresh_begin
  <2>2. HealedIsSeen'
    BY <2>1 DEF RefreshInv, HealedIsSeen, TypeOK
  <2> QED BY <1>1, <2>2 DEF refresh_begin, RefreshInv, RowBelongsToKey, InRecovery
<1>2. ASSUME NEW snapshot \in Snapshots, refresh_commit(c, snapshot) PROVE RefreshInv'
  <2> DEFINE next == reconcile_official_go_usage(row[c], snapshot, now)
  <2>1. /\ row' = [row EXCEPT ![c] = next]
        /\ sync' = [sync EXCEPT ![c] = NoSync]
        /\ hist' = IF next = NoRow THEN hist
                   ELSE [hist EXCEPT ![c] = Recorded(c, next, sync[c].key)]
        /\ key' = key
        /\ sync[c].key = key[c]
    BY <1>2 DEF refresh_commit, IdentityIsCurrent
  <2> HIDE DEF next
  <2>2. Recorded(c, next, sync[c].key).rowKey = key[c]
    BY <2>1 DEF Recorded, TypeOK, History
  <2>3. HealedIsSeen'
    BY <2>1 DEF RefreshInv, HealedIsSeen, TypeOK
  <2>4. ASSUME NEW d \in Credentials, row'[d] # NoRow
        PROVE  hist'[d].rowKey = key'[d]
    <3>1. CASE d = c
      BY <2>1, <2>2, <2>4, <3>1 DEF TypeOK
    <3>2. CASE d # c
      BY <2>1, <2>4, <3>2 DEF RefreshInv, RowBelongsToKey, InRecovery, TypeOK
    <3> QED BY <3>1, <3>2
  <2> QED BY <2>3, <2>4 DEF RefreshInv, RowBelongsToKey, InRecovery
<1>3. ASSUME refresh_abort(c) PROVE RefreshInv'
  <2>1. HealedIsSeen'
    BY <1>3 DEF refresh_abort, RefreshInv, HealedIsSeen, TypeOK
  <2> QED BY <1>3, <2>1 DEF refresh_abort, RefreshInv, RowBelongsToKey, InRecovery
<1>4. ASSUME quota_retry(c) \/ replace_key(c) \/ set_enabled(c) \/ reset_cooldown(c)
      PROVE  RefreshInv'
  <2>1. HealedIsSeen'
    BY <1>4, TouchedSeen DEF quota_retry, replace_key, set_enabled, reset_cooldown, RefreshInv
  <2>2. ASSUME NEW d \in Credentials, row'[d] # NoRow
        PROVE  hist'[d].rowKey = key'[d]
    <3>1. row[d] # NoRow /\ key'[d] = key[d]
      BY <1>4, <2>2 DEF quota_retry, replace_key, set_enabled, reset_cooldown,
                        InRecovery, TypeOK
    <3>2. hist'[d].rowKey = hist[d].rowKey
      <4>1. CASE quota_retry(c)
        BY <4>1 DEF quota_retry, TypeOK, History
      <4> QED BY <1>4, <4>1 DEF replace_key, set_enabled, reset_cooldown
    <3> QED BY <3>1, <3>2 DEF RefreshInv, RowBelongsToKey, InRecovery
  <2> QED BY <2>1, <2>2 DEF RefreshInv, RowBelongsToKey, InRecovery
<1> QED BY <1>1, <1>2, <1>3, <1>4 DEF CredentialStep

LEMMA RefreshInvariant == Spec => []RefreshInv
<1>1. TypeOK /\ RefreshInv /\ [Next]_vars => RefreshInv'
  <2> SUFFICES ASSUME TypeOK, RefreshInv, [Next]_vars PROVE RefreshInv'
    OBVIOUS
  <2>1. CASE restart
    <3>1. HealedIsSeen'
      BY <2>1 DEF restart, HealedIsSeen
    <3>2. \A c \in Credentials : hist'[c].rowKey = hist[c].rowKey
      BY <2>1 DEF restart, TypeOK, History
    <3> QED BY <2>1, <3>1, <3>2 DEF restart, RefreshInv, RowBelongsToKey, InRecovery
  <2>2. CASE tick \/ UNCHANGED vars
    BY <2>2 DEF tick, vars, RefreshInv, RowBelongsToKey, HealedIsSeen, InRecovery
  <2> QED BY <2>1, <2>2, RefreshRequest, RefreshCredential DEF Next
<1> QED BY <1>1, RefreshInit, QuotaTypeCorrect, PTL DEF Spec

\* Evidence read with one Key is never stored for its replacement.
THEOREM EvidenceIsOfTheKey == Spec => []RowBelongsToKey
<1>1. RefreshInv => RowBelongsToKey
  BY DEF RefreshInv
<1> QED BY <1>1, RefreshInvariant, PTL

\* A refresh overtaken by a successful trial records no episode.
THEOREM StaleEvidenceIsDropped == Spec => NoStaleEvidence
<1> DEFINE Dropped ==
      \A c \in Credentials :
         sync[c] # NoSync /\ sync[c].healed => hist'[c].number = hist[c].number
<1>1. TypeOK /\ RefreshInv /\ [Next]_vars => [Dropped]_vars
  <2> SUFFICES ASSUME TypeOK, RefreshInv, [Next]_vars, NEW c \in Credentials,
                      sync[c] # NoSync, sync[c].healed
               PROVE  hist'[c].number = hist[c].number
    OBVIOUS
  <2>1. sync[c].updated
    BY DEF RefreshInv, HealedIsSeen
  <2>2. ASSUME NEW r \in Requests, RequestStep(r) PROVE hist'[c].number = hist[c].number
    <3>1. CASE acquire_quota_trial_locked(r)
      BY <3>1 DEF acquire_quota_trial_locked, TypeOK, History
    <3> QED BY <2>2, <3>1 DEF RequestStep, select, confirm_fast, confirm_slow,
               acquire_fails, finish, succeed, fail_nonquota, settle_without_write
  <2>3. ASSUME NEW d \in Credentials, CredentialStep(d)
        PROVE  hist'[c].number = hist[c].number
    <3>1. ASSUME NEW snapshot \in Snapshots, refresh_commit(d, snapshot)
          PROVE  hist'[c].number = hist[c].number
      <4>1. d # c
        BY <2>1, <3>1 DEF refresh_commit, IdentityIsCurrent
      <4> QED BY <3>1, <4>1 DEF refresh_commit, TypeOK
    <3>2. CASE quota_retry(d)
      BY <3>2 DEF quota_retry, TypeOK, History
    <3> QED BY <2>3, <3>1, <3>2 DEF CredentialStep, refresh_begin, refresh_abort,
               replace_key, set_enabled, reset_cooldown
  <2>4. CASE restart
    BY <2>4 DEF restart, TypeOK, History
  <2>5. CASE tick \/ UNCHANGED vars
    BY <2>5 DEF tick, vars
  <2> QED BY <2>2, <2>3, <2>4, <2>5 DEF Next
<1> QED BY <1>1, QuotaTypeCorrect, RefreshInvariant, PTL DEF Spec, NoStaleEvidence
=============================================================================
