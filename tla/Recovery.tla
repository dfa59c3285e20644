------------------------------- MODULE Recovery -------------------------------
(***************************************************************************)
(* Process-local admission of outbound attempts against observed           *)
(* restrictions (crates/ocg-core/src/gateway/recovery.rs), with the steps  *)
(* of the forwarder that feed it.  Every action is one critical section of *)
(* the runtime's mutex.  The forwarder's loop over local-policy decisions  *)
(* takes that mutex several times while it holds the database lock; its    *)
(* progress is the variable db.                                            *)
(*                                                                         *)
(* The HashMap of slots is the set tracked of its keys and the function    *)
(* slots, which is EmptySlot outside tracked.  An absent instant is None,  *)
(* an absent probe owner or opaque id is 0.  A policy row always has a     *)
(* next_probe once observe_policy returns, so a row without one is NoRow.  *)
(***************************************************************************)
EXTENDS Integers, FiniteSets, ResourceSet, Failure

CONSTANTS
  Captures,        \* sets of ResourceSets, one per request that still routes,
                   \* that one state of the routing snapshot yields
  Accounts,
  Destinations,
  Sources,         \* policy sources: owner, rule id and rule generation
  Scope,           \* Scope[x] \in {"Credential", "CredentialModel"}
  Backoff,         \* Backoff[x] = [initial, max] of the source's rule
  Snapshots,       \* rule sets as Destinations -> SUBSET Sources
  MaxTracked,      \* MAX_TRACKED_RESOURCES
  MaxSequence,     \* the largest ticket, u64::MAX in the code
  MaxRevision,     \* bound on resets of one slot; the code's counter is a u64
  InitialProbe,    \* INITIAL_PROBE_SECS
  MaxProbe,        \* MAX_PROBE_SECS
  RetryAfters,     \* Retry-After headers of quota and Free rejections
  PolicyRetryAfters,  \* Retry-After headers of replies a local policy matches
  PlanResets,      \* delays to a declared plan reset
  WallSteps,       \* how far the wall clock may move in one tick
  Horizon          \* bound: the clock runs past it only while a wait is pending

Key == UNION {keys(rs) : rs \in ResourceSets}
Ticket == 1..MaxSequence
NoGeneration == <<>>
Generations == {NoGeneration} \cup {owner_generation(rs, k) : rs \in ResourceSets, k \in Key}
NoDestination == ""
NoSource == "no source"
Upstream == "upstream"      \* the item of a key that is not a policy source
Items == Sources \cup {Upstream}

ASSUME RecoveryAssumption ==
  /\ IsFiniteSet(Key) /\ ResourceSets # {}
  /\ \A rs \in ResourceSets : Resources[rs].members \subseteq Accounts /\ Resources[rs].owner \in Accounts
  /\ \A rs \in ResourceSets : Resources[rs].destination_id \in Destinations
  /\ Captures \subseteq SUBSET ResourceSets
  /\ Scope \in [Sources -> {"Credential", "CredentialModel"}]
  /\ Backoff \in [Sources -> [initial : Nat \ {0}, max : Nat \ {0}]]
  /\ Snapshots \subseteq [Destinations -> SUBSET Sources]
  /\ NoSource \notin Sources /\ Upstream \notin Sources
  /\ MaxTracked \in Nat /\ MaxSequence \in Nat /\ MaxRevision \in Nat
  /\ InitialProbe \in Nat /\ MaxProbe \in Nat
  /\ RetryAfters \subseteq Instant /\ PolicyRetryAfters \subseteq Instant /\ PlanResets \subseteq Nat
  /\ WallSteps \subseteq Int /\ Horizon \in Nat

VARIABLES
  sequence, restriction_seq, tracked, slots, policy_snapshot,  \* Inner
  live,      \* tickets of permits not yet dropped
  permit,    \* the RecoveryPermit of every ticket
  db,        \* the policy loop running under the database lock
  capture,   \* what ResourceSet::capture returns now
  captured,  \* resource sets some request captured and may still acquire with
  wall, mono,
  \* History, read by properties only:
  last_reset,  \* per account: the sequence at its last reset
  evidence,    \* per key and item: tickets whose replies restrict it
  revoked      \* per key and source: the first ticket after its last retirement

inner == <<sequence, restriction_seq, tracked, slots, policy_snapshot>>
host == <<capture, captured>>
clock == <<wall, mono>>
history == <<last_reset, evidence, revoked>>
vars == <<inner, live, permit, db, host, clock, history>>

-----------------------------------------------------------------------------
(* Types.                                                                  *)

Row == [opaque_id : Nat, revision : Nat, failures : Nat, next_probe : Instant]
NoRow == [opaque_id |-> 0, revision |-> 0, failures |-> 0, next_probe |-> None]

Slot == [owners : SUBSET Accounts, owner_generation : Generations,
         active : Nat, revision : Nat, fence : Nat,
         awaiting_recovery : BOOLEAN, upstream_not_before : Instant,
         next_probe : Instant, probe_owner : Nat, failures : Nat,
         policy : [Sources -> Row], retired_policy : [Sources -> Nat],
         destination_id : Destinations \cup {NoDestination}]

EmptySlot ==
  [owners |-> {}, owner_generation |-> NoGeneration,
   active |-> 0, revision |-> 0, fence |-> 0,
   awaiting_recovery |-> FALSE, upstream_not_before |-> None,
   next_probe |-> None, probe_owner |-> 0, failures |-> 0,
   policy |-> [x \in Sources |-> NoRow], retired_policy |-> [x \in Sources |-> 0],
   destination_id |-> NoDestination]

Lease == [opaque_id : Nat, revision : Nat]

\* phase: sent (no reply yet), rejected (the local policies have been observed),
\* done (the reply is handled).  revision and leased_policy of a claim are only
\* read for probes, and revision is kept for those.  later is history: what was
\* recorded at the probed keys after the permit was granted.
Permit == [resources : ResourceSets, phase : {"sent", "rejected", "done"},
           probes : SUBSET Key, revision : [Key -> Nat],
           leased : [Key -> [Sources -> Lease]], observed : SUBSET Key,
           captured_policy : SUBSET Sources, later : SUBSET (Key \X Items)]

EmptyPermit ==
  [resources |-> CHOOSE rs \in ResourceSets : TRUE, phase |-> "done",
   probes |-> {}, revision |-> [k \in Key |-> 0],
   leased |-> [k \in Key |-> [x \in Sources |-> [opaque_id |-> 0, revision |-> 0]]],
   observed |-> {}, captured_policy |-> {}, later |-> {}]

Loop == [holder : Nat, step : {"idle", "permit", "observe", "retry"},
         todo : SUBSET Sources, source : Sources \cup {NoSource},
         hint : Instant, at : Nat]
Idle == [holder |-> 0, step |-> "idle", todo |-> {}, source |-> NoSource,
         hint |-> None, at |-> 0]

TypeOK ==
  /\ sequence \in 0..MaxSequence
  /\ restriction_seq \in Nat
  /\ tracked \in SUBSET Key
  /\ slots \in [Key -> Slot]
  /\ policy_snapshot \in [Destinations -> SUBSET Sources]
  /\ live \in SUBSET Ticket
  /\ permit \in [Ticket -> Permit]
  /\ db \in Loop
  /\ capture \in SUBSET ResourceSets
  /\ captured \in SUBSET ResourceSets
  /\ wall \in 0..DateMax
  /\ mono \in Nat
  /\ last_reset \in [Accounts -> Nat]
  /\ evidence \in [Key -> [Items -> SUBSET Ticket]]
  /\ revoked \in [Key -> [Sources -> Nat]]

-----------------------------------------------------------------------------
(* Slots.                                                                  *)

has_row(s, x) == s.policy[x].opaque_id # 0

restricted(s) ==
  \/ s.awaiting_recovery
  \/ s.upstream_not_before # None
  \/ s.next_probe # None
  \/ \E x \in Sources : has_row(s, x)

clear_mutant(s, fence) ==
  [s EXCEPT !.awaiting_recovery = FALSE, !.upstream_not_before = None,
            !.next_probe = None, !.probe_owner = 0, !.failures = 0, !.revision = @ + 1]

clear(s, fence) ==
  [s EXCEPT !.awaiting_recovery = FALSE, !.upstream_not_before = None,
            !.next_probe = None, !.probe_owner = 0, !.failures = 0,
            !.policy = [x \in Sources |-> NoRow],
            !.retired_policy = [x \in Sources |-> 0],
            !.fence = later(@, fence), !.revision = @ + 1]

deadline_is_live(hint) == hint > wall

blocks_mutant(k, s) ==
  \/ deadline_is_live(s.upstream_not_before)
  \/ s.next_probe > mono
  \/ is_policy(k) /\ \E x \in Sources : s.policy[x].next_probe > mono

blocks(k, s) ==
  \/ deadline_is_live(s.upstream_not_before)
  \/ s.next_probe > mono
  \/ is_policy(k) /\ \E x \in Sources : s.policy[x].next_probe > mono
  \/ s.probe_owner # 0

expire_until_deadline(s) ==
  IF deadline_is_live(s.upstream_not_before) THEN s
  ELSE [s EXCEPT !.upstream_not_before = None]

projected_restricted(s) ==
  \/ s.awaiting_recovery
  \/ deadline_is_live(s.upstream_not_before)
  \/ s.next_probe # None
  \/ \E x \in Sources : has_row(s, x)

slot_kept_mutant(k, s, rs) ==
  \/ k.kind \in {"EndpointModel", "FreeEgress"}
  \/ s.owners # owners(rs, k)
  \/ s.owner_generation = owner_generation(rs, k)

slot_kept_after_cleanup(k, s, rs) ==
  \/ k.kind \in {"EndpointModel", "FreeEgress"}
  \/ s.active # 0
  \/ /\ projected_restricted(s)
     /\ \/ s.owners # owners(rs, k)
        \/ s.owner_generation = owner_generation(rs, k)

\* Removal of a set of sources from one slot, each with an observe fence.
retire_source(s, retired, fence) ==
  LET r == [s EXCEPT
              !.policy = [x \in Sources |-> IF x \in retired THEN NoRow ELSE s.policy[x]],
              !.retired_policy = [x \in Sources |->
                 IF x \in retired THEN later(s.retired_policy[x], fence)
                 ELSE s.retired_policy[x]]]
  IN  IF retired # {} /\ ~restricted(r) THEN [r EXCEPT !.probe_owner = 0] ELSE r

\* 30, 60, 120, 240, 300, 300, ... seconds; the jitter digest[0] % (base/10 + 1)
\* is below one time unit of the instances and left out.
probe_delay(failures) ==
  earlier(InitialProbe * <<1, 2, 4, 8, 16>>[IF failures = 0 THEN 1 ELSE earlier(failures, 5)],
          MaxProbe)

\* initial_secs is at least 1 and max_secs at most 86400, so the shift
\* saturates after 17 doublings.
Doublings == <<1, 2, 4, 8, 16, 32, 64, 128, 256, 512, 1024, 2048, 4096, 8192,
               16384, 32768, 65536, 131072>>
policy_backoff_secs(backoff, failures) ==
  earlier(backoff.initial * Doublings[IF failures = 0 THEN 1 ELSE earlier(failures, 18)],
          backoff.max)

\* The slots that are kept, and the others forgotten; ev is their evidence.
Store(kept, s, ev) ==
  /\ tracked' = kept
  /\ slots' = [k \in Key |-> IF k \in kept THEN s[k] ELSE EmptySlot]
  /\ evidence' = [k \in Key |-> IF k \in kept THEN ev[k] ELSE [i \in Items |-> {}]]

retain_live_slots(s) == {k \in tracked : s[k].active # 0 \/ restricted(s[k])}

-----------------------------------------------------------------------------
(* Admission.                                                              *)

\* The table after the cleanup every acquire starts with.
Cleaned == [k \in Key |-> expire_until_deadline(slots[k])]
KeptFor(rs) == {k \in tracked : slot_kept_after_cleanup(k, Cleaned[k], rs)}

fits_mutant(rs) == Cardinality(KeptFor(rs)) <= MaxTracked
fits(rs) == Cardinality(KeptFor(rs) \cup keys(rs)) <= MaxTracked

Admissible(rs) ==
  /\ fits(rs)
  /\ \A k \in keys(rs) \cap KeptFor(rs) : enforces(rs, k) => ~blocks(k, Cleaned[k])

inspect_mutant(rs) ==
  /\ \A k \in keys(rs) \cap tracked : enforces(rs, k) => ~blocks(k, slots[k])
  /\ Cardinality(tracked \cup keys(rs)) <= MaxTracked

inspect_admission(rs) ==
  LET kept == {k \in tracked : slot_kept_after_cleanup(k, slots[k], rs)}
  IN  /\ \A k \in keys(rs) \cap kept : enforces(rs, k) => ~blocks(k, slots[k])
      /\ Cardinality(kept) + Cardinality(keys(rs) \ kept) <= MaxTracked

claims_probe(rs, k, s) ==
  k.kind # "CredentialRetry" /\ enforces(rs, k) /\ restricted(s)

claim(rs, k, s, ticket) ==
  [s EXCEPT !.owner_generation = owner_generation(rs, k),
            !.owners = @ \cup owners(rs, k),
            !.active = @ + 1,
            !.destination_id = Resources[rs].destination_id,
            !.probe_owner = IF claims_probe(rs, k, s) THEN ticket ELSE @]

NewPermit(rs, s) ==
  [resources |-> rs, phase |-> "sent",
   probes |-> {k \in keys(rs) : claims_probe(rs, k, s[k])},
   revision |-> [k \in Key |->
      IF k \in keys(rs) /\ claims_probe(rs, k, s[k]) THEN s[k].revision ELSE 0],
   leased |-> [k \in Key |-> [x \in Sources |->
      IF k \in keys(rs) /\ is_policy(k)
      THEN [opaque_id |-> s[k].policy[x].opaque_id, revision |-> s[k].policy[x].revision]
      ELSE [opaque_id |-> 0, revision |-> 0]]],
   observed |-> {},
   captured_policy |-> policy_snapshot[Resources[rs].destination_id],
   later |-> {}]

ticket_available_mutant == sequence <= MaxSequence
ticket_available == sequence < MaxSequence

acquire(rs) ==
  LET ticket == sequence + 1
      base == [k \in Key |-> IF k \in KeptFor(rs) THEN Cleaned[k] ELSE EmptySlot]
  IN  /\ Admissible(rs)
      /\ ticket_available
      /\ sequence' = ticket
      /\ Store(KeptFor(rs) \cup keys(rs),
               [k \in Key |-> IF k \in keys(rs) THEN claim(rs, k, base[k], ticket) ELSE base[k]],
               [k \in Key |-> IF k \in KeptFor(rs) THEN evidence[k] ELSE [i \in Items |-> {}]])
      /\ live' = live \cup {ticket}
      /\ permit' = [permit EXCEPT ![ticket] = NewPermit(rs, base)]
      /\ UNCHANGED <<restriction_seq, policy_snapshot, db, host, clock, last_reset, revoked>>

\* A refused acquire still leaves the table cleaned up.
acquire_refused(rs) ==
  /\ ~Admissible(rs) \/ ~ticket_available
  /\ Store(KeptFor(rs), Cleaned, evidence)
  /\ UNCHANGED <<sequence, restriction_seq, policy_snapshot, live, permit, db,
                 host, clock, last_reset, revoked>>

-----------------------------------------------------------------------------
(* Operator and configuration.                                             *)

\* Runs under the database lock; the accounts of Zen Free cannot be reset.
reset_account(a) ==
  LET cleared == {k \in tracked : k.kind # "FreeEgress" /\ a \in slots[k].owners}
      s == [k \in Key |-> IF k \in cleared THEN clear(slots[k], sequence + 1) ELSE slots[k]]
  IN  /\ db.holder = 0
      /\ \A rs \in captured : Resources[rs].owner = a => ~Resources[rs].free_contract
      /\ \A k \in cleared : slots[k].revision < MaxRevision
      /\ Store(retain_live_slots(s), s,
               [k \in Key |-> IF k \in cleared THEN [i \in Items |-> {}] ELSE evidence[k]])
      /\ last_reset' = [last_reset EXCEPT ![a] = sequence]
      /\ UNCHANGED <<sequence, restriction_seq, policy_snapshot, live, permit, db,
                     host, clock, revoked>>

\* Retirement of stale[k] from every slot k, as install_snapshot and
\* clear_restriction do it.
Retire(stale) ==
  LET s == [k \in Key |-> retire_source(slots[k], stale[k], sequence + 1)]
  IN  /\ Store(retain_live_slots(s), s,
               [k \in Key |-> [i \in Items |-> IF i \in stale[k] THEN {} ELSE evidence[k][i]]])
      /\ revoked' = [k \in Key |-> [x \in Sources |->
                       IF x \in stale[k] THEN sequence + 1 ELSE revoked[k][x]]]

install_snapshot(snapshot) ==
  /\ db.holder = 0
  /\ policy_snapshot' = snapshot
  /\ Retire([k \in Key |->
       IF k \in tracked
       THEN {x \in Sources : has_row(slots[k], x) /\ x \notin snapshot[slots[k].destination_id]}
       ELSE {}])
  /\ UNCHANGED <<sequence, restriction_seq, live, permit, db, host, clock, last_reset>>

\* Not under the database lock: it may fall into a running policy loop.
clear_restriction(id) ==
  /\ Retire([k \in Key |-> {x \in Sources : has_row(slots[k], x) /\ slots[k].policy[x].opaque_id = id}])
  /\ UNCHANGED <<sequence, restriction_seq, policy_snapshot, live, permit, db, host, clock,
                 last_reset>>

\* Keys, pools, destinations or catalogs are edited: capture changes, and
\* requests that captured before may still be on their way to acquire.
Reconfigure(c) ==
  /\ db.holder = 0
  /\ capture' = c
  /\ captured' = captured \cup c
  /\ UNCHANGED <<inner, live, permit, db, clock, history>>

-----------------------------------------------------------------------------
(* Replies.                                                                *)

\* After the I/O the identity is captured again and compared.  A request that
\* no longer routes captures nothing.
recaptured(rs) == {c \in capture : Resources[c].request = Resources[rs].request}
identity_is_current(rs) == \E c \in recaptured(rs) : Resources[c].credential_retry = Resources[rs].credential_retry
generation_is_current(rs) == \E c \in recaptured(rs) : same_generation(rs, c)
policy_identity_is_current(rs) == \E c \in recaptured(rs) : same_policy_identity(rs, c)

permits_observation(t, facts) ==
  LET k == key(permit[t].resources, kind_for(facts))
  IN  k \in tracked /\ t >= slots[k].fence

\* Permits after the reply of t recorded item i of key k; recorded says whether
\* it did.
Noted(t, k, i, recorded, phase) ==
  [u \in Ticket |->
     [permit[u] EXCEPT
        !.phase = IF u = t THEN phase ELSE @,
        !.observed = IF u = t /\ recorded THEN @ \cup {k} ELSE @,
        !.later = IF u \in live /\ recorded /\ k \in permit[u].probes THEN @ \cup {<<k, i>>} ELSE @]]

observed_slot_mutant(t, k, wait, hint, now) ==
  [slots[k] EXCEPT !.upstream_not_before = hint, !.revision = @ + 1]

observed_slot(t, k, wait, hint, now) ==
  LET s == slots[k]
      failures == IF ~s.awaiting_recovery \/ k \in permit[t].probes THEN s.failures + 1 ELSE s.failures
  IN  [s EXCEPT !.failures = IF wait THEN failures ELSE @,
                !.awaiting_recovery = @ \/ wait,
                !.next_probe = IF wait THEN later(@, now + probe_delay(failures)) ELSE @,
                !.upstream_not_before = later(@, hint),
                !.revision = @ + 1]

observe_key(t, k, allowed, wait, hint, now, phase) ==
  LET recorded == allowed /\ (wait \/ hint # None) /\ k \in tracked /\ t >= slots[k].fence
  IN  /\ slots' = IF recorded
                  THEN [slots EXCEPT ![k] = observed_slot(t, k, wait, hint, now)]
                  ELSE slots
      /\ evidence' = IF recorded THEN [evidence EXCEPT ![k][Upstream] = @ \cup {t}] ELSE evidence
      /\ permit' = Noted(t, k, Upstream, recorded, phase)
      /\ UNCHANGED tracked

Replies(t) ==
  /\ t \in live
  /\ permit[t].phase \in {"sent", "rejected"}
  /\ db.holder = 0
  /\ UNCHANGED <<sequence, restriction_seq, policy_snapshot, live, db, host, clock,
                 last_reset, revoked>>

\* A 429 of a paid route that names no plan window.
temporary_429(t, header) ==
  LET rs == permit[t].resources
  IN  /\ Replies(t)
      /\ ~Resources[rs].free_contract
      /\ observe_key(t, key(rs, "CredentialRetry"),
                     /\ identity_is_current(rs)
                     /\ permits_observation(t, Temporary429Facts)
                     /\ generation_is_current(rs),
                     FALSE, temporary_429_deadline(header, wall), mono, "done")

\* A declared plan window (a GOAT 429) or exhausted monthly credits.
plan_window(t, header, delay) ==
  LET rs == permit[t].resources
  IN  /\ Replies(t)
      /\ ~Resources[rs].free_contract
      /\ observe_key(t, key(rs, "CredentialRetry"),
                     identity_is_current(rs) /\ permits_observation(t, PlanWindowFacts),
                     FALSE, plan_window_admission(wall + delay, header, wall), mono, "done")

observe_openrouter_free_rejection(t, header) ==
  LET rs == permit[t].resources
  IN  /\ Replies(t)
      /\ ~Resources[rs].free_contract
      /\ observe_key(t, key(rs, kind_for(OpenRouterFacts)),
                     /\ identity_is_current(rs)
                     /\ permits_observation(t, OpenRouterFacts)
                     /\ generation_is_current(rs),
                     wait_for_recovery(OpenRouterFacts),
                     temporary_429_deadline(header, wall), mono, "done")

observe_free_rejection(t, header) ==
  LET rs == permit[t].resources
  IN  /\ Replies(t)
      /\ Resources[rs].free_contract
      /\ observe_key(t, key(rs, kind_for(FreeFacts)),
                     /\ identity_is_current(rs)
                     /\ permits_observation(t, FreeFacts)
                     /\ generation_is_current(rs),
                     wait_for_recovery(FreeFacts),
                     temporary_429_deadline(header, wall), mono, "done")

-----------------------------------------------------------------------------
(* The loop over local-policy decisions of one error reply.                *)

\* evaluate_captured matched the nonempty set decisions.
observe_local_policy(t, decisions, header) ==
  /\ t \in live
  /\ permit[t].phase = "sent"
  /\ db.holder = 0
  /\ decisions # {} /\ decisions \subseteq permit[t].captured_policy
  /\ policy_identity_is_current(permit[t].resources)
  /\ identity_is_current(permit[t].resources)
  /\ db' = [holder |-> t, step |-> "permit", todo |-> decisions, source |-> NoSource,
            hint |-> parse_retry_after(header, wall), at |-> mono]
  /\ permit' = [permit EXCEPT ![t].phase = "rejected"]
  /\ UNCHANGED <<inner, live, host, clock, history>>

DecisionKey(t, x) == policy_key(permit[t].resources, Scope[x])

permits_policy_mutant(t, x) ==
  LET k == DecisionKey(t, x)
  IN  k \in tracked /\ x \in policy_snapshot[Resources[permit[t].resources].destination_id]

permits_policy(t, x) ==
  LET k == DecisionKey(t, x)
  IN  /\ k \in keys(permit[t].resources)
      /\ x \in policy_snapshot[Resources[permit[t].resources].destination_id]
      /\ k \in tracked
      /\ t >= slots[k].fence
      /\ t >= slots[k].retired_policy[x]

\* The loop after it is done with the current decision.
NextDecision(todo) == IF todo = {} THEN Idle ELSE [db EXCEPT !.step = "permit", !.todo = todo, !.source = NoSource]

check_decision(x) ==
  /\ db.step = "permit" /\ x \in db.todo
  /\ db' = IF permits_policy(db.holder, x)
           THEN [db EXCEPT !.step = "observe", !.source = x]
           ELSE NextDecision(db.todo \ {x})
  /\ UNCHANGED <<inner, live, permit, host, clock, history>>

observed_row(t, k, x) ==
  LET row == slots[k].policy[x]
      first == ~has_row(slots[k], x)
      probing == k \in permit[t].probes
      failures == IF probing THEN row.failures + 1 ELSE IF first THEN 1 ELSE row.failures
  IN  [opaque_id  |-> IF first THEN restriction_seq + 1 ELSE row.opaque_id,
       revision   |-> row.revision + 1,
       failures   |-> failures,
       next_probe |-> IF probing \/ first
                      THEN later(row.next_probe, db.at + policy_backoff_secs(Backoff[x], failures))
                      ELSE row.next_probe]

observe_policy ==
  LET t == db.holder
      x == db.source
      k == DecisionKey(t, x)
      recorded == permits_policy(t, x)
  IN  /\ db.step = "observe"
      /\ slots' = IF recorded THEN [slots EXCEPT ![k].policy[x] = observed_row(t, k, x)] ELSE slots
      /\ restriction_seq' = IF recorded /\ ~has_row(slots[k], x) THEN restriction_seq + 1
                            ELSE restriction_seq
      /\ evidence' = IF recorded THEN [evidence EXCEPT ![k][x] = @ \cup {t}] ELSE evidence
      /\ permit' = Noted(t, k, x, recorded, "rejected")
      /\ db' = IF db.hint = None THEN NextDecision(db.todo \ {x}) ELSE [db EXCEPT !.step = "retry"]
      /\ UNCHANGED <<sequence, tracked, policy_snapshot, live, host, clock, last_reset, revoked>>

observe_policy_retry ==
  LET t == db.holder
  IN  /\ db.step = "retry"
      /\ observe_key(t, DecisionKey(t, db.source), TRUE, FALSE, db.hint, db.at, "rejected")
      /\ db' = NextDecision(db.todo \ {db.source})
      /\ UNCHANGED <<sequence, restriction_seq, policy_snapshot, live, host, clock, last_reset,
                     revoked>>

-----------------------------------------------------------------------------
(* A complete response, and the end of a permit.                           *)

same_episode(row, lease) == row.opaque_id = lease.opaque_id /\ row.revision = lease.revision

confirms_mutant(t, k) == k \in permit[t].probes /\ slots[k].probe_owner = t

confirms(t, k) ==
  /\ k \in permit[t].probes
  /\ k \in tracked
  /\ slots[k].probe_owner = t
  /\ is_policy(k) \/ (slots[k].revision = permit[t].revision[k] /\ t >= slots[k].fence)

confirmed_slot(t, k) ==
  IF ~is_policy(k) THEN clear(slots[k], t + 1)
  ELSE LET s == [slots[k] EXCEPT !.policy = [x \in Sources |->
                   IF same_episode(@[x], permit[t].leased[k][x]) THEN NoRow ELSE @[x]]]
       IN  IF restricted(s) THEN s ELSE [s EXCEPT !.probe_owner = 0]

confirm_success(t) ==
  /\ t \in live
  /\ permit[t].phase = "sent"
  /\ slots' = [k \in Key |-> IF confirms(t, k) THEN confirmed_slot(t, k) ELSE slots[k]]
  /\ evidence' = [k \in Key |-> [i \in Items |->
       IF ~confirms(t, k) THEN evidence[k][i]
       ELSE IF ~is_policy(k) THEN {}
       ELSE IF i \in Sources /\ same_episode(slots[k].policy[i], permit[t].leased[k][i]) THEN {}
       ELSE evidence[k][i]]]
  /\ permit' = [permit EXCEPT ![t].phase = "done",
                              ![t].observed = @ \cup {k \in Key : confirms(t, k)}]
  /\ UNCHANGED <<sequence, restriction_seq, tracked, policy_snapshot, live, db, host, clock,
                 last_reset, revoked>>

released_slot_mutant(t, k) == [slots[k] EXCEPT !.active = IF @ = 0 THEN 0 ELSE @ - 1]

\* An unconfirmed probe leaves a short local recheck interval.
released_slot(t, k) ==
  LET s == slots[k]
      owner == s.probe_owner = t
      recheck == owner /\ k \notin permit[t].observed /\ restricted(s)
      next == mono + InitialProbe
  IN  [s EXCEPT
         !.active = IF @ = 0 THEN 0 ELSE @ - 1,
         !.probe_owner = IF owner THEN 0 ELSE @,
         !.next_probe = IF recheck /\ ~is_policy(k) THEN later(@, next) ELSE @,
         !.policy = [x \in Sources |->
            IF recheck /\ is_policy(k) /\ has_row(s, x)
               /\ same_episode(s.policy[x], permit[t].leased[k][x])
            THEN [s.policy[x] EXCEPT !.next_probe = later(@, next)]
            ELSE s.policy[x]]]

drop(t) ==
  LET claimed == keys(permit[t].resources)
      s == [k \in Key |-> IF k \in claimed /\ k \in tracked THEN released_slot(t, k) ELSE slots[k]]
  IN  /\ t \in live
      /\ db.holder # t
      /\ Store(retain_live_slots(s), s, evidence)
      /\ live' = live \ {t}
      /\ permit' = [permit EXCEPT ![t] = [EmptyPermit EXCEPT !.resources = permit[t].resources]]
      /\ UNCHANGED <<sequence, restriction_seq, policy_snapshot, db, host, clock, last_reset, revoked>>

-----------------------------------------------------------------------------
(* Time.                                                                   *)

Pending ==
  \E k \in tracked :
    \/ slots[k].next_probe > mono
    \/ slots[k].upstream_not_before > wall /\ slots[k].upstream_not_before # Unbounded
    \/ \E x \in Sources : slots[k].policy[x].next_probe > mono

Tick(d) ==
  /\ mono < Horizon \/ Pending
  /\ wall + d \in 0..DateMax
  /\ wall' = wall + d
  /\ mono' = mono + 1
  /\ UNCHANGED <<inner, live, permit, db, host, history>>

-----------------------------------------------------------------------------
Init ==
  /\ sequence = 0 /\ restriction_seq = 0
  /\ tracked = {} /\ slots = [k \in Key |-> EmptySlot]
  /\ policy_snapshot \in Snapshots
  /\ live = {} /\ permit = [t \in Ticket |-> EmptyPermit]
  /\ db = Idle
  /\ capture \in Captures
  /\ captured = capture
  /\ wall = 0 /\ mono = 0
  /\ last_reset = [a \in Accounts |-> 0]
  /\ evidence = [k \in Key |-> [i \in Items |-> {}]]
  /\ revoked = [k \in Key |-> [x \in Sources |-> 0]]

Reply(t) ==
  \/ \E header \in RetryAfters :
       \/ temporary_429(t, header)
       \/ \E delay \in PlanResets : plan_window(t, header, delay)
       \/ observe_openrouter_free_rejection(t, header)
       \/ observe_free_rejection(t, header)
  \/ \E header \in PolicyRetryAfters, decisions \in SUBSET Sources :
       observe_local_policy(t, decisions, header)
  \/ confirm_success(t)

PolicyLoop ==
  \/ \E x \in Sources : check_decision(x)
  \/ observe_policy
  \/ observe_policy_retry

Operator ==
  \/ \E a \in Accounts : reset_account(a)
  \/ \E snapshot \in Snapshots : install_snapshot(snapshot)
  \/ \E id \in 1..restriction_seq : clear_restriction(id)
  \/ \E c \in Captures : Reconfigure(c)

Next ==
  \/ \E rs \in captured : acquire(rs) \/ acquire_refused(rs)
  \/ \E t \in Ticket : Reply(t) \/ drop(t)
  \/ PolicyLoop
  \/ Operator
  \/ \E d \in WallSteps : Tick(d)

Spec == Init /\ [][Next]_vars

-----------------------------------------------------------------------------
(* Properties.                                                             *)

\* A probe lease belongs to a permit that is still alive and that claimed it,
\* so dropping the permit always releases the resource: no lease is orphaned
\* by a cleanup, a reset, a rule change or a generation change.
LeasesAreHeld ==
  \A k \in Key : slots[k].probe_owner # 0 =>
    /\ k \in tracked
    /\ slots[k].probe_owner \in live
    /\ k \in permit[slots[k].probe_owner].probes

\* active counts exactly the live permits that claimed the key, and no slot is
\* forgotten under a live permit: its fence outlives every reply it must stop.
ClaimsAreCounted ==
  \A k \in Key :
    slots[k].active = Cardinality({t \in live : k \in keys(permit[t].resources)})

\* The table never outgrows MAX_TRACKED_RESOURCES.
CapacityHolds == Cardinality(tracked) <= MaxTracked

\* "Pending resources admit one probe at a time": no two live permits probe the
\* same waiting episode of a resource, and none two the same policy episode.
OneProbePerEpisode ==
  \A t, u \in live : \A k \in permit[t].probes \cap permit[u].probes :
    t # u =>
      /\ ~is_policy(k) => \E v \in {t, u} : permit[v].revision[k] # slots[k].revision
      /\ \A x \in Sources : permit[t].leased[k][x].opaque_id # 0 =>
           permit[t].leased[k][x].opaque_id # permit[u].leased[k][x].opaque_id

\* After an operator reset of an account nothing its resources show comes from
\* a request admitted before the reset, whatever replies arrive late.
ResetForgetsOldReplies ==
  \A k \in Key : \A i \in Items : \A t \in evidence[k][i] :
    k.kind # "FreeEgress" =>
      \A a \in owners(permit[t].resources, k) : last_reset[a] < t

\* A restriction that was cleared, or whose rule was withdrawn, is not recreated
\* by a request admitted before that.
RevokedSourceStaysRevoked ==
  \A k \in Key : \A x \in Sources : \A t \in evidence[k][x] : t >= revoked[k][x]

\* The executor's read-only preview admits exactly what acquire would admit,
\* although it neither expires deadlines nor drops obsolete slots.
PreviewAgreesWithAcquire ==
  \A rs \in captured : inspect_admission(rs) <=> Admissible(rs)

\* A success admitted before a failure was recorded does not clear that failure.
ConfirmKeepsLaterFailures ==
  [][\A t \in live : confirm_success(t) =>
       \A k \in Key : \A i \in {j \in Items : <<k, j>> \in permit[t].later} :
         IF i = Upstream
         THEN /\ slots'[k].upstream_not_before = slots[k].upstream_not_before
              /\ slots'[k].next_probe = slots[k].next_probe
              /\ slots'[k].awaiting_recovery = slots[k].awaiting_recovery
         ELSE slots'[k].policy[i] = slots[k].policy[i]]_vars

\* A Retry-After that has not elapsed is lifted only by an operator reset of an
\* owner, or when a newer generation of the same owners makes the slot obsolete:
\* never by a probe, a rule change, a cleared restriction or a dropped request.
RetryAfterIsHonoured ==
  [][\A k \in Key :
       (deadline_is_live(slots[k].upstream_not_before)
          /\ slots'[k].upstream_not_before < slots[k].upstream_not_before) =>
         \/ \E a \in slots[k].owners : reset_account(a)
         \/ \E rs \in captured :
              /\ k \notin tracked'
              /\ slots[k].active = 0
              /\ slots[k].owners = owners(rs, k)
              /\ slots[k].owner_generation # owner_generation(rs, k)]_vars

-----------------------------------------------------------------------------
(* Progress: every request ends, and clocks advance.                       *)

Fairness ==
  /\ \A t \in Ticket : WF_vars(drop(t))
  /\ WF_vars(PolicyLoop)
  /\ WF_vars(Tick(1))

FairSpec == Spec /\ Fairness

WaitsForEver(rs) == \E k \in keys(rs) : slots[k].upstream_not_before = Unbounded

Refused(a) == {rs \in captured : Resources[rs].owner = a /\ ~Admissible(rs) /\ ~WaitsForEver(rs)}

\* No account is refused for ever: elapsed waits, finished probes and dropped
\* requests make all its routes admissible again, unless the upstream asked for
\* a wait beyond the representable dates.
RefusedRoutesRecover == \A a \in Accounts : (Refused(a) # {}) ~> (Refused(a) = {})
=============================================================================
