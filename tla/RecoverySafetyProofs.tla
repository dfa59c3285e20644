-------------------------- MODULE RecoverySafetyProofs --------------------------
(***************************************************************************)
(* Type correctness of Recovery, and who holds what in its table, for      *)
(* every value of its constants.                                           *)
(*                                                                         *)
(* TypeOK is not inductive by itself: the policy loop indexes permits and  *)
(* rules with what it holds in db, so it is proved together with LoopInv.  *)
(* Every operator that builds a slot, a row or a permit has a lemma of its *)
(* own; every action has a lemma that it preserves TypeOK and LoopInv.     *)
(***************************************************************************)
EXTENDS Recovery, FiniteSetTheorems, TLAPS

-----------------------------------------------------------------------------
(* Operators.                                                              *)

\* The keys an attempt is admitted against (ResourceSet::keys) are resource keys.
LEMMA KeysAreKeys == \A rs \in ResourceSets : keys(rs) \subseteq Key
  BY DEF Key

\* ResourceSet::owners names accounts only.
LEMMA OwnersAreAccounts == \A rs \in ResourceSets : \A k \in Key : owners(rs, k) \subseteq Accounts
  BY RecoveryAssumption DEF RecoveryAssumption, owners

\* ResourceSet::owner_generation returns one of the known generations.
LEMMA OwnerGenerationType ==
  \A rs \in ResourceSets : \A k \in Key : owner_generation(rs, k) \in Generations
  BY DEF Generations

\* The probe intervals and the bounds of dates are naturals; None is below them.
LEMMA ConstantTypes ==
  /\ DateMax \in Nat /\ Temporary429 \in Nat /\ None = -1 /\ Unbounded \in Nat
  /\ InitialProbe \in Nat /\ MaxProbe \in Nat
  BY FailureAssumption, RecoveryAssumption DEF FailureAssumption, RecoveryAssumption, None, Unbounded

\* The maximum and the minimum of two instants or counters are of their type.
LEMMA LaterEarlierType ==
  /\ \A a, b \in Instant : later(a, b) \in Instant /\ earlier(a, b) \in Instant
  /\ \A a, b \in Nat : later(a, b) \in Nat /\ earlier(a, b) \in Nat
  /\ \A a \in Instant, b \in Nat : later(a, b) \in Nat
  BY DEF later, earlier, Instant, None

\* Slot::default is a slot.
LEMMA EmptySlotType == EmptySlot \in Slot
  BY DEF EmptySlot, Slot, Row, NoRow, Generations, Instant, None, NoGeneration, NoDestination


\* An absent policy row, and the empty policy tables of a slot, have their types.
LEMMA NoRowType ==
  /\ NoRow \in Row
  /\ [x \in Sources |-> NoRow] \in [Sources -> Row]
  /\ [x \in Sources |-> 0] \in [Sources -> Nat]
  BY DEF NoRow, Row, Instant, None

\* Slot::clear returns a slot.
LEMMA ClearType == \A s \in Slot, f \in Nat : clear(s, f) \in Slot
  <1> SUFFICES ASSUME NEW s \in Slot, NEW f \in Nat PROVE clear(s, f) \in Slot
    OBVIOUS
  <1>1. later(s.fence, f) \in Nat
    BY LaterEarlierType DEF Slot
  <1>2. None \in Instant /\ 0 \in Nat
    BY DEF Instant
  <1>3. s.revision + 1 \in Nat
    BY DEF Slot
  <1> QED BY <1>1, <1>2, <1>3, NoRowType, Zenon DEF clear, Slot

\* expire_until_deadline returns a slot.
LEMMA ExpireType == \A s \in Slot : expire_until_deadline(s) \in Slot
  BY DEF expire_until_deadline, Slot, Instant

\* retire_source returns a slot.
LEMMA RetireType ==
  \A s \in Slot, r \in SUBSET Sources, f \in Nat : retire_source(s, r, f) \in Slot
  <1> SUFFICES ASSUME NEW s \in Slot, NEW r \in SUBSET Sources, NEW f \in Nat
               PROVE retire_source(s, r, f) \in Slot
    OBVIOUS
  <1> DEFINE p == [x \in Sources |-> IF x \in r THEN NoRow ELSE s.policy[x]]
             q == [x \in Sources |-> IF x \in r THEN later(s.retired_policy[x], f)
                                     ELSE s.retired_policy[x]]
             n == [s EXCEPT !.policy = p, !.retired_policy = q]
  <1>1. p \in [Sources -> Row]
    BY NoRowType DEF Slot
  <1>2. q \in [Sources -> Nat]
    BY LaterEarlierType DEF Slot
  <1>3. n \in Slot /\ [n EXCEPT !.probe_owner = 0] \in Slot
    <2> HIDE DEF p, q
    <2> QED BY <1>1, <1>2 DEF Slot
  <1> QED BY <1>3 DEF retire_source

\* The claim acquire stakes on a key leaves a slot.
LEMMA ClaimType ==
  \A rs \in ResourceSets, k \in Key, s \in Slot, t \in Nat : claim(rs, k, s, t) \in Slot
  <1> SUFFICES ASSUME NEW rs \in ResourceSets, NEW k \in Key, NEW s \in Slot, NEW t \in Nat
               PROVE claim(rs, k, s, t) \in Slot
    OBVIOUS
  <1>1. s.owners \cup owners(rs, k) \in SUBSET Accounts
    BY OwnersAreAccounts DEF Slot
  <1>2. owner_generation(rs, k) \in Generations
    BY OwnerGenerationType
  <1>3. Resources[rs].destination_id \in Destinations
    BY RecoveryAssumption DEF RecoveryAssumption
  <1>4. s.active + 1 \in Nat
    BY DEF Slot
  <1>5. (IF claims_probe(rs, k, s) THEN t ELSE s.probe_owner) \in Nat
    BY DEF Slot
  <1> QED BY <1>1, <1>2, <1>3, <1>4, <1>5, Zenon DEF claim, Slot

\* The reprobe delay of observe_key is a natural: the doubling table covers every
\* failure count.
LEMMA ProbeDelayType == \A n \in Nat : probe_delay(n) \in Nat
  <1> SUFFICES ASSUME NEW n \in Nat PROVE probe_delay(n) \in Nat
    OBVIOUS
  <1> DEFINE i == IF n = 0 THEN 1 ELSE earlier(n, 5)
  <1>1. i \in 1..5
    BY DEF earlier
  <1>2. <<1, 2, 4, 8, 16>>[i] \in Nat
    BY <1>1
  <1> DEFINE y == <<1, 2, 4, 8, 16>>[i]
  <1>3. earlier(InitialProbe * y, MaxProbe) \in Nat
    <2>1. y \in Nat
      BY <1>2
    <2> HIDE DEF y
    <2>2. InitialProbe * y \in Nat /\ MaxProbe \in Nat
      BY <2>1, ConstantTypes
    <2> QED BY <2>2, LaterEarlierType
  <1> QED BY <1>3 DEF probe_delay

\* policy_backoff_secs is a natural: the doubling table covers every failure count.
LEMMA BackoffType ==
  \A b \in [initial : Nat \ {0}, max : Nat \ {0}], n \in Nat : policy_backoff_secs(b, n) \in Nat
  <1> SUFFICES ASSUME NEW b \in [initial : Nat \ {0}, max : Nat \ {0}], NEW n \in Nat
               PROVE policy_backoff_secs(b, n) \in Nat
    OBVIOUS
  <1> DEFINE i == IF n = 0 THEN 1 ELSE earlier(n, 18)
             y == Doublings[i]
  <1>1. i \in 1..18
    BY DEF earlier
  <1>2. y \in Nat
    BY <1>1 DEF Doublings
  <1>3. earlier(b.initial * y, b.max) \in Nat
    <2> HIDE DEF y
    <2>1. b.initial * y \in Nat /\ b.max \in Nat
      BY <1>2
    <2> QED BY <2>1, LaterEarlierType
  <1> QED BY <1>3 DEF policy_backoff_secs

\* What observe_key makes of a slot is a slot.
LEMMA ObservedSlotType ==
  ASSUME TypeOK, NEW t \in Ticket, NEW k \in Key, NEW wait \in BOOLEAN,
         NEW hint \in Instant, NEW now \in Nat
  PROVE  observed_slot(t, k, wait, hint, now) \in Slot
  <1> DEFINE s == slots[k]
             f == IF ~s.awaiting_recovery \/ k \in permit[t].probes
                  THEN s.failures + 1 ELSE s.failures
  <1>1. s \in Slot
    BY DEF TypeOK
  <1>2. f \in Nat /\ s.revision + 1 \in Nat
    BY <1>1 DEF Slot
  <1>3. (IF wait THEN f ELSE s.failures) \in Nat
    <2> HIDE DEF f
    <2> QED BY <1>1, <1>2 DEF Slot
  <1>4. (IF wait THEN later(s.next_probe, now + probe_delay(f)) ELSE s.next_probe) \in Instant
    <2> HIDE DEF f
    <2>1. now + probe_delay(f) \in Nat
      BY <1>2, ProbeDelayType
    <2>2. s.next_probe \in Instant /\ Nat \subseteq Instant
      BY <1>1 DEF Slot, Instant
    <2> QED BY <2>1, <2>2, LaterEarlierType
  <1>5. later(s.upstream_not_before, hint) \in Instant
    BY <1>1, LaterEarlierType DEF Slot
  <1>6. (s.awaiting_recovery \/ wait) \in BOOLEAN
    OBVIOUS
  <1> HIDE DEF f
  <1>7. observed_slot(t, k, wait, hint, now) =
          [s EXCEPT !.failures = IF wait THEN f ELSE @,
                !.awaiting_recovery = @ \/ wait,
                !.next_probe = IF wait THEN later(@, now + probe_delay(f)) ELSE @,
                !.upstream_not_before = later(@, hint),
                !.revision = @ + 1]
    BY DEF observed_slot, f
  <1> QED BY <1>1, <1>2, <1>3, <1>4, <1>5, <1>6, <1>7, ZenonT(40) DEF Slot

\* What observe_policy makes of a policy row is a row.
LEMMA ObservedRowType ==
  ASSUME TypeOK, NEW t \in Ticket, NEW k \in Key, NEW x \in Sources
  PROVE  observed_row(t, k, x) \in Row
  <1> DEFINE row == slots[k].policy[x]
             f == IF k \in permit[t].probes THEN row.failures + 1
                  ELSE IF ~has_row(slots[k], x) THEN 1 ELSE row.failures
             d == policy_backoff_secs(Backoff[x], f)
  <1>1. row \in Row
    BY DEF TypeOK, Slot
  <1>2. row.failures \in Nat /\ row.opaque_id \in Nat /\ row.revision + 1 \in Nat
        /\ row.next_probe \in Instant /\ restriction_seq + 1 \in Nat /\ db.at \in Nat
    BY <1>1 DEF Row, TypeOK, Loop
  <1>3. f \in Nat
    BY <1>2
  <1>4. Backoff[x] \in [initial : Nat \ {0}, max : Nat \ {0}]
    BY RecoveryAssumption DEF RecoveryAssumption
  <1>5. d \in Nat
    <2> HIDE DEF f
    <2> QED BY <1>3, <1>4, BackoffType
  <1>6. later(row.next_probe, db.at + d) \in Instant
    <2> HIDE DEF row, d
    <2>1. db.at + d \in Nat /\ Nat \subseteq Instant
      BY <1>2, <1>5 DEF Instant
    <2> QED BY <1>2, <2>1, LaterEarlierType
  <1>7. observed_row(t, k, x) =
          [opaque_id  |-> IF ~has_row(slots[k], x) THEN restriction_seq + 1 ELSE row.opaque_id,
           revision   |-> row.revision + 1,
           failures   |-> f,
           next_probe |-> IF k \in permit[t].probes \/ ~has_row(slots[k], x)
                          THEN later(row.next_probe, db.at + d) ELSE row.next_probe]
    BY DEF observed_row
  <1> HIDE DEF row, f, d
  <1> QED BY <1>2, <1>3, <1>6, <1>7 DEF Row

\* What confirm_success makes of a slot is a slot.
LEMMA ConfirmedSlotType ==
  ASSUME TypeOK, NEW t \in Ticket, NEW k \in Key
  PROVE  confirmed_slot(t, k) \in Slot
  <1> DEFINE s == slots[k]
             p == [x \in Sources |->
                     IF same_episode(s.policy[x], permit[t].leased[k][x]) THEN NoRow ELSE s.policy[x]]
             n == [s EXCEPT !.policy = p]
  <1>1. s \in Slot
    BY DEF TypeOK
  <1>2. p \in [Sources -> Row]
    BY <1>1, NoRowType DEF Slot
  <1>3. n \in Slot /\ [n EXCEPT !.probe_owner = 0] \in Slot
    <2> HIDE DEF p
    <2> QED BY <1>1, <1>2 DEF Slot
  <1>4. clear(s, t + 1) \in Slot
    <2>1. t + 1 \in Nat
      BY RecoveryAssumption DEF Ticket, RecoveryAssumption
    <2> QED BY <1>1, <2>1, ClearType
  <1>5. confirmed_slot(t, k) \in {clear(s, t + 1), n, [n EXCEPT !.probe_owner = 0]}
    BY DEF confirmed_slot
  <1> HIDE DEF n
  <1> QED BY <1>3, <1>4, <1>5

\* What dropping a permit makes of a slot is a slot.
LEMMA ReleasedSlotType ==
  ASSUME TypeOK, NEW t \in Ticket, NEW k \in Key
  PROVE  released_slot(t, k) \in Slot
  <1> DEFINE s == slots[k]
             owner == s.probe_owner = t
             recheck == owner /\ k \notin permit[t].observed /\ restricted(s)
             next == mono + InitialProbe
             p == [x \in Sources |->
                    IF recheck /\ is_policy(k) /\ has_row(s, x)
                       /\ same_episode(s.policy[x], permit[t].leased[k][x])
                    THEN [s.policy[x] EXCEPT !.next_probe = later(@, next)]
                    ELSE s.policy[x]]
             a == IF s.active = 0 THEN 0 ELSE s.active - 1
             o == IF owner THEN 0 ELSE s.probe_owner
             q == IF recheck /\ ~is_policy(k) THEN later(s.next_probe, next) ELSE s.next_probe
  <1>1. s \in Slot
    BY DEF TypeOK
  <1>2. next \in Nat /\ Nat \subseteq Instant
    BY ConstantTypes DEF TypeOK, Instant
  <1>3. a \in Nat /\ o \in Nat
    BY <1>1 DEF Slot
  <1>4. q \in Instant
    <2> HIDE DEF next, recheck
    <2> QED BY <1>1, <1>2, LaterEarlierType DEF Slot
  <1>5. p \in [Sources -> Row]
    <2> HIDE DEF next, recheck
    <2> SUFFICES ASSUME NEW x \in Sources
                 PROVE  [s.policy[x] EXCEPT !.next_probe = later(@, next)] \in Row
      BY <1>1 DEF Slot
    <2>1. s.policy[x] \in Row
      BY <1>1 DEF Slot
    <2>2. later(s.policy[x].next_probe, next) \in Instant
      BY <2>1, <1>2, LaterEarlierType DEF Row
    <2> QED BY <2>1, <2>2 DEF Row
  <1>6. released_slot(t, k) =
          [s EXCEPT !.active = a, !.probe_owner = o, !.next_probe = q, !.policy = p]
    BY DEF released_slot
  <1> HIDE DEF s, a, o, q, p
  <1> QED BY <1>1, <1>3, <1>4, <1>5, <1>6, Zenon DEF Slot

\* Keeping some slots and forgetting the others leaves a well-typed table.
LEMMA StoreType ==
  ASSUME NEW kept \in SUBSET Key, NEW s \in [Key -> Slot],
         NEW ev \in [Key -> [Items -> SUBSET Ticket]], Store(kept, s, ev)
  PROVE  /\ tracked' \in SUBSET Key
         /\ slots' \in [Key -> Slot]
         /\ evidence' \in [Key -> [Items -> SUBSET Ticket]]
  <1>1. [i \in Items |-> {}] \in [Items -> SUBSET Ticket]
    OBVIOUS
  <1> QED BY <1>1, EmptySlotType DEF Store

\* The permits after an observation are permits.
LEMMA NotedType ==
  ASSUME TypeOK, NEW t \in Ticket, NEW k, NEW i \in Items, NEW recorded \in BOOLEAN,
         recorded => k \in Key, NEW phase \in {"sent", "rejected", "done"}
  PROVE  Noted(t, k, i, recorded, phase) \in [Ticket -> Permit]
  <1> SUFFICES ASSUME NEW u \in Ticket
               PROVE  [permit[u] EXCEPT
                         !.phase = IF u = t THEN phase ELSE @,
                         !.observed = IF u = t /\ recorded THEN @ \cup {k} ELSE @,
                         !.later = IF u \in live /\ recorded /\ k \in permit[u].probes
                                   THEN @ \cup {<<k, i>>} ELSE @] \in Permit
    BY DEF Noted
  <1> DEFINE p == permit[u]
             a == IF u = t THEN phase ELSE p.phase
             b == IF u = t /\ recorded THEN p.observed \cup {k} ELSE p.observed
             c == IF u \in live /\ recorded /\ k \in permit[u].probes
                  THEN p.later \cup {<<k, i>>} ELSE p.later
  <1>1. p \in Permit
    BY DEF TypeOK
  <1>2. a \in {"sent", "rejected", "done"} /\ b \in SUBSET Key
    BY <1>1 DEF Permit
  <1>3. c \in SUBSET (Key \X Items)
    BY <1>1 DEF Permit
  <1> HIDE DEF a, b, c
  <1>4. [p EXCEPT !.phase = a, !.observed = b, !.later = c] \in Permit
    BY <1>1, <1>2, <1>3, Zenon DEF Permit
  <1> QED BY <1>4 DEF a, b, c

\* acquire returns a permit.
LEMMA NewPermitType ==
  ASSUME TypeOK, NEW rs \in ResourceSets, NEW s \in [Key -> Slot]
  PROVE  NewPermit(rs, s) \in Permit
  <1> DEFINE p == {k \in keys(rs) : claims_probe(rs, k, s[k])}
             r == [k \in Key |->
                     IF k \in keys(rs) /\ claims_probe(rs, k, s[k]) THEN s[k].revision ELSE 0]
             e == [k \in Key |-> [x \in Sources |->
                     IF k \in keys(rs) /\ is_policy(k)
                     THEN [opaque_id |-> s[k].policy[x].opaque_id,
                           revision |-> s[k].policy[x].revision]
                     ELSE [opaque_id |-> 0, revision |-> 0]]]
             c == policy_snapshot[Resources[rs].destination_id]
  <1>1. p \in SUBSET Key
    BY KeysAreKeys
  <1>2. r \in [Key -> Nat]
    BY DEF Slot
  <1>3. e \in [Key -> [Sources -> Lease]]
    <2> SUFFICES ASSUME NEW k \in Key, NEW x \in Sources
                 PROVE  /\ [opaque_id |-> s[k].policy[x].opaque_id,
                            revision |-> s[k].policy[x].revision] \in Lease
                        /\ [opaque_id |-> 0, revision |-> 0] \in Lease
      OBVIOUS
    <2>1. s[k].policy[x] \in Row
      BY DEF Slot
    <2> QED BY <2>1 DEF Row, Lease
  <1>4. c \in SUBSET Sources
    BY RecoveryAssumption DEF RecoveryAssumption, TypeOK
  <1>5. NewPermit(rs, s) = [resources |-> rs, phase |-> "sent", probes |-> p, revision |-> r,
                            leased |-> e, observed |-> {}, captured_policy |-> c, later |-> {}]
    BY DEF NewPermit
  <1> HIDE DEF p, r, e, c
  <1> QED BY <1>1, <1>2, <1>3, <1>4, <1>5 DEF Permit

\* The permit of a ticket not handed out is a permit.
LEMMA EmptyPermitType == EmptyPermit \in Permit
  <1>1. (CHOOSE rs \in ResourceSets : TRUE) \in ResourceSets
    BY RecoveryAssumption DEF RecoveryAssumption
  <1>2. [k \in Key |-> [x \in Sources |-> [opaque_id |-> 0, revision |-> 0]]]
          \in [Key -> [Sources -> Lease]]
    BY DEF Lease
  <1> QED BY <1>1, <1>2 DEF EmptyPermit, Permit

-----------------------------------------------------------------------------
(* Type correctness.                                                       *)

\* The loop under the database lock works for a live permit, on one of its rules.
LoopInv ==
  /\ db.step # "idle" => db.holder \in live
  /\ db.step \in {"observe", "retry"} => db.source \in Sources

\* RecoveryRuntime::with_snapshot starts well typed, with no policy loop running.
LEMMA TypeInit == Init => TypeOK /\ LoopInv
  <1> SUFFICES ASSUME Init PROVE TypeOK /\ LoopInv
    OBVIOUS
  <1>1. 0 \in Nat /\ 0 \in 0..MaxSequence /\ 0 \in 0..DateMax /\ {} \in SUBSET Ticket
    BY RecoveryAssumption, FailureAssumption DEF RecoveryAssumption, FailureAssumption
  <1>2. db \in Loop
    BY DEF Init, Idle, Loop, Instant
  <1>3. slots \in [Key -> Slot] /\ permit \in [Ticket -> Permit]
    BY EmptySlotType, EmptyPermitType DEF Init
  <1>4. policy_snapshot \in [Destinations -> SUBSET Sources] /\ capture \in SUBSET ResourceSets
    BY RecoveryAssumption DEF Init, RecoveryAssumption
  <1>5. evidence \in [Key -> [Items -> SUBSET Ticket]] /\ revoked \in [Key -> [Sources -> Nat]]
        /\ last_reset \in [Accounts -> Nat]
    BY DEF Init
  <1> QED BY <1>1, <1>2, <1>3, <1>4, <1>5 DEF Init, TypeOK, LoopInv, Idle

\* The table after the cleanup of acquire consists of slots.
LEMMA CleanedType == ASSUME TypeOK PROVE Cleaned \in [Key -> Slot]
  BY ExpireType DEF Cleaned, TypeOK

\* acquire preserves the types: the ticket it hands out is in range.
LEMMA TypeAcquire ==
  ASSUME TypeOK, LoopInv, NEW rs \in captured, acquire(rs)
  PROVE  TypeOK' /\ LoopInv'
  <1> DEFINE ticket == sequence + 1
             base == [k \in Key |-> IF k \in KeptFor(rs) THEN Cleaned[k] ELSE EmptySlot]
             s == [k \in Key |-> IF k \in keys(rs) THEN claim(rs, k, base[k], ticket) ELSE base[k]]
             ev == [k \in Key |-> IF k \in KeptFor(rs) THEN evidence[k] ELSE [i \in Items |-> {}]]
  <1>1. rs \in ResourceSets /\ ticket \in Ticket /\ ticket \in 0..MaxSequence /\ ticket \in Nat
    BY RecoveryAssumption DEF acquire, ticket_available, TypeOK, Ticket, RecoveryAssumption
  <1>2. base \in [Key -> Slot]
    BY CleanedType, EmptySlotType
  <1>3. s \in [Key -> Slot]
    <2> HIDE DEF base, ticket
    <2> QED BY <1>1, <1>2, ClaimType
  <1>4. ev \in [Key -> [Items -> SUBSET Ticket]]
    BY DEF TypeOK
  <1>5. KeptFor(rs) \cup keys(rs) \in SUBSET Key
    BY <1>1, KeysAreKeys DEF KeptFor, TypeOK
  <1>6. Store(KeptFor(rs) \cup keys(rs), s, ev)
    BY DEF acquire
  <1>7. permit' \in [Ticket -> Permit]
    <2>1. permit' = [permit EXCEPT ![ticket] = NewPermit(rs, base)]
      BY DEF acquire
    <2>2. NewPermit(rs, base) \in Permit
      <3> HIDE DEF base
      <3> QED BY <1>1, <1>2, NewPermitType
    <2> HIDE DEF base, ticket
    <2> QED BY <2>1, <2>2 DEF TypeOK
  <1>8. tracked' \in SUBSET Key /\ slots' \in [Key -> Slot]
        /\ evidence' \in [Key -> [Items -> SUBSET Ticket]]
    <2> HIDE DEF s, ev
    <2> QED BY <1>3, <1>4, <1>5, <1>6, StoreType
  <1>9. sequence' = ticket /\ live' = live \cup {ticket}
        /\ UNCHANGED <<restriction_seq, policy_snapshot, db, capture, captured, wall, mono,
                       last_reset, revoked>>
    BY DEF acquire, host, clock
  <1> HIDE DEF base, s, ev, ticket
  <1> QED BY <1>1, <1>7, <1>8, <1>9 DEF TypeOK, LoopInv

\* A refused acquire preserves the types.
LEMMA TypeRefused ==
  ASSUME TypeOK, LoopInv, NEW rs \in captured, acquire_refused(rs)
  PROVE  TypeOK' /\ LoopInv'
  <1>1. Store(KeptFor(rs), Cleaned, evidence) /\ KeptFor(rs) \in SUBSET Key
    BY DEF acquire_refused, KeptFor, TypeOK
  <1>2. tracked' \in SUBSET Key /\ slots' \in [Key -> Slot]
        /\ evidence' \in [Key -> [Items -> SUBSET Ticket]]
    BY <1>1, CleanedType, StoreType DEF TypeOK
  <1>3. UNCHANGED <<sequence, restriction_seq, policy_snapshot, live, permit, db, capture,
                    captured, wall, mono, last_reset, revoked>>
    BY DEF acquire_refused, host, clock
  <1> QED BY <1>2, <1>3 DEF TypeOK, LoopInv

\* reset_account preserves the types.
LEMMA TypeReset ==
  ASSUME TypeOK, LoopInv, NEW a \in Accounts, reset_account(a)
  PROVE  TypeOK' /\ LoopInv'
  <1> DEFINE cleared == {k \in tracked : k.kind # "FreeEgress" /\ a \in slots[k].owners}
             s == [k \in Key |-> IF k \in cleared THEN clear(slots[k], sequence + 1) ELSE slots[k]]
             ev == [k \in Key |-> IF k \in cleared THEN [i \in Items |-> {}] ELSE evidence[k]]
  <1>1. s \in [Key -> Slot]
    <2> HIDE DEF cleared
    <2>1. sequence + 1 \in Nat
      BY DEF TypeOK
    <2> QED BY <2>1, ClearType DEF TypeOK
  <1>2. ev \in [Key -> [Items -> SUBSET Ticket]]
    BY DEF TypeOK
  <1>3. Store(retain_live_slots(s), s, ev) /\ last_reset' = [last_reset EXCEPT ![a] = sequence]
    BY DEF reset_account
  <1> HIDE DEF s, ev
  <1>4. retain_live_slots(s) \in SUBSET Key
    BY DEF retain_live_slots, TypeOK
  <1>5. tracked' \in SUBSET Key /\ slots' \in [Key -> Slot]
        /\ evidence' \in [Key -> [Items -> SUBSET Ticket]]
    BY <1>1, <1>2, <1>3, <1>4, StoreType
  <1>6. last_reset' \in [Accounts -> Nat]
    BY <1>3 DEF TypeOK
  <1>7. UNCHANGED <<sequence, restriction_seq, policy_snapshot, live, permit, db, capture,
                    captured, wall, mono, revoked>>
    BY DEF reset_account, host, clock
  <1> QED BY <1>5, <1>6, <1>7 DEF TypeOK, LoopInv

\* Retiring policy sources preserves the types of what it changes.
LEMMA TypeRetire ==
  ASSUME TypeOK, NEW stale \in [Key -> SUBSET Sources], Retire(stale)
  PROVE  /\ tracked' \in SUBSET Key
         /\ slots' \in [Key -> Slot]
         /\ evidence' \in [Key -> [Items -> SUBSET Ticket]]
         /\ revoked' \in [Key -> [Sources -> Nat]]
  <1> DEFINE s == [k \in Key |-> retire_source(slots[k], stale[k], sequence + 1)]
             ev == [k \in Key |-> [i \in Items |-> IF i \in stale[k] THEN {} ELSE evidence[k][i]]]
  <1>1. sequence + 1 \in Nat
    BY DEF TypeOK
  <1>2. s \in [Key -> Slot]
    BY <1>1, RetireType DEF TypeOK
  <1>3. ev \in [Key -> [Items -> SUBSET Ticket]]
    BY DEF TypeOK
  <1>4. Store(retain_live_slots(s), s, ev)
    BY DEF Retire
  <1>5. revoked' \in [Key -> [Sources -> Nat]]
    BY <1>1 DEF Retire, TypeOK
  <1> HIDE DEF s, ev
  <1>6. retain_live_slots(s) \in SUBSET Key
    BY DEF retain_live_slots, TypeOK
  <1> QED BY <1>2, <1>3, <1>4, <1>5, <1>6, StoreType

\* install_snapshot preserves the types.
LEMMA TypeInstall ==
  ASSUME TypeOK, LoopInv, NEW snapshot \in Snapshots, install_snapshot(snapshot)
  PROVE  TypeOK' /\ LoopInv'
  <1> DEFINE stale == [k \in Key |->
       IF k \in tracked
       THEN {x \in Sources : has_row(slots[k], x) /\ x \notin snapshot[slots[k].destination_id]}
       ELSE {}]
  <1>1. stale \in [Key -> SUBSET Sources] /\ Retire(stale)
    BY DEF install_snapshot
  <1> HIDE DEF stale
  <1>2. policy_snapshot' \in [Destinations -> SUBSET Sources]
    BY RecoveryAssumption DEF install_snapshot, RecoveryAssumption
  <1>3. UNCHANGED <<sequence, restriction_seq, live, permit, db, capture, captured, wall, mono,
                    last_reset>>
    BY DEF install_snapshot, host, clock
  <1> QED BY <1>1, <1>2, <1>3, TypeRetire DEF TypeOK, LoopInv

\* clear_restriction preserves the types, inside a policy loop too.
LEMMA TypeClearRestriction ==
  ASSUME TypeOK, LoopInv, NEW id, clear_restriction(id)
  PROVE  TypeOK' /\ LoopInv'
  <1> DEFINE stale == [k \in Key |->
       {x \in Sources : has_row(slots[k], x) /\ slots[k].policy[x].opaque_id = id}]
  <1>1. stale \in [Key -> SUBSET Sources] /\ Retire(stale)
    BY DEF clear_restriction
  <1> HIDE DEF stale
  <1>2. UNCHANGED <<sequence, restriction_seq, policy_snapshot, live, permit, db, capture, captured,
                    wall, mono, last_reset>>
    BY DEF clear_restriction, host, clock
  <1> QED BY <1>1, <1>2, TypeRetire DEF TypeOK, LoopInv

\* observe_key preserves the types of what it changes.
LEMMA TypeObserveKey ==
  ASSUME TypeOK, NEW t \in Ticket, NEW k, NEW allowed \in BOOLEAN, NEW wait \in BOOLEAN,
         NEW hint \in Instant, NEW now \in Nat, NEW phase \in {"rejected", "done"},
         observe_key(t, k, allowed, wait, hint, now, phase)
  PROVE  /\ tracked' = tracked
         /\ slots' \in [Key -> Slot]
         /\ evidence' \in [Key -> [Items -> SUBSET Ticket]]
         /\ permit' \in [Ticket -> Permit]
  <1> DEFINE recorded == allowed /\ (wait \/ hint # None) /\ k \in tracked /\ t >= slots[k].fence
  <1>1. recorded => k \in Key
    BY DEF TypeOK
  <1>2. slots' \in [Key -> Slot]
    <2>1. CASE recorded
      <3>1. slots' = [slots EXCEPT ![k] = observed_slot(t, k, wait, hint, now)]
        BY <2>1 DEF observe_key
      <3>2. observed_slot(t, k, wait, hint, now) \in Slot
        BY <1>1, <2>1, ObservedSlotType
      <3> QED BY <3>1, <3>2 DEF TypeOK
    <2>2. CASE ~recorded
      BY <2>2 DEF observe_key, TypeOK
    <2> QED BY <2>1, <2>2
  <1>3. Upstream \in Items
    BY DEF Items
  <1>4. evidence' \in [Key -> [Items -> SUBSET Ticket]]
    <2>1. CASE recorded
      <3>1. evidence' = [evidence EXCEPT ![k][Upstream] = @ \cup {t}]
        BY <2>1 DEF observe_key
      <3>2. evidence[k][Upstream] \cup {t} \in SUBSET Ticket
        BY <1>1, <1>3, <2>1 DEF TypeOK
      <3> QED BY <1>1, <1>3, <2>1, <3>1, <3>2 DEF TypeOK
    <2>2. CASE ~recorded
      BY <2>2 DEF observe_key, TypeOK
    <2> QED BY <2>1, <2>2
  <1>5. permit' = Noted(t, k, Upstream, recorded, phase)
    BY DEF observe_key
  <1>6. recorded \in BOOLEAN
    OBVIOUS
  <1> HIDE DEF recorded
  <1>7. permit' \in [Ticket -> Permit]
    BY <1>1, <1>3, <1>5, <1>6, NotedType
  <1> QED BY <1>2, <1>4, <1>7 DEF observe_key

\* Parsing a Retry-After header yields an instant, also beyond the last date.
LEMMA HintType ==
  ASSUME TypeOK, NEW header \in Instant
  PROVE  /\ parse_retry_after(header, wall) \in Instant
         /\ temporary_429_deadline(header, wall) \in Instant
         /\ \A d \in Nat : plan_window_admission(wall + d, header, wall) \in Instant
  <1>1. wall \in Nat /\ parse_retry_after(header, wall) \in Instant
    BY FailureAssumption DEF TypeOK, FailureAssumption, parse_retry_after, Instant, None, Unbounded
  <1>2. temporary_429_deadline(header, wall) \in Instant
    BY <1>1, ConstantTypes DEF temporary_429_deadline, Instant
  <1>3. \A d \in Nat : plan_window_admission(wall + d, header, wall) \in Instant
    <2> SUFFICES ASSUME NEW d \in Nat
                 PROVE  plan_window_admission(wall + d, header, wall) \in Instant
      OBVIOUS
    <2>1. wall + d \in Instant
      BY <1>1 DEF Instant
    <2> QED BY <1>1, <2>1, LaterEarlierType DEF plan_window_admission
  <1> QED BY <1>1, <1>2, <1>3

\* The keys replies are recorded at belong to the permit that heard them.
LEMMA ReplyKeys ==
  ASSUME NEW rs \in ResourceSets
  PROVE  /\ key(rs, "CredentialRetry") \in keys(rs)
         /\ key(rs, kind_for(OpenRouterFacts)) \in keys(rs)
         /\ key(rs, kind_for(FreeFacts)) \in keys(rs)
         /\ \A scope : policy_key(rs, scope) \in Key => policy_key(rs, scope) \in keys(rs)
  <1>1. /\ kind_for(OpenRouterFacts) = "Credits" /\ kind_for(FreeFacts) = "FreeEgress"
    BY DEF kind_for, OpenRouterFacts, FreeFacts
  <1>2. \A kind \in ResourceKind : kind # "PolicyCredentialModel" => key(rs, kind) \in keys(rs)
    BY DEF keys
  <1>3. {"CredentialRetry", "Credits", "FreeEgress", "PolicyCredential"} \subseteq ResourceKind
    BY DEF ResourceKind, PoolKinds, PolicyKinds
  <1>4. ASSUME NEW scope, policy_key(rs, scope) \in Key
        PROVE  policy_key(rs, scope) \in keys(rs)
    <2>1. CASE scope = "Credential"
      BY <1>2, <1>3, <2>1 DEF policy_key
    <2>2. CASE scope # "Credential"
      <3> DEFINE m == key(rs, "PolicyCredentialModel")
      <3>1. m \in Key
        BY <1>4, <2>2 DEF policy_key
      <3>2. PICK r \in ResourceSets : m \in keys(r)
        BY <3>1 DEF Key
      <3>3. PICK kind \in ResourceKind :
              /\ m = key(r, kind)
              /\ kind = "PolicyCredentialModel" => Resources[r].policy_model # NoDigest
        BY <3>2 DEF keys
      <3>4. m.kind = kind
        BY <3>3 DEF key
      <3>5. m.kind = "PolicyCredentialModel" /\ m.generation = Resources[rs].policy_model
        BY DEF key
      <3>6. m.generation = Resources[r].policy_model
        BY <3>3, <3>4, <3>5 DEF key
      <3>7. Resources[rs].policy_model # NoDigest
        BY <3>3, <3>4, <3>5, <3>6
      <3> QED BY <2>2, <3>7 DEF keys, policy_key, ResourceKind, PolicyKinds
    <2> QED BY <2>1, <2>2
  <1> QED BY <1>1, <1>2, <1>3, <1>4

\* The four replies that observe one upstream key.
Observes(t) ==
  /\ Replies(t)
  /\ \E k \in keys(permit[t].resources), allowed \in BOOLEAN, wait \in BOOLEAN, hint \in Instant :
       observe_key(t, k, allowed, wait, hint, mono, "done")

\* Each rejection the forwarder decodes is one call of observe_key.
LEMMA RepliesObserve ==
  ASSUME TypeOK, NEW t \in Ticket, NEW header \in RetryAfters,
         \/ temporary_429(t, header)
         \/ \E delay \in PlanResets : plan_window(t, header, delay)
         \/ observe_openrouter_free_rejection(t, header)
         \/ observe_free_rejection(t, header)
  PROVE  Observes(t)
  <1>1. header \in Instant /\ PlanResets \subseteq Nat
    BY RecoveryAssumption DEF RecoveryAssumption
  <1>2. /\ temporary_429_deadline(header, wall) \in Instant
        /\ \A d \in Nat : plan_window_admission(wall + d, header, wall) \in Instant
    BY <1>1, HintType
  <1> DEFINE rs == permit[t].resources
  <1>3. rs \in ResourceSets
    BY DEF TypeOK, Permit
  <1>4. CASE temporary_429(t, header)
    <2> DEFINE ok == /\ identity_is_current(rs)
                     /\ permits_observation(t, Temporary429Facts)
                     /\ generation_is_current(rs)
    <2>1. observe_key(t, key(rs, "CredentialRetry"), ok, FALSE,
                      temporary_429_deadline(header, wall), mono, "done")
      BY <1>4 DEF temporary_429
    <2>2. ok \in BOOLEAN
      OBVIOUS
    <2> HIDE DEF ok
    <2> QED BY <1>3, <1>2, <1>4, <2>1, <2>2, ReplyKeys DEF temporary_429, Observes
  <1>5. CASE \E delay \in PlanResets : plan_window(t, header, delay)
    <2>1. PICK delay \in PlanResets : plan_window(t, header, delay)
      BY <1>5
    <2> DEFINE ok == identity_is_current(rs) /\ permits_observation(t, PlanWindowFacts)
    <2>2. observe_key(t, key(rs, "CredentialRetry"), ok, FALSE,
                      plan_window_admission(wall + delay, header, wall), mono, "done")
      BY <2>1 DEF plan_window
    <2>3. ok \in BOOLEAN /\ plan_window_admission(wall + delay, header, wall) \in Instant
      BY <1>1, <1>2
    <2> HIDE DEF ok
    <2> QED BY <1>3, <2>1, <2>2, <2>3, ReplyKeys DEF plan_window, Observes
  <1>6. CASE observe_openrouter_free_rejection(t, header)
    <2> DEFINE ok == /\ identity_is_current(rs)
                     /\ permits_observation(t, OpenRouterFacts)
                     /\ generation_is_current(rs)
               w == wait_for_recovery(OpenRouterFacts)
    <2>1. observe_key(t, key(rs, kind_for(OpenRouterFacts)), ok, w,
                      temporary_429_deadline(header, wall), mono, "done")
      BY <1>6 DEF observe_openrouter_free_rejection
    <2>2. ok \in BOOLEAN /\ w \in BOOLEAN
      BY DEF wait_for_recovery
    <2> HIDE DEF ok, w
    <2> QED BY <1>3, <1>2, <1>6, <2>1, <2>2, ReplyKeys DEF observe_openrouter_free_rejection, Observes
  <1>7. CASE observe_free_rejection(t, header)
    <2> DEFINE ok == /\ identity_is_current(rs)
                     /\ permits_observation(t, FreeFacts)
                     /\ generation_is_current(rs)
               w == wait_for_recovery(FreeFacts)
    <2>1. observe_key(t, key(rs, kind_for(FreeFacts)), ok, w,
                      temporary_429_deadline(header, wall), mono, "done")
      BY <1>7 DEF observe_free_rejection
    <2>2. ok \in BOOLEAN /\ w \in BOOLEAN
      BY DEF wait_for_recovery
    <2> HIDE DEF ok, w
    <2> QED BY <1>3, <1>2, <1>7, <2>1, <2>2, ReplyKeys DEF observe_free_rejection, Observes
  <1> QED BY <1>4, <1>5, <1>6, <1>7

\* A decoded rejection preserves the types.
LEMMA TypeObserves ==
  ASSUME TypeOK, LoopInv, NEW t \in Ticket, Observes(t)
  PROVE  TypeOK' /\ LoopInv'
  <1>1. PICK k \in keys(permit[t].resources), allowed \in BOOLEAN, wait \in BOOLEAN,
             hint \in Instant :
          observe_key(t, k, allowed, wait, hint, mono, "done")
    BY DEF Observes
  <1>2. mono \in Nat
    BY DEF TypeOK
  <1>3. /\ tracked' = tracked
        /\ slots' \in [Key -> Slot]
        /\ evidence' \in [Key -> [Items -> SUBSET Ticket]]
        /\ permit' \in [Ticket -> Permit]
    BY <1>1, <1>2, TypeObserveKey
  <1>4. UNCHANGED <<sequence, restriction_seq, policy_snapshot, live, db, capture, captured, wall,
                    mono, last_reset, revoked>>
    BY DEF Observes, Replies, host, clock
  <1> QED BY <1>3, <1>4 DEF TypeOK, LoopInv

\* Entering the loop over policy decisions preserves the types.
LEMMA TypeObserveLocalPolicy ==
  ASSUME TypeOK, LoopInv, NEW t \in Ticket, NEW decisions \in SUBSET Sources,
         NEW header \in PolicyRetryAfters, observe_local_policy(t, decisions, header)
  PROVE  TypeOK' /\ LoopInv'
  <1>1. parse_retry_after(header, wall) \in Instant
    BY HintType, RecoveryAssumption DEF RecoveryAssumption
  <1>2. t \in Nat /\ mono \in Nat
    BY DEF Ticket, TypeOK
  <1>3. db' = [holder |-> t, step |-> "permit", todo |-> decisions, source |-> NoSource,
               hint |-> parse_retry_after(header, wall), at |-> mono]
    BY DEF observe_local_policy
  <1>4. db' \in Loop
    BY <1>1, <1>2, <1>3 DEF Loop
  <1>5. permit' \in [Ticket -> Permit]
    <2>1. permit' = [permit EXCEPT ![t].phase = "rejected"]
      BY DEF observe_local_policy
    <2>2. permit[t] \in Permit
      BY DEF TypeOK
    <2>3. [permit[t] EXCEPT !.phase = "rejected"] \in Permit
      BY <2>2, Zenon DEF Permit
    <2> QED BY <2>1, <2>3 DEF TypeOK
  <1>6. /\ t \in live
        /\ UNCHANGED <<sequence, restriction_seq, tracked, slots, policy_snapshot, live, capture,
                       captured, wall, mono, last_reset, evidence, revoked>>
    BY DEF observe_local_policy, inner, host, clock, history
  <1> QED BY <1>3, <1>4, <1>5, <1>6 DEF TypeOK, LoopInv

\* The policy loop moves to its next decision, or ends, with its live holder.
LEMMA NextDecisionType ==
  ASSUME TypeOK, LoopInv, db.step # "idle", NEW todo \in SUBSET Sources
  PROVE  /\ NextDecision(todo) \in Loop
         /\ NextDecision(todo).step \in {"idle", "permit"}
         /\ NextDecision(todo).step # "idle" => NextDecision(todo).holder \in live
  BY DEF NextDecision, Idle, Loop, TypeOK, LoopInv, Instant

\* The permits_policy check of the loop preserves the types.
LEMMA TypeCheckDecision ==
  ASSUME TypeOK, LoopInv, NEW x \in Sources, check_decision(x)
  PROVE  TypeOK' /\ LoopInv'
  <1>1. [db EXCEPT !.step = "observe", !.source = x] \in Loop
    BY DEF TypeOK, Loop
  <1>2. db.todo \ {x} \in SUBSET Sources /\ db.step # "idle" /\ db.holder \in live
    BY DEF TypeOK, Loop, check_decision, LoopInv
  <1>3. db' \in Loop /\ LoopInv'
    <2>1. CASE permits_policy(db.holder, x)
      BY <1>1, <1>2, <2>1 DEF check_decision, LoopInv, TypeOK, Loop
    <2>2. CASE ~permits_policy(db.holder, x)
      <3>1. db' = NextDecision(db.todo \ {x}) /\ live' = live
        BY <2>2 DEF check_decision
      <3> QED BY <1>2, <3>1, NextDecisionType DEF LoopInv
    <2> QED BY <2>1, <2>2
  <1>4. UNCHANGED <<sequence, restriction_seq, tracked, slots, policy_snapshot, live, permit, capture,
                    captured, wall, mono, last_reset, evidence, revoked>>
    BY DEF check_decision, inner, host, clock, history
  <1> QED BY <1>3, <1>4 DEF TypeOK

\* observe_policy preserves the types.
LEMMA TypeObservePolicy ==
  ASSUME TypeOK, LoopInv, observe_policy
  PROVE  TypeOK' /\ LoopInv'
  <1> DEFINE t == db.holder
             x == db.source
             k == DecisionKey(t, x)
             recorded == permits_policy(t, x)
  <1>1. db.step = "observe" /\ t \in live /\ x \in Sources /\ t \in Ticket
    BY DEF observe_policy, LoopInv, TypeOK
  <1>2. recorded => k \in Key
    BY DEF permits_policy, TypeOK
  <1>3. recorded \in BOOLEAN
    BY DEF permits_policy
  <1>4. slots' \in [Key -> Slot]
    <2>1. CASE recorded
      <3> DEFINE p == [slots[k].policy EXCEPT ![x] = observed_row(t, k, x)]
      <3>1. k \in Key /\ slots[k] \in Slot /\ observed_row(t, k, x) \in Row
        BY <1>1, <1>2, <2>1, ObservedRowType DEF TypeOK
      <3> HIDE DEF k
      <3>2. p \in [Sources -> Row]
        BY <1>1, <3>1 DEF Slot
      <3>3. [slots[k] EXCEPT !.policy = p] \in Slot
        <4> HIDE DEF p
        <4> QED BY <3>1, <3>2, Zenon DEF Slot
      <3>4. slots' = [slots EXCEPT ![k] = [slots[k] EXCEPT !.policy = p]]
        BY <2>1, <3>1 DEF observe_policy, k, TypeOK
      <3> HIDE DEF p
      <3> QED BY <3>1, <3>3, <3>4 DEF TypeOK
    <2>2. CASE ~recorded
      BY <2>2 DEF observe_policy, TypeOK
    <2> QED BY <2>1, <2>2
  <1>5. restriction_seq' \in Nat
    BY DEF observe_policy, TypeOK
  <1>6. evidence' \in [Key -> [Items -> SUBSET Ticket]]
    <2>1. CASE recorded
      <3>1. k \in Key /\ x \in Items /\ evidence' = [evidence EXCEPT ![k][x] = @ \cup {t}]
        BY <1>1, <1>2, <2>1 DEF observe_policy, Items
      <3> HIDE DEF k, x
      <3>2. evidence[k][x] \cup {t} \in SUBSET Ticket
        BY <1>1, <3>1 DEF TypeOK
      <3> QED BY <3>1, <3>2 DEF TypeOK
    <2>2. CASE ~recorded
      BY <2>2 DEF observe_policy, TypeOK
    <2> QED BY <2>1, <2>2
  <1>7. permit' \in [Ticket -> Permit]
    <2>1. permit' = Noted(t, k, x, recorded, "rejected") /\ x \in Items
      BY <1>1 DEF observe_policy, Items
    <2> HIDE DEF recorded, k, x, t
    <2> QED BY <1>1, <1>2, <1>3, <2>1, NotedType
  <1>8. UNCHANGED <<sequence, tracked, policy_snapshot, live, capture, captured, wall, mono,
                    last_reset, revoked>>
    BY DEF observe_policy, host, clock
  <1>9. db' \in Loop /\ LoopInv'
    <2>1. CASE db.hint = None
      <3>1. db' = NextDecision(db.todo \ {x}) /\ db.todo \ {x} \in SUBSET Sources
        BY <2>1 DEF observe_policy, TypeOK, Loop
      <3> QED BY <1>1, <1>8, <3>1, NextDecisionType DEF LoopInv
    <2>2. CASE db.hint # None
      <3>1. db' = [db EXCEPT !.step = "retry"]
        BY <2>2 DEF observe_policy
      <3> QED BY <1>1, <1>8, <3>1 DEF LoopInv, TypeOK, Loop
    <2> QED BY <2>1, <2>2
  <1> QED BY <1>4, <1>5, <1>6, <1>7, <1>8, <1>9 DEF TypeOK

\* observe_policy_retry preserves the types.
LEMMA TypeObservePolicyRetry ==
  ASSUME TypeOK, LoopInv, observe_policy_retry
  PROVE  TypeOK' /\ LoopInv'
  <1> DEFINE t == db.holder
             k == DecisionKey(t, db.source)
  <1>1. /\ db.step = "retry" /\ t \in Ticket
        /\ db.hint \in Instant /\ db.at \in Nat /\ db.todo \ {db.source} \in SUBSET Sources
    BY DEF observe_policy_retry, LoopInv, TypeOK, Loop
  <1>2. observe_key(t, k, TRUE, FALSE, db.hint, db.at, "rejected")
    BY DEF observe_policy_retry
  <1>3. /\ tracked' = tracked
        /\ slots' \in [Key -> Slot]
        /\ evidence' \in [Key -> [Items -> SUBSET Ticket]]
        /\ permit' \in [Ticket -> Permit]
    <2> HIDE DEF t, k
    <2> QED BY <1>1, <1>2, TypeObserveKey
  <1>4. UNCHANGED <<sequence, restriction_seq, policy_snapshot, live, capture, captured, wall, mono,
                    last_reset, revoked>> /\ db' = NextDecision(db.todo \ {db.source})
    BY DEF observe_policy_retry, host, clock
  <1>5. db' \in Loop /\ LoopInv'
    BY <1>1, <1>4, NextDecisionType DEF LoopInv
  <1> QED BY <1>3, <1>4, <1>5 DEF TypeOK

\* confirm_success preserves the types.
LEMMA TypeConfirmSuccess ==
  ASSUME TypeOK, LoopInv, NEW t \in Ticket, confirm_success(t)
  PROVE  TypeOK' /\ LoopInv'
  <1>1. slots' \in [Key -> Slot]
    BY ConfirmedSlotType DEF confirm_success, TypeOK
  <1>2. evidence' \in [Key -> [Items -> SUBSET Ticket]]
    BY DEF confirm_success, TypeOK
  <1>3. permit' \in [Ticket -> Permit]
    <2> DEFINE o == permit[t].observed \cup {k \in Key : confirms(t, k)}
    <2>1. permit[t] \in Permit
      BY DEF TypeOK
    <2>2. o \in SUBSET Key
      BY <2>1 DEF Permit
    <2>3. permit' = [permit EXCEPT ![t] = [permit[t] EXCEPT !.phase = "done", !.observed = o]]
      BY DEF confirm_success, TypeOK
    <2> HIDE DEF o
    <2>4. [permit[t] EXCEPT !.phase = "done", !.observed = o] \in Permit
      BY <2>1, <2>2, Zenon DEF Permit
    <2> QED BY <2>3, <2>4 DEF TypeOK
  <1>4. UNCHANGED <<sequence, restriction_seq, tracked, policy_snapshot, live, db, capture, captured,
                    wall, mono, last_reset, revoked>>
    BY DEF confirm_success, host, clock
  <1> QED BY <1>1, <1>2, <1>3, <1>4 DEF TypeOK, LoopInv

\* Dropping a permit preserves the types; the loop's holder is never dropped.
LEMMA TypeDrop ==
  ASSUME TypeOK, LoopInv, NEW t \in Ticket, drop(t)
  PROVE  TypeOK' /\ LoopInv'
  <1> DEFINE s == [k \in Key |-> IF k \in keys(permit[t].resources) /\ k \in tracked
                                 THEN released_slot(t, k) ELSE slots[k]]
  <1>1. s \in [Key -> Slot]
    BY ReleasedSlotType DEF TypeOK
  <1>2. Store(retain_live_slots(s), s, evidence)
    BY DEF drop
  <1> HIDE DEF s
  <1>3. retain_live_slots(s) \in SUBSET Key
    BY DEF retain_live_slots, TypeOK
  <1>4. tracked' \in SUBSET Key /\ slots' \in [Key -> Slot]
        /\ evidence' \in [Key -> [Items -> SUBSET Ticket]]
    BY <1>1, <1>2, <1>3, StoreType DEF TypeOK
  <1>5. permit' \in [Ticket -> Permit]
    <2>1. permit[t].resources \in ResourceSets
      BY DEF TypeOK, Permit
    <2>2. [EmptyPermit EXCEPT !.resources = permit[t].resources] \in Permit
      BY <2>1, EmptyPermitType, Zenon DEF Permit
    <2> QED BY <2>2 DEF drop, TypeOK
  <1>6. live' = live \ {t} /\ db.holder # t
        /\ UNCHANGED <<sequence, restriction_seq, policy_snapshot, db, capture, captured, wall, mono,
                       last_reset, revoked>>
    BY DEF drop, host, clock
  <1> QED BY <1>4, <1>5, <1>6 DEF TypeOK, LoopInv

\* Every step preserves the types and the loop's bookkeeping.
LEMMA TypeNext == TypeOK /\ LoopInv /\ [Next]_vars => TypeOK' /\ LoopInv'
  <1> SUFFICES ASSUME TypeOK, LoopInv, [Next]_vars PROVE TypeOK' /\ LoopInv'
    OBVIOUS
  <1>1. CASE \E rs \in captured : acquire(rs) \/ acquire_refused(rs)
    BY <1>1, TypeAcquire, TypeRefused
  <1>2. CASE \E t \in Ticket : Reply(t) \/ drop(t)
    <2> PICK t \in Ticket : Reply(t) \/ drop(t)
      BY <1>2
    <2>1. CASE \E header \in RetryAfters :
                 \/ temporary_429(t, header)
                 \/ \E delay \in PlanResets : plan_window(t, header, delay)
                 \/ observe_openrouter_free_rejection(t, header)
                 \/ observe_free_rejection(t, header)
      BY <2>1, RepliesObserve, TypeObserves
    <2>2. CASE \E header \in PolicyRetryAfters, decisions \in SUBSET Sources :
                 observe_local_policy(t, decisions, header)
      BY <2>2, TypeObserveLocalPolicy
    <2>3. CASE confirm_success(t)
      BY <2>3, TypeConfirmSuccess
    <2>4. CASE drop(t)
      BY <2>4, TypeDrop
    <2> QED BY <2>1, <2>2, <2>3, <2>4 DEF Reply
  <1>3. CASE PolicyLoop
    BY <1>3, TypeCheckDecision, TypeObservePolicy, TypeObservePolicyRetry DEF PolicyLoop
  <1>4. CASE Operator
    <2>1. CASE \E c \in Captures : Reconfigure(c)
      BY <2>1, RecoveryAssumption
        DEF Reconfigure, TypeOK, LoopInv, RecoveryAssumption, inner, clock, history
    <2> QED BY <1>4, <2>1, TypeReset, TypeInstall, TypeClearRestriction DEF Operator
  <1>5. CASE \E d \in WallSteps : Tick(d)
    BY <1>5 DEF Tick, TypeOK, LoopInv, inner, host, history
  <1>6. CASE UNCHANGED vars
    BY <1>6 DEF vars, inner, host, clock, history, TypeOK, LoopInv
  <1> QED BY <1>1, <1>2, <1>3, <1>4, <1>5, <1>6 DEF Next

\* The recovery runtime's state is always well typed: in particular no ticket is
\* handed out beyond the counter's range, and no counter falls below zero.
THEOREM TypeCorrect == Spec => []TypeOK
  <1>1. Spec => [](TypeOK /\ LoopInv)
    BY TypeInit, TypeNext, PTL DEF Spec
  <1> QED BY <1>1, PTL

-----------------------------------------------------------------------------
(* Who holds what in the recovery runtime: Spec => []LeasesAreHeld and     *)
(* Spec => []ClaimsAreCounted.                                             *)
(*                                                                         *)
(* Neither is inductive alone: a drop gives back the lease and the claims  *)
(* of its permit only if the slots are still there, and they are because   *)
(* a slot with claims is never forgotten.  Core joins both with the range  *)
(* of tickets and the emptiness of forgotten slots.  Every step other than *)
(* a granted acquire and a drop is Quiet: it keeps permits and claimed     *)
(* slots, may release leases but never gives one, and adds evidence only   *)
(* past the fences.  So Core is proved once for Quiet and once for each of *)
(* the two others.                                                         *)

-----------------------------------------------------------------------------
(* What the operators do to the fields of a slot.                          *)

\* Slot::clear lifts every restriction and the lease, keeps claims and owners, and
\* moves the fence and the revision forward.
LEMMA ClearFields ==
  ASSUME NEW s \in Slot, NEW f \in Nat
  PROVE  /\ clear(s, f).active = s.active
         /\ clear(s, f).owners = s.owners
         /\ clear(s, f).owner_generation = s.owner_generation
         /\ clear(s, f).fence = later(s.fence, f)
         /\ clear(s, f).fence >= s.fence /\ clear(s, f).fence >= f
         /\ clear(s, f).probe_owner = 0
         /\ clear(s, f).revision = s.revision + 1
         /\ clear(s, f).upstream_not_before = None
         /\ clear(s, f).destination_id = s.destination_id
         /\ clear(s, f).policy = [x \in Sources |-> NoRow]
         /\ clear(s, f).retired_policy = [x \in Sources |-> 0]
  BY DEF clear, Slot, later

\* expire_until_deadline touches nothing but an elapsed deadline.
LEMMA ExpireFields ==
  ASSUME NEW s \in Slot
  PROVE  \/ expire_until_deadline(s) = s
         \/ /\ ~deadline_is_live(s.upstream_not_before)
            /\ expire_until_deadline(s) = [s EXCEPT !.upstream_not_before = None]
            /\ expire_until_deadline(s).active = s.active
            /\ expire_until_deadline(s).owners = s.owners
            /\ expire_until_deadline(s).fence = s.fence
            /\ expire_until_deadline(s).probe_owner = s.probe_owner
            /\ expire_until_deadline(s).revision = s.revision
            /\ expire_until_deadline(s).policy = s.policy
            /\ expire_until_deadline(s).retired_policy = s.retired_policy
            /\ expire_until_deadline(s).destination_id = s.destination_id
            /\ expire_until_deadline(s).owner_generation = s.owner_generation
            /\ expire_until_deadline(s).awaiting_recovery = s.awaiting_recovery
            /\ expire_until_deadline(s).next_probe = s.next_probe
            /\ expire_until_deadline(s).upstream_not_before = None
  BY DEF expire_until_deadline, Slot

\* retire_source removes rows, raises their observe fences, and releases the lease
\* only when nothing is left to probe.
LEMMA RetireFields ==
  ASSUME NEW s \in Slot, NEW r \in SUBSET Sources, NEW f \in Nat
  PROVE  /\ retire_source(s, r, f).active = s.active
         /\ retire_source(s, r, f).owners = s.owners
         /\ retire_source(s, r, f).owner_generation = s.owner_generation
         /\ retire_source(s, r, f).fence = s.fence
         /\ retire_source(s, r, f).revision = s.revision
         /\ retire_source(s, r, f).upstream_not_before = s.upstream_not_before
         /\ \A x \in Sources :
              /\ retire_source(s, r, f).policy[x] = IF x \in r THEN NoRow ELSE s.policy[x]
              /\ retire_source(s, r, f).retired_policy[x] =
                   IF x \in r THEN later(s.retired_policy[x], f) ELSE s.retired_policy[x]
         /\ \/ retire_source(s, r, f).probe_owner = s.probe_owner
            \/ /\ retire_source(s, r, f).probe_owner = 0
               /\ r # {}
               /\ ~restricted(retire_source(s, r, f))
  <1> DEFINE n == [s EXCEPT
              !.policy = [x \in Sources |-> IF x \in r THEN NoRow ELSE s.policy[x]],
              !.retired_policy = [x \in Sources |->
                 IF x \in r THEN later(s.retired_policy[x], f)
                 ELSE s.retired_policy[x]]]
             c == retire_source(s, r, f)
  <1>1. \/ c = n
        \/ c = [n EXCEPT !.probe_owner = 0] /\ r # {} /\ ~restricted(n)
    BY DEF retire_source
  <1>2. /\ n.active = s.active /\ n.owners = s.owners /\ n.fence = s.fence
        /\ n.owner_generation = s.owner_generation
        /\ n.revision = s.revision /\ n.upstream_not_before = s.upstream_not_before
        /\ n.probe_owner = s.probe_owner
        /\ n.policy = [x \in Sources |-> IF x \in r THEN NoRow ELSE s.policy[x]]
        /\ n.retired_policy = [x \in Sources |->
                 IF x \in r THEN later(s.retired_policy[x], f)
                 ELSE s.retired_policy[x]]
        /\ n.awaiting_recovery = s.awaiting_recovery /\ n.next_probe = s.next_probe
        /\ DOMAIN n = DOMAIN s
    BY DEF Slot
  <1>3. CASE c = n
    BY <1>2, <1>3
  <1>4. CASE c = [n EXCEPT !.probe_owner = 0] /\ r # {} /\ ~restricted(n)
    <2> HIDE DEF n
    <2>1. /\ c.active = n.active /\ c.owners = n.owners /\ c.fence = n.fence
          /\ c.owner_generation = n.owner_generation
          /\ c.revision = n.revision /\ c.upstream_not_before = n.upstream_not_before
          /\ c.policy = n.policy /\ c.retired_policy = n.retired_policy
          /\ c.awaiting_recovery = n.awaiting_recovery /\ c.next_probe = n.next_probe
          /\ c.probe_owner = 0
      BY <1>2, <1>4 DEF Slot
    <2>2. ~restricted(c)
      BY <1>4, <2>1 DEF restricted, has_row
    <2> QED BY <1>2, <1>4, <2>1, <2>2
  <1> QED BY <1>1, <1>3, <1>4

\* retire_source keeps claims, owners and the fence, and never hands the lease on.
LEMMA RetireKeeps ==
  \A s \in Slot, r \in SUBSET Sources, f \in Nat :
    /\ retire_source(s, r, f).active = s.active
    /\ retire_source(s, r, f).owners = s.owners
    /\ retire_source(s, r, f).owner_generation = s.owner_generation
    /\ retire_source(s, r, f).fence = s.fence
    /\ retire_source(s, r, f).revision = s.revision
    /\ retire_source(s, r, f).upstream_not_before = s.upstream_not_before
    /\ retire_source(s, r, f).probe_owner \in {s.probe_owner, 0}
  BY RetireFields

\* A claim counts the permit, adds the owners and takes the lease of a restricted
\* resource; it leaves every restriction as it is.
LEMMA ClaimFields ==
  ASSUME NEW rs \in ResourceSets, NEW k \in Key, NEW s \in Slot, NEW t \in Nat
  PROVE  /\ claim(rs, k, s, t).active = s.active + 1
         /\ claim(rs, k, s, t).owners = s.owners \cup owners(rs, k)
         /\ claim(rs, k, s, t).owner_generation = owner_generation(rs, k)
         /\ claim(rs, k, s, t).fence = s.fence
         /\ claim(rs, k, s, t).revision = s.revision
         /\ claim(rs, k, s, t).upstream_not_before = s.upstream_not_before
         /\ claim(rs, k, s, t).policy = s.policy
         /\ claim(rs, k, s, t).retired_policy = s.retired_policy
         /\ claim(rs, k, s, t).probe_owner = IF claims_probe(rs, k, s) THEN t ELSE s.probe_owner
  BY DEF claim, Slot

\* observe_key never shortens a deadline and leaves claims, fence, lease and
\* policy rows alone.
LEMMA ObservedSlotFields ==
  ASSUME TypeOK, NEW t \in Ticket, NEW k \in Key, NEW wait \in BOOLEAN,
         NEW hint \in Instant, NEW now \in Nat
  PROVE  LET s == observed_slot(t, k, wait, hint, now)
         IN  /\ s.active = slots[k].active
             /\ s.owners = slots[k].owners
             /\ s.owner_generation = slots[k].owner_generation
             /\ s.fence = slots[k].fence
             /\ s.probe_owner = slots[k].probe_owner
             /\ s.policy = slots[k].policy
             /\ s.retired_policy = slots[k].retired_policy
             /\ s.revision = slots[k].revision + 1
             /\ s.upstream_not_before >= slots[k].upstream_not_before
  <1>1. slots[k] \in Slot
    BY DEF TypeOK
  <1> QED BY <1>1 DEF observed_slot, Slot, later, Instant, None

\* confirm_success either clears the slot or removes the leased policy episodes,
\* giving the lease up when no restriction is left.
LEMMA ConfirmedSlotFields ==
  ASSUME TypeOK, NEW t \in Ticket, NEW k \in Key
  PROVE  LET s == confirmed_slot(t, k)
         IN  /\ s.active = slots[k].active
             /\ s.owners = slots[k].owners
             /\ s.owner_generation = slots[k].owner_generation
             /\ s.fence >= slots[k].fence
             /\ s.probe_owner \in {slots[k].probe_owner, 0}
             /\ s.revision >= slots[k].revision
             /\ ~is_policy(k) => s = clear(slots[k], t + 1)
             /\ is_policy(k) =>
                  /\ s.fence = slots[k].fence
                  /\ s.retired_policy = slots[k].retired_policy
                  /\ s.upstream_not_before = slots[k].upstream_not_before
                  /\ s.next_probe = slots[k].next_probe
                  /\ s.awaiting_recovery = slots[k].awaiting_recovery
                  /\ \A x \in Sources : s.policy[x] =
                       IF same_episode(slots[k].policy[x], permit[t].leased[k][x])
                       THEN NoRow ELSE slots[k].policy[x]
                  /\ s.probe_owner = slots[k].probe_owner \/ ~restricted(s)
  <1> DEFINE c == confirmed_slot(t, k)
             p == [x \in Sources |->
                   IF same_episode(slots[k].policy[x], permit[t].leased[k][x])
                   THEN NoRow ELSE slots[k].policy[x]]
             n == [slots[k] EXCEPT !.policy = p]
  <1>1. slots[k] \in Slot /\ t + 1 \in Nat
    BY DEF TypeOK, Ticket
  <1>2. CASE ~is_policy(k)
    <2>1. c = clear(slots[k], t + 1)
      BY <1>2 DEF confirmed_slot
    <2>2. slots[k].revision \in Nat
      BY <1>1 DEF Slot
    <2> HIDE DEF c
    <2>3. /\ c.active = slots[k].active /\ c.owners = slots[k].owners
          /\ c.owner_generation = slots[k].owner_generation
          /\ c.fence >= slots[k].fence /\ c.probe_owner = 0 /\ c.revision = slots[k].revision + 1
      BY <1>1, <2>1, ClearFields
    <2> QED BY <1>2, <2>1, <2>2, <2>3 DEF c
  <1>3. CASE is_policy(k)
    <2>1. \/ c = n
          \/ c = [n EXCEPT !.probe_owner = 0] /\ ~restricted(n)
      BY <1>3 DEF confirmed_slot
    <2>2. /\ n.active = slots[k].active /\ n.owners = slots[k].owners
          /\ n.owner_generation = slots[k].owner_generation
          /\ n.fence = slots[k].fence /\ n.revision = slots[k].revision
          /\ n.upstream_not_before = slots[k].upstream_not_before
          /\ n.probe_owner = slots[k].probe_owner /\ n.policy = p
          /\ n.retired_policy = slots[k].retired_policy
          /\ n.awaiting_recovery = slots[k].awaiting_recovery
          /\ n.next_probe = slots[k].next_probe
          /\ DOMAIN n = DOMAIN slots[k]
          /\ slots[k].fence \in Nat /\ slots[k].revision \in Nat
      BY <1>1 DEF Slot
    <2>3. CASE c = n
      <3> HIDE DEF c, n
      <3>1. \A x \in Sources : c.policy[x] = p[x]
        BY <2>2, <2>3
      <3> QED BY <1>3, <2>2, <2>3, <3>1 DEF c
    <2>4. CASE c = [n EXCEPT !.probe_owner = 0] /\ ~restricted(n)
      <3> HIDE DEF c, n
      <3>1. /\ c.active = n.active /\ c.owners = n.owners /\ c.fence = n.fence
            /\ c.owner_generation = n.owner_generation
            /\ c.revision = n.revision /\ c.upstream_not_before = n.upstream_not_before
            /\ c.policy = n.policy /\ c.retired_policy = n.retired_policy
            /\ c.awaiting_recovery = n.awaiting_recovery /\ c.next_probe = n.next_probe
            /\ c.probe_owner = 0
        BY <1>1, <2>2, <2>4 DEF Slot
      <3>2. ~restricted(c)
        BY <2>4, <3>1 DEF restricted, has_row
      <3>3. \A x \in Sources : c.policy[x] = p[x]
        BY <2>2, <3>1
      <3> QED BY <1>3, <2>2, <3>1, <3>2, <3>3 DEF c
    <2> QED BY <2>1, <2>3, <2>4
  <1> QED BY <1>2, <1>3

\* Dropping a permit gives up one claim and its own lease, and postpones probes:
\* no restriction, fence or row disappears.
LEMMA ReleasedSlotFields ==
  ASSUME TypeOK, NEW t \in Ticket, NEW k \in Key
  PROVE  LET s == released_slot(t, k)
         IN  /\ s.active = IF slots[k].active = 0 THEN 0 ELSE slots[k].active - 1
             /\ s.owners = slots[k].owners
             /\ s.owner_generation = slots[k].owner_generation
             /\ s.fence = slots[k].fence
             /\ s.probe_owner = IF slots[k].probe_owner = t THEN 0 ELSE slots[k].probe_owner
             /\ s.revision = slots[k].revision
             /\ s.retired_policy = slots[k].retired_policy
             /\ s.upstream_not_before = slots[k].upstream_not_before
             /\ \A x \in Sources :
                  /\ s.policy[x].opaque_id = slots[k].policy[x].opaque_id
                  /\ s.policy[x].revision = slots[k].policy[x].revision
                  /\ slots[k].policy[x] = NoRow => s.policy[x] = NoRow
  <1> DEFINE recheck == slots[k].probe_owner = t /\ k \notin permit[t].observed /\ restricted(slots[k])
             next == mono + InitialProbe
             p == [x \in Sources |->
                    IF recheck /\ is_policy(k) /\ has_row(slots[k], x)
                       /\ same_episode(slots[k].policy[x], permit[t].leased[k][x])
                    THEN [slots[k].policy[x] EXCEPT !.next_probe = later(@, next)]
                    ELSE slots[k].policy[x]]
             c == released_slot(t, k)
  <1>1. slots[k] \in Slot
    BY DEF TypeOK
  <1>2. /\ c.active = IF slots[k].active = 0 THEN 0 ELSE slots[k].active - 1
        /\ c.owners = slots[k].owners
        /\ c.owner_generation = slots[k].owner_generation
        /\ c.fence = slots[k].fence
        /\ c.probe_owner = IF slots[k].probe_owner = t THEN 0 ELSE slots[k].probe_owner
        /\ c.revision = slots[k].revision
        /\ c.retired_policy = slots[k].retired_policy
        /\ c.upstream_not_before = slots[k].upstream_not_before
        /\ c.policy = p
    BY <1>1 DEF released_slot, Slot
  <1>3. ASSUME NEW x \in Sources
        PROVE  /\ p[x].opaque_id = slots[k].policy[x].opaque_id
               /\ p[x].revision = slots[k].policy[x].revision
               /\ slots[k].policy[x] = NoRow => p[x] = NoRow
    <2>1. slots[k].policy[x] \in Row
      BY <1>1 DEF Slot
    <2> HIDE DEF recheck, next
    <2> QED BY <2>1 DEF Row, has_row, NoRow
  <1> HIDE DEF c, p
  <1> QED BY <1>2, <1>3 DEF c

-----------------------------------------------------------------------------
(* The core of the inductive invariant: who holds what.                    *)

\* Tickets in use were issued.
Tickets ==
  /\ live \subseteq 1..sequence
  /\ \A k \in Key : \A i \in Items : evidence[k][i] \subseteq 1..sequence

\* A forgotten slot holds nothing.
Untracked ==
  \A k \in Key : k \notin tracked =>
    slots[k] = EmptySlot /\ evidence[k] = [i \in Items |-> {}]

\* A permit probes only keys it claimed.
ProbesClaimed == \A t \in live : permit[t].probes \subseteq keys(permit[t].resources)

\* The inductive invariant.
Core ==
  /\ TypeOK /\ LoopInv
  /\ Tickets /\ Untracked /\ ProbesClaimed
  /\ LeasesAreHeld /\ ClaimsAreCounted

\* The permit of t still stands for the same claims and probes.
PermitKept(t) ==
  /\ permit'[t].resources = permit[t].resources
  /\ permit'[t].probes = permit[t].probes
  /\ permit'[t].revision = permit[t].revision
  /\ permit'[t].leased = permit[t].leased

\* The slot of k keeps its claims, owners and generation; its lease may be released.
SlotKept(k) ==
  /\ slots'[k].active = slots[k].active
  /\ slots'[k].owners = slots[k].owners
  /\ slots'[k].owner_generation = slots[k].owner_generation
  /\ slots'[k].fence >= slots[k].fence
  /\ slots'[k].probe_owner \in {slots[k].probe_owner, 0}

\* The reply of t about item i of k is recorded: t is live and past the fences.
Heard(k, i, t) ==
  /\ t \in live
  /\ k \in keys(permit[t].resources)
  /\ t >= slots[k].fence
  /\ i \in Sources => t >= slots[k].retired_policy[i]

\* What every step other than a granted acquire and a drop does.
Quiet ==
  /\ sequence' = sequence /\ live' = live
  /\ \A t \in Ticket : PermitKept(t)
  /\ \A k \in tracked' : k \in tracked /\ SlotKept(k)
  /\ \A k \in tracked : k \notin tracked' => slots[k].active = 0
  /\ Untracked'
  /\ \A k \in Key : \A i \in Items : \A t \in evidence'[k][i] :
       t \in evidence[k][i] \/ Heard(k, i, t)

\* The claims of a live permit are tracked: a slot with a claim is never forgotten.
LEMMA ClaimsAreTracked ==
  ASSUME Core, NEW t \in live, NEW k \in keys(permit[t].resources)
  PROVE  k \in tracked /\ k \in Key /\ slots[k].active # 0
  <1> DEFINE S == {u \in live : k \in keys(permit[u].resources)}
  <1>1. permit[t].resources \in ResourceSets /\ k \in Key
    BY KeysAreKeys DEF Core, TypeOK, Permit
  <1>2. IsFiniteSet(S)
    <2>1. IsFiniteSet(Ticket)
      BY FS_Interval, RecoveryAssumption DEF Ticket, RecoveryAssumption
    <2> QED BY <2>1, FS_Subset DEF Core, TypeOK
  <1>3. t \in S
    OBVIOUS
  <1>4. Cardinality(S) # 0
    <2> HIDE DEF S
    <2> QED BY <1>2, <1>3, FS_EmptySet
  <1>5. slots[k].active # 0
    BY <1>1, <1>4 DEF Core, ClaimsAreCounted
  <1> QED BY <1>1, <1>5 DEF Core, Untracked, EmptySlot

\* A quiet step preserves the core.
LEMMA QuietCore ==
  ASSUME Core, Quiet, TypeOK', LoopInv'
  PROVE  Core'
  <1>1. Tickets'
    <2>1. live' \subseteq 1..sequence'
      BY DEF Core, Tickets, Quiet
    <2>2. ASSUME NEW k \in Key, NEW i \in Items, NEW t \in evidence'[k][i]
          PROVE  t \in 1..sequence'
      BY <2>2 DEF Core, Tickets, Quiet, Heard
    <2> QED BY <2>1, <2>2 DEF Tickets
  <1>2. ProbesClaimed'
    BY DEF Core, Quiet, PermitKept, ProbesClaimed, TypeOK
  <1>3. LeasesAreHeld'
    <2> SUFFICES ASSUME NEW k \in Key, slots'[k].probe_owner # 0
                 PROVE  /\ k \in tracked'
                        /\ slots'[k].probe_owner \in live'
                        /\ k \in permit'[slots'[k].probe_owner].probes
      BY DEF LeasesAreHeld
    <2>1. k \in tracked'
      BY DEF Quiet, Untracked, EmptySlot
    <2>2. slots'[k].probe_owner = slots[k].probe_owner
      BY <2>1 DEF Quiet, SlotKept
    <2> QED BY <2>1, <2>2 DEF Core, LeasesAreHeld, Quiet, PermitKept, TypeOK
  <1>4. ClaimsAreCounted'
    <2> SUFFICES ASSUME NEW k \in Key
                 PROVE  slots'[k].active =
                          Cardinality({t \in live' : k \in keys(permit'[t].resources)})
      BY DEF ClaimsAreCounted
    <2>1. {t \in live' : k \in keys(permit'[t].resources)} =
          {t \in live : k \in keys(permit[t].resources)}
      BY DEF Quiet, PermitKept, Core, TypeOK
    <2>2. slots'[k].active = slots[k].active
      <3>1. CASE k \in tracked'
        BY <3>1 DEF Quiet, SlotKept
      <3>2. CASE k \notin tracked'
        <4>1. slots'[k].active = 0
          BY <3>2 DEF Quiet, Untracked, EmptySlot
        <4>2. slots[k].active = 0
          BY <3>2 DEF Quiet, Core, Untracked, EmptySlot
        <4> QED BY <4>1, <4>2
      <3> QED BY <3>1, <3>2
    <2> QED BY <2>1, <2>2 DEF Core, ClaimsAreCounted
  <1> QED BY <1>1, <1>2, <1>3, <1>4 DEF Core, Quiet

\* The fields that the cleanup of acquire leaves alone.
LEMMA CleanedFields ==
  ASSUME TypeOK, NEW k \in Key
  PROVE  /\ Cleaned[k].active = slots[k].active
         /\ Cleaned[k].owners = slots[k].owners
         /\ Cleaned[k].fence = slots[k].fence
         /\ Cleaned[k].probe_owner = slots[k].probe_owner
         /\ Cleaned[k].revision = slots[k].revision
         /\ Cleaned[k].policy = slots[k].policy
         /\ Cleaned[k].retired_policy = slots[k].retired_policy
         /\ Cleaned[k].destination_id = slots[k].destination_id
         /\ Cleaned[k].owner_generation = slots[k].owner_generation
         /\ Cleaned[k].awaiting_recovery = slots[k].awaiting_recovery
         /\ Cleaned[k].next_probe = slots[k].next_probe
         /\ \/ Cleaned[k].upstream_not_before = slots[k].upstream_not_before
            \/ /\ ~deadline_is_live(slots[k].upstream_not_before)
               /\ Cleaned[k].upstream_not_before = None
  <1>1. slots[k] \in Slot /\ Cleaned[k] = expire_until_deadline(slots[k])
    BY DEF TypeOK, Cleaned
  <1> QED BY <1>1, ExpireFields

\* The cleanup forgets no slot under a claim.
LEMMA KeptForClaims ==
  ASSUME TypeOK, NEW rs, NEW k \in tracked, k \notin KeptFor(rs)
  PROVE  slots[k].active = 0
  BY CleanedFields DEF KeptFor, slot_kept_after_cleanup, TypeOK

\* A refused acquire is quiet.
LEMMA QuietRefused ==
  ASSUME Core, NEW rs \in captured, acquire_refused(rs)
  PROVE  Quiet
  <1>1. /\ tracked' = KeptFor(rs)
        /\ slots' = [k \in Key |-> IF k \in KeptFor(rs) THEN Cleaned[k] ELSE EmptySlot]
        /\ evidence' = [k \in Key |-> IF k \in KeptFor(rs) THEN evidence[k] ELSE [i \in Items |-> {}]]
        /\ sequence' = sequence /\ live' = live /\ permit' = permit
    BY DEF acquire_refused, Store
  <1>2. KeptFor(rs) \subseteq tracked /\ tracked \subseteq Key
    BY DEF KeptFor, Core, TypeOK
  <1>3. \A k \in tracked' : k \in tracked /\ SlotKept(k)
    <2> SUFFICES ASSUME NEW k \in tracked' PROVE k \in tracked /\ SlotKept(k)
      OBVIOUS
    <2>1. k \in Key /\ slots'[k] = Cleaned[k] /\ slots[k].fence \in Nat
      BY <1>1, <1>2 DEF Core, TypeOK, Slot
    <2> QED BY <1>1, <1>2, <2>1, CleanedFields DEF SlotKept, Core
  <1>4. \A k \in tracked : k \notin tracked' => slots[k].active = 0
    BY <1>1, KeptForClaims DEF Core
  <1>5. Untracked'
    BY <1>1 DEF Untracked
  <1>6. \A k \in Key : \A i \in Items : \A t \in evidence'[k][i] : t \in evidence[k][i]
    BY <1>1
  <1> QED BY <1>1, <1>3, <1>4, <1>5, <1>6 DEF Quiet, PermitKept

\* A change of slots after which only slots with claims or restrictions are kept is
\* quiet when it is quiet slot by slot.
LEMMA QuietStore ==
  ASSUME Core, NEW s \in [Key -> Slot], NEW ev \in [Key -> [Items -> SUBSET Ticket]],
         Store(retain_live_slots(s), s, ev),
         \A k \in tracked : /\ s[k].active = slots[k].active
                            /\ s[k].owners = slots[k].owners
                            /\ s[k].owner_generation = slots[k].owner_generation
                            /\ s[k].fence >= slots[k].fence
                            /\ s[k].probe_owner \in {slots[k].probe_owner, 0},
         \A k \in Key : \A i \in Items : ev[k][i] \subseteq evidence[k][i],
         sequence' = sequence, live' = live, permit' = permit
  PROVE  Quiet
  <1> DEFINE K == retain_live_slots(s)
  <1>1. /\ tracked' = K
        /\ slots' = [k \in Key |-> IF k \in K THEN s[k] ELSE EmptySlot]
        /\ evidence' = [k \in Key |-> IF k \in K THEN ev[k] ELSE [i \in Items |-> {}]]
    BY DEF Store
  <1>2. K \subseteq tracked /\ tracked \subseteq Key
    BY DEF retain_live_slots, Core, TypeOK
  <1>3. \A k \in tracked : k \notin K => slots[k].active = 0
    BY DEF retain_live_slots
  <1> HIDE DEF K
  <1>4. \A k \in tracked' : k \in tracked /\ SlotKept(k)
    BY <1>1, <1>2 DEF SlotKept
  <1>5. Untracked'
    BY <1>1 DEF Untracked
  <1>6. \A k \in Key : \A i \in Items : \A t \in evidence'[k][i] : t \in evidence[k][i]
    BY <1>1
  <1> QED BY <1>1, <1>3, <1>4, <1>5, <1>6 DEF Quiet, PermitKept

\* An operator reset is quiet.
LEMMA QuietReset ==
  ASSUME Core, NEW a \in Accounts, reset_account(a)
  PROVE  Quiet
  <1> DEFINE cleared == {k \in tracked : k.kind # "FreeEgress" /\ a \in slots[k].owners}
             s == [k \in Key |-> IF k \in cleared THEN clear(slots[k], sequence + 1) ELSE slots[k]]
             ev == [k \in Key |-> IF k \in cleared THEN [i \in Items |-> {}] ELSE evidence[k]]
  <1>1. sequence + 1 \in Nat /\ tracked \subseteq Key /\ slots \in [Key -> Slot]
        /\ evidence \in [Key -> [Items -> SUBSET Ticket]]
    BY DEF Core, TypeOK
  <1>2. Store(retain_live_slots(s), s, ev) /\ sequence' = sequence /\ live' = live
        /\ permit' = permit
    BY DEF reset_account
  <1> HIDE DEF cleared
  <1>3. s \in [Key -> Slot]
    BY <1>1, ClearType
  <1>4. ev \in [Key -> [Items -> SUBSET Ticket]]
        /\ \A k \in Key : \A i \in Items : ev[k][i] \subseteq evidence[k][i]
    BY <1>1
  <1>5. ASSUME NEW k \in tracked
        PROVE  /\ s[k].active = slots[k].active
               /\ s[k].owners = slots[k].owners
               /\ s[k].owner_generation = slots[k].owner_generation
               /\ s[k].fence >= slots[k].fence
               /\ s[k].probe_owner \in {slots[k].probe_owner, 0}
    <2>1. k \in Key /\ slots[k] \in Slot /\ slots[k].fence \in Nat
      BY <1>1 DEF Slot
    <2>2. CASE k \in cleared
      BY <1>1, <2>1, <2>2, ClearFields
    <2>3. CASE k \notin cleared
      BY <2>1, <2>3
    <2> QED BY <2>2, <2>3
  <1> HIDE DEF s, ev
  <1> QED BY <1>2, <1>3, <1>4, <1>5, QuietStore

\* Retiring policy sources is quiet.
LEMMA QuietRetire ==
  ASSUME Core, NEW stale \in [Key -> SUBSET Sources], Retire(stale),
         sequence' = sequence, live' = live, permit' = permit
  PROVE  Quiet
  <1> DEFINE f == sequence + 1
             s == [k \in Key |-> retire_source(slots[k], stale[k], f)]
             ev == [k \in Key |-> [i \in Items |-> IF i \in stale[k] THEN {} ELSE evidence[k][i]]]
  <1>1. f \in Nat /\ tracked \subseteq Key /\ slots \in [Key -> Slot]
        /\ evidence \in [Key -> [Items -> SUBSET Ticket]]
    BY DEF Core, TypeOK
  <1>2. Store(retain_live_slots(s), s, ev)
    BY DEF Retire
  <1> HIDE DEF f
  <1>3. s \in [Key -> Slot]
    BY <1>1, RetireType
  <1>4. ev \in [Key -> [Items -> SUBSET Ticket]]
        /\ \A k \in Key : \A i \in Items : ev[k][i] \subseteq evidence[k][i]
    BY <1>1
  <1>5. ASSUME NEW k \in tracked
        PROVE  /\ s[k].active = slots[k].active
               /\ s[k].owners = slots[k].owners
               /\ s[k].owner_generation = slots[k].owner_generation
               /\ s[k].fence >= slots[k].fence
               /\ s[k].probe_owner \in {slots[k].probe_owner, 0}
    <2>1. k \in Key /\ slots[k] \in Slot /\ slots[k].fence \in Nat /\ stale[k] \in SUBSET Sources
      BY <1>1 DEF Slot
    <2> QED BY <1>1, <2>1, RetireKeeps
  <1> HIDE DEF s, ev
  <1> QED BY <1>2, <1>3, <1>4, <1>5, QuietStore

\* A new rule set and a cleared restriction are quiet.
LEMMA QuietRules ==
  ASSUME Core, \/ \E snapshot \in Snapshots : install_snapshot(snapshot)
               \/ \E id \in 1..restriction_seq : clear_restriction(id)
  PROVE  Quiet
  <1>1. ASSUME NEW snapshot \in Snapshots, install_snapshot(snapshot)
        PROVE  Quiet
    <2> DEFINE stale == [k \in Key |->
         IF k \in tracked
         THEN {x \in Sources : has_row(slots[k], x) /\ x \notin snapshot[slots[k].destination_id]}
         ELSE {}]
    <2>1. stale \in [Key -> SUBSET Sources] /\ Retire(stale)
          /\ sequence' = sequence /\ live' = live /\ permit' = permit
      BY <1>1 DEF install_snapshot
    <2> HIDE DEF stale
    <2> QED BY <2>1, QuietRetire
  <1>2. ASSUME NEW id, clear_restriction(id)
        PROVE  Quiet
    <2> DEFINE stale == [k \in Key |->
         {x \in Sources : has_row(slots[k], x) /\ slots[k].policy[x].opaque_id = id}]
    <2>1. stale \in [Key -> SUBSET Sources] /\ Retire(stale)
          /\ sequence' = sequence /\ live' = live /\ permit' = permit
      BY <1>2 DEF clear_restriction
    <2> HIDE DEF stale
    <2> QED BY <2>1, QuietRetire
  <1> QED BY <1>1, <1>2

\* Noting a reply leaves what a permit claimed and leased as it is.
LEMMA NotedKeeps ==
  ASSUME TypeOK, NEW t, NEW k, NEW i, NEW recorded, NEW phase,
         permit' = Noted(t, k, i, recorded, phase)
  PROVE  \A u \in Ticket : PermitKept(u)
  <1> SUFFICES ASSUME NEW u \in Ticket PROVE PermitKept(u)
    OBVIOUS
  <1>1. permit[u] \in Permit
    BY DEF TypeOK
  <1> QED BY <1>1 DEF Noted, Permit, PermitKept

\* Recording an upstream reply at a claimed key is quiet.
LEMMA QuietObserveKey ==
  ASSUME Core, NEW t \in live, NEW k, k \in Key => k \in keys(permit[t].resources),
         NEW allowed \in BOOLEAN, NEW wait \in BOOLEAN, NEW hint \in Instant, NEW now \in Nat,
         NEW phase, observe_key(t, k, allowed, wait, hint, now, phase),
         sequence' = sequence, live' = live
  PROVE  Quiet
  <1> DEFINE recorded == allowed /\ (wait \/ hint # None) /\ k \in tracked /\ t >= slots[k].fence
  <1>1. /\ tracked' = tracked /\ tracked \subseteq Key /\ t \in Ticket
        /\ permit' = Noted(t, k, Upstream, recorded, phase)
    BY DEF observe_key, Core, TypeOK
  <1>2. \A u \in Ticket : PermitKept(u)
    BY <1>1, NotedKeeps DEF Core
  <1>3. CASE recorded
    <2>1. k \in tracked /\ k \in Key /\ t >= slots[k].fence /\ k \in keys(permit[t].resources)
      BY <1>1, <1>3
    <2>2. /\ slots' = [slots EXCEPT ![k] = observed_slot(t, k, wait, hint, now)]
          /\ evidence' = [evidence EXCEPT ![k][Upstream] = @ \cup {t}]
      BY <1>3 DEF observe_key
    <2>3. \A m \in tracked' : m \in tracked /\ SlotKept(m)
      <3> SUFFICES ASSUME NEW m \in tracked PROVE SlotKept(m)
        BY <1>1
      <3>1. m \in Key /\ slots[m].fence \in Nat
        BY <1>1 DEF Core, TypeOK, Slot
      <3>2. CASE m = k
        <4>1. slots'[m] = observed_slot(t, k, wait, hint, now)
          BY <2>2, <3>1, <3>2 DEF Core, TypeOK
        <4> QED BY <1>1, <2>1, <3>1, <3>2, <4>1, ObservedSlotFields DEF SlotKept, Core
      <3>3. CASE m # k
        BY <2>2, <3>1, <3>3 DEF SlotKept, Core, TypeOK
      <3> QED BY <3>2, <3>3
    <2>4. Untracked'
      BY <1>1, <2>1, <2>2 DEF Core, TypeOK, Untracked
    <2>5. ASSUME NEW m \in Key, NEW i \in Items, NEW u \in evidence'[m][i]
          PROVE  u \in evidence[m][i] \/ Heard(m, i, u)
      <3>1. u \in evidence[m][i] \/ (m = k /\ i = Upstream /\ u = t)
        BY <2>1, <2>2 DEF Core, TypeOK
      <3> QED BY <2>1, <3>1, RecoveryAssumption DEF Heard, RecoveryAssumption
    <2> HIDE DEF recorded
    <2> QED BY <1>1, <1>2, <2>3, <2>4, <2>5 DEF Quiet
  <1>4. CASE ~recorded
    <2>1. slots' = slots /\ evidence' = evidence
      BY <1>4 DEF observe_key
    <2>2. \A m \in tracked' : m \in tracked /\ SlotKept(m)
      BY <1>1, <2>1 DEF SlotKept, Core, TypeOK, Slot
    <2>3. Untracked'
      BY <1>1, <2>1 DEF Core, Untracked
    <2> HIDE DEF recorded
    <2> QED BY <1>1, <1>2, <2>1, <2>2, <2>3 DEF Quiet
  <1> QED BY <1>3, <1>4

\* The four decoded rejections, and the Retry-After of a policy decision, are quiet.
LEMMA QuietReplies ==
  ASSUME Core, \/ \E t \in Ticket : Observes(t)
               \/ observe_policy_retry
  PROVE  Quiet
  <1>1. ASSUME NEW t \in Ticket, Observes(t)
        PROVE  Quiet
    <2>1. PICK k \in keys(permit[t].resources), allowed \in BOOLEAN, wait \in BOOLEAN,
               hint \in Instant :
            observe_key(t, k, allowed, wait, hint, mono, "done")
      BY <1>1 DEF Observes
    <2>2. t \in live /\ mono \in Nat /\ sequence' = sequence /\ live' = live
      BY <1>1 DEF Observes, Replies, Core, TypeOK
    <2> QED BY <2>1, <2>2, QuietObserveKey
  <1>2. ASSUME observe_policy_retry
        PROVE  Quiet
    <2> DEFINE t == db.holder
               k == DecisionKey(t, db.source)
    <2>1. /\ t \in live /\ t \in Ticket /\ db.hint \in Instant /\ db.at \in Nat
          /\ observe_key(t, k, TRUE, FALSE, db.hint, db.at, "rejected")
          /\ sequence' = sequence /\ live' = live
      BY <1>2 DEF observe_policy_retry, Core, LoopInv, TypeOK, Loop
    <2>2. k \in Key => k \in keys(permit[t].resources)
      BY <2>1, ReplyKeys DEF DecisionKey, Core, TypeOK, Permit
    <2> HIDE DEF t, k
    <2> QED BY <2>1, <2>2, QuietObserveKey
  <1> QED BY <1>1, <1>2

\* Recording a policy decision is quiet.
LEMMA QuietObservePolicy ==
  ASSUME Core, observe_policy
  PROVE  Quiet
  <1> DEFINE t == db.holder
             x == db.source
             k == DecisionKey(t, x)
             recorded == permits_policy(t, x)
  <1>1. /\ t \in live /\ t \in Ticket /\ x \in Sources /\ x \in Items
        /\ tracked' = tracked /\ tracked \subseteq Key /\ sequence' = sequence /\ live' = live
        /\ permit' = Noted(t, k, x, recorded, "rejected")
    BY DEF observe_policy, Core, LoopInv, TypeOK, Items
  <1>2. \A u \in Ticket : PermitKept(u)
    <2> HIDE DEF t, k, x, recorded
    <2> QED BY <1>1, NotedKeeps DEF Core
  <1>3. CASE recorded
    <2>1. /\ k \in tracked /\ k \in Key /\ k \in keys(permit[t].resources)
          /\ t >= slots[k].fence /\ t >= slots[k].retired_policy[x]
      BY <1>1, <1>3 DEF permits_policy
    <2>2. /\ slots' = [slots EXCEPT ![k].policy[x] = observed_row(t, k, x)]
          /\ evidence' = [evidence EXCEPT ![k][x] = @ \cup {t}]
      BY <1>3 DEF observe_policy
    <2> HIDE DEF t, k, x, recorded
    <2>3. \A m \in tracked' : m \in tracked /\ SlotKept(m)
      <3> SUFFICES ASSUME NEW m \in tracked PROVE SlotKept(m)
        BY <1>1
      <3>1. m \in Key /\ slots[m] \in Slot /\ slots[m].fence \in Nat
        BY <1>1 DEF Core, TypeOK, Slot
      <3> QED BY <2>1, <2>2, <3>1 DEF SlotKept, Core, TypeOK, Slot
    <2>4. Untracked'
      BY <1>1, <2>1, <2>2 DEF Core, TypeOK, Untracked
    <2>5. ASSUME NEW m \in Key, NEW i \in Items, NEW u \in evidence'[m][i]
          PROVE  u \in evidence[m][i] \/ Heard(m, i, u)
      <3>1. u \in evidence[m][i] \/ (m = k /\ i = x /\ u = t)
        BY <2>1, <2>2 DEF Core, TypeOK
      <3> QED BY <1>1, <2>1, <3>1 DEF Heard
    <2> QED BY <1>1, <1>2, <2>3, <2>4, <2>5 DEF Quiet
  <1>4. CASE ~recorded
    <2>1. slots' = slots /\ evidence' = evidence
      BY <1>4 DEF observe_policy
    <2>2. \A m \in tracked' : m \in tracked /\ SlotKept(m)
      BY <1>1, <2>1 DEF SlotKept, Core, TypeOK, Slot
    <2>3. Untracked'
      BY <1>1, <2>1 DEF Core, Untracked
    <2> HIDE DEF t, k, x, recorded
    <2> QED BY <1>1, <1>2, <2>1, <2>2, <2>3 DEF Quiet
  <1> QED BY <1>3, <1>4

\* confirm_success is quiet.
LEMMA QuietConfirm ==
  ASSUME Core, NEW t \in Ticket, confirm_success(t)
  PROVE  Quiet
  <1>1. /\ tracked' = tracked /\ tracked \subseteq Key /\ sequence' = sequence /\ live' = live
        /\ slots' = [k \in Key |-> IF confirms(t, k) THEN confirmed_slot(t, k) ELSE slots[k]]
    BY DEF confirm_success, Core, TypeOK
  <1>2. \A u \in Ticket : PermitKept(u)
    <2> SUFFICES ASSUME NEW u \in Ticket PROVE PermitKept(u)
      OBVIOUS
    <2>1. permit[u] \in Permit
      BY DEF Core, TypeOK
    <2> QED BY <2>1 DEF Permit, PermitKept, confirm_success, Core, TypeOK
  <1>3. \A k \in tracked' : k \in tracked /\ SlotKept(k)
    <2> SUFFICES ASSUME NEW k \in tracked PROVE SlotKept(k)
      BY <1>1
    <2>1. k \in Key /\ slots[k].fence \in Nat
      BY <1>1 DEF Core, TypeOK, Slot
    <2>2. CASE confirms(t, k)
      <3>1. slots'[k] = confirmed_slot(t, k)
        BY <1>1, <2>1, <2>2
      <3> QED BY <2>1, <3>1, ConfirmedSlotFields DEF SlotKept, Core
    <2>3. CASE ~confirms(t, k)
      BY <1>1, <2>1, <2>3 DEF SlotKept
    <2> QED BY <2>2, <2>3
  <1>4. \A k \in Key : \A i \in Items : \A u \in evidence'[k][i] : u \in evidence[k][i]
    BY DEF confirm_success
  <1>5. Untracked'
    <2> SUFFICES ASSUME NEW k \in Key, k \notin tracked
                 PROVE  slots'[k] = EmptySlot /\ evidence'[k] = [i \in Items |-> {}]
      BY <1>1 DEF Untracked
    <2>1. ~confirms(t, k) /\ slots[k] = EmptySlot /\ evidence[k] = [i \in Items |-> {}]
      BY DEF confirms, Core, Untracked
    <2> QED BY <1>1, <2>1 DEF confirm_success
  <1> QED BY <1>1, <1>2, <1>3, <1>4, <1>5 DEF Quiet

\* Steps that touch neither the table nor what permits hold are quiet.
LEMMA QuietOther ==
  ASSUME Core, \/ \E t \in Ticket, decisions \in SUBSET Sources, header \in PolicyRetryAfters :
                    observe_local_policy(t, decisions, header)
               \/ \E x \in Sources : check_decision(x)
               \/ \E c \in Captures : Reconfigure(c)
               \/ \E d \in WallSteps : Tick(d)
               \/ UNCHANGED vars
  PROVE  Quiet
  <1>1. /\ UNCHANGED <<sequence, tracked, slots, live, evidence>>
        /\ permit' = permit \/ \E t \in Ticket : permit' = [permit EXCEPT ![t].phase = "rejected"]
    BY DEF observe_local_policy, check_decision, Reconfigure, Tick, vars, inner, history
  <1>2. \A u \in Ticket : PermitKept(u)
    <2> SUFFICES ASSUME NEW u \in Ticket PROVE PermitKept(u)
      OBVIOUS
    <2>1. permit[u] \in Permit /\ permit \in [Ticket -> Permit]
      BY DEF Core, TypeOK
    <2>2. CASE permit' = permit
      BY <2>2 DEF PermitKept
    <2>3. ASSUME NEW t \in Ticket, permit' = [permit EXCEPT ![t].phase = "rejected"]
          PROVE  PermitKept(u)
      BY <2>1, <2>3 DEF Permit, PermitKept
    <2> QED BY <1>1, <2>2, <2>3
  <1>3. \A k \in tracked : SlotKept(k)
    BY <1>1 DEF SlotKept, Core, TypeOK, Slot
  <1>4. Untracked'
    BY <1>1 DEF Core, Untracked
  <1> QED BY <1>1, <1>2, <1>3, <1>4 DEF Quiet

\* Every step that neither grants nor drops a permit is quiet.
LEMMA QuietNext ==
  ASSUME Core, [Next]_vars
  PROVE  \/ Quiet
         \/ \E rs \in captured : acquire(rs)
         \/ \E t \in Ticket : drop(t)
  <1>0. TypeOK
    BY DEF Core
  <1>1. CASE \E rs \in captured : acquire(rs) \/ acquire_refused(rs)
    BY <1>1, QuietRefused
  <1>2. CASE \E t \in Ticket : Reply(t) \/ drop(t)
    <2> PICK t \in Ticket : Reply(t) \/ drop(t)
      BY <1>2
    <2>1. CASE \E header \in RetryAfters :
                 \/ temporary_429(t, header)
                 \/ \E delay \in PlanResets : plan_window(t, header, delay)
                 \/ observe_openrouter_free_rejection(t, header)
                 \/ observe_free_rejection(t, header)
      BY <1>0, <2>1, RepliesObserve, QuietReplies
    <2>2. CASE \E header \in PolicyRetryAfters, decisions \in SUBSET Sources :
                 observe_local_policy(t, decisions, header)
      BY <2>2, QuietOther
    <2>3. CASE confirm_success(t)
      BY <2>3, QuietConfirm
    <2> QED BY <2>1, <2>2, <2>3 DEF Reply
  <1>3. CASE PolicyLoop
    BY <1>3, QuietOther, QuietObservePolicy, QuietReplies DEF PolicyLoop
  <1>4. CASE Operator
    BY <1>4, QuietReset, QuietRules, QuietOther DEF Operator
  <1>5. CASE \E d \in WallSteps : Tick(d)
    BY <1>5, QuietOther
  <1>6. CASE UNCHANGED vars
    BY <1>6, QuietOther
  <1> QED BY <1>1, <1>2, <1>3, <1>4, <1>5, <1>6 DEF Next

-----------------------------------------------------------------------------
(* Granting and dropping permits.                                          *)

\* The table a granted acquire claims in.
Base(rs) == [k \in Key |-> IF k \in KeptFor(rs) THEN Cleaned[k] ELSE EmptySlot]

\* The table a granted acquire claims in has lost no claim.
LEMMA BaseFields ==
  ASSUME Core, NEW rs \in ResourceSets
  PROVE  /\ Base(rs) \in [Key -> Slot]
         /\ \A k \in Key : Base(rs)[k].active = slots[k].active
         /\ \A k \in KeptFor(rs) : k \in tracked /\ k \in Key /\ Base(rs)[k] = Cleaned[k]
         /\ \A k \in Key : k \notin KeptFor(rs) => Base(rs)[k] = EmptySlot /\ slots[k].active = 0
  <1>1. KeptFor(rs) \subseteq tracked /\ tracked \subseteq Key /\ TypeOK
    BY DEF KeptFor, Core, TypeOK
  <1>2. Base(rs) \in [Key -> Slot]
    BY <1>1, CleanedType, EmptySlotType DEF Base
  <1>3. \A k \in KeptFor(rs) : k \in tracked /\ k \in Key /\ Base(rs)[k] = Cleaned[k]
    BY <1>1 DEF Base
  <1>4. ASSUME NEW k \in Key, k \notin KeptFor(rs)
        PROVE  Base(rs)[k] = EmptySlot /\ slots[k].active = 0
    <2>1. CASE k \in tracked
      BY <1>1, <1>4, <2>1, KeptForClaims DEF Base
    <2>2. CASE k \notin tracked
      BY <1>4, <2>2 DEF Base, Core, Untracked, EmptySlot
    <2> QED BY <2>1, <2>2
  <1>5. \A k \in Key : Base(rs)[k].active = slots[k].active
    BY <1>1, <1>3, <1>4, CleanedFields DEF EmptySlot
  <1> QED BY <1>2, <1>3, <1>4, <1>5

\* What a granted acquire does.
LEMMA AcquireFields ==
  ASSUME Core, NEW rs \in captured, acquire(rs)
  PROVE  /\ rs \in ResourceSets /\ keys(rs) \subseteq Key
         /\ sequence' = sequence + 1 /\ sequence + 1 \in Ticket /\ sequence + 1 \notin live
         /\ live' = live \cup {sequence + 1}
         /\ permit' = [permit EXCEPT ![sequence + 1] = NewPermit(rs, Base(rs))]
         /\ tracked' = KeptFor(rs) \cup keys(rs)
         /\ \A k \in Key :
              slots'[k] = IF k \in keys(rs) THEN claim(rs, k, Base(rs)[k], sequence + 1)
                          ELSE Base(rs)[k]
         /\ \A k \in Key :
              evidence'[k] = IF k \in KeptFor(rs) THEN evidence[k] ELSE [i \in Items |-> {}]
         /\ Untracked'
  <1> DEFINE ticket == sequence + 1
             K == KeptFor(rs) \cup keys(rs)
             s == [k \in Key |-> IF k \in keys(rs) THEN claim(rs, k, Base(rs)[k], ticket)
                                 ELSE Base(rs)[k]]
             ev == [k \in Key |-> IF k \in KeptFor(rs) THEN evidence[k] ELSE [i \in Items |-> {}]]
  <1>1. rs \in ResourceSets /\ keys(rs) \subseteq Key
    BY KeysAreKeys DEF Core, TypeOK
  <1>2. /\ sequence' = ticket /\ live' = live \cup {ticket} /\ Store(K, s, ev)
        /\ permit' = [permit EXCEPT ![ticket] = NewPermit(rs, Base(rs))]
        /\ sequence < MaxSequence
    BY DEF acquire, Base, ticket_available
  <1>3. ticket \in Ticket /\ ticket \notin live
    BY <1>2, RecoveryAssumption DEF RecoveryAssumption, Core, TypeOK, Tickets, Ticket
  <1>4. /\ tracked' = K
        /\ slots' = [k \in Key |-> IF k \in K THEN s[k] ELSE EmptySlot]
        /\ evidence' = [k \in Key |-> IF k \in K THEN ev[k] ELSE [i \in Items |-> {}]]
    BY <1>2 DEF Store
  <1>5. \A k \in Key : k \notin K => s[k] = EmptySlot /\ ev[k] = [i \in Items |-> {}]
    BY <1>1, BaseFields
  <1>6. Untracked'
    BY <1>4 DEF Untracked
  <1> QED BY <1>1, <1>2, <1>3, <1>4, <1>5, <1>6

\* A granted acquire preserves the core.
LEMMA CoreAcquire ==
  ASSUME Core, NEW rs \in captured, acquire(rs), TypeOK', LoopInv'
  PROVE  Core'
  <1> DEFINE ticket == sequence + 1
             base == Base(rs)
             probes == {k \in keys(rs) : claims_probe(rs, k, base[k])}
  <1>1. /\ rs \in ResourceSets /\ keys(rs) \subseteq Key
        /\ sequence' = ticket /\ ticket \in Ticket /\ ticket \notin live
        /\ live' = live \cup {ticket}
        /\ permit' = [permit EXCEPT ![ticket] = NewPermit(rs, base)]
        /\ tracked' = KeptFor(rs) \cup keys(rs)
        /\ \A k \in Key : slots'[k] = IF k \in keys(rs) THEN claim(rs, k, base[k], ticket) ELSE base[k]
        /\ \A k \in Key :
             evidence'[k] = IF k \in KeptFor(rs) THEN evidence[k] ELSE [i \in Items |-> {}]
        /\ Untracked'
    BY AcquireFields
  <1>2. /\ base \in [Key -> Slot]
        /\ \A k \in Key : base[k].active = slots[k].active
        /\ \A k \in KeptFor(rs) : k \in tracked /\ k \in Key /\ base[k] = Cleaned[k]
        /\ \A k \in Key : k \notin KeptFor(rs) => base[k] = EmptySlot
    BY <1>1, BaseFields
  <1>3. /\ permit'[ticket].resources = rs /\ permit'[ticket].probes = probes
        /\ \A u \in live : u \in Ticket /\ permit'[u] = permit[u]
    BY <1>1 DEF NewPermit, Core, TypeOK
  <1>4. ticket \in Nat /\ sequence \in Nat
    BY <1>1 DEF Ticket, Core, TypeOK
  <1> HIDE DEF base, probes
  <1>5. Tickets'
    <2>1. live' \subseteq 1..sequence'
      BY <1>1, <1>4 DEF Core, Tickets
    <2>2. ASSUME NEW k \in Key, NEW i \in Items PROVE evidence'[k][i] \subseteq 1..sequence'
      <3>1. evidence[k][i] \subseteq 1..sequence
        BY DEF Core, Tickets
      <3> QED BY <1>1, <1>4, <3>1
    <2> QED BY <2>1, <2>2 DEF Tickets
  <1>6. ProbesClaimed'
    BY <1>1, <1>3 DEF ProbesClaimed, Core, probes
  <1>7. LeasesAreHeld'
    <2> SUFFICES ASSUME NEW k \in Key, slots'[k].probe_owner # 0
                 PROVE  /\ k \in tracked'
                        /\ slots'[k].probe_owner \in live'
                        /\ k \in permit'[slots'[k].probe_owner].probes
      BY DEF LeasesAreHeld
    <2>1. k \in tracked'
      BY <1>1 DEF Untracked, EmptySlot
    <2>2. slots'[k].probe_owner = IF k \in probes THEN ticket ELSE base[k].probe_owner
      <3>1. CASE k \in keys(rs)
        BY <1>1, <1>2, <1>4, <3>1, ClaimFields DEF probes
      <3>2. CASE k \notin keys(rs)
        BY <1>1, <3>2 DEF probes
      <3> QED BY <3>1, <3>2
    <2>3. CASE k \in probes
      BY <1>1, <1>3, <2>1, <2>2, <2>3
    <2>4. CASE k \notin probes
      <3>1. k \in KeptFor(rs)
        BY <1>2, <2>2, <2>4 DEF EmptySlot
      <3>2. slots'[k].probe_owner = slots[k].probe_owner
        BY <1>2, <2>2, <2>4, <3>1, CleanedFields DEF Core
      <3>3. slots[k].probe_owner \in live /\ k \in permit[slots[k].probe_owner].probes
        BY <3>2 DEF Core, LeasesAreHeld
      <3> QED BY <1>1, <1>3, <2>1, <3>2, <3>3
    <2> QED BY <2>3, <2>4
  <1>8. ClaimsAreCounted'
    <2> SUFFICES ASSUME NEW k \in Key
                 PROVE  slots'[k].active =
                          Cardinality({t \in live' : k \in keys(permit'[t].resources)})
      BY DEF ClaimsAreCounted
    <2> DEFINE S == {t \in live : k \in keys(permit[t].resources)}
               N == {t \in live' : k \in keys(permit'[t].resources)}
    <2>1. IsFiniteSet(S) /\ ticket \notin S /\ slots[k].active = Cardinality(S)
      <3>1. IsFiniteSet(Ticket)
        BY FS_Interval, RecoveryAssumption DEF Ticket, RecoveryAssumption
      <3> QED BY <1>1, <3>1, FS_Subset DEF Core, TypeOK, ClaimsAreCounted
    <2>2. CASE k \in keys(rs)
      <3>1. N = S \cup {ticket}
        BY <1>1, <1>3, <2>2
      <3>2. slots'[k].active = slots[k].active + 1
        BY <1>1, <1>2, <1>4, <2>2, ClaimFields
      <3> HIDE DEF S, N
      <3>3. Cardinality(N) = Cardinality(S) + 1
        BY <2>1, <3>1, FS_AddElement
      <3> QED BY <2>1, <3>2, <3>3 DEF N
    <2>3. CASE k \notin keys(rs)
      <3>1. N = S
        BY <1>1, <1>3, <2>3
      <3> QED BY <1>1, <1>2, <2>1, <2>3, <3>1
    <2> QED BY <2>2, <2>3
  <1> QED BY <1>1, <1>5, <1>6, <1>7, <1>8 DEF Core

\* What dropping a permit does.
LEMMA DropFields ==
  ASSUME Core, NEW t \in Ticket, drop(t)
  PROVE  /\ sequence' = sequence /\ t \in live /\ live' = live \ {t}
         /\ permit'[t].resources = permit[t].resources
         /\ \A u \in Ticket : u # t => permit'[u] = permit[u]
         /\ tracked' \subseteq tracked
         /\ \A k \in tracked' :
              slots'[k] = IF k \in keys(permit[t].resources) THEN released_slot(t, k) ELSE slots[k]
         /\ \A k \in tracked : k \notin tracked' =>
              slots[k].active = IF k \in keys(permit[t].resources) THEN 1 ELSE 0
         /\ \A k \in Key : evidence'[k] = IF k \in tracked' THEN evidence[k] ELSE [i \in Items |-> {}]
         /\ Untracked'
  <1> DEFINE claimed == keys(permit[t].resources)
             s == [k \in Key |-> IF k \in claimed /\ k \in tracked THEN released_slot(t, k) ELSE slots[k]]
             K == retain_live_slots(s)
  <1>1. /\ Store(K, s, evidence) /\ t \in live /\ live' = live \ {t} /\ sequence' = sequence
        /\ permit' = [permit EXCEPT ![t] = [EmptyPermit EXCEPT !.resources = permit[t].resources]]
    BY DEF drop
  <1>2. tracked \subseteq Key /\ K \subseteq tracked /\ TypeOK
    BY DEF retain_live_slots, Core, TypeOK
  <1>3. \A k \in tracked : k \notin K => s[k].active = 0
    BY DEF retain_live_slots
  <1>4. \A k \in claimed : k \in tracked /\ slots[k].active # 0
    BY <1>1, ClaimsAreTracked
  <1>5. /\ tracked' = K
        /\ slots' = [k \in Key |-> IF k \in K THEN s[k] ELSE EmptySlot]
        /\ evidence' = [k \in Key |-> IF k \in K THEN evidence[k] ELSE [i \in Items |-> {}]]
    BY <1>1 DEF Store
  <1> HIDE DEF K
  <1>6. \A k \in tracked' : slots'[k] = IF k \in claimed THEN released_slot(t, k) ELSE slots[k]
    BY <1>2, <1>5
  <1>7. ASSUME NEW k \in tracked, k \notin tracked'
        PROVE  slots[k].active = IF k \in claimed THEN 1 ELSE 0
    <2>1. s[k].active = 0 /\ k \in Key /\ slots[k].active \in Nat
      BY <1>2, <1>3, <1>5, <1>7 DEF TypeOK, Slot
    <2>2. CASE k \in claimed
      <3>1. released_slot(t, k).active = 0
        BY <2>1, <2>2
      <3> QED BY <1>2, <1>4, <2>1, <2>2, <3>1, ReleasedSlotFields
    <2>3. CASE k \notin claimed
      BY <2>1, <2>3
    <2> QED BY <2>2, <2>3
  <1>8. permit'[t].resources = permit[t].resources /\ \A u \in Ticket : u # t => permit'[u] = permit[u]
    BY <1>1 DEF Core, TypeOK, EmptyPermit
  <1>9. Untracked'
    BY <1>5 DEF Untracked
  <1> HIDE DEF s
  <1> QED BY <1>1, <1>2, <1>5, <1>6, <1>7, <1>8, <1>9

\* Dropping a permit preserves the core.
LEMMA CoreDrop ==
  ASSUME Core, NEW t \in Ticket, drop(t), TypeOK', LoopInv'
  PROVE  Core'
  <1> DEFINE claimed == keys(permit[t].resources)
  <1>1. /\ sequence' = sequence /\ t \in live /\ live' = live \ {t}
        /\ \A u \in Ticket : u # t => permit'[u] = permit[u]
        /\ tracked' \subseteq tracked
        /\ \A k \in tracked' : slots'[k] = IF k \in claimed THEN released_slot(t, k) ELSE slots[k]
        /\ \A k \in tracked : k \notin tracked' => slots[k].active = IF k \in claimed THEN 1 ELSE 0
        /\ \A k \in Key : evidence'[k] = IF k \in tracked' THEN evidence[k] ELSE [i \in Items |-> {}]
        /\ Untracked'
    BY DropFields
  <1>2. live \subseteq Ticket /\ tracked \subseteq Key /\ TypeOK
    BY DEF Core, TypeOK
  <1>3. Tickets'
    BY <1>1 DEF Core, Tickets
  <1>4. ProbesClaimed'
    BY <1>1, <1>2 DEF Core, ProbesClaimed
  <1>5. LeasesAreHeld'
    <2> SUFFICES ASSUME NEW k \in Key, slots'[k].probe_owner # 0
                 PROVE  /\ k \in tracked'
                        /\ slots'[k].probe_owner \in live'
                        /\ k \in permit'[slots'[k].probe_owner].probes
      BY DEF LeasesAreHeld
    <2>1. k \in tracked'
      BY <1>1 DEF Untracked, EmptySlot
    <2>2. slots[k].probe_owner # t /\ slots'[k].probe_owner = slots[k].probe_owner
      <3>1. CASE k \in claimed
        BY <1>1, <1>2, <2>1, <3>1, ReleasedSlotFields
      <3>2. CASE k \notin claimed
        <4>1. slots'[k] = slots[k]
          BY <1>1, <2>1, <3>2
        <4>2. k \notin permit[t].probes
          BY <1>1, <3>2 DEF Core, ProbesClaimed
        <4> QED BY <4>1, <4>2 DEF Core, LeasesAreHeld
      <3> QED BY <3>1, <3>2
    <2>3. slots[k].probe_owner \in live /\ k \in permit[slots[k].probe_owner].probes
      BY <2>2 DEF Core, LeasesAreHeld
    <2> QED BY <1>1, <1>2, <2>1, <2>2, <2>3
  <1>6. ClaimsAreCounted'
    <2> SUFFICES ASSUME NEW k \in Key
                 PROVE  slots'[k].active =
                          Cardinality({u \in live' : k \in keys(permit'[u].resources)})
      BY DEF ClaimsAreCounted
    <2> DEFINE S == {u \in live : k \in keys(permit[u].resources)}
               N == {u \in live' : k \in keys(permit'[u].resources)}
    <2>1. IsFiniteSet(S) /\ slots[k].active = Cardinality(S)
      <3>1. IsFiniteSet(Ticket)
        BY FS_Interval, RecoveryAssumption DEF Ticket, RecoveryAssumption
      <3> QED BY <1>2, <3>1, FS_Subset DEF Core, ClaimsAreCounted
    <2>2. slots[k].active \in Nat
      BY DEF Core, TypeOK, Slot
    <2>3. CASE k \in claimed
      <3>1. N = S \ {t} /\ t \in S
        BY <1>1, <1>2, <2>3
      <3>2. k \in tracked /\ slots[k].active # 0
        BY <1>1, <2>3, ClaimsAreTracked
      <3>3. slots'[k].active = slots[k].active - 1
        <4>1. CASE k \in tracked'
          BY <1>1, <1>2, <2>2, <2>3, <3>2, <4>1, ReleasedSlotFields
        <4>2. CASE k \notin tracked'
          BY <1>1, <2>3, <3>2, <4>2 DEF Untracked, EmptySlot
        <4> QED BY <4>1, <4>2
      <3> HIDE DEF S, N
      <3>4. Cardinality(N) = Cardinality(S) - 1
        BY <2>1, <3>1, FS_RemoveElement
      <3> QED BY <2>1, <3>3, <3>4 DEF N
    <2>4. CASE k \notin claimed
      <3>1. N = S
        BY <1>1, <1>2, <2>4
      <3>2. slots'[k].active = slots[k].active
        <4>1. CASE k \in tracked'
          BY <1>1, <2>4, <4>1
        <4>2. CASE k \in tracked /\ k \notin tracked'
          BY <1>1, <2>4, <4>2 DEF Untracked, EmptySlot
        <4>3. CASE k \notin tracked
          BY <1>1, <4>3 DEF Core, Untracked, EmptySlot
        <4> QED BY <4>1, <4>2, <4>3
      <3> QED BY <2>1, <3>1, <3>2
    <2> QED BY <2>3, <2>4
  <1> QED BY <1>1, <1>3, <1>4, <1>5, <1>6 DEF Core

-----------------------------------------------------------------------------
(* The core is an invariant.                                               *)

\* Initially nothing is held and nothing is known.
LEMMA CoreInit == Init => Core
  <1> SUFFICES ASSUME Init PROVE Core
    OBVIOUS
  <1>1. TypeOK /\ LoopInv
    BY TypeInit
  <1>2. /\ live = {} /\ sequence = 0 /\ tracked = {}
        /\ slots = [k \in Key |-> EmptySlot] /\ evidence = [k \in Key |-> [i \in Items |-> {}]]
    BY DEF Init
  <1>3. Tickets /\ Untracked /\ ProbesClaimed /\ LeasesAreHeld
    BY <1>2 DEF Tickets, Untracked, ProbesClaimed, LeasesAreHeld, EmptySlot
  <1>4. ClaimsAreCounted
    <2> SUFFICES ASSUME NEW k \in Key
                 PROVE  slots[k].active = Cardinality({t \in live : k \in keys(permit[t].resources)})
      BY DEF ClaimsAreCounted
    <2>1. {t \in live : k \in keys(permit[t].resources)} = {}
      BY <1>2
    <2> QED BY <1>2, <2>1, FS_EmptySet DEF EmptySlot
  <1> QED BY <1>1, <1>3, <1>4 DEF Core

\* Every step preserves the core.
LEMMA CoreNext == Core /\ [Next]_vars => Core'
  <1> SUFFICES ASSUME Core, [Next]_vars PROVE Core'
    OBVIOUS
  <1>1. TypeOK' /\ LoopInv'
    BY TypeNext DEF Core
  <1>2. CASE Quiet
    BY <1>1, <1>2, QuietCore
  <1>3. CASE \E rs \in captured : acquire(rs)
    BY <1>1, <1>3, CoreAcquire
  <1>4. CASE \E t \in Ticket : drop(t)
    BY <1>1, <1>4, CoreDrop
  <1> QED BY <1>2, <1>3, <1>4, QuietNext

\* The core is an invariant.
LEMMA CoreInvariant == Spec => []Core
  BY CoreInit, CoreNext, PTL DEF Spec

\* No probe lease outlives the permit that claimed it, whatever cleanups, resets,
\* rule changes or generation changes happen meanwhile.
THEOREM NoOrphanedLease == Spec => []LeasesAreHeld
  <1>1. Core => LeasesAreHeld
    BY DEF Core
  <1> QED BY <1>1, CoreInvariant, PTL

\* The claim counter of every slot is the number of live permits that claimed it,
\* so saturating_sub in Drop never saturates and no claimed slot is forgotten.
THEOREM ClaimAccounting == Spec => []ClaimsAreCounted
  <1>1. Core => ClaimsAreCounted
    BY DEF Core
  <1> QED BY <1>1, CoreInvariant, PTL
=============================================================================
