------------------------- MODULE RecoveryEpisodeProofs -------------------------
(***************************************************************************)
(* What the recovery runtime forgets, what it must not forget, and which   *)
(* episode a probe is about.  All of it rests on Core, the invariant of    *)
(* who holds what, and on the steps that are Quiet.                        *)
(*                                                                         *)
(*   Resets      an operator reset forgets everything learned before it.   *)
(*   Limit       the table never outgrows MAX_TRACKED_RESOURCES.           *)
(*   Preview     inspect_admission admits exactly what acquire admits.     *)
(*   Episodes    what a probe may confirm and what a late reply may        *)
(*               recreate.                                                 *)
(***************************************************************************)
EXTENDS RecoverySafetyProofs

-----------------------------------------------------------------------------
(* Resets: Spec => []ResetForgetsOldReplies.                               *)
(*                                                                         *)
(* The property is not inductive: a reply still on its way could bring the *)
(* forgotten evidence back.  What stops it is the fence of the slot, and   *)
(* the fence is there because a slot under a claim is never forgotten and  *)
(* lists every owner of every permit that claimed it, so that a reset of   *)
(* any of them reaches it.                                                 *)

\* A slot lists the owners of every permit that claims it or left evidence in it.
OwnersListed ==
  /\ \A t \in live : \A k \in keys(permit[t].resources) :
       owners(permit[t].resources, k) \subseteq slots[k].owners
  /\ \A k \in Key : \A i \in Items : \A t \in evidence[k][i] :
       owners(permit[t].resources, k) \subseteq slots[k].owners

\* A permit granted before a reset of one of its owners is behind the fence.
ResetsFenced ==
  /\ \A a \in Accounts : last_reset[a] <= sequence
  /\ \A t \in live : \A k \in keys(permit[t].resources) : k.kind # "FreeEgress" =>
       \A a \in owners(permit[t].resources, k) : last_reset[a] >= t => slots[k].fence > t

ResetInv == Core /\ OwnersListed /\ ResetsFenced /\ ResetForgetsOldReplies

\* Claims are tracked, as a predicate of one state.
ClaimsTracked ==
  \A t \in live : \A k \in keys(permit[t].resources) :
    k \in tracked /\ k \in Key /\ slots[k].active # 0

\* The core implies that claims are tracked.
LEMMA CoreTracks == Core => ClaimsTracked
  BY ClaimsAreTracked DEF ClaimsTracked

\* The same fact of the next state.
LEMMA CoreTracksNext == Core' => ClaimsTracked'
  BY CoreTracks, PTL

\* A quiet step keeps the slots under claims.
LEMMA QuietClaims ==
  ASSUME Core, Quiet, NEW t \in live, NEW k \in keys(permit[t].resources)
  PROVE  k \in Key /\ k \in tracked' /\ SlotKept(k)
  <1>1. k \in Key /\ k \in tracked /\ slots[k].active # 0
    BY CoreTracks DEF ClaimsTracked
  <1> QED BY <1>1 DEF Quiet

\* A quiet step keeps the owners listed.
LEMMA QuietOwners ==
  ASSUME Core, OwnersListed, Quiet
  PROVE  OwnersListed'
  <1>0. live \subseteq Ticket /\ evidence \in [Key -> [Items -> SUBSET Ticket]]
    BY DEF Core, TypeOK
  <1>1. ASSUME NEW t \in live', NEW k \in keys(permit'[t].resources)
        PROVE  owners(permit'[t].resources, k) \subseteq slots'[k].owners
    <2>1. t \in live /\ permit'[t].resources = permit[t].resources
      BY <1>0 DEF Quiet, PermitKept
    <2>2. SlotKept(k)
      BY <2>1, QuietClaims
    <2> QED BY <2>1, <2>2 DEF OwnersListed, SlotKept
  <1>2. ASSUME NEW k \in Key, NEW i \in Items, NEW t \in evidence'[k][i]
        PROVE  owners(permit'[t].resources, k) \subseteq slots'[k].owners
    <2>1. k \in tracked'
      BY DEF Quiet, Untracked
    <2>2. slots'[k].owners = slots[k].owners
      BY <2>1 DEF Quiet, SlotKept
    <2>3. t \in evidence[k][i] \/ (t \in live /\ k \in keys(permit[t].resources))
      BY DEF Quiet, Heard
    <2>4. owners(permit[t].resources, k) \subseteq slots[k].owners
      BY <2>3 DEF OwnersListed
    <2>5. t \in Ticket
      BY <1>0, <2>3
    <2>6. permit'[t].resources = permit[t].resources
      BY <2>5 DEF Quiet, PermitKept
    <2> QED BY <2>2, <2>4, <2>6
  <1> QED BY <1>1, <1>2 DEF OwnersListed

\* A quiet step that resets nobody preserves the invariant.
LEMMA ResetQuiet ==
  ASSUME ResetInv, Quiet, Core', last_reset' = last_reset
  PROVE  ResetInv'
  <1>0. /\ live \subseteq Ticket /\ evidence \in [Key -> [Items -> SUBSET Ticket]]
        /\ last_reset \in [Accounts -> Nat] /\ Core /\ sequence' = sequence
        /\ permit \in [Ticket -> Permit]
    BY DEF ResetInv, Core, TypeOK, Quiet
  <1>1. OwnersListed'
    BY QuietOwners DEF ResetInv
  <1>2. ASSUME NEW t \in live', NEW k \in keys(permit'[t].resources), k.kind # "FreeEgress",
               NEW a \in owners(permit'[t].resources, k), last_reset'[a] >= t
        PROVE  slots'[k].fence > t
    <2>1. t \in live /\ t \in Ticket /\ permit'[t].resources = permit[t].resources
      BY <1>0 DEF Quiet, PermitKept
    <2>2. k \in Key /\ SlotKept(k)
      BY <1>0, <2>1, QuietClaims
    <2>3. slots[k].fence > t
      BY <1>2, <2>1 DEF ResetInv, ResetsFenced
    <2>4. slots[k].fence \in Nat /\ slots'[k].fence \in Nat /\ t \in Nat
      BY <2>1, <2>2, SMTT(30) DEF ResetInv, Core, TypeOK, Slot, Ticket
    <2> QED BY <2>2, <2>3, <2>4 DEF SlotKept
  <1>3. ResetsFenced'
    BY <1>0, <1>2 DEF ResetsFenced, ResetInv
  <1>4. ASSUME NEW k \in Key, NEW i \in Items, NEW t \in evidence'[k][i], k.kind # "FreeEgress",
               NEW a \in owners(permit'[t].resources, k)
        PROVE  last_reset'[a] < t
    <2>1. t \in evidence[k][i] \/ Heard(k, i, t)
      BY DEF Quiet
    <2>2. t \in Ticket
      BY <1>0, <2>1 DEF Heard
    <2>a. t \in Nat
      BY <2>2 DEF Ticket
    <2>3. permit'[t].resources = permit[t].resources /\ permit[t].resources \in ResourceSets
      BY <1>0, <2>2 DEF Quiet, PermitKept, Permit
    <2>4. a \in Accounts /\ last_reset[a] \in Nat
      BY <1>0, <2>3, OwnersAreAccounts
    <2>5. CASE t \in evidence[k][i]
      BY <1>4, <2>3, <2>5 DEF ResetInv, ResetForgetsOldReplies
    <2>6. CASE Heard(k, i, t)
      <3>1. t \in live /\ k \in keys(permit[t].resources) /\ t >= slots[k].fence
            /\ slots[k].fence \in Nat
        BY <1>0, <2>6 DEF Heard, Core, TypeOK, Slot
      <3>2. last_reset[a] >= t => slots[k].fence > t
        BY <1>4, <2>3, <3>1 DEF ResetInv, ResetsFenced
      <3> QED BY <2>a, <2>4, <3>1, <3>2
    <2> QED BY <2>1, <2>5, <2>6
  <1>5. ResetForgetsOldReplies'
    BY <1>4 DEF ResetForgetsOldReplies
  <1> QED BY <1>1, <1>3, <1>5 DEF ResetInv

\* What a reset of a does to the fences and the evidence of a's slots.
LEMMA ResetFences ==
  ASSUME Core, Core', NEW a \in Accounts, reset_account(a), NEW k \in tracked, k.kind # "FreeEgress",
         a \in slots[k].owners
  PROVE  /\ k \in tracked' => slots'[k].fence > sequence
         /\ \A i \in Items : evidence'[k][i] = {}
  <1> DEFINE cleared == {m \in tracked : m.kind # "FreeEgress" /\ a \in slots[m].owners}
             s == [m \in Key |-> IF m \in cleared THEN clear(slots[m], sequence + 1) ELSE slots[m]]
             ev == [m \in Key |-> IF m \in cleared THEN [i \in Items |-> {}] ELSE evidence[m]]
             K == retain_live_slots(s)
  <1>1. k \in Key /\ k \in cleared /\ slots[k] \in Slot /\ sequence + 1 \in Nat /\ sequence \in Nat
    BY DEF Core, TypeOK
  <1>2. Store(K, s, ev)
    BY DEF reset_account
  <1>3. /\ tracked' = K
        /\ slots' = [m \in Key |-> IF m \in K THEN s[m] ELSE EmptySlot]
        /\ evidence' = [m \in Key |-> IF m \in K THEN ev[m] ELSE [i \in Items |-> {}]]
    BY <1>2 DEF Store
  <1>4. s[k] = clear(slots[k], sequence + 1) /\ ev[k] = [i \in Items |-> {}]
    BY <1>1
  <1> HIDE DEF K, s, ev, cleared
  <1>5. \A i \in Items : evidence'[k][i] = {}
    BY <1>1, <1>3, <1>4
  <1>6. clear(slots[k], sequence + 1).fence >= sequence + 1
    BY <1>1, ClearFields
  <1>7. ASSUME k \in tracked' PROVE slots'[k].fence > sequence
    <2>1. slots'[k].fence >= sequence + 1 /\ slots'[k].fence \in Nat
      BY <1>1, <1>3, <1>4, <1>6, <1>7 DEF Core, TypeOK, Slot
    <2> QED BY <1>1, <2>1
  <1> QED BY <1>5, <1>7

\* A reset preserves the invariant.
LEMMA ResetReset ==
  ASSUME ResetInv, NEW a \in Accounts, reset_account(a), Core'
  PROVE  ResetInv'
  <1>0. /\ live \subseteq Ticket /\ evidence \in [Key -> [Items -> SUBSET Ticket]]
        /\ last_reset \in [Accounts -> Nat] /\ Core /\ sequence' = sequence /\ sequence \in Nat
        /\ permit \in [Ticket -> Permit] /\ permit' = permit /\ live' = live
        /\ last_reset' = [last_reset EXCEPT ![a] = sequence]
    BY DEF ResetInv, Core, TypeOK, reset_account
  <1>q. Quiet
    BY <1>0, QuietReset
  <1>1. OwnersListed'
    BY <1>q, QuietOwners DEF ResetInv
  <1>2. ASSUME NEW t \in live, NEW k \in keys(permit[t].resources), k.kind # "FreeEgress",
               NEW b \in owners(permit[t].resources, k), last_reset'[b] >= t
        PROVE  slots'[k].fence > t
    <2>1. k \in Key /\ k \in tracked /\ k \in tracked' /\ SlotKept(k)
      BY <1>0, <1>q, QuietClaims, CoreTracks DEF ClaimsTracked
    <2>2. t \in 1..sequence /\ t \in Ticket
      BY <1>0 DEF Core, Tickets
    <2>3. slots[k].fence \in Nat /\ slots'[k].fence \in Nat /\ t \in Nat
      BY <2>1, <2>2 DEF ResetInv, Core, TypeOK, Slot
    <2>4. b \in slots[k].owners
      BY DEF ResetInv, OwnersListed
    <2>5. CASE b = a
      <3>1. slots'[k].fence > sequence
        BY <1>0, <1>2, <2>1, <2>4, <2>5, ResetFences
      <3> QED BY <1>0, <2>2, <2>3, <3>1
    <2>6. CASE b # a
      <3>1. permit[t].resources \in ResourceSets
        BY <1>0, <2>2 DEF Permit
      <3>2. b \in Accounts
        BY <2>1, <3>1, OwnersAreAccounts
      <3>3. last_reset[b] >= t
        BY <1>0, <1>2, <2>6, <3>2
      <3>4. slots[k].fence > t
        BY <1>2, <3>3 DEF ResetInv, ResetsFenced
      <3> QED BY <2>1, <2>3, <3>4 DEF SlotKept
    <2> QED BY <2>5, <2>6
  <1>3. \A b \in Accounts : last_reset'[b] <= sequence'
    BY <1>0 DEF ResetInv, ResetsFenced
  <1>4. ResetsFenced'
    BY <1>0, <1>2, <1>3 DEF ResetsFenced
  <1>5. ASSUME NEW k \in Key, NEW i \in Items, NEW t \in evidence'[k][i], k.kind # "FreeEgress",
               NEW b \in owners(permit[t].resources, k)
        PROVE  last_reset'[b] < t
    <2>1. k \in tracked'
      BY <1>q DEF Quiet, Untracked
    <2>2. k \in tracked
      BY <1>q, <2>1 DEF Quiet
    <2>3. t \in evidence[k][i] /\ t \in Ticket
      BY <1>0, <1>5, <2>1 DEF reset_account, Store
    <2>4. permit[t].resources \in ResourceSets
      BY <1>0, <2>3 DEF Permit
    <2>5. b \in slots[k].owners
      BY <2>3 DEF ResetInv, OwnersListed
    <2>6. b # a
      BY <1>0, <1>5, <2>2, <2>5, ResetFences
    <2>7. b \in Accounts
      BY <2>4, OwnersAreAccounts
    <2> QED BY <1>0, <1>5, <2>3, <2>6, <2>7 DEF ResetInv, ResetForgetsOldReplies
  <1>6. ResetForgetsOldReplies'
    BY <1>0, <1>5 DEF ResetForgetsOldReplies
  <1> QED BY <1>1, <1>4, <1>6 DEF ResetInv

\* A granted acquire preserves the invariant: its ticket is later than every reset.
LEMMA ResetAcquire ==
  ASSUME ResetInv, NEW rs \in captured, acquire(rs), Core'
  PROVE  ResetInv'
  <1> DEFINE ticket == sequence + 1
             base == Base(rs)
  <1>0. /\ live \subseteq Ticket /\ evidence \in [Key -> [Items -> SUBSET Ticket]]
        /\ last_reset \in [Accounts -> Nat] /\ Core /\ sequence \in Nat /\ ticket \in Nat
        /\ permit \in [Ticket -> Permit] /\ last_reset' = last_reset
        /\ live \subseteq 1..sequence
        /\ \A k \in Key : \A i \in Items : evidence[k][i] \subseteq 1..sequence
    BY DEF ResetInv, Core, TypeOK, Tickets, acquire
  <1>1. /\ rs \in ResourceSets /\ keys(rs) \subseteq Key
        /\ sequence' = ticket /\ ticket \in Ticket
        /\ live' = live \cup {ticket}
        /\ permit' = [permit EXCEPT ![ticket] = NewPermit(rs, base)]
        /\ \A k \in Key : slots'[k] = IF k \in keys(rs) THEN claim(rs, k, base[k], ticket) ELSE base[k]
        /\ \A k \in Key :
             evidence'[k] = IF k \in KeptFor(rs) THEN evidence[k] ELSE [i \in Items |-> {}]
    BY <1>0, AcquireFields
  <1>2. /\ base \in [Key -> Slot]
        /\ \A k \in KeptFor(rs) : k \in tracked /\ k \in Key /\ base[k] = Cleaned[k]
        /\ \A k \in Key : k \notin KeptFor(rs) => slots[k].active = 0
    BY <1>0, <1>1, BaseFields
  <1>3. permit'[ticket].resources = rs /\ \A u \in Ticket : u # ticket => permit'[u] = permit[u]
    BY <1>0, <1>1 DEF NewPermit
  <1> HIDE DEF base
  <1>4. ASSUME NEW k \in KeptFor(rs)
        PROVE  k \in Key /\ slots[k].owners \subseteq slots'[k].owners /\ slots'[k].fence = slots[k].fence
    <2>1. k \in Key /\ base[k] = Cleaned[k] /\ base[k] \in Slot
      BY <1>2
    <2>2. base[k].owners = slots[k].owners /\ base[k].fence = slots[k].fence
      BY <1>0, <2>1, CleanedFields DEF Core
    <2>3. CASE k \in keys(rs)
      BY <1>0, <1>1, <2>1, <2>2, <2>3, ClaimFields
    <2>4. CASE k \notin keys(rs)
      BY <1>1, <2>1, <2>2, <2>4
    <2> QED BY <2>1, <2>3, <2>4
  <1>5. ASSUME NEW t \in live, NEW k \in keys(permit[t].resources)
        PROVE  k \in KeptFor(rs)
    BY <1>0, <1>2, CoreTracks DEF ClaimsTracked
  <1>6. ASSUME NEW k \in keys(rs) PROVE owners(rs, k) \subseteq slots'[k].owners
    BY <1>0, <1>1, <1>2, ClaimFields
  <1>7. OwnersListed'
    <2>1. ASSUME NEW t \in live', NEW k \in keys(permit'[t].resources)
          PROVE  owners(permit'[t].resources, k) \subseteq slots'[k].owners
      <3>1. CASE t = ticket
        BY <1>3, <1>6, <3>1
      <3>2. CASE t # ticket
        <4>1. t \in live /\ permit'[t] = permit[t]
          BY <1>0, <1>1, <1>3, <3>2
        <4> QED BY <1>4, <1>5, <4>1 DEF ResetInv, OwnersListed
      <3> QED BY <3>1, <3>2
    <2>2. ASSUME NEW k \in Key, NEW i \in Items, NEW t \in evidence'[k][i]
          PROVE  owners(permit'[t].resources, k) \subseteq slots'[k].owners
      <3>1. k \in KeptFor(rs) /\ t \in evidence[k][i]
        BY <1>1
      <3>2. t \in 1..sequence /\ t \in Ticket
        BY <1>0, <3>1
      <3>3. permit'[t] = permit[t]
        BY <1>0, <1>3, <3>2
      <3> QED BY <1>4, <3>1, <3>3 DEF ResetInv, OwnersListed
    <2> QED BY <2>1, <2>2 DEF OwnersListed
  <1>8. ResetsFenced'
    <2>1. \A a \in Accounts : last_reset'[a] <= sequence'
      BY <1>0, <1>1 DEF ResetInv, ResetsFenced
    <2>2. ASSUME NEW t \in live', NEW k \in keys(permit'[t].resources), k.kind # "FreeEgress",
                 NEW a \in owners(permit'[t].resources, k), last_reset'[a] >= t
          PROVE  slots'[k].fence > t
      <3>1. CASE t = ticket
        <4>1. k \in Key /\ a \in Accounts
          BY <1>1, <1>3, <3>1, OwnersAreAccounts
        <4>2. last_reset[a] <= sequence /\ last_reset[a] \in Nat
          BY <1>0, <4>1 DEF ResetInv, ResetsFenced
        <4> QED BY <1>0, <2>2, <3>1, <4>2
      <3>2. CASE t # ticket
        <4>1. t \in live /\ permit'[t] = permit[t]
          BY <1>0, <1>1, <1>3, <3>2
        <4>2. slots[k].fence > t
          BY <1>0, <2>2, <4>1 DEF ResetInv, ResetsFenced
        <4> QED BY <1>4, <1>5, <4>1, <4>2
      <3> QED BY <3>1, <3>2
    <2> QED BY <2>1, <2>2 DEF ResetsFenced
  <1>9. ResetForgetsOldReplies'
    <2> SUFFICES ASSUME NEW k \in Key, NEW i \in Items, NEW t \in evidence'[k][i],
                        k.kind # "FreeEgress", NEW a \in owners(permit'[t].resources, k)
                 PROVE  last_reset'[a] < t
      BY DEF ResetForgetsOldReplies
    <2>1. t \in evidence[k][i]
      BY <1>1
    <2>2. t \in 1..sequence /\ t \in Ticket
      BY <1>0, <2>1
    <2>3. permit'[t] = permit[t]
      BY <1>0, <1>3, <2>2
    <2> QED BY <1>0, <2>1, <2>3 DEF ResetInv, ResetForgetsOldReplies
  <1> QED BY <1>7, <1>8, <1>9 DEF ResetInv

\* Dropping a permit preserves the invariant.
LEMMA ResetDrop ==
  ASSUME ResetInv, NEW t \in Ticket, drop(t), Core'
  PROVE  ResetInv'
  <1>0. /\ live \subseteq Ticket /\ evidence \in [Key -> [Items -> SUBSET Ticket]]
        /\ Core /\ TypeOK /\ tracked \subseteq Key /\ last_reset' = last_reset
    BY DEF ResetInv, Core, TypeOK, drop
  <1>1. /\ sequence' = sequence /\ t \in live /\ live' = live \ {t}
        /\ \A u \in Ticket : permit'[u].resources = permit[u].resources
        /\ tracked' \subseteq tracked
        /\ \A k \in tracked' :
             slots'[k] = IF k \in keys(permit[t].resources) THEN released_slot(t, k) ELSE slots[k]
        /\ \A k \in Key : evidence'[k] = IF k \in tracked' THEN evidence[k] ELSE [i \in Items |-> {}]
    BY <1>0, DropFields
  <1>2. \A k \in tracked' : slots'[k].owners = slots[k].owners /\ slots'[k].fence = slots[k].fence
    BY <1>0, <1>1, ReleasedSlotFields
  <1>3. ASSUME NEW u \in live', NEW k \in keys(permit'[u].resources)
        PROVE  /\ u \in live /\ permit'[u].resources = permit[u].resources
               /\ k \in tracked' /\ k \in Key
    BY <1>0, <1>1, CoreTracksNext DEF ClaimsTracked
  <1>4. ASSUME NEW k \in Key, NEW i \in Items, NEW u \in evidence'[k][i]
        PROVE  k \in tracked' /\ u \in evidence[k][i] /\ permit'[u].resources = permit[u].resources
    BY <1>0, <1>1
  <1>5. OwnersListed'
    BY <1>2, <1>3, <1>4 DEF ResetInv, OwnersListed
  <1>6. ResetsFenced'
    BY <1>0, <1>1, <1>2, <1>3 DEF ResetInv, ResetsFenced
  <1>7. ResetForgetsOldReplies'
    BY <1>0, <1>4 DEF ResetInv, ResetForgetsOldReplies
  <1> QED BY <1>5, <1>6, <1>7 DEF ResetInv

\* Only a reset moves last_reset.
LEMMA OnlyResetResets ==
  ASSUME TypeOK, [Next]_vars
  PROVE  last_reset' = last_reset \/ \E a \in Accounts : reset_account(a)
  <1>1. ASSUME NEW t \in Ticket, Reply(t) PROVE last_reset' = last_reset
    <2>1. CASE \E header \in RetryAfters :
                 \/ temporary_429(t, header)
                 \/ \E delay \in PlanResets : plan_window(t, header, delay)
                 \/ observe_openrouter_free_rejection(t, header)
                 \/ observe_free_rejection(t, header)
      BY <2>1, RepliesObserve DEF Observes, Replies
    <2> QED BY <1>1, <2>1 DEF Reply, observe_local_policy, confirm_success, history
  <1> QED BY <1>1 DEF Next, acquire, acquire_refused, drop, PolicyLoop, check_decision,
          observe_policy, observe_policy_retry, Operator, install_snapshot, clear_restriction,
          Reconfigure, Tick, vars, history

\* Every step preserves the invariant.
LEMMA ResetNext == ResetInv /\ [Next]_vars => ResetInv'
  <1> SUFFICES ASSUME ResetInv, [Next]_vars PROVE ResetInv'
    OBVIOUS
  <1>1. Core /\ TypeOK /\ Core'
    BY CoreNext DEF ResetInv, Core
  <1>2. CASE \E a \in Accounts : reset_account(a)
    BY <1>1, <1>2, ResetReset
  <1>3. CASE \E rs \in captured : acquire(rs)
    BY <1>1, <1>3, ResetAcquire
  <1>4. CASE \E t \in Ticket : drop(t)
    BY <1>1, <1>4, ResetDrop
  <1>5. CASE Quiet /\ last_reset' = last_reset
    BY <1>1, <1>5, ResetQuiet
  <1> QED BY <1>1, <1>2, <1>3, <1>4, <1>5, QuietNext, OnlyResetResets

\* Initially nobody was reset and nothing is known.
LEMMA ResetInit == Init => ResetInv
  <1> SUFFICES ASSUME Init PROVE ResetInv
    OBVIOUS
  <1>1. live = {} /\ sequence = 0 /\ last_reset = [a \in Accounts |-> 0]
        /\ evidence = [k \in Key |-> [i \in Items |-> {}]]
    BY DEF Init
  <1> QED BY <1>1, CoreInit DEF ResetInv, OwnersListed, ResetsFenced, ResetForgetsOldReplies

\* After an operator reset of an account, nothing its resources show comes from a
\* request admitted before the reset, whatever replies arrive late.
THEOREM ResetIsFinal == Spec => []ResetForgetsOldReplies
  <1>1. ResetInv => ResetForgetsOldReplies
    BY DEF ResetInv
  <1> QED BY <1>1, ResetInit, ResetNext, PTL DEF Spec

-----------------------------------------------------------------------------
(* The table's limit.                                                      *)

\* No step but a granted acquire tracks a new key.
LEMMA TrackedShrinks ==
  ASSUME Core, [Next]_vars
  PROVE  tracked' \subseteq tracked \/ \E rs \in captured : acquire(rs)
  <1>1. CASE Quiet
    BY <1>1 DEF Quiet
  <1>2. CASE \E t \in Ticket : drop(t)
    BY <1>2, DropFields
  <1> QED BY <1>1, <1>2, QuietNext

\* MAX_TRACKED_RESOURCES is never exceeded: an acquire counts the slots it will
\* create before it creates them, and nothing else creates one.
THEOREM TableIsBounded == Spec => []CapacityHolds
  <1>1. Init => CapacityHolds
    BY FS_EmptySet, RecoveryAssumption DEF Init, CapacityHolds
  <1>2. Core /\ CapacityHolds /\ [Next]_vars => CapacityHolds'
    <2> SUFFICES ASSUME Core, CapacityHolds, [Next]_vars PROVE CapacityHolds'
      OBVIOUS
    <2>1. IsFiniteSet(tracked)
      BY FS_Subset, RecoveryAssumption DEF Core, TypeOK
    <2>2. CASE tracked' \subseteq tracked
      <3>1. Cardinality(tracked') <= Cardinality(tracked) /\ IsFiniteSet(tracked')
        BY <2>1, <2>2, FS_Subset
      <3>2. Cardinality(tracked') \in Nat /\ Cardinality(tracked) \in Nat /\ MaxTracked \in Nat
        BY <2>1, <3>1, FS_CardinalityType, RecoveryAssumption
      <3> QED BY <3>1, <3>2 DEF CapacityHolds
    <2>3. ASSUME NEW rs \in captured, acquire(rs) PROVE CapacityHolds'
      <3>1. tracked' = KeptFor(rs) \cup keys(rs)
        BY <2>3, AcquireFields
      <3> QED BY <2>3, <3>1 DEF acquire, Admissible, fits, CapacityHolds
    <2> QED BY <2>2, <2>3, TrackedShrinks
  <1> QED BY <1>1, <1>2, CoreInvariant, PTL DEF Spec

-----------------------------------------------------------------------------
(* The read-only preview.                                                  *)

\* The cleanup changes neither what a slot refuses nor whether it is kept.
LEMMA CleaningIsInvisible ==
  ASSUME TypeOK, NEW k \in Key, NEW rs
  PROVE  /\ blocks(k, Cleaned[k]) <=> blocks(k, slots[k])
         /\ slot_kept_after_cleanup(k, Cleaned[k], rs) <=> slot_kept_after_cleanup(k, slots[k], rs)
  <1> DEFINE c == Cleaned[k]
             s == slots[k]
  <1>1. /\ c.active = s.active /\ c.owners = s.owners /\ c.probe_owner = s.probe_owner
        /\ c.policy = s.policy /\ c.owner_generation = s.owner_generation
        /\ c.awaiting_recovery = s.awaiting_recovery /\ c.next_probe = s.next_probe
        /\ deadline_is_live(c.upstream_not_before) <=> deadline_is_live(s.upstream_not_before)
    <2>1. ~deadline_is_live(None)
      BY DEF TypeOK, deadline_is_live, None
    <2> QED BY <2>1, CleanedFields
  <1> HIDE DEF c, s
  <1>2. projected_restricted(c) <=> projected_restricted(s)
    BY <1>1 DEF projected_restricted, has_row
  <1>3. blocks(k, c) <=> blocks(k, s)
    BY <1>1 DEF blocks
  <1>4. slot_kept_after_cleanup(k, c, rs) <=> slot_kept_after_cleanup(k, s, rs)
    BY <1>1, <1>2 DEF slot_kept_after_cleanup
  <1> QED BY <1>3, <1>4 DEF c, s

\* The executor's preview (inspect_admission) and acquire answer alike in every
\* reachable state, although the preview cleans nothing up and counts the slots
\* it would add one by one.
THEOREM PreviewIsExact == Spec => []PreviewAgreesWithAcquire
  <1>1. TypeOK => PreviewAgreesWithAcquire
    <2> SUFFICES ASSUME TypeOK, NEW rs \in captured
                 PROVE  inspect_admission(rs) <=> Admissible(rs)
      BY DEF PreviewAgreesWithAcquire
    <2> DEFINE kept == {k \in tracked : slot_kept_after_cleanup(k, slots[k], rs)}
    <2>1. tracked \subseteq Key /\ rs \in ResourceSets /\ keys(rs) \subseteq Key
      BY KeysAreKeys DEF TypeOK
    <2>2. kept = KeptFor(rs)
      BY <2>1, CleaningIsInvisible DEF KeptFor
    <2>3. \A k \in keys(rs) \cap kept : blocks(k, slots[k]) <=> blocks(k, Cleaned[k])
      BY <2>1, CleaningIsInvisible
    <2>4. IsFiniteSet(kept) /\ IsFiniteSet(keys(rs))
      <3>1. kept \subseteq Key
        BY <2>1
      <3> HIDE DEF kept
      <3> QED BY <2>1, <3>1, FS_Subset, RecoveryAssumption
    <2> HIDE DEF kept
    <2>5. Cardinality(kept \cup keys(rs)) = Cardinality(kept) + Cardinality(keys(rs) \ kept)
      <3>1. Cardinality(keys(rs) \ kept) = Cardinality(keys(rs)) - Cardinality(keys(rs) \cap kept)
        BY <2>4, FS_Difference
      <3>2. Cardinality(kept \cup keys(rs))
              = Cardinality(kept) + Cardinality(keys(rs)) - Cardinality(kept \cap keys(rs))
        BY <2>4, FS_Union
      <3>3. kept \cap keys(rs) = keys(rs) \cap kept /\ IsFiniteSet(keys(rs) \cap kept)
        BY <2>4, FS_Subset
      <3>4. Cardinality(kept) \in Nat /\ Cardinality(keys(rs)) \in Nat
            /\ Cardinality(keys(rs) \cap kept) \in Nat
        BY <2>4, <3>3, FS_CardinalityType
      <3> QED BY <3>1, <3>2, <3>3, <3>4
    <2>6. inspect_admission(rs) <=>
            /\ \A k \in keys(rs) \cap kept : enforces(rs, k) => ~blocks(k, slots[k])
            /\ Cardinality(kept) + Cardinality(keys(rs) \ kept) <= MaxTracked
      BY DEF inspect_admission, kept
    <2> QED BY <2>2, <2>3, <2>5, <2>6 DEF Admissible, fits
  <1> QED BY <1>1, TypeCorrect, PTL

-----------------------------------------------------------------------------
(* Episodes: what a probe was granted for, and what has happened to it.    *)
(*                                                                         *)
(* A restriction of a pooled resource is told from an earlier one by the   *)
(* revision of its slot, a policy restriction by the opaque id and the     *)
(* revision of its row.  A permit remembers those of the slots it probes.  *)
(* The invariant says that they only move forward, that an id is never     *)
(* used again, and that a probe that lost its lease lost it together with  *)
(* the episode it was granted for.                                         *)

\* Rows are kept at policy keys only, under ids that were issued.
RowsIssued ==
  \A k \in Key : \A x \in Sources :
    /\ slots[k].policy[x].opaque_id <= restriction_seq
    /\ ~has_row(slots[k], x) => slots[k].policy[x] = NoRow
    /\ ~is_policy(k) => slots[k].policy[x] = NoRow /\ revoked[k][x] = 0

\* The episode that permit p probes at k is over in slot s.
Over(k, p, s) ==
  /\ ~is_policy(k) => s.revision > p.revision[k]
  /\ is_policy(k) => \A x \in Sources : p.leased[k][x].opaque_id # 0 =>
       s.policy[x].opaque_id # p.leased[k][x].opaque_id

\* What permit p with ticket t, which probes k, knows of the slot s of k; ids were
\* issued up to top.
Follows(t, k, p, s, top) ==
  /\ s.probe_owner = t \/ Over(k, p, s)
  /\ s.revision >= p.revision[k]
  /\ ~is_policy(k) /\ s.revision = p.revision[k] => s.upstream_not_before = None
  /\ ~is_policy(k) /\ <<k, Upstream>> \in p.later => s.revision > p.revision[k]
  /\ \A x \in Sources :
       /\ p.leased[k][x].opaque_id <= top
       /\ ~is_policy(k) => p.leased[k][x].opaque_id = 0
       /\ p.leased[k][x].opaque_id = 0 => p.leased[k][x].revision = 0
       /\ s.policy[x].opaque_id = p.leased[k][x].opaque_id => s.policy[x].revision >= p.leased[k][x].revision
       /\ <<k, x>> \in p.later =>
            \/ s.policy[x] = NoRow
            \/ s.policy[x].opaque_id # p.leased[k][x].opaque_id
            \/ s.policy[x].revision > p.leased[k][x].revision

ProbesFollow ==
  \A t \in live : \A k \in permit[t].probes : Follows(t, k, permit[t], slots[k], restriction_seq)

\* Two permits that probe the same key lease different policy episodes.
LeasesDiffer ==
  \A t, u \in live : \A k \in permit[t].probes \cap permit[u].probes : \A x \in Sources :
    t # u /\ permit[t].leased[k][x].opaque_id # 0 =>
      permit[t].leased[k][x].opaque_id # permit[u].leased[k][x].opaque_id

\* A permit granted before a source was retired at its key is behind a fence.
RetiredFenced ==
  /\ \A k \in Key : \A x \in Sources : revoked[k][x] <= sequence + 1
  /\ \A t \in live : \A k \in keys(permit[t].resources) : \A x \in Sources :
       t < revoked[k][x] => t < slots[k].fence \/ t < slots[k].retired_policy[x]

EpisodeInv ==
  /\ Core
  /\ RowsIssued /\ ProbesFollow /\ LeasesDiffer
  /\ RetiredFenced /\ RevokedSourceStaysRevoked

-----------------------------------------------------------------------------
(* How a slot moves on from s to n while the issued ids grow from top to   *)
(* newtop: forward only.                                                   *)

Evolves(k, s, n, top, newtop) ==
  /\ n.revision >= s.revision
  /\ ~is_policy(k) /\ n.revision = s.revision =>
       n.upstream_not_before \in {s.upstream_not_before, None}
  /\ \A x \in Sources :
       \/ /\ n.policy[x].opaque_id = s.policy[x].opaque_id
          /\ n.policy[x].revision >= s.policy[x].revision
          /\ s.policy[x] = NoRow => n.policy[x] = NoRow
       \/ n.policy[x] = NoRow
       \/ /\ is_policy(k) /\ s.policy[x] = NoRow
          /\ n.policy[x].opaque_id = newtop /\ newtop > top

\* The lease was given up with the episode it was for.
GaveUp(k, s, n) ==
  /\ is_policy(k) => \A x \in Sources : n.policy[x] = NoRow
  /\ ~is_policy(k) => n.revision > s.revision

\* Item i was recorded.
Bumped(i, s, n) ==
  IF i = Upstream THEN n.revision > s.revision
  ELSE n.policy[i].revision > s.policy[i].revision

\* A slot that does not move.
LEMMA StandsStill ==
  \A k : \A s \in Slot : \A top, newtop \in Nat : Evolves(k, s, s, top, newtop)
  <1> SUFFICES ASSUME NEW k, NEW s \in Slot, NEW top \in Nat, NEW newtop \in Nat
               PROVE  Evolves(k, s, s, top, newtop)
    OBVIOUS
  <1>1. s.revision \in Nat /\ \A x \in Sources : s.policy[x].revision \in Nat
    BY DEF Slot, Row
  <1> QED BY <1>1 DEF Evolves

\* A permit still knows what it probes after the slot moved on, as long as its
\* lease was given up with the episode and its notes were recorded.
LEMMA FollowsOn ==
  ASSUME NEW t, NEW k \in Key, NEW p \in Permit, NEW p2 \in Permit,
         NEW s \in Slot, NEW n \in Slot, NEW top \in Nat, NEW newtop \in Nat, newtop >= top,
         Follows(t, k, p, s, top), Evolves(k, s, n, top, newtop),
         s.probe_owner = t => n.probe_owner = t \/ GaveUp(k, s, n),
         p2.revision = p.revision, p2.leased = p.leased,
         \A i \in Items : <<k, i>> \in p2.later => <<k, i>> \in p.later \/ Bumped(i, s, n)
  PROVE  Follows(t, k, p2, n, newtop)
  <1>1. /\ s.revision \in Nat /\ n.revision \in Nat /\ p.revision[k] \in Nat
        /\ \A x \in Sources : /\ s.policy[x] \in Row /\ n.policy[x] \in Row
                              /\ p.leased[k][x].opaque_id \in Nat /\ p.leased[k][x].revision \in Nat
    BY DEF Slot, Permit, Lease
  <1>2. NoRow.opaque_id = 0 /\ NoRow.revision = 0 /\ Upstream \in Items /\ Sources \subseteq Items
        /\ Upstream \notin Sources
    BY RecoveryAssumption DEF NoRow, Items
  <1>3. ASSUME NEW x \in Sources
        PROVE  /\ s.policy[x].opaque_id \in Nat /\ s.policy[x].revision \in Nat
               /\ n.policy[x].opaque_id \in Nat /\ n.policy[x].revision \in Nat
    BY <1>1 DEF Row
  <1>4. Over(k, p, s) => Over(k, p, n)
    <2> SUFFICES ASSUME Over(k, p, s) PROVE Over(k, p, n)
      OBVIOUS
    <2>1. ~is_policy(k) => n.revision > p.revision[k]
      BY <1>1 DEF Over, Evolves
    <2>2. ASSUME is_policy(k), NEW x \in Sources, p.leased[k][x].opaque_id # 0
          PROVE  n.policy[x].opaque_id # p.leased[k][x].opaque_id
      <3>1. /\ s.policy[x].opaque_id # p.leased[k][x].opaque_id
            /\ p.leased[k][x].opaque_id <= top
        BY <2>2 DEF Over, Follows
      <3>2. n.policy[x].opaque_id \in {s.policy[x].opaque_id, 0} \/ n.policy[x].opaque_id > top
        BY <1>2 DEF Evolves
      <3> QED BY <1>1, <1>3, <2>2, <3>1, <3>2
    <2> QED BY <2>1, <2>2 DEF Over
  <1>5. GaveUp(k, s, n) => Over(k, p, n)
    BY <1>1, <1>2, <1>3 DEF Over, GaveUp, Follows
  <1>6. n.probe_owner = t \/ Over(k, p2, n)
    <2>1. Over(k, p, n) => Over(k, p2, n)
      BY DEF Over
    <2> QED BY <2>1, <1>4, <1>5 DEF Follows
  <1>7. n.revision >= p2.revision[k]
    BY <1>1 DEF Follows, Evolves
  <1>8. ~is_policy(k) /\ n.revision = p2.revision[k] => n.upstream_not_before = None
    BY <1>1 DEF Follows, Evolves
  <1>9. ~is_policy(k) /\ <<k, Upstream>> \in p2.later => n.revision > p2.revision[k]
    BY <1>1, <1>2 DEF Follows, Evolves, Bumped
  <1>10. ASSUME NEW x \in Sources
         PROVE  /\ p2.leased[k][x].opaque_id <= newtop
                /\ ~is_policy(k) => p2.leased[k][x].opaque_id = 0
                /\ p2.leased[k][x].opaque_id = 0 => p2.leased[k][x].revision = 0
                /\ n.policy[x].opaque_id = p2.leased[k][x].opaque_id =>
                     n.policy[x].revision >= p2.leased[k][x].revision
                /\ <<k, x>> \in p2.later =>
                     \/ n.policy[x] = NoRow
                     \/ n.policy[x].opaque_id # p2.leased[k][x].opaque_id
                     \/ n.policy[x].revision > p2.leased[k][x].revision
    <2>1. /\ p.leased[k][x].opaque_id <= top
          /\ ~is_policy(k) => p.leased[k][x].opaque_id = 0
          /\ p.leased[k][x].opaque_id = 0 => p.leased[k][x].revision = 0
          /\ s.policy[x].opaque_id = p.leased[k][x].opaque_id => s.policy[x].revision >= p.leased[k][x].revision
          /\ <<k, x>> \in p.later =>
               \/ s.policy[x] = NoRow
               \/ s.policy[x].opaque_id # p.leased[k][x].opaque_id
               \/ s.policy[x].revision > p.leased[k][x].revision
      BY DEF Follows
    <2>2. \/ /\ n.policy[x].opaque_id = s.policy[x].opaque_id
             /\ n.policy[x].revision >= s.policy[x].revision
             /\ s.policy[x] = NoRow => n.policy[x] = NoRow
          \/ n.policy[x] = NoRow
          \/ n.policy[x].opaque_id = newtop /\ newtop > top
      BY DEF Evolves
    <2>3. <<k, x>> \in p2.later =>
            <<k, x>> \in p.later \/ n.policy[x].revision > s.policy[x].revision
      BY <1>2 DEF Bumped
    <2>4. n.policy[x].opaque_id = p2.leased[k][x].opaque_id => n.policy[x].revision >= p2.leased[k][x].revision
      BY <1>1, <1>2, <1>3, <2>1, <2>2
    <2> QED BY <1>1, <1>2, <1>3, <2>1, <2>2, <2>3, <2>4
  <1> QED BY <1>6, <1>7, <1>8, <1>9, <1>10 DEF Follows

-----------------------------------------------------------------------------
(* Every quiet step moves slots, ids, notes and retirements forward.       *)

\* What a quiet step may do to the slot of k, besides what SlotKept says.
Moves(k) ==
  /\ Evolves(k, slots[k], slots'[k], restriction_seq, restriction_seq')
  /\ slots'[k].probe_owner = slots[k].probe_owner \/ GaveUp(k, slots[k], slots'[k])
  /\ is_policy(k) =>
       \/ slots'[k].fence > sequence
       \/ \A x \in Sources : slots'[k].retired_policy[x] >= slots[k].retired_policy[x]

\* The notes that permit t gained at k were recorded there.
NotesRecorded(t, k) ==
  \A i \in Items : <<k, i>> \in permit'[t].later =>
    <<k, i>> \in permit[t].later \/ Bumped(i, slots[k], slots'[k])

\* A source retired in this step leaves no evidence and is fenced.
Retires(k, x) ==
  \/ revoked'[k][x] = revoked[k][x]
  \/ /\ is_policy(k) /\ revoked'[k][x] = sequence + 1
     /\ evidence'[k][x] = {}
     /\ k \in tracked' => slots'[k].retired_policy[x] > sequence

Advances ==
  /\ restriction_seq' >= restriction_seq
  /\ \A k \in tracked' : Moves(k)
  /\ \A t \in live : \A k \in permit[t].probes : NotesRecorded(t, k)
  /\ \A k \in Key : \A x \in Sources : Retires(k, x)

\* A slot that is left alone.
LEMMA UnmovedSlot ==
  ASSUME Core, NEW k \in Key, slots'[k] = slots[k], restriction_seq' \in Nat
  PROVE  Moves(k)
  <1>1. slots[k] \in Slot /\ restriction_seq \in Nat
    BY DEF Core, TypeOK
  <1>2. Evolves(k, slots[k], slots[k], restriction_seq, restriction_seq')
    BY <1>1, StandsStill
  <1>3. \A x \in Sources : slots[k].retired_policy[x] \in Nat
    BY <1>1 DEF Slot
  <1> QED BY <1>2, <1>3 DEF Moves

\* A slot that was cleared.
LEMMA ClearedSlot ==
  ASSUME Core, NEW k \in Key, NEW f \in Nat, slots'[k] = clear(slots[k], f),
         is_policy(k) => f > sequence
  PROVE  Moves(k)
  <1> DEFINE n == clear(slots[k], f)
  <1>1. slots[k] \in Slot /\ sequence \in Nat /\ slots[k].revision \in Nat
    BY DEF Core, TypeOK, Slot
  <1>2. /\ n.fence >= f /\ n.revision = slots[k].revision + 1
        /\ n.policy = [x \in Sources |-> NoRow]
    BY <1>1, ClearFields
  <1>3. n.fence \in Nat
    BY <1>1, ClearType DEF Slot
  <1> HIDE DEF n
  <1>4. Evolves(k, slots[k], n, restriction_seq, restriction_seq') /\ GaveUp(k, slots[k], n)
    BY <1>1, <1>2 DEF Evolves, GaveUp
  <1>5. is_policy(k) => n.fence > sequence
    BY <1>1, <1>2, <1>3
  <1> QED BY <1>4, <1>5 DEF Moves, n

\* A refused acquire advances.
LEMMA AdvancesRefused ==
  ASSUME Core, NEW rs \in captured, acquire_refused(rs)
  PROVE  Advances
  <1>1. /\ tracked' = KeptFor(rs)
        /\ slots' = [k \in Key |-> IF k \in KeptFor(rs) THEN Cleaned[k] ELSE EmptySlot]
        /\ restriction_seq' = restriction_seq /\ permit' = permit /\ revoked' = revoked
        /\ restriction_seq \in Nat
    BY DEF acquire_refused, Store, Core, TypeOK
  <1>2. KeptFor(rs) \subseteq Key /\ TypeOK
    BY DEF KeptFor, Core, TypeOK
  <1>3. ASSUME NEW k \in tracked' PROVE Moves(k)
    <2>1. k \in Key /\ slots'[k] = Cleaned[k] /\ slots[k] \in Slot
      BY <1>1, <1>2 DEF TypeOK
    <2>2. /\ slots'[k].probe_owner = slots[k].probe_owner
          /\ slots'[k].revision = slots[k].revision
          /\ slots'[k].policy = slots[k].policy
          /\ slots'[k].retired_policy = slots[k].retired_policy
          /\ slots'[k].upstream_not_before \in {slots[k].upstream_not_before, None}
      BY <1>2, <2>1, CleanedFields
    <2>3. /\ slots[k].revision \in Nat /\ \A x \in Sources : slots[k].policy[x].revision \in Nat
          /\ \A x \in Sources : slots[k].retired_policy[x] \in Nat
      BY <2>1 DEF Slot, Row
    <2>4. Evolves(k, slots[k], slots'[k], restriction_seq, restriction_seq')
      BY <2>2, <2>3 DEF Evolves
    <2> QED BY <2>2, <2>3, <2>4 DEF Moves
  <1> QED BY <1>1, <1>3 DEF Advances, NotesRecorded, Retires

\* A reset advances.
LEMMA AdvancesReset ==
  ASSUME Core, NEW a \in Accounts, reset_account(a)
  PROVE  Advances
  <1> DEFINE cleared == {k \in tracked : k.kind # "FreeEgress" /\ a \in slots[k].owners}
             s == [k \in Key |-> IF k \in cleared THEN clear(slots[k], sequence + 1) ELSE slots[k]]
             K == retain_live_slots(s)
  <1>1. /\ tracked' = K /\ K \subseteq Key
        /\ slots' = [k \in Key |-> IF k \in K THEN s[k] ELSE EmptySlot]
        /\ restriction_seq' = restriction_seq /\ permit' = permit /\ revoked' = revoked
        /\ restriction_seq \in Nat /\ sequence + 1 \in Nat /\ sequence + 1 > sequence
    BY DEF reset_account, Store, retain_live_slots, Core, TypeOK
  <1> HIDE DEF K, cleared
  <1>2. ASSUME NEW k \in tracked' PROVE Moves(k)
    <2>1. k \in Key /\ slots'[k] \in {clear(slots[k], sequence + 1), slots[k]}
      BY <1>1
    <2> QED BY <1>1, <2>1, UnmovedSlot, ClearedSlot
  <1> QED BY <1>1, <1>2 DEF Advances, NotesRecorded, Retires

\* A retirement of rows that are there advances.
LEMMA AdvancesRetire ==
  ASSUME Core, RowsIssued, NEW stale \in [Key -> SUBSET Sources], Retire(stale),
         \A k \in Key : \A x \in stale[k] : has_row(slots[k], x),
         restriction_seq' = restriction_seq, permit' = permit
  PROVE  Advances
  <1> DEFINE f == sequence + 1
             s == [k \in Key |-> retire_source(slots[k], stale[k], f)]
             ev == [k \in Key |-> [i \in Items |-> IF i \in stale[k] THEN {} ELSE evidence[k][i]]]
             K == retain_live_slots(s)
  <1>1. /\ f \in Nat /\ f > sequence /\ sequence \in Nat /\ slots \in [Key -> Slot]
        /\ restriction_seq \in Nat /\ Sources \subseteq Items
    BY DEF Core, TypeOK, Items
  <1>2. /\ tracked' = K /\ K \subseteq Key
        /\ slots' = [k \in Key |-> IF k \in K THEN s[k] ELSE EmptySlot]
        /\ evidence' = [k \in Key |-> IF k \in K THEN ev[k] ELSE [i \in Items |-> {}]]
        /\ revoked' = [k \in Key |-> [x \in Sources |-> IF x \in stale[k] THEN f ELSE revoked[k][x]]]
    BY DEF Retire, Store, retain_live_slots, Core, TypeOK
  <1> HIDE DEF f, K
  <1>3. ASSUME NEW k \in tracked' PROVE Moves(k)
    <2> DEFINE n == retire_source(slots[k], stale[k], f)
    <2>1. k \in Key /\ slots[k] \in Slot /\ stale[k] \in SUBSET Sources /\ slots'[k] = n
      BY <1>1, <1>2
    <2>2. /\ n.revision = slots[k].revision
          /\ n.upstream_not_before = slots[k].upstream_not_before
          /\ \A x \in Sources :
               /\ n.policy[x] = IF x \in stale[k] THEN NoRow ELSE slots[k].policy[x]
               /\ n.retired_policy[x] =
                    IF x \in stale[k] THEN later(slots[k].retired_policy[x], f)
                    ELSE slots[k].retired_policy[x]
          /\ \/ n.probe_owner = slots[k].probe_owner
             \/ stale[k] # {} /\ ~restricted(n)
      BY <1>1, <2>1, RetireFields
    <2> HIDE DEF n
    <2>3. /\ slots[k].revision \in Nat /\ \A x \in Sources : slots[k].policy[x].revision \in Nat
          /\ \A x \in Sources : slots[k].retired_policy[x] \in Nat
      BY <2>1 DEF Slot, Row
    <2>4. Evolves(k, slots[k], n, restriction_seq, restriction_seq')
      BY <2>2, <2>3 DEF Evolves
    <2>5. \A x \in Sources : n.retired_policy[x] >= slots[k].retired_policy[x]
      BY <1>1, <2>2, <2>3 DEF later
    <2>6. ASSUME stale[k] # {}, ~restricted(n) PROVE GaveUp(k, slots[k], n)
      <3>1. is_policy(k)
        BY <2>1, <2>6 DEF RowsIssued, has_row, NoRow
      <3>2. \A x \in Sources : ~has_row(n, x)
        BY <2>6 DEF restricted
      <3>3. \A x \in Sources : n.policy[x] = NoRow
        BY <2>1, <2>2, <3>2 DEF RowsIssued, has_row
      <3> QED BY <3>1, <3>3 DEF GaveUp
    <2> QED BY <2>1, <2>2, <2>4, <2>5, <2>6 DEF Moves
  <1>4. ASSUME NEW k \in Key, NEW x \in Sources PROVE Retires(k, x)
    <2>1. CASE x \in stale[k]
      <3>1. is_policy(k)
        BY <2>1 DEF RowsIssued, has_row, NoRow
      <3>2. revoked'[k][x] = f /\ evidence'[k][x] = {}
        BY <1>1, <1>2, <2>1
      <3>3. ASSUME k \in tracked' PROVE slots'[k].retired_policy[x] > sequence
        <4>1. slots[k] \in Slot /\ slots'[k] = retire_source(slots[k], stale[k], f)
              /\ slots[k].retired_policy[x] \in Nat
          BY <1>1, <1>2, <3>3 DEF Slot
        <4>2. slots'[k].retired_policy[x] = later(slots[k].retired_policy[x], f)
          BY <1>1, <2>1, <4>1, RetireFields
        <4> QED BY <1>1, <4>1, <4>2 DEF later
      <3> QED BY <3>1, <3>2, <3>3 DEF Retires, f
    <2>2. CASE x \notin stale[k]
      BY <1>2, <2>2 DEF Retires
    <2> QED BY <2>1, <2>2
  <1> QED BY <1>1, <1>3, <1>4 DEF Advances, NotesRecorded

\* A new rule set and a cleared restriction advance.
LEMMA AdvancesRules ==
  ASSUME Core, RowsIssued, \/ \E snapshot \in Snapshots : install_snapshot(snapshot)
                           \/ \E id \in 1..restriction_seq : clear_restriction(id)
  PROVE  Advances
  <1>1. ASSUME NEW snapshot \in Snapshots, install_snapshot(snapshot)
        PROVE  Advances
    <2> DEFINE stale == [k \in Key |->
         IF k \in tracked
         THEN {x \in Sources : has_row(slots[k], x) /\ x \notin snapshot[slots[k].destination_id]}
         ELSE {}]
    <2>1. stale \in [Key -> SUBSET Sources] /\ Retire(stale)
          /\ restriction_seq' = restriction_seq /\ permit' = permit
          /\ \A k \in Key : \A x \in stale[k] : has_row(slots[k], x)
      BY <1>1 DEF install_snapshot
    <2> HIDE DEF stale
    <2> QED BY <2>1, AdvancesRetire
  <1>2. ASSUME NEW id, clear_restriction(id)
        PROVE  Advances
    <2> DEFINE stale == [k \in Key |->
         {x \in Sources : has_row(slots[k], x) /\ slots[k].policy[x].opaque_id = id}]
    <2>1. stale \in [Key -> SUBSET Sources] /\ Retire(stale)
          /\ restriction_seq' = restriction_seq /\ permit' = permit
          /\ \A k \in Key : \A x \in stale[k] : has_row(slots[k], x)
      BY <1>2 DEF clear_restriction
    <2> HIDE DEF stale
    <2> QED BY <2>1, AdvancesRetire
  <1> QED BY <1>1, <1>2

\* The notes a recorded reply leaves.
LEMMA NotedLater ==
  ASSUME TypeOK, NEW t, NEW k, NEW i, NEW recorded, NEW phase,
         permit' = Noted(t, k, i, recorded, phase),
         NEW u \in live, NEW m, NEW j, <<m, j>> \in permit'[u].later
  PROVE  <<m, j>> \in permit[u].later \/ (recorded /\ m = k /\ j = i)
  <1>1. u \in Ticket /\ permit[u] \in Permit
    BY DEF TypeOK
  <1>2. permit'[u].later = IF u \in live /\ recorded /\ k \in permit[u].probes
                           THEN permit[u].later \cup {<<k, i>>} ELSE permit[u].later
    BY <1>1 DEF Noted, Permit
  <1> QED BY <1>2

\* Recording an upstream reply advances.
LEMMA AdvancesObserveKey ==
  ASSUME Core, NEW t \in live, NEW k,
         NEW allowed \in BOOLEAN, NEW wait \in BOOLEAN, NEW hint \in Instant, NEW now \in Nat,
         NEW phase, observe_key(t, k, allowed, wait, hint, now, phase),
         restriction_seq' = restriction_seq, revoked' = revoked
  PROVE  Advances
  <1> DEFINE recorded == allowed /\ (wait \/ hint # None) /\ k \in tracked /\ t >= slots[k].fence
  <1>1. /\ tracked' = tracked /\ tracked \subseteq Key /\ t \in Ticket /\ TypeOK
        /\ permit' = Noted(t, k, Upstream, recorded, phase)
        /\ restriction_seq \in Nat
    BY DEF observe_key, Core, TypeOK
  <1>2. CASE recorded
    <2>1. k \in tracked /\ k \in Key
          /\ slots' = [slots EXCEPT ![k] = observed_slot(t, k, wait, hint, now)]
          /\ slots \in [Key -> Slot]
      BY <1>1, <1>2 DEF observe_key, TypeOK
    <2> DEFINE n == observed_slot(t, k, wait, hint, now)
    <2>2. /\ n.probe_owner = slots[k].probe_owner /\ n.policy = slots[k].policy
          /\ n.retired_policy = slots[k].retired_policy
          /\ n.revision = slots[k].revision + 1
      BY <1>1, <2>1, ObservedSlotFields
    <2>3. slots'[k] = n /\ \A m \in tracked : m # k => slots'[m] = slots[m]
      BY <1>1, <2>1
    <2> HIDE DEF n, recorded
    <2>4. /\ slots[k].revision \in Nat /\ \A x \in Sources : slots[k].policy[x].revision \in Nat
          /\ \A x \in Sources : slots[k].retired_policy[x] \in Nat
      BY <2>1 DEF Slot, Row
    <2>5. Evolves(k, slots[k], n, restriction_seq, restriction_seq')
      BY <2>2, <2>4 DEF Evolves
    <2>6. Moves(k)
      BY <2>2, <2>3, <2>4, <2>5 DEF Moves
    <2>7. \A m \in tracked' : Moves(m)
      BY <1>1, <2>3, <2>6, UnmovedSlot
    <2>8. Bumped(Upstream, slots[k], slots'[k])
      BY <2>2, <2>3, <2>4 DEF Bumped
    <2>9. \A u \in live : \A m \in permit[u].probes : NotesRecorded(u, m)
      BY <1>1, <2>8, NotedLater DEF NotesRecorded
    <2> QED BY <1>1, <2>7, <2>9 DEF Advances, Retires
  <1>3. CASE ~recorded
    <2>1. slots' = slots
      BY <1>3 DEF observe_key
    <2>2. \A u \in live : \A m \in permit[u].probes : NotesRecorded(u, m)
      <3> HIDE DEF recorded
      <3> QED BY <1>1, <1>3, NotedLater DEF NotesRecorded
    <2> HIDE DEF recorded
    <2> QED BY <1>1, <2>1, <2>2, UnmovedSlot DEF Advances, Retires
  <1> QED BY <1>2, <1>3

\* The decoded rejections, and the Retry-After of a policy decision, advance.
LEMMA AdvancesReplies ==
  ASSUME Core, \/ \E t \in Ticket : Observes(t)
               \/ observe_policy_retry
  PROVE  Advances
  <1>1. ASSUME NEW t \in Ticket, Observes(t)
        PROVE  Advances
    <2>1. PICK k \in keys(permit[t].resources), allowed \in BOOLEAN, wait \in BOOLEAN,
               hint \in Instant :
            observe_key(t, k, allowed, wait, hint, mono, "done")
      BY <1>1 DEF Observes
    <2>2. t \in live /\ mono \in Nat /\ restriction_seq' = restriction_seq /\ revoked' = revoked
      BY <1>1 DEF Observes, Replies, Core, TypeOK
    <2> QED BY <2>1, <2>2, AdvancesObserveKey
  <1>2. ASSUME observe_policy_retry
        PROVE  Advances
    <2> DEFINE t == db.holder
               k == DecisionKey(t, db.source)
    <2>1. /\ t \in live /\ t \in Ticket /\ db.hint \in Instant /\ db.at \in Nat
          /\ observe_key(t, k, TRUE, FALSE, db.hint, db.at, "rejected")
          /\ restriction_seq' = restriction_seq /\ revoked' = revoked
      BY <1>2 DEF observe_policy_retry, Core, LoopInv, TypeOK, Loop
    <2> HIDE DEF t, k
    <2> QED BY <2>1, AdvancesObserveKey
  <1> QED BY <1>1, <1>2

\* Recording a policy decision advances.
LEMMA AdvancesObservePolicy ==
  ASSUME Core, RowsIssued, observe_policy
  PROVE  Advances
  <1> DEFINE t == db.holder
             x == db.source
             k == DecisionKey(t, x)
             recorded == permits_policy(t, x)
  <1>1. /\ t \in live /\ t \in Ticket /\ x \in Sources /\ x \in Items /\ x # Upstream
        /\ tracked' = tracked /\ tracked \subseteq Key /\ TypeOK /\ revoked' = revoked
        /\ permit' = Noted(t, k, x, recorded, "rejected")
        /\ restriction_seq \in Nat
    BY RecoveryAssumption DEF observe_policy, Core, LoopInv, TypeOK, Items
  <1>2. CASE recorded
    <2> DEFINE row == observed_row(t, k, x)
    <2>1. /\ k \in tracked /\ k \in Key /\ slots \in [Key -> Slot] /\ slots[k] \in Slot
          /\ slots[k].policy[x] \in Row
      BY <1>1, <1>2 DEF permits_policy, TypeOK, Slot
    <2>2. /\ slots' = [slots EXCEPT ![k].policy[x] = row]
          /\ restriction_seq' = IF ~has_row(slots[k], x) THEN restriction_seq + 1 ELSE restriction_seq
      BY <1>2 DEF observe_policy
    <2>3. is_policy(k)
      BY DEF is_policy, DecisionKey, policy_key, key, PolicyKinds
    <2>4. /\ row.opaque_id = IF ~has_row(slots[k], x) THEN restriction_seq + 1
                             ELSE slots[k].policy[x].opaque_id
          /\ row.revision = slots[k].policy[x].revision + 1
      BY DEF observed_row
    <2> HIDE DEF t, k, x, recorded, row
    <2>5. /\ slots'[k].policy = [slots[k].policy EXCEPT ![x] = row]
          /\ slots'[k].revision = slots[k].revision
          /\ slots'[k].probe_owner = slots[k].probe_owner
          /\ slots'[k].retired_policy = slots[k].retired_policy
          /\ \A m \in tracked : m # k => slots'[m] = slots[m]
      BY <1>1, <2>1, <2>2 DEF Slot
    <2>6. /\ slots[k].revision \in Nat
          /\ \A y \in Sources : slots[k].policy[y].revision \in Nat
          /\ \A y \in Sources : slots[k].retired_policy[y] \in Nat
          /\ slots[k].policy \in [Sources -> Row]
          /\ slots[k].policy[x].opaque_id \in Nat
      BY <1>1, <2>1 DEF Slot, Row
    <2>7. slots'[k].policy[x] = row /\ \A y \in Sources : y # x => slots'[k].policy[y] = slots[k].policy[y]
      BY <1>1, <2>5, <2>6
    <2>8. /\ ~has_row(slots[k], x) => slots[k].policy[x] = NoRow
          /\ has_row(slots[k], x) => slots[k].policy[x] # NoRow
      BY <1>1, <2>1 DEF RowsIssued, has_row, NoRow
    <2>9. Evolves(k, slots[k], slots'[k], restriction_seq, restriction_seq')
      <3>1. ASSUME NEW y \in Sources
            PROVE \/ /\ slots'[k].policy[y].opaque_id = slots[k].policy[y].opaque_id
                     /\ slots'[k].policy[y].revision >= slots[k].policy[y].revision
                     /\ slots[k].policy[y] = NoRow => slots'[k].policy[y] = NoRow
                  \/ slots'[k].policy[y] = NoRow
                  \/ /\ is_policy(k) /\ slots[k].policy[y] = NoRow
                     /\ slots'[k].policy[y].opaque_id = restriction_seq'
                     /\ restriction_seq' > restriction_seq
        <4>1. CASE y # x
          BY <2>6, <2>7, <4>1
        <4>2. CASE y = x /\ has_row(slots[k], x)
          BY <1>1, <2>4, <2>6, <2>7, <2>8, <4>2
        <4>3. CASE y = x /\ ~has_row(slots[k], x)
          BY <1>1, <2>2, <2>3, <2>4, <2>7, <2>8, <4>3
        <4> QED BY <4>1, <4>2, <4>3
      <3> QED BY <2>3, <2>5, <2>6, <3>1 DEF Evolves
    <2>10. Moves(k)
      BY <2>5, <2>6, <2>9 DEF Moves
    <2>11. restriction_seq' >= restriction_seq /\ restriction_seq' \in Nat
      BY <1>1, <2>2
    <2>12. \A m \in tracked' : Moves(m)
      BY <1>1, <2>5, <2>10, <2>11, UnmovedSlot
    <2>13. Bumped(x, slots[k], slots'[k])
      BY <1>1, <2>4, <2>6, <2>7 DEF Bumped
    <2>14. \A u \in live : \A m \in permit[u].probes : NotesRecorded(u, m)
      BY <1>1, <2>13, NotedLater DEF NotesRecorded
    <2> QED BY <1>1, <2>11, <2>12, <2>14 DEF Advances, Retires
  <1>3. CASE ~recorded
    <2>1. slots' = slots /\ restriction_seq' = restriction_seq
      BY <1>3 DEF observe_policy
    <2>2. \A u \in live : \A m \in permit[u].probes : NotesRecorded(u, m)
      <3> HIDE DEF recorded, t, k, x
      <3> QED BY <1>1, <1>3, NotedLater DEF NotesRecorded
    <2> HIDE DEF recorded, t, k, x
    <2> QED BY <1>1, <2>1, <2>2, UnmovedSlot DEF Advances, Retires
  <1> QED BY <1>2, <1>3

\* A complete response advances.
LEMMA AdvancesConfirm ==
  ASSUME Core, RowsIssued, NEW t \in Ticket, confirm_success(t)
  PROVE  Advances
  <1>1. /\ tracked' = tracked /\ tracked \subseteq Key /\ TypeOK /\ revoked' = revoked
        /\ slots' = [k \in Key |-> IF confirms(t, k) THEN confirmed_slot(t, k) ELSE slots[k]]
        /\ restriction_seq' = restriction_seq /\ restriction_seq \in Nat /\ t + 1 \in Nat
    BY DEF confirm_success, Core, TypeOK, Ticket
  <1>2. ASSUME NEW k \in tracked PROVE Moves(k)
    <2>1. k \in Key /\ slots[k] \in Slot
      BY <1>1 DEF TypeOK
    <2>2. CASE ~confirms(t, k)
      BY <1>1, <2>1, <2>2, UnmovedSlot
    <2>3. CASE confirms(t, k) /\ ~is_policy(k)
      <3>1. slots'[k] = clear(slots[k], t + 1)
        BY <1>1, <2>1, <2>3, ConfirmedSlotFields
      <3> QED BY <1>1, <2>1, <2>3, <3>1, ClearedSlot
    <2>4. CASE confirms(t, k) /\ is_policy(k)
      <3>1. /\ slots'[k].revision >= slots[k].revision
            /\ slots'[k].retired_policy = slots[k].retired_policy
            /\ \A x \in Sources : slots'[k].policy[x] \in {NoRow, slots[k].policy[x]}
            /\ slots'[k].probe_owner = slots[k].probe_owner \/ ~restricted(slots'[k])
        BY <1>1, <2>1, <2>4, ConfirmedSlotFields
      <3>2. /\ \A x \in Sources : slots[k].policy[x].revision \in Nat
            /\ \A x \in Sources : slots[k].retired_policy[x] \in Nat
        BY <2>1 DEF Slot, Row
      <3>3. Evolves(k, slots[k], slots'[k], restriction_seq, restriction_seq')
        BY <2>4, <3>1, <3>2 DEF Evolves
      <3>4. ~restricted(slots'[k]) => GaveUp(k, slots[k], slots'[k])
        BY <2>1, <2>4, <3>1 DEF GaveUp, restricted, has_row, RowsIssued
      <3> QED BY <3>1, <3>2, <3>3, <3>4 DEF Moves
    <2> QED BY <2>2, <2>3, <2>4
  <1>3. \A u \in live : u \in Ticket /\ permit'[u].later = permit[u].later
    <2> SUFFICES ASSUME NEW u \in live PROVE u \in Ticket /\ permit'[u].later = permit[u].later
      OBVIOUS
    <2>1. u \in Ticket /\ permit[u] \in Permit /\ permit \in [Ticket -> Permit]
      BY <1>1 DEF TypeOK
    <2> QED BY <2>1 DEF confirm_success, Permit
  <1> QED BY <1>1, <1>2, <1>3 DEF Advances, NotesRecorded, Retires

\* Steps that touch neither the table nor what permits hold advance.
LEMMA AdvancesOther ==
  ASSUME Core, \/ \E t \in Ticket, decisions \in SUBSET Sources, header \in PolicyRetryAfters :
                    observe_local_policy(t, decisions, header)
               \/ \E x \in Sources : check_decision(x)
               \/ \E c \in Captures : Reconfigure(c)
               \/ \E d \in WallSteps : Tick(d)
               \/ UNCHANGED vars
  PROVE  Advances
  <1>1. /\ UNCHANGED <<restriction_seq, tracked, slots, revoked>>
        /\ permit' = permit \/ \E t \in Ticket : permit' = [permit EXCEPT ![t].phase = "rejected"]
    BY DEF observe_local_policy, check_decision, Reconfigure, Tick, vars, inner, history
  <1>2. tracked \subseteq Key /\ restriction_seq \in Nat /\ live \subseteq Ticket
        /\ permit \in [Ticket -> Permit]
    BY DEF Core, TypeOK
  <1>3. \A u \in live : permit'[u].later = permit[u].later
    <2> SUFFICES ASSUME NEW u \in live PROVE permit'[u].later = permit[u].later
      OBVIOUS
    <2>1. u \in Ticket /\ permit[u] \in Permit
      BY <1>2
    <2>2. ASSUME NEW t \in Ticket, permit' = [permit EXCEPT ![t].phase = "rejected"]
          PROVE  permit'[u].later = permit[u].later
      BY <1>2, <2>1, <2>2 DEF Permit
    <2> QED BY <1>1, <2>2
  <1>4. \A k \in tracked' : Moves(k)
    BY <1>1, <1>2, UnmovedSlot
  <1> QED BY <1>1, <1>2, <1>3, <1>4 DEF Advances, NotesRecorded, Retires

\* Every step that neither grants nor drops a permit is quiet and advances.
LEMMA AdvancesNext ==
  ASSUME Core, RowsIssued, [Next]_vars
  PROVE  \/ Quiet /\ Advances
         \/ \E rs \in captured : acquire(rs)
         \/ \E t \in Ticket : drop(t)
  <1>0. TypeOK
    BY DEF Core
  <1>1. CASE \E rs \in captured : acquire(rs) \/ acquire_refused(rs)
    BY <1>1, QuietRefused, AdvancesRefused
  <1>2. CASE \E t \in Ticket : Reply(t) \/ drop(t)
    <2> PICK t \in Ticket : Reply(t) \/ drop(t)
      BY <1>2
    <2>1. CASE \E header \in RetryAfters :
                 \/ temporary_429(t, header)
                 \/ \E delay \in PlanResets : plan_window(t, header, delay)
                 \/ observe_openrouter_free_rejection(t, header)
                 \/ observe_free_rejection(t, header)
      BY <1>0, <2>1, RepliesObserve, QuietReplies, AdvancesReplies
    <2>2. CASE \E header \in PolicyRetryAfters, decisions \in SUBSET Sources :
                 observe_local_policy(t, decisions, header)
      BY <2>2, QuietOther, AdvancesOther
    <2>3. CASE confirm_success(t)
      BY <2>3, QuietConfirm, AdvancesConfirm
    <2> QED BY <2>1, <2>2, <2>3 DEF Reply
  <1>3. CASE PolicyLoop
    BY <1>3, QuietOther, QuietObservePolicy, QuietReplies,
       AdvancesOther, AdvancesObservePolicy, AdvancesReplies DEF PolicyLoop
  <1>4. CASE Operator
    BY <1>4, QuietReset, QuietRules, QuietOther,
       AdvancesReset, AdvancesRules, AdvancesOther DEF Operator
  <1>5. CASE \E d \in WallSteps : Tick(d)
    BY <1>5, QuietOther, AdvancesOther
  <1>6. CASE UNCHANGED vars
    BY <1>6, QuietOther, AdvancesOther
  <1> QED BY <1>1, <1>2, <1>3, <1>4, <1>5, <1>6 DEF Next

-----------------------------------------------------------------------------
(* The invariant of episodes.                                              *)

\* A step that is quiet and advances preserves it.
LEMMA EpisodeQuiet ==
  ASSUME EpisodeInv, Quiet, Advances, Core'
  PROVE  EpisodeInv'
  <1>0. /\ Core /\ live' = live /\ sequence' = sequence /\ live \subseteq Ticket /\ sequence \in Nat
        /\ permit \in [Ticket -> Permit] /\ permit' \in [Ticket -> Permit]
        /\ slots \in [Key -> Slot] /\ slots' \in [Key -> Slot]
        /\ restriction_seq \in Nat /\ restriction_seq' \in Nat /\ restriction_seq' >= restriction_seq
        /\ revoked \in [Key -> [Sources -> Nat]] /\ tracked' \subseteq Key
        /\ live \subseteq 1..sequence
    BY DEF EpisodeInv, Core, Quiet, TypeOK, Tickets, Advances
  <1>1. RowsIssued'
    <2> SUFFICES ASSUME NEW k \in Key, NEW x \in Sources
                 PROVE  /\ slots'[k].policy[x].opaque_id <= restriction_seq'
                        /\ ~has_row(slots'[k], x) => slots'[k].policy[x] = NoRow
                        /\ ~is_policy(k) => slots'[k].policy[x] = NoRow /\ revoked'[k][x] = 0
      BY DEF RowsIssued
    <2>1. /\ slots[k].policy[x].opaque_id <= restriction_seq
          /\ ~has_row(slots[k], x) => slots[k].policy[x] = NoRow
          /\ ~is_policy(k) => slots[k].policy[x] = NoRow /\ revoked[k][x] = 0
      BY DEF EpisodeInv, RowsIssued
    <2>2. ~is_policy(k) => revoked'[k][x] = 0
      BY <2>1 DEF Advances, Retires
    <2>3. slots[k].policy[x].opaque_id \in Nat /\ NoRow.opaque_id = 0
      BY <1>0 DEF Slot, Row, NoRow
    <2>4. CASE k \notin tracked'
      <3>1. slots'[k].policy[x] = NoRow
        BY <2>4 DEF Quiet, Untracked, EmptySlot
      <3> QED BY <1>0, <2>2, <2>3, <3>1
    <2>5. CASE k \in tracked'
      <3>1. \/ /\ slots'[k].policy[x].opaque_id = slots[k].policy[x].opaque_id
               /\ slots[k].policy[x] = NoRow => slots'[k].policy[x] = NoRow
            \/ slots'[k].policy[x] = NoRow
            \/ /\ is_policy(k) /\ slots'[k].policy[x].opaque_id = restriction_seq'
               /\ restriction_seq' > restriction_seq
        BY <2>5 DEF Advances, Moves, Evolves
      <3> QED BY <1>0, <2>1, <2>2, <2>3, <3>1 DEF has_row
    <2> QED BY <2>4, <2>5
  <1>2. ProbesFollow'
    <2> SUFFICES ASSUME NEW t \in live, NEW k \in permit'[t].probes
                 PROVE  Follows(t, k, permit'[t], slots'[k], restriction_seq')
      BY <1>0 DEF ProbesFollow
    <2>1. /\ t \in Ticket /\ permit[t] \in Permit /\ permit'[t] \in Permit /\ PermitKept(t)
      BY <1>0 DEF Quiet
    <2>2. k \in permit[t].probes /\ k \in keys(permit[t].resources)
      BY <1>0, <2>1 DEF PermitKept, Core, ProbesClaimed
    <2>3. k \in Key /\ k \in tracked'
      BY <1>0, <2>2, QuietClaims
    <2>4. slots[k] \in Slot /\ slots'[k] \in Slot /\ Moves(k) /\ NotesRecorded(t, k)
      BY <1>0, <2>2, <2>3 DEF Advances
    <2>5. Follows(t, k, permit[t], slots[k], restriction_seq)
      BY <2>2 DEF EpisodeInv, ProbesFollow
    <2> QED BY <1>0, <2>1, <2>3, <2>4, <2>5, FollowsOn DEF Moves, NotesRecorded, PermitKept
  <1>3. LeasesDiffer'
    <2>1. \A t \in live : permit'[t].probes = permit[t].probes /\ permit'[t].leased = permit[t].leased
      BY <1>0 DEF Quiet, PermitKept
    <2> QED BY <1>0, <2>1 DEF EpisodeInv, LeasesDiffer
  <1>4. RetiredFenced'
    <2>1. ASSUME NEW k \in Key, NEW x \in Sources PROVE revoked'[k][x] <= sequence' + 1
      BY <1>0 DEF EpisodeInv, RetiredFenced, Advances, Retires
    <2>2. ASSUME NEW t \in live, NEW k \in keys(permit'[t].resources), NEW x \in Sources,
                 t < revoked'[k][x]
          PROVE  t < slots'[k].fence \/ t < slots'[k].retired_policy[x]
      <3>1. t \in Ticket /\ t \in 1..sequence /\ k \in keys(permit[t].resources)
        BY <1>0 DEF Quiet, PermitKept
      <3>2. k \in Key /\ k \in tracked' /\ SlotKept(k)
        BY <1>0, <3>1, QuietClaims
      <3>3. /\ slots[k].fence \in Nat /\ slots'[k].fence \in Nat /\ revoked[k][x] \in Nat
            /\ slots[k].retired_policy[x] \in Nat /\ slots'[k].retired_policy[x] \in Nat
            /\ slots'[k].fence >= slots[k].fence
        BY <1>0, <3>2 DEF Slot, SlotKept
      <3>4. CASE revoked'[k][x] = revoked[k][x]
        <4>1. t < slots[k].fence \/ t < slots[k].retired_policy[x]
          BY <2>2, <3>1, <3>4 DEF EpisodeInv, RetiredFenced
        <4>2. is_policy(k)
          BY <1>0, <2>2, <3>1, <3>2, <3>3, <3>4 DEF EpisodeInv, RowsIssued
        <4>3. slots'[k].fence > sequence \/ slots'[k].retired_policy[x] >= slots[k].retired_policy[x]
          BY <3>2, <4>2 DEF Advances, Moves
        <4> QED BY <1>0, <3>1, <3>3, <4>1, <4>3
      <3>5. CASE revoked'[k][x] # revoked[k][x]
        <4>1. slots'[k].retired_policy[x] > sequence
          BY <3>2, <3>5 DEF Advances, Retires
        <4> QED BY <1>0, <3>1, <3>3, <4>1
      <3> QED BY <3>4, <3>5
    <2> QED BY <1>0, <2>1, <2>2 DEF RetiredFenced
  <1>5. RevokedSourceStaysRevoked'
    <2> SUFFICES ASSUME NEW k \in Key, NEW x \in Sources, NEW t \in evidence'[k][x]
                 PROVE  t >= revoked'[k][x]
      BY DEF RevokedSourceStaysRevoked
    <2>1. revoked'[k][x] = revoked[k][x] /\ x \in Items /\ revoked[k][x] \in Nat
      BY <1>0 DEF Advances, Retires, Items
    <2>2. t \in evidence[k][x] \/ Heard(k, x, t)
      BY <2>1 DEF Quiet
    <2>3. CASE t \in evidence[k][x]
      BY <2>1, <2>3 DEF EpisodeInv, RevokedSourceStaysRevoked
    <2>4. CASE Heard(k, x, t)
      <3>a. /\ t \in live /\ k \in keys(permit[t].resources)
            /\ t >= slots[k].fence /\ t >= slots[k].retired_policy[x]
        BY <2>4 DEF Heard
      <3>b. slots[k] \in Slot /\ t \in Nat
        BY <1>0, <3>a DEF Ticket
      <3>1. /\ t \in live /\ k \in keys(permit[t].resources) /\ t \in Nat
            /\ t >= slots[k].fence /\ t >= slots[k].retired_policy[x]
            /\ slots[k].fence \in Nat /\ slots[k].retired_policy[x] \in Nat
        BY <3>a, <3>b DEF Slot
      <3>2. t < revoked[k][x] => t < slots[k].fence \/ t < slots[k].retired_policy[x]
        BY <3>1 DEF EpisodeInv, RetiredFenced
      <3> QED BY <2>1, <3>1, <3>2
    <2> QED BY <2>2, <2>3, <2>4
  <1> QED BY <1>1, <1>2, <1>3, <1>4, <1>5 DEF EpisodeInv

\* What a granted acquire does to a slot that its cleanup keeps: it may expire the
\* deadline and claim the slot, and takes the lease only when it is free.
LEMMA AcquiredSlot ==
  ASSUME Core, NEW rs \in captured, acquire(rs), NEW k \in KeptFor(rs)
  PROVE  /\ k \in Key /\ k \in tracked
         /\ slots'[k].fence = slots[k].fence
         /\ slots'[k].revision = slots[k].revision
         /\ slots'[k].policy = slots[k].policy
         /\ slots'[k].retired_policy = slots[k].retired_policy
         /\ slots'[k].upstream_not_before \in {slots[k].upstream_not_before, None}
         /\ k \in permit'[sequence + 1].probes =>
              /\ slots[k].probe_owner = 0
              /\ slots'[k].probe_owner = sequence + 1
              /\ slots'[k].upstream_not_before = None
         /\ k \notin permit'[sequence + 1].probes => slots'[k].probe_owner = slots[k].probe_owner
  <1> DEFINE ticket == sequence + 1
             base == Base(rs)
  <1>1. /\ rs \in ResourceSets /\ ticket \in Ticket /\ ticket \in Nat
        /\ permit' = [permit EXCEPT ![ticket] = NewPermit(rs, base)]
        /\ permit \in [Ticket -> Permit] /\ TypeOK
        /\ \A m \in Key : slots'[m] = IF m \in keys(rs) THEN claim(rs, m, base[m], ticket) ELSE base[m]
    BY AcquireFields DEF Core, TypeOK, Ticket
  <1>2. k \in tracked /\ k \in Key /\ base[k] = Cleaned[k] /\ base[k] \in Slot
    BY <1>1, BaseFields
  <1>3. permit'[ticket].probes = {m \in keys(rs) : claims_probe(rs, m, base[m])}
    BY <1>1 DEF NewPermit
  <1> HIDE DEF base
  <1>4. /\ Cleaned[k].fence = slots[k].fence
        /\ Cleaned[k].probe_owner = slots[k].probe_owner
        /\ Cleaned[k].revision = slots[k].revision
        /\ Cleaned[k].policy = slots[k].policy
        /\ Cleaned[k].retired_policy = slots[k].retired_policy
        /\ Cleaned[k].upstream_not_before \in {slots[k].upstream_not_before, None}
    BY <1>1, <1>2, CleanedFields
  <1>5. CASE k \in keys(rs)
    <2>1. /\ slots'[k].fence = base[k].fence
          /\ slots'[k].revision = base[k].revision
          /\ slots'[k].upstream_not_before = base[k].upstream_not_before
          /\ slots'[k].policy = base[k].policy
          /\ slots'[k].retired_policy = base[k].retired_policy
          /\ slots'[k].probe_owner = IF claims_probe(rs, k, base[k]) THEN ticket ELSE base[k].probe_owner
      BY <1>1, <1>2, <1>5, ClaimFields
    <2>2. ASSUME claims_probe(rs, k, base[k])
          PROVE  slots[k].probe_owner = 0 /\ Cleaned[k].upstream_not_before = None
      <3>1. ~blocks(k, Cleaned[k])
        BY <1>2, <1>5, <2>2 DEF acquire, Admissible, claims_probe
      <3>2. ~deadline_is_live(Cleaned[k].upstream_not_before) /\ Cleaned[k].probe_owner = 0
        BY <3>1 DEF blocks
      <3>3. Cleaned[k] = expire_until_deadline(slots[k]) /\ slots[k] \in Slot
        BY <1>1, <1>2 DEF Cleaned, TypeOK
      <3>4. Cleaned[k].upstream_not_before = None
        BY <3>2, <3>3 DEF expire_until_deadline, Slot
      <3> QED BY <1>4, <3>2, <3>4
    <2> QED BY <1>2, <1>3, <1>4, <1>5, <2>1, <2>2
  <1>6. CASE k \notin keys(rs)
    BY <1>1, <1>2, <1>3, <1>4, <1>6
  <1> QED BY <1>5, <1>6

\* The new permit of a granted acquire follows the episodes it probes, and all of
\* them were free.
LEMMA AcquiredPermit ==
  ASSUME EpisodeInv, NEW rs \in captured, acquire(rs), NEW k \in permit'[sequence + 1].probes
  PROVE  /\ k \in KeptFor(rs)
         /\ Follows(sequence + 1, k, permit'[sequence + 1], slots'[k], restriction_seq')
         /\ slots[k].probe_owner = 0
         /\ \A x \in Sources : permit'[sequence + 1].leased[k][x].opaque_id # 0 =>
              /\ is_policy(k)
              /\ permit'[sequence + 1].leased[k][x].opaque_id = slots[k].policy[x].opaque_id
  <1> DEFINE ticket == sequence + 1
             base == Base(rs)
             p == NewPermit(rs, base)
  <1>1. /\ rs \in ResourceSets /\ keys(rs) \subseteq Key /\ ticket \in Ticket
        /\ permit'[ticket] = p /\ Core /\ TypeOK /\ restriction_seq' = restriction_seq
        /\ restriction_seq \in Nat /\ slots \in [Key -> Slot]
    BY AcquireFields DEF EpisodeInv, Core, TypeOK, acquire
  <1>2. /\ base \in [Key -> Slot]
        /\ \A m \in KeptFor(rs) : m \in tracked /\ m \in Key /\ base[m] = Cleaned[m]
        /\ \A m \in Key : m \notin KeptFor(rs) => base[m] = EmptySlot
    BY <1>1, BaseFields
  <1>3. k \in keys(rs) /\ k \in Key /\ claims_probe(rs, k, base[k])
    BY <1>1 DEF NewPermit
  <1>4. k \in KeptFor(rs)
    <2>1. ~restricted(EmptySlot)
      BY DEF restricted, EmptySlot, has_row, NoRow
    <2> QED BY <1>2, <1>3, <2>1 DEF claims_probe
  <1>5. base[k].revision = slots[k].revision /\ base[k].policy = slots[k].policy
    BY <1>1, <1>2, <1>3, <1>4, CleanedFields
  <1>6. /\ p.later = {} /\ p.revision[k] = slots[k].revision
        /\ \A x \in Sources :
             p.leased[k][x] = IF is_policy(k)
                              THEN [opaque_id |-> slots[k].policy[x].opaque_id,
                                    revision |-> slots[k].policy[x].revision]
                              ELSE [opaque_id |-> 0, revision |-> 0]
    BY <1>3, <1>5 DEF NewPermit
  <1>7. /\ slots'[k].revision = slots[k].revision /\ slots'[k].policy = slots[k].policy
        /\ slots[k].probe_owner = 0 /\ slots'[k].probe_owner = ticket
        /\ slots'[k].upstream_not_before = None
    BY <1>1, <1>4, AcquiredSlot
  <1>8. /\ slots[k].revision \in Nat
        /\ \A x \in Sources : /\ slots[k].policy[x].opaque_id \in Nat
                              /\ slots[k].policy[x].revision \in Nat
    BY <1>1, <1>3 DEF Slot, Row
  <1>9. \A x \in Sources : /\ slots[k].policy[x].opaque_id <= restriction_seq
                           /\ slots[k].policy[x].opaque_id = 0 => slots[k].policy[x].revision = 0
    BY <1>3 DEF EpisodeInv, RowsIssued, has_row, NoRow
  <1> HIDE DEF p
  <1>10. \A x \in Sources :
           /\ p.leased[k][x].opaque_id = IF is_policy(k) THEN slots[k].policy[x].opaque_id ELSE 0
           /\ p.leased[k][x].revision = IF is_policy(k) THEN slots[k].policy[x].revision ELSE 0
    <2>1. CASE is_policy(k)
      <3>1. \A x \in Sources : p.leased[k][x] = [opaque_id |-> slots[k].policy[x].opaque_id,
                                                revision |-> slots[k].policy[x].revision]
        BY <1>6, <2>1
      <3>2. ASSUME NEW x \in Sources
            PROVE  /\ p.leased[k][x].opaque_id = slots[k].policy[x].opaque_id
                   /\ p.leased[k][x].revision = slots[k].policy[x].revision
        <4> DEFINE a == slots[k].policy[x].opaque_id
                   b == slots[k].policy[x].revision
        <4>1. p.leased[k][x] = [opaque_id |-> a, revision |-> b]
          BY <3>1
        <4> HIDE DEF a, b
        <4>2. p.leased[k][x].opaque_id = a /\ p.leased[k][x].revision = b
          BY <4>1
        <4> QED BY <4>2 DEF a, b
      <3> QED BY <2>1, <3>2
    <2>2. CASE ~is_policy(k)
      <3>1. \A x \in Sources : p.leased[k][x] = [opaque_id |-> 0, revision |-> 0]
        BY <1>6, <2>2
      <3> QED BY <2>2, <3>1
    <2> QED BY <2>1, <2>2
  <1>11. Follows(ticket, k, p, slots'[k], restriction_seq)
    <2>1. ASSUME NEW x \in Sources
          PROVE  /\ p.leased[k][x].opaque_id <= restriction_seq
                 /\ ~is_policy(k) => p.leased[k][x].opaque_id = 0
                 /\ p.leased[k][x].opaque_id = 0 => p.leased[k][x].revision = 0
                 /\ slots'[k].policy[x].opaque_id = p.leased[k][x].opaque_id =>
                      slots'[k].policy[x].revision >= p.leased[k][x].revision
      BY <1>1, <1>7, <1>8, <1>9, <1>10
    <2>2. slots'[k].revision >= p.revision[k]
      BY <1>6, <1>7, <1>8
    <2> QED BY <1>6, <1>7, <2>1, <2>2 DEF Follows
  <1> QED BY <1>1, <1>4, <1>7, <1>10, <1>11

\* A granted acquire preserves the invariant.
LEMMA EpisodeAcquire ==
  ASSUME EpisodeInv, NEW rs \in captured, acquire(rs), Core'
  PROVE  EpisodeInv'
  <1> DEFINE ticket == sequence + 1
  <1>a. /\ Core /\ TypeOK /\ rs \in ResourceSets /\ ticket \in Ticket
        /\ sequence' = ticket /\ live' = live \cup {ticket} /\ ticket \notin live
        /\ permit' = [permit EXCEPT ![ticket] = NewPermit(rs, Base(rs))]
        /\ live \subseteq Ticket /\ permit \in [Ticket -> Permit]
    BY AcquireFields DEF EpisodeInv, Core, TypeOK
  <1>b. /\ permit'[ticket].resources = rs /\ \A u \in live : permit'[u] = permit[u]
        /\ \A u \in Ticket : u \in Nat /\ u # 0
    BY <1>a DEF NewPermit, Ticket
  <1>1. /\ Core /\ TypeOK /\ rs \in ResourceSets /\ ticket \in Ticket /\ ticket \in Nat /\ ticket # 0
        /\ sequence \in Nat /\ sequence' = ticket
        /\ live' = live \cup {ticket} /\ ticket \notin live
        /\ \A u \in live : u \in Ticket /\ u \in Nat /\ u # 0 /\ permit'[u] = permit[u]
        /\ permit'[ticket].resources = rs
        /\ restriction_seq' = restriction_seq /\ restriction_seq \in Nat /\ revoked' = revoked
        /\ revoked \in [Key -> [Sources -> Nat]]
        /\ slots \in [Key -> Slot] /\ slots' \in [Key -> Slot]
        /\ permit \in [Ticket -> Permit] /\ permit' \in [Ticket -> Permit]
    BY <1>a, <1>b DEF Core, TypeOK, acquire
  <1>2. ASSUME NEW u \in live, NEW k \in keys(permit[u].resources)
        PROVE  k \in KeptFor(rs) /\ k \in Key
    BY <1>1, BaseFields, CoreTracks DEF ClaimsTracked
  <1>3. RowsIssued'
    <2> SUFFICES ASSUME NEW k \in Key, NEW x \in Sources
                 PROVE  /\ slots'[k].policy[x].opaque_id <= restriction_seq'
                        /\ ~has_row(slots'[k], x) => slots'[k].policy[x] = NoRow
                        /\ ~is_policy(k) => slots'[k].policy[x] = NoRow /\ revoked'[k][x] = 0
      BY DEF RowsIssued
    <2>1. slots'[k].policy[x] \in {slots[k].policy[x], NoRow}
      <3>1. CASE k \in KeptFor(rs)
        BY <1>1, <3>1, AcquiredSlot
      <3>2. CASE k \notin KeptFor(rs)
        <4>1. Base(rs)[k] = EmptySlot /\ Base(rs)[k] \in Slot /\ EmptySlot.policy[x] = NoRow
          BY <1>1, <3>2, BaseFields, ZenonT(40) DEF EmptySlot
        <4>2. slots'[k] \in {claim(rs, k, Base(rs)[k], ticket), Base(rs)[k]}
          BY <1>1, AcquireFields
        <4>a. rs \in ResourceSets /\ ticket \in Nat
          BY <1>1
        <4>3. claim(rs, k, Base(rs)[k], ticket).policy = Base(rs)[k].policy
          <5> HIDE DEF ticket
          <5> QED BY <4>a, <4>1, ClaimFields
        <4> QED BY <4>1, <4>2, <4>3
      <3> QED BY <3>1, <3>2
    <2>2. /\ slots[k].policy[x].opaque_id <= restriction_seq
          /\ ~has_row(slots[k], x) => slots[k].policy[x] = NoRow
          /\ ~is_policy(k) => slots[k].policy[x] = NoRow /\ revoked[k][x] = 0
          /\ NoRow.opaque_id = 0
      BY DEF EpisodeInv, RowsIssued, NoRow
    <2> QED BY <1>1, <2>1, <2>2 DEF has_row
  <1>4. ProbesFollow'
    <2> SUFFICES ASSUME NEW t \in live', NEW k \in permit'[t].probes
                 PROVE  Follows(t, k, permit'[t], slots'[k], restriction_seq')
      BY DEF ProbesFollow
    <2>1. CASE t = ticket
      BY <2>1, AcquiredPermit
    <2>2. CASE t # ticket
      <3>1. t \in live /\ permit'[t] = permit[t] /\ k \in permit[t].probes /\ permit[t] \in Permit
            /\ t # 0
        BY <1>1, <2>2
      <3>2. k \in KeptFor(rs) /\ k \in Key
        BY <1>1, <1>2, <3>1 DEF Core, ProbesClaimed
      <3>3. /\ slots'[k].revision = slots[k].revision
            /\ slots'[k].policy = slots[k].policy
            /\ slots'[k].upstream_not_before \in {slots[k].upstream_not_before, None}
            /\ slots[k].probe_owner = t => slots'[k].probe_owner = t
        BY <1>1, <3>1, <3>2, AcquiredSlot
      <3>4. slots[k] \in Slot /\ slots'[k] \in Slot
        BY <1>1, <3>2
      <3>5. slots[k].revision \in Nat /\ \A x \in Sources : slots[k].policy[x].revision \in Nat
        BY <3>4 DEF Slot, Row
      <3>6. Evolves(k, slots[k], slots'[k], restriction_seq, restriction_seq')
        BY <3>3, <3>5 DEF Evolves
      <3>7. Follows(t, k, permit[t], slots[k], restriction_seq)
        BY <3>1 DEF EpisodeInv, ProbesFollow
      <3>8. restriction_seq' >= restriction_seq /\ restriction_seq' \in Nat
        BY <1>1
      <3> QED BY <1>1, <3>1, <3>2, <3>3, <3>4, <3>6, <3>7, <3>8, FollowsOn
    <2> QED BY <2>1, <2>2
  <1>5. ASSUME NEW u \in live, NEW k \in permit'[ticket].probes \cap permit[u].probes, NEW x \in Sources,
               permit'[ticket].leased[k][x].opaque_id # 0 \/ permit[u].leased[k][x].opaque_id # 0
        PROVE  permit'[ticket].leased[k][x].opaque_id # permit[u].leased[k][x].opaque_id
    <2>1. /\ k \in KeptFor(rs) /\ slots[k].probe_owner = 0
          /\ permit'[ticket].leased[k][x].opaque_id # 0 =>
               /\ is_policy(k)
               /\ permit'[ticket].leased[k][x].opaque_id = slots[k].policy[x].opaque_id
      BY AcquiredPermit
    <2>2. Follows(u, k, permit[u], slots[k], restriction_seq)
      BY DEF EpisodeInv, ProbesFollow
    <2>3. Over(k, permit[u], slots[k])
      BY <1>1, <2>1, <2>2 DEF Follows
    <2> QED BY <1>5, <2>1, <2>3 DEF Over
  <1>6. LeasesDiffer'
    <2> SUFFICES ASSUME NEW t \in live', NEW u \in live',
                        NEW k \in permit'[t].probes \cap permit'[u].probes, NEW x \in Sources,
                        t # u, permit'[t].leased[k][x].opaque_id # 0
                 PROVE  permit'[t].leased[k][x].opaque_id # permit'[u].leased[k][x].opaque_id
      BY DEF LeasesDiffer
    <2>1. CASE t = ticket
      BY <1>1, <1>5, <2>1
    <2>2. CASE u = ticket
      BY <1>1, <1>5, <2>2
    <2>3. CASE t # ticket /\ u # ticket
      BY <1>1, <2>3 DEF EpisodeInv, LeasesDiffer
    <2> QED BY <2>1, <2>2, <2>3
  <1>7. RetiredFenced'
    <2>1. ASSUME NEW k \in Key, NEW x \in Sources PROVE revoked'[k][x] <= sequence' + 1
      <3>1. revoked[k][x] <= sequence + 1 /\ revoked[k][x] \in Nat
        BY <1>1 DEF EpisodeInv, RetiredFenced
      <3> QED BY <1>1, <3>1
    <2>2. ASSUME NEW t \in live', NEW k \in keys(permit'[t].resources), NEW x \in Sources,
                 t < revoked'[k][x]
          PROVE  t < slots'[k].fence \/ t < slots'[k].retired_policy[x]
      <3>1. CASE t = ticket
        <4>1. k \in Key
          BY <1>1, <3>1, KeysAreKeys
        <4>2. revoked[k][x] <= sequence + 1 /\ revoked[k][x] \in Nat
          BY <1>1, <4>1 DEF EpisodeInv, RetiredFenced
        <4> QED BY <1>1, <2>2, <3>1, <4>2
      <3>2. CASE t # ticket
        <4>1. t \in live /\ k \in keys(permit[t].resources) /\ t < revoked[k][x]
          BY <1>1, <2>2, <3>2
        <4>2. k \in KeptFor(rs)
          BY <1>2, <4>1
        <4>3. slots'[k].fence = slots[k].fence /\ slots'[k].retired_policy = slots[k].retired_policy
          BY <1>1, <4>2, AcquiredSlot
        <4> QED BY <4>1, <4>3 DEF EpisodeInv, RetiredFenced
      <3> QED BY <3>1, <3>2
    <2> QED BY <2>1, <2>2 DEF RetiredFenced
  <1>8. RevokedSourceStaysRevoked'
    <2>1. \A k \in Key : \A x \in Sources : evidence'[k][x] \subseteq evidence[k][x]
      <3>1. Sources \subseteq Items
        BY DEF Items
      <3> QED BY <1>1, <3>1, AcquireFields
    <2> QED BY <1>1, <2>1 DEF EpisodeInv, RevokedSourceStaysRevoked
  <1> QED BY <1>3, <1>4, <1>6, <1>7, <1>8 DEF EpisodeInv

\* Dropping a permit preserves the invariant.
LEMMA EpisodeDrop ==
  ASSUME EpisodeInv, NEW t \in Ticket, drop(t), Core'
  PROVE  EpisodeInv'
  <1>1. /\ Core /\ TypeOK /\ sequence' = sequence /\ live' = live \ {t}
        /\ restriction_seq' = restriction_seq /\ restriction_seq \in Nat /\ revoked' = revoked
        /\ tracked' \subseteq tracked /\ tracked \subseteq Key /\ live \subseteq Ticket
        /\ slots \in [Key -> Slot] /\ slots' \in [Key -> Slot]
        /\ permit \in [Ticket -> Permit]
        /\ Untracked'
    BY DropFields DEF EpisodeInv, Core, TypeOK, drop
  <1>2. \A u \in live' : u \in live /\ u # t /\ permit'[u] = permit[u]
    BY <1>1, DropFields
  <1>3. ASSUME NEW k \in tracked'
        PROVE  /\ k \in Key
               /\ slots'[k].fence = slots[k].fence
               /\ slots'[k].revision = slots[k].revision
               /\ slots'[k].retired_policy = slots[k].retired_policy
               /\ slots'[k].upstream_not_before = slots[k].upstream_not_before
               /\ slots'[k].probe_owner \in {slots[k].probe_owner, 0}
               /\ slots[k].probe_owner # t => slots'[k].probe_owner = slots[k].probe_owner
               /\ \A x \in Sources :
                    /\ slots'[k].policy[x].opaque_id = slots[k].policy[x].opaque_id
                    /\ slots'[k].policy[x].revision = slots[k].policy[x].revision
                    /\ slots[k].policy[x] = NoRow => slots'[k].policy[x] = NoRow
    <2>1. k \in Key /\ slots'[k] \in {released_slot(t, k), slots[k]}
      BY <1>1, DropFields
    <2> QED BY <1>1, <2>1, ReleasedSlotFields
  <1>4. ASSUME NEW u \in live', NEW k \in keys(permit[u].resources)
        PROVE  k \in tracked'
    BY <1>2, CoreTracksNext DEF ClaimsTracked
  <1>5. RowsIssued'
    <2> SUFFICES ASSUME NEW k \in Key, NEW x \in Sources
                 PROVE  /\ slots'[k].policy[x].opaque_id <= restriction_seq'
                        /\ ~has_row(slots'[k], x) => slots'[k].policy[x] = NoRow
                        /\ ~is_policy(k) => slots'[k].policy[x] = NoRow /\ revoked'[k][x] = 0
      BY DEF RowsIssued
    <2>1. \/ slots'[k].policy[x] = NoRow
          \/ /\ slots'[k].policy[x].opaque_id = slots[k].policy[x].opaque_id
             /\ slots[k].policy[x] = NoRow => slots'[k].policy[x] = NoRow
      BY <1>1, <1>3 DEF Untracked, EmptySlot
    <2>2. /\ slots[k].policy[x].opaque_id <= restriction_seq
          /\ ~has_row(slots[k], x) => slots[k].policy[x] = NoRow
          /\ ~is_policy(k) => slots[k].policy[x] = NoRow /\ revoked[k][x] = 0
          /\ NoRow.opaque_id = 0
      BY DEF EpisodeInv, RowsIssued, NoRow
    <2> QED BY <1>1, <2>1, <2>2 DEF has_row
  <1>6. ProbesFollow'
    <2> SUFFICES ASSUME NEW u \in live', NEW k \in permit'[u].probes
                 PROVE  Follows(u, k, permit'[u], slots'[k], restriction_seq')
      BY DEF ProbesFollow
    <2>1. u \in live /\ u # t /\ permit'[u] = permit[u] /\ k \in permit[u].probes /\ permit[u] \in Permit
      BY <1>1, <1>2
    <2>2. k \in tracked' /\ k \in Key
      BY <1>1, <1>4, <2>1 DEF Core, ProbesClaimed
    <2>3. slots[k] \in Slot /\ slots'[k] \in Slot
      BY <1>1, <2>2
    <2>4. slots[k].revision \in Nat /\ \A x \in Sources : slots[k].policy[x].revision \in Nat
      BY <2>3 DEF Slot, Row
    <2>5. Evolves(k, slots[k], slots'[k], restriction_seq, restriction_seq')
      BY <1>3, <2>2, <2>4 DEF Evolves
    <2>6. slots[k].probe_owner = u => slots'[k].probe_owner = u
      BY <1>3, <2>1, <2>2
    <2>7. Follows(u, k, permit[u], slots[k], restriction_seq)
      BY <2>1 DEF EpisodeInv, ProbesFollow
    <2>8. restriction_seq' >= restriction_seq /\ restriction_seq' \in Nat
      BY <1>1
    <2> QED BY <1>1, <2>1, <2>2, <2>3, <2>5, <2>6, <2>7, <2>8, FollowsOn
  <1>7. LeasesDiffer'
    BY <1>2 DEF EpisodeInv, LeasesDiffer
  <1>8. RetiredFenced'
    <2>1. ASSUME NEW u \in live', NEW k \in keys(permit'[u].resources), NEW x \in Sources,
                 u < revoked'[k][x]
          PROVE  u < slots'[k].fence \/ u < slots'[k].retired_policy[x]
      <3>1. u \in live /\ k \in keys(permit[u].resources) /\ k \in tracked' /\ u < revoked[k][x]
        BY <1>1, <1>2, <1>4, <2>1
      <3> QED BY <1>3, <3>1 DEF EpisodeInv, RetiredFenced
    <2> QED BY <1>1, <2>1 DEF EpisodeInv, RetiredFenced
  <1>9. RevokedSourceStaysRevoked'
    <2>1. \A k \in Key : \A x \in Sources : evidence'[k][x] \subseteq evidence[k][x]
      <3>1. Sources \subseteq Items
        BY DEF Items
      <3> QED BY <1>1, <3>1, DropFields
    <2> QED BY <1>1, <2>1 DEF EpisodeInv, RevokedSourceStaysRevoked
  <1> QED BY <1>5, <1>6, <1>7, <1>8, <1>9 DEF EpisodeInv

\* Initially no episode exists.
LEMMA EpisodeInit == Init => EpisodeInv
  <1> SUFFICES ASSUME Init PROVE EpisodeInv
    OBVIOUS
  <1>1. /\ live = {} /\ sequence = 0 /\ restriction_seq = 0
        /\ slots = [k \in Key |-> EmptySlot] /\ evidence = [k \in Key |-> [i \in Items |-> {}]]
        /\ revoked = [k \in Key |-> [x \in Sources |-> 0]] /\ Sources \subseteq Items
    BY DEF Init, Items
  <1>2. RowsIssued
    BY <1>1 DEF RowsIssued, EmptySlot, NoRow
  <1>3. ProbesFollow /\ LeasesDiffer /\ RetiredFenced /\ RevokedSourceStaysRevoked
    BY <1>1 DEF ProbesFollow, LeasesDiffer, RetiredFenced, RevokedSourceStaysRevoked
  <1> QED BY <1>2, <1>3, CoreInit DEF EpisodeInv

\* Every step preserves the invariant.
LEMMA EpisodeNext == EpisodeInv /\ [Next]_vars => EpisodeInv'
  <1> SUFFICES ASSUME EpisodeInv, [Next]_vars PROVE EpisodeInv'
    OBVIOUS
  <1>1. Core /\ Core' /\ RowsIssued
    BY CoreNext DEF EpisodeInv
  <1>2. CASE Quiet /\ Advances
    BY <1>1, <1>2, EpisodeQuiet
  <1>3. CASE \E rs \in captured : acquire(rs)
    BY <1>1, <1>3, EpisodeAcquire
  <1>4. CASE \E t \in Ticket : drop(t)
    BY <1>1, <1>4, EpisodeDrop
  <1> QED BY <1>1, <1>2, <1>3, <1>4, AdvancesNext

\* The invariant of episodes holds.
LEMMA EpisodeInvariant == Spec => []EpisodeInv
  BY EpisodeInit, EpisodeNext, PTL DEF Spec

\* A restriction that an operator cleared, or whose rule was withdrawn, is never
\* recreated by the late reply of a request admitted before that.
THEOREM RetirementIsFinal == Spec => []RevokedSourceStaysRevoked
  <1>1. EpisodeInv => RevokedSourceStaysRevoked
    BY DEF EpisodeInv
  <1> QED BY <1>1, EpisodeInvariant, PTL

\* Two permits never probe the same waiting episode, although a cleared or newly
\* observed slot may have handed its lease on while the first probe was under way.
THEOREM ProbesAreSingle == Spec => []OneProbePerEpisode
  <1>1. EpisodeInv => OneProbePerEpisode
    <2> SUFFICES ASSUME EpisodeInv, NEW t \in live, NEW u \in live,
                        NEW k \in permit[t].probes \cap permit[u].probes, t # u
                 PROVE  /\ ~is_policy(k) => \E v \in {t, u} : permit[v].revision[k] # slots[k].revision
                        /\ \A x \in Sources : permit[t].leased[k][x].opaque_id # 0 =>
                             permit[t].leased[k][x].opaque_id # permit[u].leased[k][x].opaque_id
      BY DEF OneProbePerEpisode
    <2>1. /\ Follows(t, k, permit[t], slots[k], restriction_seq)
          /\ Follows(u, k, permit[u], slots[k], restriction_seq)
      BY DEF EpisodeInv, ProbesFollow
    <2>2. PICK v \in {t, u} : slots[k].probe_owner # v
      OBVIOUS
    <2>3. Over(k, permit[v], slots[k])
      BY <2>1, <2>2 DEF Follows
    <2>4. k \in Key /\ v \in Ticket /\ permit[v] \in Permit /\ slots[k] \in Slot
      BY DEF EpisodeInv, Core, TypeOK, Permit
    <2>5. permit[v].revision[k] \in Nat /\ slots[k].revision \in Nat
      BY <2>4 DEF Permit, Slot
    <2>6. ~is_policy(k) => permit[v].revision[k] # slots[k].revision
      BY <2>3, <2>5 DEF Over
    <2> QED BY <2>6 DEF EpisodeInv, LeasesDiffer
  <1> QED BY <1>1, EpisodeInvariant, PTL

\* confirm_success leaves what was recorded after its permit was granted: the slot's
\* revision, or the row's, has moved on since.
LEMMA ConfirmKeeps ==
  ASSUME EpisodeInv, NEW t \in live, confirm_success(t), NEW k \in Key, NEW i \in Items,
         <<k, i>> \in permit[t].later
  PROVE  IF i = Upstream
         THEN /\ slots'[k].upstream_not_before = slots[k].upstream_not_before
              /\ slots'[k].next_probe = slots[k].next_probe
              /\ slots'[k].awaiting_recovery = slots[k].awaiting_recovery
         ELSE slots'[k].policy[i] = slots[k].policy[i]
  <1>1. /\ TypeOK /\ t \in Ticket /\ t + 1 \in Nat /\ slots[k] \in Slot /\ permit[t] \in Permit
        /\ slots'[k] = IF confirms(t, k) THEN confirmed_slot(t, k) ELSE slots[k]
    BY DEF EpisodeInv, Core, TypeOK, Ticket, confirm_success
  <1>2. i # Upstream => i \in Sources
    BY DEF Items
  <1>3. CASE ~confirms(t, k)
    BY <1>1, <1>3
  <1>4. CASE confirms(t, k)
    <2>1. Follows(t, k, permit[t], slots[k], restriction_seq)
      BY <1>4 DEF confirms, EpisodeInv, ProbesFollow
    <2>2. CASE ~is_policy(k)
      <3>1. i # Upstream
        <4>1. slots[k].revision \in Nat /\ slots[k].revision = permit[t].revision[k]
          BY <1>1, <1>4, <2>2 DEF confirms, Slot
        <4> QED BY <2>1, <2>2, <4>1 DEF Follows
      <3>2. slots'[k] = clear(slots[k], t + 1)
        BY <1>1, <1>4, <2>2, ConfirmedSlotFields
      <3>3. slots'[k].policy[i] = NoRow
        BY <1>1, <1>2, <3>1, <3>2, ClearFields
      <3>4. slots[k].policy[i] = NoRow
        BY <1>2, <2>2, <3>1 DEF EpisodeInv, RowsIssued
      <3> QED BY <3>1, <3>3, <3>4
    <2>3. CASE is_policy(k)
      <3>1. slots'[k] = confirmed_slot(t, k)
        BY <1>1, <1>4
      <3>2. /\ slots'[k].upstream_not_before = slots[k].upstream_not_before
            /\ slots'[k].next_probe = slots[k].next_probe
            /\ slots'[k].awaiting_recovery = slots[k].awaiting_recovery
            /\ \A x \in Sources : slots'[k].policy[x] =
                 IF same_episode(slots[k].policy[x], permit[t].leased[k][x])
                 THEN NoRow ELSE slots[k].policy[x]
        BY <1>1, <2>3, <3>1, ConfirmedSlotFields
      <3>3. ASSUME i \in Sources, same_episode(slots[k].policy[i], permit[t].leased[k][i])
            PROVE  slots[k].policy[i] = NoRow
        <4>1. slots[k].policy[i].revision \in Nat
          BY <1>1, <3>3 DEF Slot, Row
        <4> QED BY <2>1, <3>3, <4>1 DEF Follows, same_episode
      <3> QED BY <1>2, <3>2, <3>3
    <2> QED BY <2>2, <2>3
  <1> QED BY <1>3, <1>4

\* A success that was admitted before a failure was recorded never clears that
\* failure, for any interleaving of probes, replies, resets and rule changes.
THEOREM SuccessIsNotRetroactive == Spec => ConfirmKeepsLaterFailures
  <1>1. EpisodeInv /\ [Next]_vars =>
          [\A t \in live : confirm_success(t) =>
             \A k \in Key : \A i \in {j \in Items : <<k, j>> \in permit[t].later} :
               IF i = Upstream
               THEN /\ slots'[k].upstream_not_before = slots[k].upstream_not_before
                    /\ slots'[k].next_probe = slots[k].next_probe
                    /\ slots'[k].awaiting_recovery = slots[k].awaiting_recovery
               ELSE slots'[k].policy[i] = slots[k].policy[i]]_vars
    BY ConfirmKeeps
  <1> QED BY <1>1, EpisodeInvariant, PTL DEF Spec, ConfirmKeepsLaterFailures

-----------------------------------------------------------------------------
(* Retry-After.                                                            *)
(*                                                                         *)
(* A probe that could lift a deadline that has not elapsed would have been *)
(* granted before it was recorded, and is not confirmed then; the cleanup  *)
(* drops a slot under a deadline only for a resource set of another        *)
(* generation, which does not claim that slot: generations are part of     *)
(* the keys.                                                               *)

\* A key of a generation says which generation it is.
GenerationInKey(k) == k.kind \notin {"EndpointModel", "FreeEgress"}

\* A slot belongs to a generation that its key stands for.
GenerationsMatch ==
  \A k \in tracked : GenerationInKey(k) =>
    \E rs \in ResourceSets : k \in keys(rs) /\ slots[k].owner_generation = owner_generation(rs, k)

\* The second component of a tuple.
LEMMA SecondOf ==
  /\ \A x, a, b, c : x = <<a, b, c>> => x[2] = b
  /\ \A x, a, b, c, d : x = <<a, b, c, d>> => x[2] = b
  OBVIOUS

\* The digests of a capture hold the digest of the generation they are for.
LEMMA DigestsHoldGeneration ==
  ASSUME NEW p, NEW q
  PROVE  /\ from_snapshot(p, q).credits[2] = from_snapshot(p, q).quota
         /\ from_snapshot(p, q).policy_model # NoDigest =>
              from_snapshot(p, q).policy_model[2] = from_snapshot(p, q).credential
  <1> DEFINE cred == identity(p, q.account, q.free_contract)
             quota == <<"quota", {identity(p, b, q.free_contract) : b \in pool_members(p, q.account)}>>
             n == from_snapshot(p, q)
  <1>1. /\ n.credits = <<"credits", quota, q.model>> /\ n.quota = quota /\ n.credential = cred
        /\ n.policy_model = IF q.endpoint = "" \/ q.model = "" THEN NoDigest
                            ELSE <<"policy model", cred, q.endpoint, q.model>>
    BY DEF from_snapshot
  <1> HIDE DEF n, cred, quota
  <1>2. n.credits[2] = n.quota
    <2> DEFINE tag == "credits"
               model == q.model
    <2>1. n.credits = <<tag, quota, model>>
      BY <1>1
    <2> HIDE DEF tag, model
    <2> QED BY <1>1, <2>1, SecondOf
  <1>3. n.policy_model # NoDigest => n.policy_model[2] = n.credential
    <2> DEFINE tag == "policy model"
               model == q.model
               endpoint == q.endpoint
    <2>1. n.policy_model # NoDigest => n.policy_model = <<tag, cred, endpoint, model>>
      BY <1>1
    <2> HIDE DEF tag, model, endpoint
    <2> QED BY <1>1, <2>1, SecondOf, ZenonT(40)
  <1> QED BY <1>2, <1>3 DEF n

\* Two resource sets that share such a key are of the same generation there.
LEMMA SameGeneration ==
  ASSUME NEW a \in ResourceSets, NEW b \in ResourceSets, NEW k \in keys(a) \cap keys(b),
         GenerationInKey(k)
  PROVE  owner_generation(a, k) = owner_generation(b, k)
  <1>1. PICK x \in ResourceKind : k = key(a, x) /\ (x = "PolicyCredentialModel" => Resources[a].policy_model # NoDigest)
    BY DEF keys
  <1>2. PICK y \in ResourceKind : k = key(b, y) /\ (y = "PolicyCredentialModel" => Resources[b].policy_model # NoDigest)
    BY DEF keys
  <1>3. x = k.kind /\ y = k.kind /\ key(a, k.kind).generation = key(b, k.kind).generation
    BY <1>1, <1>2 DEF key
  <1>4. k.kind \in {"Credits", "CredentialRetry", "PolicyCredential", "PolicyCredentialModel"} \cup Windows
    BY <1>1, <1>3 DEF ResourceKind, PoolKinds, PolicyKinds, GenerationInKey
  <1>5. /\ Resources[a] = from_snapshot(Routes[a].projection, Routes[a].request)
        /\ Resources[b] = from_snapshot(Routes[b].projection, Routes[b].request)
    <2>1. DOMAIN Resources = DOMAIN Routes
      BY DEF Resources
    <2> QED BY <2>1 DEF Resources, ResourceSets
  <1>6. CASE k.kind = "CredentialRetry"
    BY <1>3, <1>6 DEF key, owner_generation, PolicyKinds
  <1>7. CASE k.kind = "PolicyCredential"
    BY <1>3, <1>7 DEF key, owner_generation, PolicyKinds
  <1>8. CASE k.kind = "PolicyCredentialModel"
    <2>1. Resources[a].policy_model = Resources[b].policy_model
          /\ Resources[a].policy_model # NoDigest /\ Resources[b].policy_model # NoDigest
      BY <1>1, <1>2, <1>3, <1>8 DEF key
    <2>2. ASSUME NEW c \in {a, b}
          PROVE  Resources[c].policy_model[2] = Resources[c].credential
      BY <1>5, <2>1, DigestsHoldGeneration
    <2> QED BY <1>8, <2>1, <2>2 DEF owner_generation, PolicyKinds
  <1>9. CASE k.kind = "Credits"
    <2>1. Resources[a].credits = Resources[b].credits
      BY <1>3, <1>9 DEF key
    <2>2. ASSUME NEW c \in {a, b}
          PROVE  Resources[c].credits[2] = Resources[c].quota
      BY <1>5, DigestsHoldGeneration
    <2> QED BY <1>9, <2>1, <2>2 DEF owner_generation, PolicyKinds
  <1>10. CASE k.kind \in Windows
    <2>1. k.kind \in {"FiveHours", "Week", "Month"}
      BY <1>10, WindowsAssumption
    <2> QED BY <1>3, <2>1 DEF key, owner_generation, PolicyKinds
  <1> QED BY <1>4, <1>6, <1>7, <1>8, <1>9, <1>10

RetryInv == EpisodeInv /\ GenerationsMatch

\* Slots keep belonging to the generation of their key.
LEMMA RetryNext == RetryInv /\ [Next]_vars => RetryInv'
  <1> SUFFICES ASSUME RetryInv, [Next]_vars PROVE GenerationsMatch'
    BY EpisodeNext DEF RetryInv
  <1>0. Core /\ TypeOK /\ tracked \subseteq Key /\ GenerationsMatch
    BY DEF RetryInv, EpisodeInv, Core, TypeOK
  <1>1. ASSUME \A k \in tracked' : k \in tracked /\ slots'[k].owner_generation = slots[k].owner_generation
        PROVE  GenerationsMatch'
    BY <1>0, <1>1 DEF GenerationsMatch
  <1>2. CASE Quiet
    BY <1>1, <1>2 DEF Quiet, SlotKept
  <1>3. ASSUME NEW rs \in captured, acquire(rs) PROVE GenerationsMatch'
    <2> DEFINE ticket == sequence + 1
    <2>1. /\ rs \in ResourceSets /\ keys(rs) \subseteq Key /\ ticket \in Nat
          /\ tracked' = KeptFor(rs) \cup keys(rs)
          /\ \A k \in Key : slots'[k] = IF k \in keys(rs) THEN claim(rs, k, Base(rs)[k], ticket)
                                        ELSE Base(rs)[k]
      BY <1>0, <1>3, AcquireFields DEF Ticket
    <2>2. /\ Base(rs) \in [Key -> Slot]
          /\ \A k \in KeptFor(rs) : k \in tracked /\ k \in Key /\ Base(rs)[k] = Cleaned[k]
      BY <1>0, <2>1, BaseFields
    <2> SUFFICES ASSUME NEW k \in tracked', GenerationInKey(k)
                 PROVE  \E r \in ResourceSets : k \in keys(r) /\ slots'[k].owner_generation = owner_generation(r, k)
      BY DEF GenerationsMatch
    <2>3. CASE k \in keys(rs)
      BY <2>1, <2>2, <2>3, ClaimFields
    <2>4. CASE k \notin keys(rs)
      <3>1. k \in tracked /\ k \in Key /\ slots'[k] = Cleaned[k]
        BY <2>1, <2>2, <2>4
      <3> QED BY <1>0, <3>1, CleanedFields DEF GenerationsMatch
    <2> QED BY <2>3, <2>4
  <1>4. ASSUME NEW t \in Ticket, drop(t) PROVE GenerationsMatch'
    <2>1. ASSUME NEW k \in tracked'
          PROVE  k \in tracked /\ slots'[k].owner_generation = slots[k].owner_generation
      <3>1. k \in tracked /\ k \in Key /\ slots'[k] \in {released_slot(t, k), slots[k]}
        BY <1>0, <1>4, DropFields
      <3> QED BY <1>0, <3>1, ReleasedSlotFields
    <2> QED BY <1>1, <2>1
  <1> QED BY <1>0, <1>2, <1>3, <1>4, QuietNext

\* The invariant holds.
LEMMA RetryInvariant == Spec => []RetryInv
  <1>1. Init => RetryInv
    BY EpisodeInit DEF RetryInv, GenerationsMatch, Init
  <1> QED BY <1>1, RetryNext, PTL DEF Spec

\* A slot whose deadline has not elapsed is tracked and restricted.
LEMMA WaitingSlot ==
  ASSUME Core, NEW k \in Key, deadline_is_live(slots[k].upstream_not_before)
  PROVE  /\ k \in tracked /\ restricted(slots[k]) /\ projected_restricted(slots[k])
         /\ slots[k] \in Slot /\ slots[k].upstream_not_before \in Nat
         /\ slots[k].upstream_not_before # None
         /\ ~(slots[k].upstream_not_before < slots[k].upstream_not_before)
  <1>1. slots[k] \in Slot /\ wall \in Nat /\ None = -1
    BY ConstantTypes DEF Core, TypeOK
  <1>2. slots[k].upstream_not_before \in Nat \cup {None}
    BY <1>1 DEF Slot, Instant
  <1>3. slots[k].upstream_not_before \in Nat /\ slots[k].upstream_not_before # None
    BY <1>1, <1>2 DEF deadline_is_live
  <1>4. k \in tracked
    BY <1>3 DEF Core, Untracked, EmptySlot
  <1> QED BY <1>1, <1>3, <1>4 DEF restricted, projected_restricted

\* Keeping the slots with claims or restrictions keeps a slot that still waits.
LEMMA StoreKeepsWaiting ==
  ASSUME Core, NEW s \in [Key -> Slot], NEW ev, Store(retain_live_slots(s), s, ev),
         NEW k \in Key, deadline_is_live(slots[k].upstream_not_before),
         s[k].upstream_not_before = slots[k].upstream_not_before
  PROVE  slots'[k].upstream_not_before = slots[k].upstream_not_before
  <1>1. k \in tracked /\ slots[k].upstream_not_before # None
    BY WaitingSlot
  <1>2. restricted(s[k])
    BY <1>1 DEF restricted
  <1>3. k \in retain_live_slots(s)
    BY <1>1, <1>2 DEF retain_live_slots
  <1> QED BY <1>3 DEF Store

\* The cleanup keeps a slot that still waits, unless a newer generation of the same
\* owners makes it obsolete.
LEMMA CleanupKeepsWaiting ==
  ASSUME RetryInv, NEW rs \in ResourceSets, NEW k \in Key,
         deadline_is_live(slots[k].upstream_not_before)
  PROVE  /\ Cleaned[k].upstream_not_before = slots[k].upstream_not_before
         /\ k \in KeptFor(rs) \/ /\ k \notin KeptFor(rs) \cup keys(rs)
                                 /\ slots[k].active = 0
                                 /\ slots[k].owners = owners(rs, k)
                                 /\ slots[k].owner_generation # owner_generation(rs, k)
  <1>0. Core /\ TypeOK /\ GenerationsMatch
    BY DEF RetryInv, EpisodeInv, Core
  <1>1. k \in tracked /\ projected_restricted(slots[k])
    BY <1>0, WaitingSlot
  <1>2. Cleaned[k] = slots[k]
    BY <1>0 DEF Cleaned, expire_until_deadline
  <1>3. ASSUME k \notin KeptFor(rs)
        PROVE  /\ k \notin keys(rs) /\ slots[k].active = 0
               /\ slots[k].owners = owners(rs, k)
               /\ slots[k].owner_generation # owner_generation(rs, k)
    <2>1. ~slot_kept_after_cleanup(k, slots[k], rs)
      BY <1>1, <1>2, <1>3 DEF KeptFor
    <2>2. /\ k.kind \notin {"EndpointModel", "FreeEgress"}
          /\ slots[k].active = 0
          /\ slots[k].owners = owners(rs, k)
          /\ slots[k].owner_generation # owner_generation(rs, k)
      BY <1>1, <2>1 DEF slot_kept_after_cleanup
    <2>3. k \notin keys(rs)
      <3> SUFFICES ASSUME k \in keys(rs) PROVE FALSE
        OBVIOUS
      <3>1. GenerationInKey(k)
        BY <2>2 DEF GenerationInKey
      <3>2. PICK r \in ResourceSets : k \in keys(r) /\ slots[k].owner_generation = owner_generation(r, k)
        BY <1>0, <1>1, <3>1 DEF GenerationsMatch
      <3>3. owner_generation(r, k) = owner_generation(rs, k)
        BY <3>1, <3>2, SameGeneration
      <3> QED BY <2>2, <3>2, <3>3
    <2> QED BY <2>2, <2>3
  <1> QED BY <1>2, <1>3

\* The slot of k may be gone: a newer generation of its owners made it obsolete.
Obsolete(k) ==
  \E rs \in captured :
    /\ k \notin tracked'
    /\ slots[k].active = 0
    /\ slots[k].owners = owners(rs, k)
    /\ slots[k].owner_generation # owner_generation(rs, k)

\* An acquire, granted or not, lifts a deadline only from an obsolete slot.
LEMMA AcquireHonours ==
  ASSUME RetryInv, NEW rs \in captured, acquire(rs) \/ acquire_refused(rs), NEW k \in Key,
         deadline_is_live(slots[k].upstream_not_before)
  PROVE  slots'[k].upstream_not_before = slots[k].upstream_not_before \/ Obsolete(k)
  <1>1. Core /\ TypeOK /\ rs \in ResourceSets
    BY DEF RetryInv, EpisodeInv, Core, TypeOK
  <1>2. /\ Cleaned[k].upstream_not_before = slots[k].upstream_not_before
        /\ k \in KeptFor(rs) \/ /\ k \notin KeptFor(rs) \cup keys(rs)
                                /\ slots[k].active = 0
                                /\ slots[k].owners = owners(rs, k)
                                /\ slots[k].owner_generation # owner_generation(rs, k)
    BY <1>1, CleanupKeepsWaiting
  <1>3. CASE acquire(rs)
    <2>1. /\ tracked' = KeptFor(rs) \cup keys(rs) /\ sequence + 1 \in Nat
          /\ slots'[k] = IF k \in keys(rs) THEN claim(rs, k, Base(rs)[k], sequence + 1) ELSE Base(rs)[k]
      BY <1>1, <1>3, AcquireFields DEF Ticket
    <2>2. CASE k \in KeptFor(rs)
      <3>1. Base(rs)[k] = Cleaned[k] /\ Base(rs)[k] \in Slot
        BY <1>1, <2>2, BaseFields
      <3>2. claim(rs, k, Base(rs)[k], sequence + 1).upstream_not_before = Base(rs)[k].upstream_not_before
        BY <1>1, <2>1, <3>1, ClaimFields
      <3> QED BY <1>2, <2>1, <3>1, <3>2
    <2>3. CASE k \notin KeptFor(rs)
      BY <1>2, <2>1, <2>3 DEF Obsolete
    <2> QED BY <2>2, <2>3
  <1>4. CASE acquire_refused(rs)
    <2>1. tracked' = KeptFor(rs) /\ slots'[k] = IF k \in KeptFor(rs) THEN Cleaned[k] ELSE EmptySlot
      BY <1>4 DEF acquire_refused, Store
    <2> QED BY <1>2, <2>1 DEF Obsolete
  <1> QED BY <1>3, <1>4

\* Only a reset of an owner lifts a deadline that has not elapsed.
LEMMA ResetHonours ==
  ASSUME RetryInv, NEW a \in Accounts, reset_account(a), NEW k \in Key,
         deadline_is_live(slots[k].upstream_not_before)
  PROVE  slots'[k].upstream_not_before = slots[k].upstream_not_before \/ a \in slots[k].owners
  <1> DEFINE cleared == {m \in tracked : m.kind # "FreeEgress" /\ a \in slots[m].owners}
             s == [m \in Key |-> IF m \in cleared THEN clear(slots[m], sequence + 1) ELSE slots[m]]
             ev == [m \in Key |-> IF m \in cleared THEN [i \in Items |-> {}] ELSE evidence[m]]
  <1>1. Core /\ sequence + 1 \in Nat /\ slots \in [Key -> Slot] /\ Store(retain_live_slots(s), s, ev)
    BY DEF RetryInv, EpisodeInv, Core, TypeOK, reset_account
  <1>2. CASE k \in cleared
    BY <1>2
  <1>3. CASE k \notin cleared
    <2> HIDE DEF cleared
    <2>1. s \in [Key -> Slot] /\ s[k] = slots[k]
      BY <1>1, <1>3, ClearType
    <2> HIDE DEF s, ev
    <2> QED BY <1>1, <2>1, StoreKeepsWaiting
  <1> QED BY <1>2, <1>3

\* Retired rules, replies, responses and dropped permits never lift one.
LEMMA OthersHonour ==
  ASSUME RetryInv, NEW k \in Key, deadline_is_live(slots[k].upstream_not_before),
         \/ \E snapshot \in Snapshots : install_snapshot(snapshot)
         \/ \E id \in 1..restriction_seq : clear_restriction(id)
         \/ \E t \in Ticket : Observes(t) \/ confirm_success(t) \/ drop(t)
         \/ observe_policy_retry \/ observe_policy
         \/ slots' = slots
  PROVE  ~(slots'[k].upstream_not_before < slots[k].upstream_not_before)
  <1>0. /\ Core /\ TypeOK /\ slots \in [Key -> Slot] /\ sequence + 1 \in Nat /\ slots[k] \in Slot
        /\ k \in tracked /\ slots[k].upstream_not_before \in Nat
        /\ slots[k].upstream_not_before # None
        /\ ~(slots[k].upstream_not_before < slots[k].upstream_not_before)
    BY WaitingSlot DEF RetryInv, EpisodeInv, Core, TypeOK
  <1>1. ASSUME NEW stale \in [Key -> SUBSET Sources], Retire(stale)
        PROVE  slots'[k].upstream_not_before = slots[k].upstream_not_before
    <2> DEFINE f == sequence + 1
               s == [m \in Key |-> retire_source(slots[m], stale[m], f)]
               ev == [m \in Key |-> [i \in Items |-> IF i \in stale[m] THEN {} ELSE evidence[m][i]]]
    <2>1. Store(retain_live_slots(s), s, ev) /\ f \in Nat
      BY <1>0, <1>1 DEF Retire
    <2> HIDE DEF f
    <2>2. s \in [Key -> Slot] /\ s[k].upstream_not_before = slots[k].upstream_not_before
      BY <1>0, <2>1, RetireType, RetireKeeps
    <2> HIDE DEF s, ev
    <2> QED BY <1>0, <2>1, <2>2, StoreKeepsWaiting
  <1>2. CASE \/ \E snapshot \in Snapshots : install_snapshot(snapshot)
             \/ \E id \in 1..restriction_seq : clear_restriction(id)
    <2>1. \E stale \in [Key -> SUBSET Sources] : Retire(stale)
      <3>1. ASSUME NEW snapshot \in Snapshots, install_snapshot(snapshot)
            PROVE  \E stale \in [Key -> SUBSET Sources] : Retire(stale)
        <4> DEFINE st == [m \in Key |->
               IF m \in tracked
               THEN {x \in Sources : has_row(slots[m], x) /\ x \notin snapshot[slots[m].destination_id]}
               ELSE {}]
        <4>1. st \in [Key -> SUBSET Sources] /\ Retire(st)
          BY <3>1 DEF install_snapshot
        <4> HIDE DEF st
        <4> QED BY <4>1
      <3>2. ASSUME NEW id, clear_restriction(id)
            PROVE  \E stale \in [Key -> SUBSET Sources] : Retire(stale)
        <4> DEFINE st == [m \in Key |->
               {x \in Sources : has_row(slots[m], x) /\ slots[m].policy[x].opaque_id = id}]
        <4>1. st \in [Key -> SUBSET Sources] /\ Retire(st)
          BY <3>2 DEF clear_restriction
        <4> HIDE DEF st
        <4> QED BY <4>1
      <3> QED BY <1>2, <3>1, <3>2
    <2> QED BY <1>0, <1>1, <2>1
  <1>3. ASSUME NEW t \in Ticket, NEW m, NEW allowed \in BOOLEAN, NEW wait \in BOOLEAN,
               NEW hint \in Instant, NEW now \in Nat, NEW phase,
               observe_key(t, m, allowed, wait, hint, now, phase)
        PROVE  ~(slots'[k].upstream_not_before < slots[k].upstream_not_before)
    <2>1. slots'[k] \in {slots[k], observed_slot(t, k, wait, hint, now)}
      BY <1>0, <1>3 DEF observe_key
    <2>2. observed_slot(t, k, wait, hint, now) \in Slot
          /\ observed_slot(t, k, wait, hint, now).upstream_not_before >= slots[k].upstream_not_before
      BY <1>0, ObservedSlotFields, ObservedSlotType
    <2>3. observed_slot(t, k, wait, hint, now).upstream_not_before \in Int
      BY <2>2, ConstantTypes DEF Slot, Instant
    <2> QED BY <1>0, <2>1, <2>2, <2>3
  <1>4. ASSUME NEW t \in Ticket, Observes(t)
        PROVE  ~(slots'[k].upstream_not_before < slots[k].upstream_not_before)
    <2>1. mono \in Nat
      BY <1>0 DEF TypeOK
    <2> QED BY <1>3, <1>4, <2>1 DEF Observes
  <1>5. ASSUME observe_policy_retry
        PROVE  ~(slots'[k].upstream_not_before < slots[k].upstream_not_before)
    <2> DEFINE t == db.holder
               m == DecisionKey(t, db.source)
    <2>1. /\ t \in Ticket /\ db.hint \in Instant /\ db.at \in Nat
          /\ observe_key(t, m, TRUE, FALSE, db.hint, db.at, "rejected")
      BY <1>0, <1>5 DEF observe_policy_retry, Core, LoopInv, TypeOK, Loop
    <2> HIDE DEF t, m
    <2> QED BY <1>3, <2>1
  <1>6. ASSUME observe_policy
        PROVE  ~(slots'[k].upstream_not_before < slots[k].upstream_not_before)
    <2> DEFINE t == db.holder
               x == db.source
               m == DecisionKey(t, x)
               row == observed_row(t, m, x)
    <2>1. slots' = slots \/ slots' = [slots EXCEPT ![m].policy[x] = row]
      BY <1>6 DEF observe_policy
    <2> HIDE DEF t, x, m, row
    <2>2. slots'[k].upstream_not_before = slots[k].upstream_not_before
      BY <1>0, <2>1 DEF Slot
    <2> QED BY <1>0, <2>2
  <1>7. ASSUME NEW t \in Ticket, confirm_success(t)
        PROVE  slots'[k].upstream_not_before = slots[k].upstream_not_before
    <2>1. slots'[k] = IF confirms(t, k) THEN confirmed_slot(t, k) ELSE slots[k]
      BY <1>7 DEF confirm_success
    <2>2. CASE confirms(t, k) /\ is_policy(k)
      BY <1>0, <2>1, <2>2, ConfirmedSlotFields
    <2>3. ~(confirms(t, k) /\ ~is_policy(k))
      <3> SUFFICES ASSUME confirms(t, k), ~is_policy(k) PROVE FALSE
        OBVIOUS
      <3>1. Follows(t, k, permit[t], slots[k], restriction_seq)
        BY <1>7 DEF confirm_success, confirms, RetryInv, EpisodeInv, ProbesFollow
      <3> QED BY <1>0, <3>1 DEF Follows, confirms
    <2> QED BY <2>1, <2>2, <2>3
  <1>8. ASSUME NEW t \in Ticket, drop(t)
        PROVE  slots'[k].upstream_not_before = slots[k].upstream_not_before
    <2> DEFINE s == [m \in Key |-> IF m \in keys(permit[t].resources) /\ m \in tracked
                                   THEN released_slot(t, m) ELSE slots[m]]
    <2>1. Store(retain_live_slots(s), s, evidence)
      BY <1>8 DEF drop
    <2>2. s \in [Key -> Slot]
      BY <1>0, ReleasedSlotType
    <2>3. s[k].upstream_not_before = slots[k].upstream_not_before
      BY <1>0, ReleasedSlotFields
    <2> HIDE DEF s
    <2> QED BY <1>0, <2>1, <2>2, <2>3, StoreKeepsWaiting
  <1> QED BY <1>0, <1>2, <1>4, <1>5, <1>6, <1>7, <1>8

\* A Retry-After that has not elapsed ends early only by an operator reset of an
\* owner or with the generation of the slot: never by a probe, a late success, a
\* rule change, a cleared restriction, a full table or a dropped request.
THEOREM WaitsAreHonoured == Spec => RetryAfterIsHonoured
  <1> DEFINE Lifted(k) == deadline_is_live(slots[k].upstream_not_before)
                            /\ slots'[k].upstream_not_before < slots[k].upstream_not_before
             Justified(k) == (\E a \in slots[k].owners : reset_account(a)) \/ Obsolete(k)
  <1>1. RetryInv /\ [Next]_vars => [\A k \in Key : Lifted(k) => Justified(k)]_vars
    <2> SUFFICES ASSUME RetryInv, Next, NEW k \in Key, Lifted(k) PROVE Justified(k)
      OBVIOUS
    <2>0. Core /\ TypeOK /\ deadline_is_live(slots[k].upstream_not_before)
          /\ ~(slots[k].upstream_not_before < slots[k].upstream_not_before)
      BY WaitingSlot DEF RetryInv, EpisodeInv, Core
    <2>1. CASE \E rs \in captured : acquire(rs) \/ acquire_refused(rs)
      BY <2>0, <2>1, AcquireHonours
    <2>2. CASE \E a \in Accounts : reset_account(a)
      BY <2>0, <2>2, ResetHonours
    <2>3. CASE \E t \in Ticket : Reply(t) \/ drop(t)
      <3> PICK t \in Ticket : Reply(t) \/ drop(t)
        BY <2>3
      <3>1. CASE \E header \in RetryAfters :
                   \/ temporary_429(t, header)
                   \/ \E delay \in PlanResets : plan_window(t, header, delay)
                   \/ observe_openrouter_free_rejection(t, header)
                   \/ observe_free_rejection(t, header)
        BY <2>0, <3>1, RepliesObserve, OthersHonour
      <3>2. CASE \E header \in PolicyRetryAfters, decisions \in SUBSET Sources :
                   observe_local_policy(t, decisions, header)
        BY <2>0, <3>2 DEF observe_local_policy, inner
      <3>3. CASE confirm_success(t) \/ drop(t)
        BY <2>0, <3>3, OthersHonour
      <3> QED BY <3>1, <3>2, <3>3 DEF Reply
    <2>4. CASE PolicyLoop
      <3>1. slots' = slots \/ observe_policy \/ observe_policy_retry
        BY <2>4 DEF PolicyLoop, check_decision, inner
      <3> QED BY <2>0, <3>1, OthersHonour
    <2>5. CASE \/ \E snapshot \in Snapshots : install_snapshot(snapshot)
               \/ \E id \in 1..restriction_seq : clear_restriction(id)
      BY <2>0, <2>5, OthersHonour
    <2>6. CASE (\E c \in Captures : Reconfigure(c)) \/ \E d \in WallSteps : Tick(d)
      BY <2>0, <2>6 DEF Reconfigure, Tick, inner
    <2> QED BY <2>1, <2>2, <2>3, <2>4, <2>5, <2>6 DEF Next, Operator
  <1>2. RetryInv /\ [Next]_vars =>
          [\A k \in Key :
            (deadline_is_live(slots[k].upstream_not_before)
               /\ slots'[k].upstream_not_before < slots[k].upstream_not_before) =>
              \/ \E a \in slots[k].owners : reset_account(a)
              \/ \E rs \in captured :
                   /\ k \notin tracked'
                   /\ slots[k].active = 0
                   /\ slots[k].owners = owners(rs, k)
                   /\ slots[k].owner_generation # owner_generation(rs, k)]_vars
    BY <1>1 DEF Obsolete
  <1> QED BY <1>2, RetryInvariant, PTL DEF Spec, RetryAfterIsHonoured
=============================================================================
