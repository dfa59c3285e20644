------------------------------- MODULE Routing -------------------------------
(* RoutingRuntime (ocg-core, routing_runtime.rs): the process-wide selector   *)
(* behind its mutex, called by concurrent requests.  A request samples the    *)
(* clock, loads the live credentials and only then takes the lock, so the     *)
(* `now` it passes may be up to MaxDelay ticks older than the clock and calls *)
(* may arrive with their samples out of order.                                *)
EXTENDS SelectorState

CONSTANTS
    CandidateLists, \* candidate slices requests may present
    UsedPolicies,   \* routing modes the settings may select
    Excludes,       \* sets of accounts a request may already have failed on
    MaxDelay,       \* age of a request's clock sample, at most
    MaxClock        \* bound on the modelled time

ASSUME RoutingAssumption ==
    /\ CandidateLists \subseteq Seq(Candidate)
    /\ UsedPolicies \subseteq Policies
    /\ Excludes \subseteq SUBSET Accounts
    /\ MaxDelay \in Nat
    /\ MaxClock \in Nat
    /\ None \notin [account : Accounts, target : Targets]

VARIABLES
    sel,    \* the SelectorState record
    clock,  \* the monotonic clock
    call,   \* the last call: its kind, its conversation and what could serve it
    answer, \* the (account, target) the last call answered, or None
    missed, \* history: round-robin picks that passed over a selectable account
    newer,  \* history: conversations used since k was last used
    usedAt  \* history: when conversation k was last used

vars == <<sel, clock, call, answer, missed, newer, usedAt>>

Call(kind, key, offers) == [kind |-> kind, key |-> key, offers |-> offers]

Init ==
    /\ sel = Default
    /\ clock = 0
    /\ call = Call("reset", None, {})
    /\ answer = None
    /\ missed = [a \in Accounts |-> 0]
    /\ newer = [k \in Keys |-> {}]
    /\ usedAt = [k \in Keys |-> 0]

Samples == {t \in 0..clock : clock - t <= MaxDelay}

BindingOf(r) == [account |-> r.account, target |-> r.target]

(* What can serve a call: nothing more is known of its candidates outside.    *)
Offers(cands, excluded) == {BindingOf(cands[i]) : i \in Selectable(cands, excluded)}

(* A list that names an account twice is refused, whatever the call.          *)
CallOf(kind, cands, key, excluded) ==
    Call(IF HasDuplicate(cands) THEN "duplicate" ELSE kind, key, Offers(cands, excluded))

(* The history: a call uses conversation `key` when it leaves it in the map.  *)
Note(key, s) ==
    IF key # None /\ key \in DOMAIN s.entries
    THEN /\ newer' = [j \in Keys |-> IF j = key THEN {} ELSE newer[j] \cup {key}]
         /\ usedAt' = [usedAt EXCEPT ![key] = clock]
    ELSE UNCHANGED <<newer, usedAt>>

(* The history: a pick that moves the round-robin cursor passes over the      *)
(* other selectable accounts of its list.                                     *)
Waiting(cands, excluded, chosen) ==
    [a \in Accounts |->
        IF a # chosen /\ \E i \in Selectable(cands, excluded) : cands[i].account = a
        THEN missed[a] + 1 ELSE 0]

(* The conversation of the call has a fresh binding that can serve it.        *)
Held(cands, key, excluded, now) ==
    LET fresh == purge_expired(sel, now).entries
    IN  /\ key # None /\ key \in DOMAIN fresh
        /\ \E i \in Selectable(cands, excluded) :
               BindingOf(cands[i]) = BindingOf(fresh[key])

(* try_select_candidate_index_at.                                             *)
Select(cands, policy, key, excluded, now) ==
    LET r == select_at(sel, cands, policy, key, excluded, now)
    IN  /\ sel' = r.state
        /\ call' = CallOf("select", cands, key, excluded)
        /\ answer' = IF r.index = 0 THEN None ELSE BindingOf(cands[r.index])
        /\ IF r.error THEN UNCHANGED <<newer, usedAt>> ELSE Note(key, r.state)
        /\ missed' = IF policy = "RoundRobin" /\ r.index # 0 /\ ~Held(cands, key, excluded, now)
                     THEN Waiting(cands, excluded, cands[r.index].account) ELSE missed
        /\ UNCHANGED clock

(* preview_candidate_index_at, used by the route explanation.                 *)
Preview(cands, policy, key, excluded, now) ==
    LET r == preview_at(sel, cands, policy, key, excluded, now)
    IN  /\ call' = CallOf("preview", cands, key, excluded)
        /\ answer' = IF r.index = 0 THEN None ELSE BindingOf(cands[r.index])
        /\ UNCHANGED <<sel, clock, missed, newer, usedAt>>

(* sticky_binding_at: reading a binding refreshes it.                         *)
StickyBinding(key, now) ==
    LET s == get_fresh(sel, key, now)
    IN  /\ sel' = s
        /\ call' = Call("read", key, {})
        /\ answer' = IF key \in DOMAIN s.entries THEN BindingOf(s.entries[key]) ELSE None
        /\ Note(key, s)
        /\ UNCHANGED <<clock, missed>>

(* reset, called after every change of accounts, providers or settings.       *)
Reset ==
    /\ sel' = Default
    /\ call' = Call("reset", None, {})
    /\ answer' = None
    /\ missed' = [a \in Accounts |-> 0]
    /\ UNCHANGED <<clock, newer, usedAt>>

Tick ==
    /\ clock < MaxClock
    /\ clock' = clock + 1
    /\ UNCHANGED <<sel, call, answer, missed, newer, usedAt>>

SelectAny ==
    \E cands \in CandidateLists, policy \in UsedPolicies, key \in Keys \cup {None},
       excluded \in Excludes, now \in Samples :
           Select(cands, policy, key, excluded, now)

PreviewAny ==
    \E cands \in CandidateLists, policy \in UsedPolicies, key \in Keys \cup {None},
       excluded \in Excludes, now \in Samples :
           Preview(cands, policy, key, excluded, now)

StickyBindingAny == \E key \in Keys, now \in Samples : StickyBinding(key, now)

Next == SelectAny \/ PreviewAny \/ StickyBindingAny \/ Reset \/ Tick

Spec == Init /\ [][Next]_vars

-----------------------------------------------------------------------------
Bindings == [account : Accounts, target : Targets]

(* The hash map and the recency queue of ConversationMap never drift apart:   *)
(* every binding is queued exactly once, nothing else is queued, and the map  *)
(* never exceeds MAX_CONVERSATIONS.  A queue with a stale or repeated key     *)
(* would make the eviction loop of insert drop a live binding or none.        *)
QueueMatchesMap ==
    /\ {sel.order[i] : i \in DOMAIN sel.order} = DOMAIN sel.entries
    /\ Len(sel.order) = Cardinality(DOMAIN sel.entries)
    /\ Len(sel.order) <= MaxConversations

(* Every card takes its turn: while all requests list the same cards in the   *)
(* same order, an account that can serve is passed over by fewer picks than   *)
(* there are cards, however the availability of the others, the accounts a    *)
(* request already failed on and the conversations with a binding of their    *)
(* own vary in between.                                                       *)
EveryCardTakesItsTurn ==
    \A cands \in CandidateLists, a \in Accounts : missed[a] < Len(cands)

(* A global-sticky account is left only when it cannot serve: a request that  *)
(* merely excluded it after its own failure is served elsewhere and leaves    *)
(* the sticky account for everyone else where it was.                         *)
StickyGlobalStays ==
    \A cands \in CandidateLists, policy \in UsedPolicies, key \in Keys \cup {None},
       excluded \in Excludes, now \in Samples :
        LET r == select_at(sel, cands, policy, key, excluded, now)
        IN  /\ sel.global_account_id # None
            /\ r.state.global_account_id # sel.global_account_id
            => /\ cands[r.index].account = r.state.global_account_id
               /\ \A i \in DOMAIN cands :
                      cands[i].account = sel.global_account_id => ~cands[i].available

(* The promise to a client: see ConversationLease.                            *)
Lease == INSTANCE ConversationLease WITH
    Bindings  <- Bindings,
    NoBinding <- None,
    NoKey     <- None,
    Lease     <- ConversationTtl,
    Capacity  <- MaxConversations,
    Delay     <- MaxDelay,
    bound     <- [k \in Keys |-> IF k \in DOMAIN sel.entries
                                 THEN BindingOf(sel.entries[k]) ELSE None]

(* The LRU map with its timestamps implements the lease.  A call whose        *)
(* candidates include the account and target its conversation is bound to is  *)
(* answered with them, unless the binding has been idle for the time-to-live; *)
(* a binding is forgotten only then or when MAX_CONVERSATIONS others were     *)
(* used since.  A route explanation gives the same answer and moves nothing.  *)
LeaseSpec == Lease!Spec
=============================================================================
