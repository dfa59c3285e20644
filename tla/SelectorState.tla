---------------------------- MODULE SelectorState ----------------------------
(* The in-memory selection state machine of the gateway (ocg-gateway,         *)
(* selector.rs): sticky-global account, round-robin cursor and the LRU map of *)
(* conversation bindings, as a record of state and the operators on it.       *)
(*                                                                            *)
(* A candidate is a record [account, target, available]: `target` stands for  *)
(* the pair (channel, resolved model), which the code only ever compares      *)
(* together.  The slice of candidates is a sequence, the excluded ids a set.  *)
EXTENDS Integers, Sequences, FiniteSets

CONSTANTS
    Accounts,           \* account ids
    Targets,            \* (channel, resolved model) pairs
    Keys,               \* conversation keys
    None,               \* Rust's None: no account, key, binding or answer
    ConversationTtl,    \* CONVERSATION_TTL, in ticks
    MaxConversations    \* MAX_CONVERSATIONS

ASSUME SelectorAssumption ==
    /\ ConversationTtl \in Nat \ {0}
    /\ MaxConversations \in Nat \ {0}
    /\ None \notin Accounts \cup Keys

Policies == {"StrictPriority", "StickyGlobal", "RoundRobin"}

Candidate == [account : Accounts, target : Targets, available : BOOLEAN]

ConversationBinding == [account : Accounts, target : Targets, last_seen : Nat]

(* SelectorState::default(): nothing is bound and no cursor is set.           *)
Default == [global_account_id |-> None,
            round_robin_after |-> None,
            entries           |-> << >>,
            order             |-> << >>]

-----------------------------------------------------------------------------
(* ConversationMap.                                                           *)

\* Mutant: a clock sample older than the binding wraps round to a huge age.
age_mutant(now, seen) == IF now >= seen THEN now - seen ELSE ConversationTtl

(* Instant::duration_since saturates at zero: a caller whose `now` was        *)
(* sampled before the binding was last seen sees age 0.                       *)
Age(now, seen) == IF now >= seen THEN now - seen ELSE 0

Expired(s, now) ==
    {k \in DOMAIN s.entries : Age(now, s.entries[k].last_seen) >= ConversationTtl}

Without(f, S) == [k \in (DOMAIN f) \ S |-> f[k]]

(* ConversationMap::remove for each key of S: its position leaves the queue,  *)
(* the others keep their order. The code removes the first position it finds; *)
(* a key has no second one (QueueMatchesMap), so every occurrence is dropped. *)
Dropped(q, S) ==
    LET kept[i \in 0..Len(q)] ==
            IF i = 0 THEN << >>
            ELSE IF q[i] \in S THEN kept[i - 1] ELSE Append(kept[i - 1], q[i])
    IN  kept[Len(q)]

\* Mutant: the old place in the queue is not given up.
touch_again_mutant(q, key) == Append(q, key)

touch_order(q, key) == Append(Dropped(q, {key}), key)

purge_expired(s, now) ==
    LET old == Expired(s, now)
    IN  [s EXCEPT !.entries = Without(@, old), !.order = Dropped(@, old)]

Refreshed(b, now) == [b EXCEPT !.last_seen = now]

(* get_fresh: purge, then refresh the recency of a hit.  The second expiry    *)
(* test of the code repeats the purge's and never fires.                      *)
get_fresh(s, key, now) ==
    LET p == purge_expired(s, now)
    IN  IF key \in DOMAIN p.entries
        THEN [p EXCEPT !.entries[key] = Refreshed(@, now),
                       !.order = touch_order(@, key)]
        ELSE p

NewBinding(c, now) == [account |-> c.account, target |-> c.target, last_seen |-> now]

(* insert: overwrite an existing binding, otherwise pop from the front of     *)
(* the order until there is room, then append.                                *)
insert(s, key, c, now) ==
    LET p     == purge_expired(s, now)
        new   == NewBinding(c, now)
        over  == Cardinality(DOMAIN p.entries) + 1 - MaxConversations
        pops  == IF over > 0 THEN over ELSE 0
        gone  == {p.order[i] : i \in 1..pops}
        room  == Without(p.entries, gone)
    IN  IF key \in DOMAIN p.entries
        THEN [p EXCEPT !.entries[key] = new, !.order = touch_order(@, key)]
        ELSE [p EXCEPT !.entries = [k \in DOMAIN room \cup {key} |->
                                        IF k = key THEN new ELSE room[k]],
                       !.order = Append(SubSeq(@, pops + 1, Len(@)), key)]

-----------------------------------------------------------------------------
(* Positions in the candidate slice; 0 stands for Rust's None.                *)

First(S) == IF S = {} THEN 0 ELSE CHOOSE i \in S : \A j \in S : i <= j

IsSelectable(c, excluded) == c.available /\ c.account \notin excluded

Selectable(cands, excluded) ==
    {i \in DOMAIN cands : IsSelectable(cands[i], excluded)}

HasDuplicate(cands) ==
    \E i, j \in DOMAIN cands : i # j /\ cands[i].account = cands[j].account

first_available_index(cands, excluded) == First(Selectable(cands, excluded))

\* Mutant: the binding is never found among the candidates.
find_none_mutant(cands, account, target, excluded) == 0

find_available_index(cands, account, target, excluded) ==
    First({i \in Selectable(cands, excluded) :
              cands[i].account = account /\ cands[i].target = target})

-----------------------------------------------------------------------------
(* The three policies.  Each returns the new state and the chosen index.      *)

\* Mutant: an account this request excluded counts as gone.
persistent_mutant(cands, account) == FALSE

(* The account can serve requests that have not failed on it.                 *)
PersistentlyAvailable(cands, account) ==
    \E i \in Selectable(cands, {}) : cands[i].account = account

select_sticky_global(s, cands, excluded) ==
    LET current == s.global_account_id
        held    == First({i \in Selectable(cands, excluded) :
                              cands[i].account = current})
        first   == first_available_index(cands, excluded)
        moved   == [s EXCEPT !.global_account_id = cands[first].account]
    IN  IF held # 0 THEN [state |-> s, index |-> held]
        ELSE IF first = 0 \/ PersistentlyAvailable(cands, current)
        THEN [state |-> s, index |-> first]
        ELSE [state |-> moved, index |-> first]

\* Mutant: the scan starts at the account served last, not behind it.
start_mutant(s, cands) ==
    LET at == First({i \in DOMAIN cands : cands[i].account = s.round_robin_after})
    IN  IF at = 0 THEN 0 ELSE at - 1

(* Where the scan starts, counted from 0: behind the account served last, at  *)
(* the top when it is no longer a candidate.                                  *)
RoundRobinStart(s, cands) ==
    First({i \in DOMAIN cands : cands[i].account = s.round_robin_after}) % Len(cands)

(* The first selectable card in cyclic order is served and remembered.        *)
select_round_robin(s, cands, excluded) ==
    LET at(o) == ((RoundRobinStart(s, cands) + o) % Len(cands)) + 1
        open  == {o \in 0..(Len(cands) - 1) : at(o) \in Selectable(cands, excluded)}
        pick  == at(CHOOSE o \in open : \A p \in open : o <= p)
    IN  IF open = {} THEN [state |-> s, index |-> 0]
        ELSE [state |-> [s EXCEPT !.round_robin_after = cands[pick].account],
              index |-> pick]

by_policy(s, cands, policy, excluded) ==
    CASE policy = "StrictPriority" ->
             [state |-> s, index |-> first_available_index(cands, excluded)]
      [] policy = "StickyGlobal"   -> select_sticky_global(s, cands, excluded)
      [] policy = "RoundRobin"     -> select_round_robin(s, cands, excluded)

(* select_at.  `key` is None when the request carries no conversation key or  *)
(* conversation stickiness is off.  Duplicate ids are an error that changes   *)
(* nothing; a fresh and selectable binding wins over the policy; otherwise    *)
(* the policy decides and the conversation is bound to its choice.            *)
select_at(s, cands, policy, key, excluded, now) ==
    LET looked == IF key = None THEN s ELSE get_fresh(s, key, now)
        bound  == IF key # None /\ key \in DOMAIN looked.entries
                  THEN find_available_index(cands, looked.entries[key].account,
                                            looked.entries[key].target, excluded)
                  ELSE 0
        pick   == by_policy(looked, cands, policy, excluded)
    IN  IF HasDuplicate(cands)
        THEN [state |-> s, index |-> 0, error |-> TRUE]
        ELSE IF bound # 0
        THEN [state |-> looked, index |-> bound, error |-> FALSE]
        ELSE IF pick.index # 0 /\ key # None
        THEN [state |-> insert(pick.state, key, cands[pick.index], now),
              index |-> pick.index, error |-> FALSE]
        ELSE [state |-> pick.state, index |-> pick.index, error |-> FALSE]

(* preview_at answers from a clone and drops the clone's state.               *)
preview_at(s, cands, policy, key, excluded, now) ==
    LET r == select_at(s, cands, policy, key, excluded, now)
    IN  [index |-> r.index, error |-> r.error]
=============================================================================
