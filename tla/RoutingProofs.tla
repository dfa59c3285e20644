---------------------------- MODULE RoutingProofs ----------------------------
(***************************************************************************)
(* Theorems about the shared selector behind its mutex (Routing): a        *)
(* global-sticky account is left only when it cannot serve; while all      *)
(* requests list the same cards in the same order no card that can serve   *)
(* is passed over a full round; the conversation map and its recency queue *)
(* agree; and together with the timestamps they implement the abstract     *)
(* ConversationLease.                                                      *)
(*                                                                         *)
(* Shaped says what every selector state is: the four fields, and a map    *)
(* whose values are bindings.  It carries the first two results.  Linked   *)
(* adds the queue and the timestamps and ties them to the history of uses; *)
(* it carries the other two.                                               *)
(***************************************************************************)
EXTENDS Routing, SelectorProofs, FunctionTheorems

Shaped(s) ==
    /\ s = [global_account_id |-> s.global_account_id,
            round_robin_after |-> s.round_robin_after,
            entries           |-> s.entries,
            order             |-> s.order]
    /\ s.entries = [k \in DOMAIN s.entries |-> s.entries[k]]
    /\ \A k \in DOMAIN s.entries : s.entries[k] \in ConversationBinding

(* The account fields of two states agree.                                  *)
SameCursors(s, t) ==
    /\ t.global_account_id = s.global_account_id
    /\ t.round_robin_after = s.round_robin_after

(* The conversation maps of two states agree.                               *)
SameMap(s, t) == t.entries = s.entries /\ t.order = s.order

(* Two bindings name the same account and target.                           *)
SameTarget(b, c) == b.account = c.account /\ b.target = c.target

-----------------------------------------------------------------------------
(* The operations of the conversation map leave both account fields alone.  *)

LEMMA FourFields ==
  \A g, r, e, o : \A x \in [global_account_id : {g}, round_robin_after : {r},
                            entries : {e}, order : {o}] :
      x = [global_account_id |-> g, round_robin_after |-> r, entries |-> e, order |-> o]
OBVIOUS

LEMMA MapWrite ==
  ASSUME NEW s, Shaped(s), NEW e, NEW o
  PROVE  [s EXCEPT !.entries = e, !.order = o]
           = [global_account_id |-> s.global_account_id,
              round_robin_after |-> s.round_robin_after,
              entries |-> e, order |-> o]
<1>1. PICK g, r, f, q : s = [global_account_id |-> g, round_robin_after |-> r,
                             entries |-> f, order |-> q]
  BY DEF Shaped
<1>2. s \in [global_account_id : {g}, round_robin_after : {r}, entries : {f}, order : {q}]
  BY <1>1
<1>3. [s EXCEPT !.entries = e, !.order = o]
        \in [global_account_id : {g}, round_robin_after : {r}, entries : {e}, order : {o}]
  BY <1>2
<1>4. s.global_account_id = g /\ s.round_robin_after = r /\ s.entries = f
  BY <1>1
<1> QED BY <1>3, <1>4, FourFields

LEMMA EntryWrite ==
  ASSUME NEW s, Shaped(s), NEW key \in DOMAIN s.entries, NEW b, NEW o
  PROVE  [s EXCEPT !.entries[key] = b, !.order = o]
           = [global_account_id |-> s.global_account_id,
              round_robin_after |-> s.round_robin_after,
              entries |-> [s.entries EXCEPT ![key] = b], order |-> o]
<1>1. PICK g, r, f, q : s = [global_account_id |-> g, round_robin_after |-> r,
                             entries |-> f, order |-> q]
  BY DEF Shaped
<1>2. s \in [global_account_id : {g}, round_robin_after : {r}, entries : {f}, order : {q}]
  BY <1>1
<1>3. [s EXCEPT !.entries[key] = b, !.order = o]
        \in [global_account_id : {g}, round_robin_after : {r}, entries : {[f EXCEPT ![key] = b]}, order : {o}]
  BY <1>2
<1>4. s.global_account_id = g /\ s.round_robin_after = r /\ s.entries = f
  BY <1>1
<1> QED BY <1>3, <1>4, FourFields

LEMMA ShapedRecord ==
  ASSUME NEW g, NEW r, NEW D, NEW e, NEW o,
         e = [k \in D |-> e[k]], \A k \in D : e[k] \in ConversationBinding
  PROVE  Shaped([global_account_id |-> g, round_robin_after |-> r,
                 entries |-> e, order |-> o])
<1>1. DOMAIN e = D
  OBVIOUS
<1> QED BY <1>1 DEF Shaped

LEMMA PurgeKeeps ==
  ASSUME NEW s, Shaped(s), NEW now
  PROVE  /\ Shaped(purge_expired(s, now))
         /\ SameCursors(s, purge_expired(s, now))
<1>1. PICK old : old = Expired(s, now)
  OBVIOUS
<1>2. PICK e : e = Without(s.entries, old)
  OBVIOUS
<1>3. PICK o : o = Dropped(s.order, old)
  OBVIOUS
<1>4. purge_expired(s, now) = [s EXCEPT !.entries = e, !.order = o]
  BY <1>1, <1>2, <1>3 DEF purge_expired
<1>5. purge_expired(s, now) = [global_account_id |-> s.global_account_id,
                               round_robin_after |-> s.round_robin_after,
                               entries |-> e, order |-> o]
  BY <1>4, MapWrite
<1>6. PICK D : D = (DOMAIN s.entries) \ old
  OBVIOUS
<1>7. e = [k \in D |-> e[k]] /\ \A k \in D : e[k] \in ConversationBinding
  BY <1>2, <1>6 DEF Without, Shaped
<1>8. Shaped(purge_expired(s, now))
  BY <1>5, <1>7, ShapedRecord
<1>9. SameCursors(s, purge_expired(s, now))
  BY <1>5 DEF SameCursors
<1> QED BY <1>8, <1>9

LEMMA RefreshedBinding ==
  ASSUME NEW b \in ConversationBinding, NEW now \in Nat
  PROVE  Refreshed(b, now) \in ConversationBinding /\ SameTarget(b, Refreshed(b, now))
BY DEF ConversationBinding, Refreshed, SameTarget

LEMMA FreshKeeps ==
  ASSUME NEW s, Shaped(s), NEW key, NEW now \in Nat
  PROVE  /\ Shaped(get_fresh(s, key, now))
         /\ SameCursors(s, get_fresh(s, key, now))
         /\ DOMAIN get_fresh(s, key, now).entries = DOMAIN purge_expired(s, now).entries
         /\ key \in DOMAIN purge_expired(s, now).entries =>
                SameTarget(purge_expired(s, now).entries[key],
                           get_fresh(s, key, now).entries[key])
<1>1. PICK p : p = purge_expired(s, now)
  OBVIOUS
<1>2. Shaped(p) /\ SameCursors(s, p)
  BY <1>1, PurgeKeeps
<1>3. CASE key \notin DOMAIN p.entries
  <2>1. get_fresh(s, key, now) = p
    BY <1>1, <1>3 DEF get_fresh
  <2> QED BY <2>1, <1>1, <1>2, <1>3
<1>4. CASE key \in DOMAIN p.entries
  <2>1. PICK b : b = Refreshed(p.entries[key], now)
    OBVIOUS
  <2>2. b \in ConversationBinding /\ SameTarget(p.entries[key], b)
    BY <1>2, <1>4, <2>1, RefreshedBinding DEF Shaped
  <2>3. PICK o : o = touch_order(p.order, key)
    OBVIOUS
  <2>4. get_fresh(s, key, now) = [p EXCEPT !.entries[key] = b, !.order = o]
    BY <1>1, <1>4, <2>1, <2>3 DEF get_fresh
  <2>5. PICK e : e = [p.entries EXCEPT ![key] = b]
    OBVIOUS
  <2>6. get_fresh(s, key, now) = [global_account_id |-> p.global_account_id,
                                  round_robin_after |-> p.round_robin_after,
                                  entries |-> e, order |-> o]
    BY <1>2, <1>4, <2>4, <2>5, EntryWrite
  <2>7. PICK D : D = DOMAIN p.entries
    OBVIOUS
  <2>8. e = [k \in D |-> e[k]] /\ DOMAIN e = D /\ e[key] = b
        /\ \A k \in D : e[k] \in ConversationBinding
    BY <1>2, <1>4, <2>2, <2>5, <2>7 DEF Shaped
  <2>9. Shaped(get_fresh(s, key, now))
    BY <2>6, <2>8, ShapedRecord
  <2>10. SameCursors(s, get_fresh(s, key, now)) /\ get_fresh(s, key, now).entries = e
    BY <1>2, <2>6 DEF SameCursors
  <2> QED BY <1>1, <2>2, <2>7, <2>8, <2>9, <2>10
<1> QED BY <1>3, <1>4

LEMMA InsertKeeps ==
  ASSUME NEW s, Shaped(s), NEW key, NEW c \in Candidate, NEW now \in Nat
  PROVE  Shaped(insert(s, key, c, now)) /\ SameCursors(s, insert(s, key, c, now))
<1>1. PICK p : p = purge_expired(s, now)
  OBVIOUS
<1>2. Shaped(p) /\ SameCursors(s, p)
  BY <1>1, PurgeKeeps
<1>3. PICK new : new = NewBinding(c, now)
  OBVIOUS
<1>4. new \in ConversationBinding
  BY <1>3 DEF NewBinding, ConversationBinding, Candidate
<1>5. CASE key \in DOMAIN p.entries
  <2>1. PICK o : o = touch_order(p.order, key)
    OBVIOUS
  <2>2. insert(s, key, c, now) = [p EXCEPT !.entries[key] = new, !.order = o]
    BY <1>1, <1>3, <1>5, <2>1 DEF insert
  <2>3. PICK e : e = [p.entries EXCEPT ![key] = new]
    OBVIOUS
  <2>4. insert(s, key, c, now) = [global_account_id |-> p.global_account_id,
                                  round_robin_after |-> p.round_robin_after,
                                  entries |-> e, order |-> o]
    BY <1>2, <1>5, <2>2, <2>3, EntryWrite
  <2>5. PICK D : D = DOMAIN p.entries
    OBVIOUS
  <2>6. e = [k \in D |-> e[k]] /\ \A k \in D : e[k] \in ConversationBinding
    BY <1>2, <1>4, <1>5, <2>3, <2>5 DEF Shaped
  <2>7. Shaped(insert(s, key, c, now))
    BY <2>4, <2>6, ShapedRecord
  <2> QED BY <1>2, <2>4, <2>7 DEF SameCursors
<1>6. CASE key \notin DOMAIN p.entries
  <2>1. PICK pops : pops = IF Cardinality(DOMAIN p.entries) + 1 - MaxConversations > 0
                           THEN Cardinality(DOMAIN p.entries) + 1 - MaxConversations ELSE 0
    OBVIOUS
  <2>2. PICK room : room = Without(p.entries, {p.order[i] : i \in 1..pops})
    OBVIOUS
  <2>3. PICK D : D = DOMAIN room \cup {key}
    OBVIOUS
  <2>4. PICK e : e = [k \in D |-> IF k = key THEN new ELSE room[k]]
    OBVIOUS
  <2>5. PICK o : o = Append(SubSeq(p.order, pops + 1, Len(p.order)), key)
    OBVIOUS
  <2>6. insert(s, key, c, now) = [p EXCEPT !.entries = e, !.order = o]
    BY <1>1, <1>3, <1>6, <2>1, <2>2, <2>3, <2>4, <2>5 DEF insert
  <2>7. insert(s, key, c, now) = [global_account_id |-> p.global_account_id,
                                  round_robin_after |-> p.round_robin_after,
                                  entries |-> e, order |-> o]
    BY <1>2, <2>6, MapWrite
  <2>8. \A k \in DOMAIN room : room[k] \in ConversationBinding
    BY <1>2, <2>2 DEF Without, Shaped
  <2>9. e = [k \in D |-> e[k]] /\ \A k \in D : e[k] \in ConversationBinding
    BY <1>4, <2>3, <2>4, <2>8
  <2>10. Shaped(insert(s, key, c, now))
    BY <2>7, <2>9, ShapedRecord
  <2> QED BY <1>2, <2>7, <2>10 DEF SameCursors
<1> QED BY <1>5, <1>6

-----------------------------------------------------------------------------
(* The policies: which account field each of them moves, and when.          *)

LEMMA GlobalWrite ==
  ASSUME NEW s, Shaped(s), NEW a
  PROVE  LET t == [s EXCEPT !.global_account_id = a]
         IN  /\ Shaped(t)
             /\ t.global_account_id = a
             /\ t.round_robin_after = s.round_robin_after
             /\ SameMap(s, t)
<1>1. PICK g, r, f, q : s = [global_account_id |-> g, round_robin_after |-> r,
                             entries |-> f, order |-> q]
  BY DEF Shaped
<1>2. s \in [global_account_id : {g}, round_robin_after : {r}, entries : {f}, order : {q}]
  BY <1>1
<1>3. [s EXCEPT !.global_account_id = a]
        \in [global_account_id : {a}, round_robin_after : {r}, entries : {f}, order : {q}]
  BY <1>2
<1>4. [s EXCEPT !.global_account_id = a]
        = [global_account_id |-> a, round_robin_after |-> r, entries |-> f, order |-> q]
  BY <1>3, FourFields
<1>5. s.round_robin_after = r /\ s.entries = f /\ s.order = q
  BY <1>1
<1>6. PICK D : D = DOMAIN f
  OBVIOUS
<1>7. f = [k \in D |-> f[k]] /\ \A k \in D : f[k] \in ConversationBinding
  BY <1>5, <1>6 DEF Shaped
<1>8. Shaped([s EXCEPT !.global_account_id = a])
  BY <1>4, <1>7, ShapedRecord
<1> QED BY <1>4, <1>5, <1>8 DEF SameMap

LEMMA CursorWrite ==
  ASSUME NEW s, Shaped(s), NEW a
  PROVE  LET t == [s EXCEPT !.round_robin_after = a]
         IN  /\ Shaped(t)
             /\ t.global_account_id = s.global_account_id
             /\ t.round_robin_after = a
             /\ SameMap(s, t)
<1>1. PICK g, r, f, q : s = [global_account_id |-> g, round_robin_after |-> r,
                             entries |-> f, order |-> q]
  BY DEF Shaped
<1>2. s \in [global_account_id : {g}, round_robin_after : {r}, entries : {f}, order : {q}]
  BY <1>1
<1>3. [s EXCEPT !.round_robin_after = a]
        \in [global_account_id : {g}, round_robin_after : {a}, entries : {f}, order : {q}]
  BY <1>2
<1>4. [s EXCEPT !.round_robin_after = a]
        = [global_account_id |-> g, round_robin_after |-> a, entries |-> f, order |-> q]
  BY <1>3, FourFields
<1>5. s.global_account_id = g /\ s.entries = f /\ s.order = q
  BY <1>1
<1>6. PICK D : D = DOMAIN f
  OBVIOUS
<1>7. f = [k \in D |-> f[k]] /\ \A k \in D : f[k] \in ConversationBinding
  BY <1>5, <1>6 DEF Shaped
<1>8. Shaped([s EXCEPT !.round_robin_after = a])
  BY <1>4, <1>7, ShapedRecord
<1> QED BY <1>4, <1>5, <1>8 DEF SameMap

LEMMA StickyMoves ==
  ASSUME NEW s, Shaped(s), NEW cands \in Seq(Candidate), NEW excluded
  PROVE  LET r == select_sticky_global(s, cands, excluded)
         IN  /\ Shaped(r.state)
             /\ SameMap(s, r.state)
             /\ r.state.round_robin_after = s.round_robin_after
             /\ r.state.global_account_id # s.global_account_id =>
                    /\ r.index # 0
                    /\ cands[r.index].account = r.state.global_account_id
                    /\ ~PersistentlyAvailable(cands, s.global_account_id)
<1>1. PICK held : held = First({i \in Selectable(cands, excluded) :
                                    cands[i].account = s.global_account_id})
  OBVIOUS
<1>2. PICK first : first = first_available_index(cands, excluded)
  OBVIOUS
<1>3. PICK a : a = cands[first].account
  OBVIOUS
<1>4. PICK t : t = [s EXCEPT !.global_account_id = a]
  OBVIOUS
<1>5. Shaped(t) /\ SameMap(s, t) /\ t.global_account_id = a 
      /\ t.round_robin_after = s.round_robin_after
  BY <1>4, GlobalWrite
<1>6. select_sticky_global(s, cands, excluded)
        = IF held # 0 THEN [state |-> s, index |-> held]
          ELSE IF first = 0 \/ PersistentlyAvailable(cands, s.global_account_id)
          THEN [state |-> s, index |-> first] ELSE [state |-> t, index |-> first]
  BY <1>1, <1>2, <1>3, <1>4 DEF select_sticky_global
<1>7. CASE held # 0 \/ first = 0 \/ PersistentlyAvailable(cands, s.global_account_id)
  <2>1. select_sticky_global(s, cands, excluded).state = s
    BY <1>6, <1>7
  <2> QED BY <2>1 DEF SameMap
<1>8. CASE held = 0 /\ first # 0 /\ ~PersistentlyAvailable(cands, s.global_account_id)
  <2>1. /\ select_sticky_global(s, cands, excluded).state = t
        /\ select_sticky_global(s, cands, excluded).index = first
    BY <1>6, <1>8
  <2> QED BY <2>1, <1>3, <1>5, <1>8
<1> QED BY <1>7, <1>8

(* The pick of the cyclic scan: the first selectable position behind the    *)
(* account served last.                                                     *)
LEMMA RoundRobinPick ==
  ASSUME NEW s, NEW cands \in Seq(Candidate), NEW excluded
  PROVE  LET r == select_round_robin(s, cands, excluded)
             at(o) == Visited(Len(cands), RoundRobinStart(s, cands), o)
         IN  \/ r.index = 0 /\ r.state = s
             \/ /\ r.index \in Selectable(cands, excluded)
                /\ r.state = [s EXCEPT !.round_robin_after = cands[r.index].account]
                /\ \E o \in 0..(Len(cands) - 1) :
                       /\ r.index = at(o)
                       /\ \A p \in 0..(Len(cands) - 1) :
                              at(p) \in Selectable(cands, excluded) => o <= p
<1> DEFINE at(o) == Visited(Len(cands), RoundRobinStart(s, cands), o)
           open == {o \in 0..(Len(cands) - 1) : at(o) \in Selectable(cands, excluded)}
           first == CHOOSE o \in open : \A p \in open : o <= p
<1>1. select_round_robin(s, cands, excluded)
        = IF open = {} THEN [state |-> s, index |-> 0]
          ELSE [state |-> [s EXCEPT !.round_robin_after = cands[at(first)].account],
                index |-> at(first)]
  BY Zenon DEF select_round_robin, Visited
<1>2. open \in SUBSET Nat
  OBVIOUS
<1>3. open # {} => first \in open /\ \A p \in open : first <= p
  <2> SUFFICES ASSUME open # {} PROVE first \in open /\ \A p \in open : first <= p
    OBVIOUS
  <2> HIDE DEF open
  <2>1. \E i \in open : \A j \in open : i <= j
    BY <1>2, HasFirst
  <2> QED BY <2>1, Zenon
<1> HIDE DEF first
<1>4. CASE open = {}
  <2> HIDE DEF open, at
  <2>1. /\ select_round_robin(s, cands, excluded).index = 0
        /\ select_round_robin(s, cands, excluded).state = s
    BY <1>1, <1>4
  <2> QED BY <2>1
<1>5. CASE open # {}
  <2>1. first \in 0..(Len(cands) - 1) /\ at(first) \in Selectable(cands, excluded)
    BY <1>3, <1>5
  <2>2. \A p \in 0..(Len(cands) - 1) : at(p) \in Selectable(cands, excluded) => first <= p
    BY <1>3, <1>5
  <2>3. /\ select_round_robin(s, cands, excluded).index = at(first)
        /\ select_round_robin(s, cands, excluded).state
             = [s EXCEPT !.round_robin_after = cands[at(first)].account]
    <3> HIDE DEF open, at
    <3> QED BY <1>1, <1>5
  <2> QED BY <2>1, <2>2, <2>3
<1> QED BY <1>4, <1>5

LEMMA RoundRobinMoves ==
  ASSUME NEW s, Shaped(s), NEW cands \in Seq(Candidate), NEW excluded
  PROVE  LET r == select_round_robin(s, cands, excluded)
         IN  /\ Shaped(r.state)
             /\ SameMap(s, r.state)
             /\ r.state.global_account_id = s.global_account_id
             /\ r.state.round_robin_after =
                    IF r.index = 0 THEN s.round_robin_after ELSE cands[r.index].account
<1>1. PICK r : r = select_round_robin(s, cands, excluded)
  OBVIOUS
<1>2. CASE r.index = 0 /\ r.state = s
  BY <1>1, <1>2 DEF SameMap
<1>3. CASE /\ r.index \in Selectable(cands, excluded)
           /\ r.state = [s EXCEPT !.round_robin_after = cands[r.index].account]
  <2>1. PICK i, a : i = r.index /\ a = cands[i].account
    OBVIOUS
  <2>2. PICK t : t = [s EXCEPT !.round_robin_after = a]
    OBVIOUS
  <2>3. /\ Shaped(t) /\ SameMap(s, t)
        /\ t.global_account_id = s.global_account_id /\ t.round_robin_after = a
    BY <2>2, CursorWrite
  <2>4. i # 0 /\ r.state = t
    BY <1>3, <2>1, <2>2, SelectableAreFromOne
  <2> QED BY <1>1, <2>1, <2>3, <2>4
<1>4. \/ r.index = 0 /\ r.state = s
      \/ /\ r.index \in Selectable(cands, excluded)
         /\ r.state = [s EXCEPT !.round_robin_after = cands[r.index].account]
  <2>1. \/ /\ select_round_robin(s, cands, excluded).index = 0
           /\ select_round_robin(s, cands, excluded).state = s
        \/ /\ select_round_robin(s, cands, excluded).index \in Selectable(cands, excluded)
           /\ select_round_robin(s, cands, excluded).state
                = [s EXCEPT !.round_robin_after =
                       cands[select_round_robin(s, cands, excluded).index].account]
    BY RoundRobinPick, Zenon
  <2> QED BY <1>1, <2>1
<1> QED BY <1>2, <1>3, <1>4

-----------------------------------------------------------------------------
(* The whole selection.                                                     *)

LEMMA PolicyMoves ==
  ASSUME NEW s, Shaped(s), NEW cands \in Seq(Candidate), NEW policy \in Policies, NEW excluded
  PROVE  LET r == by_policy(s, cands, policy, excluded)
         IN  /\ Shaped(r.state)
             /\ SameMap(s, r.state)
             /\ r.state.global_account_id # s.global_account_id =>
                    /\ r.index # 0
                    /\ cands[r.index].account = r.state.global_account_id
                    /\ ~PersistentlyAvailable(cands, s.global_account_id)
             /\ r.state.round_robin_after =
                    IF policy # "RoundRobin" \/ r.index = 0
                    THEN s.round_robin_after ELSE cands[r.index].account
<1>1. CASE policy = "StrictPriority"
  <2>1. by_policy(s, cands, policy, excluded).state = s
    BY <1>1 DEF by_policy
  <2> QED BY <2>1, <1>1 DEF SameMap
<1>2. CASE policy = "StickyGlobal"
  <2>1. by_policy(s, cands, policy, excluded) = select_sticky_global(s, cands, excluded)
    BY <1>2 DEF by_policy
  <2> QED BY <2>1, <1>2, StickyMoves
<1>3. CASE policy = "RoundRobin"
  <2>1. by_policy(s, cands, policy, excluded) = select_round_robin(s, cands, excluded)
    BY <1>3 DEF by_policy
  <2> QED BY <2>1, <1>3, RoundRobinMoves
<1> QED BY <1>1, <1>2, <1>3 DEF Policies

(* A selection is refused, serves the binding of its conversation, or does  *)
(* what its policy says and binds the conversation.                         *)
LEMMA SelectMoves ==
  ASSUME NEW s, Shaped(s), NEW cands \in Seq(Candidate), NEW policy \in Policies,
         NEW key, NEW excluded, NEW now \in Nat
  PROVE  LET r == select_at(s, cands, policy, key, excluded, now)
         IN  /\ Shaped(r.state)
             /\ r.state.global_account_id # s.global_account_id =>
                    /\ r.index # 0
                    /\ cands[r.index].account = r.state.global_account_id
                    /\ ~PersistentlyAvailable(cands, s.global_account_id)
<1>1. PICK looked : looked = IF key = None THEN s ELSE get_fresh(s, key, now)
  OBVIOUS
<1>2. Shaped(looked) /\ SameCursors(s, looked)
  BY <1>1, FreshKeeps DEF SameCursors
<1>3. PICK p : p = by_policy(looked, cands, policy, excluded)
  OBVIOUS
<1>4. /\ Shaped(p.state)
      /\ p.state.global_account_id # s.global_account_id =>
             /\ p.index # 0
             /\ cands[p.index].account = p.state.global_account_id
             /\ ~PersistentlyAvailable(cands, s.global_account_id)
  BY <1>2, <1>3, PolicyMoves DEF SameCursors
<1>5. PICK r : r = select_at(s, cands, policy, key, excluded, now)
  OBVIOUS
<1>6. \/ r.state = s \/ r.state = looked
      \/ r.index = p.index /\ r.state = p.state
      \/ /\ r.index = p.index /\ p.index # 0
         /\ r.state = insert(p.state, key, cands[p.index], now)
  BY <1>1, <1>3, <1>5 DEF select_at
<1>7. CASE r.state = s \/ r.state = looked
  BY <1>2, <1>5, <1>7 DEF SameCursors
<1>8. CASE r.index = p.index /\ r.state = p.state
  BY <1>4, <1>5, <1>8
<1>9. CASE /\ r.index = p.index /\ p.index # 0
           /\ r.state = insert(p.state, key, cands[p.index], now)
  <2>1. PICK c : c = cands[p.index]
    OBVIOUS
  <2>2. c \in Candidate
    BY <1>3, <1>9, <2>1, PolicySelects DEF Selectable
  <2>3. Shaped(r.state) /\ SameCursors(p.state, r.state)
    BY <1>4, <1>9, <2>1, <2>2, InsertKeeps
  <2> QED BY <1>4, <1>5, <1>9, <2>3 DEF SameCursors
<1> QED BY <1>6, <1>7, <1>8, <1>9

-----------------------------------------------------------------------------
(* The shape of the selector's state, and the sticky account.               *)

ShapedInv == Shaped(sel) /\ clock \in Nat

LEMMA SamplesAreNat ==
  ASSUME clock \in Nat PROVE Samples \subseteq Nat
BY DEF Samples

LEMMA DefaultIsShaped == Shaped(Default)
<1>1. PICK D : D = {}
  OBVIOUS
<1>2. PICK e : e = << >>
  OBVIOUS
<1>3. e = [k \in D |-> e[k]] /\ \A k \in D : e[k] \in ConversationBinding
  BY <1>1, <1>2
<1>4. Shaped([global_account_id |-> None, round_robin_after |-> None,
              entries |-> e, order |-> e])
  BY <1>3, ShapedRecord
<1> QED BY <1>2, <1>4 DEF Default

LEMMA ShapedInitially == Init => ShapedInv
BY DefaultIsShaped DEF Init, ShapedInv

LEMMA ShapedPreserved == ShapedInv /\ [Next]_vars => ShapedInv'
<1> SUFFICES ASSUME ShapedInv, [Next]_vars PROVE ShapedInv'
  OBVIOUS
<1> USE RoutingAssumption
<1>1. ASSUME NEW cands \in CandidateLists, NEW policy \in UsedPolicies,
             NEW key \in Keys \cup {None}, NEW excluded \in Excludes, NEW now \in Samples,
             Select(cands, policy, key, excluded, now)
      PROVE  ShapedInv'
  <2>1. cands \in Seq(Candidate) /\ policy \in Policies /\ now \in Nat
    BY SamplesAreNat DEF ShapedInv
  <2>2. Shaped(select_at(sel, cands, policy, key, excluded, now).state)
    BY <2>1, SelectMoves DEF ShapedInv
  <2>3. /\ sel' = select_at(sel, cands, policy, key, excluded, now).state
        /\ clock' = clock
    BY <1>1 DEF Select
  <2> QED BY <2>2, <2>3 DEF ShapedInv
<1>2. CASE PreviewAny
  BY <1>2 DEF PreviewAny, Preview, ShapedInv
<1>3. ASSUME NEW key \in Keys, NEW now \in Samples, StickyBinding(key, now)
      PROVE  ShapedInv'
  <2>1. now \in Nat
    BY SamplesAreNat DEF ShapedInv
  <2>2. Shaped(get_fresh(sel, key, now))
    BY <2>1, FreshKeeps DEF ShapedInv
  <2> QED BY <1>3, <2>2 DEF StickyBinding, ShapedInv
<1>4. CASE Reset
  BY <1>4, DefaultIsShaped DEF Reset, ShapedInv
<1>5. CASE Tick
  BY <1>5 DEF Tick, ShapedInv
<1>6. CASE UNCHANGED vars
  BY <1>6 DEF vars, ShapedInv
<1> QED BY <1>1, <1>2, <1>3, <1>4, <1>5, <1>6 DEF Next, SelectAny, StickyBindingAny

LEMMA ShapedAlways == Spec => []ShapedInv
BY ShapedInitially, ShapedPreserved, PTL DEF Spec

LEMMA StickyHolds == ShapedInv => StickyGlobalStays
<1> SUFFICES ASSUME ShapedInv,
                    NEW cands \in CandidateLists, NEW policy \in UsedPolicies,
                    NEW key \in Keys \cup {None}, NEW excluded \in Excludes,
                    NEW now \in Samples
             PROVE  LET r == select_at(sel, cands, policy, key, excluded, now)
                    IN  /\ sel.global_account_id # None
                        /\ r.state.global_account_id # sel.global_account_id
                        => /\ cands[r.index].account = r.state.global_account_id
                           /\ \A i \in DOMAIN cands :
                                  cands[i].account = sel.global_account_id => ~cands[i].available
  BY DEF StickyGlobalStays
<1>1. cands \in Seq(Candidate) /\ policy \in Policies /\ now \in Nat
  BY SamplesAreNat, RoutingAssumption DEF ShapedInv
<1>2. PICK r : r = select_at(sel, cands, policy, key, excluded, now)
  OBVIOUS
<1>3. r.state.global_account_id # sel.global_account_id =>
          /\ cands[r.index].account = r.state.global_account_id
          /\ ~PersistentlyAvailable(cands, sel.global_account_id)
  BY <1>1, <1>2, SelectMoves DEF ShapedInv
<1>4. ~PersistentlyAvailable(cands, sel.global_account_id) =>
          \A i \in DOMAIN cands :
              cands[i].account = sel.global_account_id => ~cands[i].available
  BY DEF PersistentlyAvailable, Selectable, IsSelectable
<1> QED BY <1>2, <1>3, <1>4

(* A global-sticky account is left only when it cannot serve, and for the   *)
(* account that serves the request: whatever the other requests did to the  *)
(* selector before, a request that merely excluded the account after its    *)
(* own failure leaves it where it was (selector.rs, select_sticky_global).  *)
THEOREM StickyAccountStays == Spec => []StickyGlobalStays
BY ShapedAlways, StickyHolds, PTL

-----------------------------------------------------------------------------
(* Turns.  `deck` is the order in which every request lists the cards; the  *)
(* scan starts behind the card served last.                                 *)

SameCards(deck) ==
    /\ Len(deck) # 0
    /\ \A i, j \in DOMAIN deck : deck[i] = deck[j] => i = j
    /\ \A cands \in CandidateLists :
           Len(cands) = Len(deck) /\ \A i \in DOMAIN cands : cands[i].account = deck[i]

(* Every request lists the same cards in the same order.                    *)
OneOrder == \E deck \in Seq(Accounts) : SameCards(deck)

(* How many of n cards the scan from `start` visits before position i.      *)
Ahead(n, start, i) == IF start <= i - 1 THEN (i - 1) - start ELSE ((i - 1) + n) - start

(* Where the scan starts after account `a` was served.                      *)
Behind(deck, a) == First({i \in DOMAIN deck : deck[i] = a}) % Len(deck)

LEMMA AheadIsOffset ==
  \A n \in Nat \ {0} : \A start \in 0..(n - 1), i \in 1..n :
      /\ Ahead(n, start, i) \in 0..(n - 1)
      /\ Visited(n, start, Ahead(n, start, i)) = i
<1> SUFFICES ASSUME NEW n \in Nat \ {0}, NEW start \in 0..(n - 1), NEW i \in 1..n
             PROVE  /\ Ahead(n, start, i) \in 0..(n - 1)
                    /\ ((start + Ahead(n, start, i)) % n) + 1 = i
  BY DEF Visited
<1>1. i - 1 \in 0..(n - 1)
  OBVIOUS
<1>2. (i - 1) % n = i - 1 /\ ((i - 1) + n) % n = i - 1
  BY <1>1, Modulo
<1>3. CASE start <= i - 1
  <2>1. Ahead(n, start, i) = (i - 1) - start /\ start + ((i - 1) - start) = i - 1
    BY <1>3 DEF Ahead
  <2>2. (i - 1) - start \in 0..(n - 1)
    BY <1>3
  <2> QED BY <2>1, <2>2, <1>2
<1>4. CASE ~(start <= i - 1)
  <2>1. /\ Ahead(n, start, i) = ((i - 1) + n) - start
        /\ start + (((i - 1) + n) - start) = (i - 1) + n
    BY <1>4 DEF Ahead
  <2>2. ((i - 1) + n) - start \in 0..(n - 1)
    BY <1>4
  <2> QED BY <2>1, <2>2, <1>2
<1> QED BY <1>3, <1>4

(* The o-th visited position is the one with o cards ahead of it.           *)
LEMMA OffsetIsAhead ==
  \A n \in Nat \ {0} : \A start, o \in 0..(n - 1) :
      Visited(n, start, o) \in 1..n /\ Ahead(n, start, Visited(n, start, o)) = o
<1> SUFFICES ASSUME NEW n \in Nat \ {0}, NEW start \in 0..(n - 1), NEW o \in 0..(n - 1)
             PROVE  Visited(n, start, o) \in 1..n /\ Ahead(n, start, Visited(n, start, o)) = o
  OBVIOUS
<1>1. CASE start + o < n
  <2>1. start + o \in 0..(n - 1)
    BY <1>1
  <2>2. (start + o) % n = start + o
    BY <2>1, Modulo
  <2> QED BY <2>1, <2>2 DEF Visited, Ahead
<1>2. CASE start + o >= n
  <2>1. PICK x \in 0..(n - 1) : x + n = start + o
    <3>1. (start + o) - n \in 0..(n - 1) /\ ((start + o) - n) + n = start + o
      BY <1>2
    <3> QED BY <3>1
  <2>2. (start + o) % n = x
    BY <2>1, Modulo
  <2>3. Visited(n, start, o) = x + 1
    BY <2>2 DEF Visited
  <2> QED BY <2>1, <2>3 DEF Ahead
<1> QED BY <1>1, <1>2

(* Serving an earlier card of the scan brings a later one nearer by at      *)
(* least one.                                                               *)
LEMMA ServingBringsNearer ==
  ASSUME NEW n \in Nat \ {0}, NEW start \in 0..(n - 1), NEW i \in 1..n, NEW j \in 1..n,
         i # j, Ahead(n, start, j) <= Ahead(n, start, i)
  PROVE  j % n \in 0..(n - 1) /\ Ahead(n, j % n, i) + 1 <= Ahead(n, start, i)
<1>1. PICK m : m = j % n
  OBVIOUS
<1>2. m = IF j = n THEN 0 ELSE j
  <2>1. CASE j = n
    <3>1. 0 \in 0..(n - 1) /\ 0 + n = j
      BY <2>1
    <3> QED BY <3>1, <1>1, Modulo
  <2>2. CASE j # n
    <3>1. j \in 0..(n - 1)
      BY <2>2
    <3> QED BY <3>1, <2>2, <1>1, Modulo
  <2> QED BY <2>1, <2>2
<1>3. m \in 0..(n - 1) /\ Ahead(n, m, i) + 1 <= Ahead(n, start, i)
  BY <1>2 DEF Ahead
<1> QED BY <1>1, <1>3

LEMMA BehindServed ==
  ASSUME NEW deck \in Seq(Accounts), SameCards(deck)
  PROVE  /\ \A a : Behind(deck, a) \in 0..(Len(deck) - 1)
         /\ \A j \in DOMAIN deck : Behind(deck, deck[j]) = j % Len(deck)
<1>1. Len(deck) \in Nat \ {0} /\ DOMAIN deck = 1..Len(deck)
  BY DEF SameCards
<1>2. ASSUME NEW a PROVE Behind(deck, a) \in 0..(Len(deck) - 1)
  <2>1. PICK S : S = {i \in DOMAIN deck : deck[i] = a}
    OBVIOUS
  <2>2. S \in SUBSET Nat
    BY <2>1, <1>1
  <2>3. First(S) \in Nat
    BY <2>2, FirstIsMember DEF First
  <2>4. PICK n \in Nat \ {0} : n = Len(deck)
    BY <1>1
  <2>5. First(S) % n \in 0..(n - 1)
    BY <2>3, Modulo
  <2> QED BY <2>1, <2>4, <2>5 DEF Behind
<1>3. ASSUME NEW j \in DOMAIN deck PROVE Behind(deck, deck[j]) = j % Len(deck)
  <2>1. PICK S : S = {i \in DOMAIN deck : deck[i] = deck[j]}
    OBVIOUS
  <2>2. S \in SUBSET Nat /\ S # {}
    BY <2>1, <1>1
  <2>3. First(S) \in S
    BY <2>2, FirstIsMember
  <2>4. First(S) = j
    BY <2>1, <2>3 DEF SameCards
  <2> QED BY <2>1, <2>4 DEF Behind
<1> QED BY <1>2, <1>3

LEMMA StartIsBehind ==
  ASSUME NEW deck \in Seq(Accounts), SameCards(deck), NEW cands \in CandidateLists, NEW s
  PROVE  RoundRobinStart(s, cands) = Behind(deck, s.round_robin_after)
<1>1. cands \in Seq(Candidate) /\ Len(cands) = Len(deck)
      /\ \A i \in DOMAIN cands : cands[i].account = deck[i]
  BY RoutingAssumption DEF SameCards
<1>2. DOMAIN cands = DOMAIN deck
  BY <1>1
<1>3. {i \in DOMAIN cands : cands[i].account = s.round_robin_after}
        = {i \in DOMAIN deck : deck[i] = s.round_robin_after}
  BY <1>1, <1>2
<1> QED BY <1>1, <1>3 DEF RoundRobinStart, Behind

(* The binding of the conversation decides exactly when Held says so.       *)
LEMMA HeldIsBound ==
  ASSUME ShapedInv, NEW cands \in Seq(Candidate), NEW key, NEW excluded, NEW now \in Nat,
         key # None, NEW looked, looked = get_fresh(sel, key, now)
  PROVE  Held(cands, key, excluded, now)
           <=> /\ key \in DOMAIN looked.entries
               /\ find_available_index(cands, looked.entries[key].account,
                                       looked.entries[key].target, excluded) # 0
<1>1. PICK p : p = purge_expired(sel, now)
  OBVIOUS
<1>2. DOMAIN looked.entries = DOMAIN p.entries
  BY <1>1, FreshKeeps DEF ShapedInv
<1>3. CASE key \notin DOMAIN p.entries
  BY <1>1, <1>2, <1>3 DEF Held
<1>4. CASE key \in DOMAIN p.entries
  <2>1. PICK b, d : b = p.entries[key] /\ d = looked.entries[key]
    OBVIOUS
  <2>2. b.account = d.account /\ b.target = d.target
    BY <1>1, <1>4, <2>1, FreshKeeps DEF ShapedInv, SameTarget
  <2>3. PICK S : S = {i \in Selectable(cands, excluded) :
                          cands[i].account = d.account /\ cands[i].target = d.target}
    OBVIOUS
  <2>4. S \in SUBSET (Nat \ {0})
    BY <2>3, SelectableAreFromOne
  <2>5. First(S) # 0 <=> S # {}
    BY <2>4, FirstOfSome DEF First
  <2>6. find_available_index(cands, d.account, d.target, excluded) = First(S)
    BY <2>3 DEF find_available_index
  <2>7. ASSUME NEW i \in Selectable(cands, excluded)
        PROVE  BindingOf(cands[i]) = BindingOf(b)
                 <=> cands[i].account = d.account /\ cands[i].target = d.target
    <3>1. PICK x, y : x = cands[i].account /\ y = cands[i].target
      OBVIOUS
    <3>2. PICK v, w : v = b.account /\ w = b.target
      OBVIOUS
    <3>3. [account |-> x, target |-> y] = [account |-> v, target |-> w] <=> x = v /\ y = w
      <4>1. [account |-> x, target |-> y].account = x /\ [account |-> x, target |-> y].target = y
        OBVIOUS
      <4>2. [account |-> v, target |-> w].account = v /\ [account |-> v, target |-> w].target = w
        OBVIOUS
      <4> QED BY <4>1, <4>2
    <3> QED BY <2>2, <3>1, <3>2, <3>3 DEF BindingOf
  <2>8. Held(cands, key, excluded, now)
          <=> \E i \in Selectable(cands, excluded) : BindingOf(cands[i]) = BindingOf(b)
    BY <1>1, <1>4, <2>1 DEF Held
  <2> QED BY <1>2, <1>4, <2>1, <2>3, <2>5, <2>6, <2>7, <2>8
<1> QED BY <1>3, <1>4

LEMMA SelectTurns ==
  ASSUME ShapedInv, NEW cands \in Seq(Candidate), NEW policy \in Policies,
         NEW key, NEW excluded, NEW now \in Nat, ~HasDuplicate(cands),
         NEW r, r = select_at(sel, cands, policy, key, excluded, now)
  PROVE  \/ /\ Held(cands, key, excluded, now)
            /\ r.state.round_robin_after = sel.round_robin_after
         \/ /\ ~Held(cands, key, excluded, now)
            /\ \E looked :
                   /\ Shaped(looked)
                   /\ looked.round_robin_after = sel.round_robin_after
                   /\ r.index = by_policy(looked, cands, policy, excluded).index
                   /\ r.state.round_robin_after
                        = by_policy(looked, cands, policy, excluded).state.round_robin_after
<1>1. PICK looked : looked = IF key = None THEN sel ELSE get_fresh(sel, key, now)
  OBVIOUS
<1>2. Shaped(looked) /\ looked.round_robin_after = sel.round_robin_after
  BY <1>1, FreshKeeps DEF ShapedInv, SameCursors
<1>3. PICK b : b = IF key # None /\ key \in DOMAIN looked.entries
                   THEN find_available_index(cands, looked.entries[key].account,
                                             looked.entries[key].target, excluded)
                   ELSE 0
  OBVIOUS
<1>4. Held(cands, key, excluded, now) <=> b # 0
  <2>1. CASE key = None
    BY <2>1, <1>3 DEF Held
  <2>2. CASE key # None
    <3>1. looked = get_fresh(sel, key, now)
      BY <1>1, <2>2
    <3> QED BY <3>1, <2>2, <1>3, HeldIsBound
  <2> QED BY <2>1, <2>2
<1>5. PICK p : p = by_policy(looked, cands, policy, excluded)
  OBVIOUS
<1>6. CASE b # 0
  <2>1. r.state = looked
    BY <1>1, <1>3, <1>6 DEF select_at
  <2> QED BY <2>1, <1>2, <1>4, <1>6
<1>7. CASE b = 0
  <2>1. /\ r.index = p.index
        /\ r.state = IF p.index # 0 /\ key # None
                     THEN insert(p.state, key, cands[p.index], now) ELSE p.state
    BY <1>1, <1>3, <1>5, <1>7 DEF select_at
  <2>2. r.state.round_robin_after = p.state.round_robin_after
    <3>1. CASE p.index # 0 /\ key # None
      <4>1. PICK c : c = cands[p.index]
        OBVIOUS
      <4>2. c \in Candidate
        BY <1>5, <3>1, <4>1, PolicySelects DEF Selectable
      <4>3. Shaped(p.state)
        BY <1>2, <1>5, PolicyMoves
      <4> QED BY <2>1, <3>1, <4>1, <4>2, <4>3, InsertKeeps DEF SameCursors
    <3>2. CASE ~(p.index # 0 /\ key # None)
      BY <2>1, <3>2
    <3> QED BY <3>1, <3>2
  <2> QED BY <1>2, <1>4, <1>5, <1>7, <2>1, <2>2
<1> QED BY <1>6, <1>7

(* What a card was passed over and the cards still ahead of it in the scan  *)
(* stay below one round together.                                           *)
Near(deck, cursor, misses) ==
    /\ \A i \in DOMAIN deck :
           misses[deck[i]] + Ahead(Len(deck), Behind(deck, cursor), i) <= Len(deck) - 1
    /\ \A a \in Accounts : (\A i \in DOMAIN deck : deck[i] # a) => misses[a] = 0

TurnInv(deck) ==
    /\ ShapedInv
    /\ missed \in [Accounts -> Nat]
    /\ Near(deck, sel.round_robin_after, missed)

LEMMA NobodyWaits ==
  ASSUME NEW deck \in Seq(Accounts), SameCards(deck), NEW cursor
  PROVE  /\ [a \in Accounts |-> 0] \in [Accounts -> Nat]
         /\ Near(deck, cursor, [a \in Accounts |-> 0])
<1>1. PICK n \in Nat \ {0} : n = Len(deck)
  BY DEF SameCards
<1>2. PICK b \in 0..(n - 1) : b = Behind(deck, cursor)
  BY <1>1, BehindServed
<1>3. DOMAIN deck = 1..n
  BY <1>1
<1>4. \A i \in 1..n : Ahead(n, b, i) \in 0..(n - 1)
  BY AheadIsOffset
<1>5. \A i \in DOMAIN deck : deck[i] \in Accounts /\ [a \in Accounts |-> 0][deck[i]] = 0
  OBVIOUS
<1> QED BY <1>1, <1>2, <1>3, <1>4, <1>5 DEF Near

LEMMA ServedTurn ==
  ASSUME NEW deck \in Seq(Accounts), SameCards(deck), TurnInv(deck),
         NEW cands \in CandidateLists, NEW excluded, NEW looked,
         looked.round_robin_after = sel.round_robin_after,
         NEW j, j = select_round_robin(looked, cands, excluded).index, j # 0
  PROVE  /\ Waiting(cands, excluded, cands[j].account) \in [Accounts -> Nat]
         /\ Near(deck, cands[j].account, Waiting(cands, excluded, cands[j].account))
<1>1. /\ cands \in Seq(Candidate) /\ Len(cands) = Len(deck)
      /\ \A i \in DOMAIN cands : cands[i].account = deck[i]
  BY RoutingAssumption DEF SameCards
<1>2. PICK n \in Nat \ {0} : n = Len(deck) /\ DOMAIN deck = 1..n /\ DOMAIN cands = 1..n
  BY <1>1 DEF SameCards
<1>3. PICK b \in 0..(n - 1) : b = Behind(deck, sel.round_robin_after)
  BY <1>2, BehindServed
<1>4. RoundRobinStart(looked, cands) = b
  BY <1>3, StartIsBehind
<1>5. /\ j \in Selectable(cands, excluded)
      /\ \E o \in 0..(n - 1) :
             /\ j = Visited(n, b, o)
             /\ \A p \in 0..(n - 1) : Visited(n, b, p) \in Selectable(cands, excluded) => o <= p
  BY <1>1, <1>2, <1>4, RoundRobinPick
<1>6. PICK o \in 0..(n - 1) :
          /\ j = Visited(n, b, o)
          /\ \A p \in 0..(n - 1) : Visited(n, b, p) \in Selectable(cands, excluded) => o <= p
  BY <1>5
<1>7. j \in 1..n /\ Ahead(n, b, j) = o /\ cands[j].account = deck[j]
  <2>1. j \in 1..n /\ Ahead(n, b, j) = o
    BY <1>6, OffsetIsAhead
  <2> QED BY <2>1, <1>1, <1>2
<1>8. Behind(deck, deck[j]) = j % n
  BY <1>2, <1>7, BehindServed
<1>9. PICK w : w = Waiting(cands, excluded, deck[j])
  OBVIOUS
<1>10. ASSUME NEW a \in Accounts
       PROVE  w[a] = IF a # deck[j] /\ \E i \in Selectable(cands, excluded) : deck[i] = a
                     THEN missed[a] + 1 ELSE 0
  BY <1>1, <1>9 DEF Waiting, Selectable
<1>11. w \in [Accounts -> Nat]
  BY <1>9 DEF Waiting, TurnInv
<1>12. ASSUME NEW i \in 1..n
       PROVE  w[deck[i]] + Ahead(n, Behind(deck, deck[j]), i) <= n - 1
  <2>1. deck[i] \in Accounts
    BY <1>2
  <2>2. PICK m : m = Behind(deck, deck[j])
    OBVIOUS
  <2>3. m \in 0..(n - 1)
    BY <1>2, <2>2, BehindServed
  <2>4. Ahead(n, m, i) \in 0..(n - 1)
    BY <2>3, AheadIsOffset
  <2>5. CASE w[deck[i]] = 0
    BY <2>2, <2>4, <2>5
  <2>6. CASE w[deck[i]] # 0
    <3>1. /\ deck[i] # deck[j] /\ w[deck[i]] = missed[deck[i]] + 1
          /\ \E k \in Selectable(cands, excluded) : deck[k] = deck[i]
      BY <1>10, <2>1, <2>6
    <3>2. i # j /\ i \in Selectable(cands, excluded)
      BY <3>1, <1>2 DEF SameCards, Selectable
    <3>3. Ahead(n, b, i) \in 0..(n - 1) /\ Visited(n, b, Ahead(n, b, i)) = i
      BY AheadIsOffset
    <3>4. Ahead(n, b, j) <= Ahead(n, b, i)
      BY <1>6, <1>7, <3>2, <3>3
    <3>5. Ahead(n, m, i) + 1 <= Ahead(n, b, i)
      BY <1>7, <1>8, <2>2, <3>2, <3>4, ServingBringsNearer
    <3>6. missed[deck[i]] + Ahead(n, b, i) <= n - 1 /\ missed[deck[i]] \in Nat
      BY <1>2, <1>3, <2>1 DEF TurnInv, Near
    <3> QED BY <2>2, <2>4, <3>1, <3>3, <3>5, <3>6
  <2> QED BY <2>5, <2>6
<1>13. ASSUME NEW a \in Accounts, \A i \in DOMAIN deck : deck[i] # a PROVE w[a] = 0
  BY <1>2, <1>10, <1>13 DEF Selectable
<1> QED BY <1>2, <1>7, <1>9, <1>11, <1>12, <1>13 DEF Near

LEMMA TurnsPreserved ==
  ASSUME NEW deck \in Seq(Accounts), SameCards(deck)
  PROVE  TurnInv(deck) /\ [Next]_vars => TurnInv(deck)'
<1> SUFFICES ASSUME TurnInv(deck), [Next]_vars PROVE TurnInv(deck)'
  OBVIOUS
<1>1. ShapedInv /\ ShapedInv'
  BY ShapedPreserved DEF TurnInv
<1>2. SUFFICES /\ missed' \in [Accounts -> Nat]
               /\ Near(deck, sel'.round_robin_after, missed')
  BY <1>1 DEF TurnInv, Near
<1>3. ASSUME sel'.round_robin_after = sel.round_robin_after, missed' = missed
      PROVE  /\ missed' \in [Accounts -> Nat]
             /\ Near(deck, sel'.round_robin_after, missed')
  BY <1>3 DEF TurnInv
<1>4. ASSUME NEW cands \in CandidateLists, NEW policy \in UsedPolicies,
             NEW key \in Keys \cup {None}, NEW excluded \in Excludes, NEW now \in Samples,
             Select(cands, policy, key, excluded, now)
      PROVE  /\ missed' \in [Accounts -> Nat]
             /\ Near(deck, sel'.round_robin_after, missed')
  <2>1. cands \in Seq(Candidate) /\ policy \in Policies /\ now \in Nat
    BY <1>1, SamplesAreNat, RoutingAssumption DEF ShapedInv
  <2>2. ~HasDuplicate(cands)
    BY <2>1 DEF HasDuplicate, SameCards
  <2>3. PICK r : r = select_at(sel, cands, policy, key, excluded, now)
    OBVIOUS
  <2>4. /\ sel' = r.state
        /\ missed' = IF policy = "RoundRobin" /\ r.index # 0 /\ ~Held(cands, key, excluded, now)
                     THEN Waiting(cands, excluded, cands[r.index].account) ELSE missed
    BY <1>4, <2>3 DEF Select
  <2>5. CASE /\ Held(cands, key, excluded, now)
             /\ r.state.round_robin_after = sel.round_robin_after
    BY <1>3, <2>4, <2>5
  <2>6. ASSUME ~Held(cands, key, excluded, now),
               NEW looked, Shaped(looked),
               looked.round_robin_after = sel.round_robin_after,
               r.index = by_policy(looked, cands, policy, excluded).index,
               r.state.round_robin_after
                 = by_policy(looked, cands, policy, excluded).state.round_robin_after
        PROVE  /\ missed' \in [Accounts -> Nat]
               /\ Near(deck, sel'.round_robin_after, missed')
    <3>1. r.state.round_robin_after = IF policy # "RoundRobin" \/ r.index = 0
                                      THEN sel.round_robin_after ELSE cands[r.index].account
      BY <2>1, <2>6, PolicyMoves
    <3>2. CASE policy # "RoundRobin" \/ r.index = 0
      BY <1>3, <2>4, <3>1, <3>2
    <3>3. CASE policy = "RoundRobin" /\ r.index # 0
      <4>1. r.index = select_round_robin(looked, cands, excluded).index
        BY <2>6, <3>3 DEF by_policy
      <4>2. PICK j : j = r.index
        OBVIOUS
      <4>3. /\ Waiting(cands, excluded, cands[j].account) \in [Accounts -> Nat]
            /\ Near(deck, cands[j].account, Waiting(cands, excluded, cands[j].account))
        BY <2>6, <3>3, <4>1, <4>2, ServedTurn
      <4> QED BY <2>4, <2>6, <3>1, <3>3, <4>2, <4>3
    <3> QED BY <3>2, <3>3
  <2>7. \/ /\ Held(cands, key, excluded, now)
           /\ r.state.round_robin_after = sel.round_robin_after
        \/ /\ ~Held(cands, key, excluded, now)
           /\ \E looked :
                  /\ Shaped(looked)
                  /\ looked.round_robin_after = sel.round_robin_after
                  /\ r.index = by_policy(looked, cands, policy, excluded).index
                  /\ r.state.round_robin_after
                       = by_policy(looked, cands, policy, excluded).state.round_robin_after
    BY <1>1, <2>1, <2>2, <2>3, SelectTurns
  <2> QED BY <2>5, <2>6, <2>7
<1>5. CASE PreviewAny
  BY <1>3, <1>5 DEF PreviewAny, Preview
<1>6. ASSUME NEW key \in Keys, NEW now \in Samples, StickyBinding(key, now)
      PROVE  /\ missed' \in [Accounts -> Nat]
             /\ Near(deck, sel'.round_robin_after, missed')
  <2>1. now \in Nat
    BY <1>1, SamplesAreNat DEF ShapedInv
  <2>2. get_fresh(sel, key, now).round_robin_after = sel.round_robin_after
    BY <1>1, <2>1, FreshKeeps DEF ShapedInv, SameCursors
  <2> QED BY <1>3, <1>6, <2>2 DEF StickyBinding
<1>7. CASE Reset
  BY <1>7, NobodyWaits DEF Reset
<1>8. CASE Tick
  BY <1>3, <1>8 DEF Tick
<1>9. CASE UNCHANGED vars
  BY <1>3, <1>9 DEF vars
<1> QED BY <1>4, <1>5, <1>6, <1>7, <1>8, <1>9 DEF Next, SelectAny, StickyBindingAny

LEMMA TurnsBound ==
  ASSUME NEW deck \in Seq(Accounts), SameCards(deck), TurnInv(deck)
  PROVE  EveryCardTakesItsTurn
<1> SUFFICES ASSUME NEW cands \in CandidateLists, NEW a \in Accounts
             PROVE  missed[a] < Len(cands)
  BY DEF EveryCardTakesItsTurn
<1>1. PICK n \in Nat \ {0} : n = Len(deck) /\ Len(cands) = n /\ DOMAIN deck = 1..n
  BY DEF SameCards
<1>2. missed[a] \in Nat
  BY DEF TurnInv
<1>3. CASE \A i \in DOMAIN deck : deck[i] # a
  BY <1>1, <1>3 DEF TurnInv, Near
<1>4. ASSUME NEW i \in DOMAIN deck, deck[i] = a PROVE missed[a] < Len(cands)
  <2>1. PICK b \in 0..(n - 1) : b = Behind(deck, sel.round_robin_after)
    BY <1>1, BehindServed
  <2>2. i \in 1..n
    BY <1>1
  <2>3. Ahead(n, b, i) \in 0..(n - 1)
    BY <2>2, AheadIsOffset
  <2>4. missed[a] + Ahead(n, b, i) <= n - 1
    BY <1>1, <1>4, <2>1 DEF TurnInv, Near
  <2> QED BY <1>1, <1>2, <2>3, <2>4
<1> QED BY <1>3, <1>4

(* While all requests list the same cards in the same order, a card that    *)
(* can serve is passed over by fewer round-robin picks than there are       *)
(* cards, for any number of cards, concurrent conversations with bindings   *)
(* of their own and requests that exclude accounts they failed on           *)
(* (selector.rs, select_round_robin).                                       *)
THEOREM TurnsAreTaken ==
  ASSUME OneOrder
  PROVE  Spec => []EveryCardTakesItsTurn
<1>1. PICK deck \in Seq(Accounts) : SameCards(deck)
  BY DEF OneOrder
<1>2. Init => TurnInv(deck)
  BY <1>1, ShapedInitially, NobodyWaits DEF Init, TurnInv
<1>3. TurnInv(deck) /\ [Next]_vars => TurnInv(deck)'
  BY <1>1, TurnsPreserved
<1>4. TurnInv(deck) => EveryCardTakesItsTurn
  BY <1>1, TurnsBound
<1> QED BY <1>2, <1>3, <1>4, PTL DEF Spec

-----------------------------------------------------------------------------
(* The recency queue.  Dropped is a recursive function of the length of the *)
(* prefix; what it computes follows by looking at the first prefix for      *)
(* which it would fail, with HasFirst in the place of an induction rule.    *)

Distinct(q) == \A i, j \in DOMAIN q : q[i] = q[j] => i = j

(* d is what is left of the first n keys of q without those in S, in order. *)
Retained(q, n, S, d) ==
    /\ d \in Seq(Keys)
    /\ \A u \in DOMAIN d : \E k \in 1..n : d[u] = q[k] /\ q[k] \notin S
    /\ \A k \in 1..n : q[k] \notin S => \E u \in DOMAIN d : d[u] = q[k]
    /\ \A u, v \in DOMAIN d : u < v =>
           \E k, l \in 1..n : k < l /\ d[u] = q[k] /\ d[v] = q[l]

(* One step of Dropped.                                                     *)
KeptStep(q, S, f, i) ==
    IF i = 0 THEN << >>
    ELSE IF q[i] \in S THEN f[i - 1] ELSE Append(f[i - 1], q[i])

KeptTo(q, S, n, f) == f = [i \in 0..n |-> KeptStep(q, S, f, i)]

LEMMA KeptExists ==
  ASSUME NEW q, NEW S, NEW n \in Nat
  PROVE  \E f : KeptTo(q, S, n, f)
<1> DEFINE Bad == {m \in Nat : ~\E f : KeptTo(q, S, m, f)}
<1> SUFFICES ASSUME Bad # {} PROVE FALSE
  OBVIOUS
<1>1. Bad \in SUBSET Nat
  OBVIOUS
<1>2. PICK m \in Bad : \A j \in Bad : m <= j
  <2> HIDE DEF Bad
  <2> QED BY <1>1, HasFirst
<1>3. CASE m = 0
  <2>1. PICK f : f = [i \in 0..0 |-> << >>]
    OBVIOUS
  <2>2. \A i \in 0..0 : KeptStep(q, S, f, i) = << >>
    BY DEF KeptStep
  <2>3. KeptTo(q, S, 0, f)
    BY <2>1, <2>2 DEF KeptTo
  <2> QED BY <1>3, <2>3
<1>4. CASE m # 0
  <2>1. m - 1 \in Nat /\ m - 1 \notin Bad
    BY <1>2, <1>4
  <2>2. PICK f : KeptTo(q, S, m - 1, f)
    BY <2>1
  <2>3. PICK g : g = [i \in 0..m |-> IF i = m THEN KeptStep(q, S, f, m) ELSE f[i]]
    OBVIOUS
  <2>4. ASSUME NEW i \in 0..m PROVE g[i] = KeptStep(q, S, g, i)
    <3>1. CASE i = m
      <4>1. g[i - 1] = f[i - 1] /\ g[i] = KeptStep(q, S, f, i)
        BY <1>4, <2>1, <2>3, <3>1
      <4> QED BY <4>1 DEF KeptStep
    <3>2. CASE i # m
      <4>1. i \in 0..(m - 1) /\ g[i] = f[i]
        BY <2>1, <2>3, <3>2
      <4>2. f[i] = KeptStep(q, S, f, i)
        BY <2>2, <4>1 DEF KeptTo
      <4>3. i # 0 => g[i - 1] = f[i - 1]
        BY <2>1, <2>3, <4>1
      <4> QED BY <4>1, <4>2, <4>3 DEF KeptStep
    <3> QED BY <3>1, <3>2
  <2>5. KeptTo(q, S, m, g)
    BY <2>3, <2>4 DEF KeptTo
  <2> QED BY <2>5
<1> QED BY <1>3, <1>4

LEMMA RetainedStep ==
  ASSUME NEW q \in Seq(Keys), NEW S, NEW n \in Nat, n + 1 \in DOMAIN q,
         NEW d, Retained(q, n, S, d)
  PROVE  Retained(q, n + 1, S, IF q[n + 1] \in S THEN d ELSE Append(d, q[n + 1]))
<1>1. PICK x \in Keys : x = q[n + 1]
  OBVIOUS
<1>2. CASE x \in S
  BY <1>1, <1>2 DEF Retained
<1>3. CASE x \notin S
  <2>1. PICK e : e = Append(d, x)
    OBVIOUS
  <2>2. PICK m \in Nat : m = Len(d) /\ DOMAIN d = 1..m
    BY DEF Retained
  <2>3. /\ e \in Seq(Keys) /\ DOMAIN e = 1..(m + 1) /\ e[m + 1] = x
        /\ \A u \in 1..m : e[u] = d[u]
    BY <2>1, <2>2 DEF Retained
  <2>4. \A u \in DOMAIN e : \E k \in 1..(n + 1) : e[u] = q[k] /\ q[k] \notin S
    BY <1>1, <1>3, <2>2, <2>3, SMTT(30) DEF Retained
  <2>5. \A k \in 1..(n + 1) : q[k] \notin S => \E u \in DOMAIN e : e[u] = q[k]
    <3> SUFFICES ASSUME NEW k \in 1..(n + 1), q[k] \notin S
                 PROVE  \E u \in DOMAIN e : e[u] = q[k]
      OBVIOUS
    <3>1. CASE k = n + 1
      BY <1>1, <2>3, <3>1
    <3>2. CASE k # n + 1
      <4>1. PICK u \in 1..m : d[u] = q[k]
        BY <2>2, <3>2 DEF Retained
      <4> QED BY <2>3, <4>1
    <3> QED BY <3>1, <3>2
  <2>6. ASSUME NEW u \in DOMAIN e, NEW v \in DOMAIN e, u < v
        PROVE  \E k, l \in 1..(n + 1) : k < l /\ e[u] = q[k] /\ e[v] = q[l]
    <3>1. u \in 1..m /\ e[u] = d[u]
      BY <2>3, <2>6
    <3>2. CASE v = m + 1
      <4>1. PICK k \in 1..n : d[u] = q[k]
        BY <2>2, <3>1 DEF Retained
      <4> QED BY <1>1, <2>3, <3>1, <3>2, <4>1
    <3>3. CASE v # m + 1
      <4>1. v \in 1..m /\ e[v] = d[v]
        BY <2>3, <3>3
      <4>2. PICK k \in 1..n, l \in 1..n : k < l /\ d[u] = q[k] /\ d[v] = q[l]
        BY <2>2, <2>6, <3>1, <4>1 DEF Retained
      <4>3. k \in 1..(n + 1) /\ l \in 1..(n + 1)
        OBVIOUS
      <4> QED BY <3>1, <4>1, <4>2, <4>3
    <3> QED BY <3>2, <3>3
  <2>7. Retained(q, n + 1, S, e)
    BY <2>3, <2>4, <2>5, <2>6 DEF Retained
  <2>8. e = IF q[n + 1] \in S THEN d ELSE Append(d, q[n + 1])
    BY <1>1, <1>3, <2>1
  <2> QED BY <2>7, <2>8
<1> QED BY <1>2, <1>3

LEMMA DroppedRetains ==
  ASSUME NEW q \in Seq(Keys), NEW S
  PROVE  Retained(q, Len(q), S, Dropped(q, S))
<1>1. PICK n \in Nat : n = Len(q) /\ DOMAIN q = 1..n
  OBVIOUS
<1> DEFINE kept == CHOOSE f : KeptTo(q, S, n, f)
<1>2. KeptTo(q, S, n, kept)
  BY KeptExists, Zenon
<1>3. Dropped(q, S) = kept[n]
  BY <1>1, Zenon DEF Dropped, KeptTo, KeptStep
<1> HIDE DEF kept
<1>4. PICK f : f = kept
  OBVIOUS
<1> DEFINE Bad == {m \in 0..n : ~Retained(q, m, S, f[m])}
<1>5. SUFFICES ASSUME Bad # {} PROVE FALSE
  BY <1>1, <1>3, <1>4
<1>6. Bad \in SUBSET Nat
  OBVIOUS
<1>7. PICK m \in Bad : \A j \in Bad : m <= j
  <2> HIDE DEF Bad
  <2> QED BY <1>5, <1>6, HasFirst
<1>8. f[m] = KeptStep(q, S, f, m)
  BY <1>2, <1>4, <1>7 DEF KeptTo
<1>9. CASE m = 0
  <2>1. f[m] = << >>
    BY <1>8, <1>9 DEF KeptStep
  <2>2. Retained(q, 0, S, << >>)
    BY DEF Retained
  <2> QED BY <1>7, <1>9, <2>1, <2>2
<1>10. CASE m # 0
  <2>1. PICK j \in Nat : j + 1 = m /\ j = m - 1 /\ j \in 0..n /\ j + 1 \in DOMAIN q
    <3>1. m - 1 \in Nat /\ (m - 1) + 1 = m /\ m - 1 \in 0..n /\ m \in DOMAIN q
      BY <1>1, <1>7, <1>10
    <3> QED BY <3>1
  <2>2. Retained(q, j, S, f[j])
    BY <1>7, <2>1
  <2>3. f[m] = IF q[j + 1] \in S THEN f[j] ELSE Append(f[j], q[j + 1])
    BY <1>8, <1>10, <2>1 DEF KeptStep
  <2>4. Retained(q, j + 1, S, f[m])
    BY <2>1, <2>2, <2>3, RetainedStep
  <2> QED BY <1>7, <2>1, <2>4
<1> QED BY <1>9, <1>10

(* The queue holds the keys of the map, each once, and is not too long.     *)
Queue(q, K) ==
    /\ q \in Seq(Keys)
    /\ Range(q) = K
    /\ Distinct(q)
    /\ Len(q) <= MaxConversations

(* Behind a key the queue holds only conversations used since.              *)
Recent(q, rec) == \A i, j \in DOMAIN q : i < j => q[j] \in rec[q[i]]

LEMMA DistinctCount ==
  ASSUME NEW q \in Seq(Keys), Distinct(q)
  PROVE  IsFiniteSet(Range(q)) /\ Cardinality(Range(q)) = Len(q)
<1>1. PICK n \in Nat : n = Len(q) /\ DOMAIN q = 1..n
  OBVIOUS
<1>2. PICK K : K = Range(q)
  OBVIOUS
<1>3. q \in [1..n -> K]
  BY <1>1, <1>2 DEF Range
<1>4. q \in Bijection(1..n, K)
  <2>1. \A i, j \in 1..n : q[i] = q[j] => i = j
    BY <1>1 DEF Distinct
  <2>2. \A k \in K : \E i \in 1..n : q[i] = k
    BY <1>1, <1>2 DEF Range
  <2> QED BY <1>3, <2>1, <2>2, Fun_IsBij
<1>5. ExistsBijection(1..n, K)
  BY <1>4 DEF ExistsBijection
<1>6. IsFiniteSet(K) /\ Cardinality(K) = n
  BY <1>5, FS_CountingElements, FS_NatBijection
<1> QED BY <1>1, <1>2, <1>6

LEMMA DropQueue ==
  ASSUME NEW q, NEW K, Queue(q, K), NEW S, NEW rec, Recent(q, rec)
  PROVE  Queue(Dropped(q, S), K \ S) /\ Recent(Dropped(q, S), rec)
<1>1. PICK n \in Nat : n = Len(q) /\ DOMAIN q = 1..n /\ q \in Seq(Keys)
  BY DEF Queue
<1>2. PICK d : d = Dropped(q, S)
  OBVIOUS
<1>3. Retained(q, n, S, d)
  BY <1>1, <1>2, DroppedRetains
<1>4. d \in Seq(Keys) /\ Range(d) = K \ S
  <2>1. d \in Seq(Keys) /\ K = Range(q)
    BY <1>3 DEF Retained, Queue
  <2>2. ASSUME NEW k \in Range(d) PROVE k \in K \ S
    <3>1. PICK u \in DOMAIN d : k = d[u]
      BY DEF Range
    <3>2. PICK i \in 1..n : d[u] = q[i] /\ q[i] \notin S
      BY <1>3 DEF Retained
    <3> QED BY <1>1, <2>1, <3>1, <3>2 DEF Range
  <2>3. ASSUME NEW k \in K \ S PROVE k \in Range(d)
    <3>1. PICK i \in 1..n : k = q[i]
      BY <1>1, <2>1 DEF Range
    <3>2. PICK u \in DOMAIN d : d[u] = k
      BY <1>3, <3>1 DEF Retained
    <3> QED BY <3>2 DEF Range
  <2> QED BY <2>1, <2>2, <2>3
<1>5. Distinct(d)
  <2> SUFFICES ASSUME NEW u \in DOMAIN d, NEW v \in DOMAIN d, d[u] = d[v], u # v
               PROVE  FALSE
    BY DEF Distinct
  <2>1. u \in Nat /\ v \in Nat
    BY <1>4
  <2>2. u < v \/ v < u
    BY <2>1
  <2>3. \E k, l \in 1..n : k < l /\ q[k] = q[l]
    BY <1>3, <2>2, SMTT(30) DEF Retained
  <2> QED BY <1>1, <2>3 DEF Queue, Distinct
<1>6. Recent(d, rec)
  <2> SUFFICES ASSUME NEW u \in DOMAIN d, NEW v \in DOMAIN d, u < v PROVE d[v] \in rec[d[u]]
    BY DEF Recent
  <2>1. PICK k \in 1..n, l \in 1..n : k < l /\ d[u] = q[k] /\ d[v] = q[l]
    BY <1>3 DEF Retained
  <2> QED BY <1>1, <2>1 DEF Recent
<1>7. Len(d) <= Len(q)
  <2>1. IsFiniteSet(K) /\ Cardinality(K) = Len(q)
    BY <1>1, DistinctCount DEF Queue
  <2>2. Cardinality(K \ S) = Len(d)
    BY <1>4, <1>5, DistinctCount
  <2>3. K \ S \in SUBSET K
    OBVIOUS
  <2>4. Cardinality(K \ S) <= Cardinality(K)
    BY <2>1, <2>3, FS_Subset
  <2> QED BY <2>1, <2>2, <2>4
<1>8. Len(d) <= MaxConversations
  BY <1>1, <1>4, <1>7, SelectorAssumption DEF Queue
<1> QED BY <1>2, <1>4, <1>5, <1>6, <1>8 DEF Queue

(* Appending a key that is not in the queue.                                *)
LEMMA AppendQueue ==
  ASSUME NEW q \in Seq(Keys), Distinct(q), NEW key \in Keys, key \notin Range(q),
         NEW rec, Recent(q, rec), NEW use,
         \A j \in Range(q) : use[j] = rec[j] \cup {key}
  PROVE  /\ Append(q, key) \in Seq(Keys)
         /\ Len(Append(q, key)) = Len(q) + 1
         /\ Range(Append(q, key)) = Range(q) \cup {key}
         /\ Distinct(Append(q, key))
         /\ Recent(Append(q, key), use)
<1>1. PICK n \in Nat : n = Len(q) /\ DOMAIN q = 1..n
  OBVIOUS
<1>2. PICK e : e = Append(q, key)
  OBVIOUS
<1>3. /\ e \in Seq(Keys) /\ Len(e) = n + 1 /\ DOMAIN e = 1..(n + 1) /\ e[n + 1] = key
      /\ \A i \in 1..n : e[i] = q[i]
  BY <1>1, <1>2
<1>4. Range(e) = Range(q) \cup {key}
  BY <1>1, <1>3 DEF Range
<1>5. Distinct(e)
  BY <1>1, <1>3 DEF Distinct, Range
<1>6. Recent(e, use)
  <2> SUFFICES ASSUME NEW i \in 1..(n + 1), NEW j \in 1..(n + 1), i < j
               PROVE  e[j] \in use[e[i]]
    BY <1>3 DEF Recent
  <2>1. i \in 1..n /\ e[i] = q[i] /\ q[i] \in Range(q)
    BY <1>1, <1>3 DEF Range
  <2>2. CASE j = n + 1
    BY <1>3, <2>1, <2>2
  <2>3. CASE j # n + 1
    <3>1. e[j] = q[j] /\ q[j] \in rec[q[i]]
      BY <1>1, <1>3, <2>1, <2>3 DEF Recent
    <3> QED BY <2>1, <3>1
  <2> QED BY <2>2, <2>3
<1> QED BY <1>1, <1>2, <1>3, <1>4, <1>5, <1>6

LEMMA TouchQueue ==
  ASSUME NEW q, NEW K, Queue(q, K), NEW key \in K, NEW rec, Recent(q, rec),
         NEW use, \A j \in K \ {key} : use[j] = rec[j] \cup {key}
  PROVE  Queue(touch_order(q, key), K) /\ Recent(touch_order(q, key), use)
<1>1. PICK d : d = Dropped(q, {key})
  OBVIOUS
<1>2. Queue(d, K \ {key}) /\ Recent(d, rec)
  BY <1>1, DropQueue
<1>3. key \in Keys
  BY DEF Queue, Range
<1>4. PICK e : e = Append(d, key)
  OBVIOUS
<1>5. /\ e \in Seq(Keys) /\ Range(e) = Range(d) \cup {key} /\ Distinct(e) /\ Recent(e, use)
  BY <1>2, <1>3, <1>4, AppendQueue DEF Queue
<1>6. Range(e) = K
  BY <1>2, <1>5 DEF Queue
<1>7. Len(e) = Len(q)
  BY <1>5, <1>6, DistinctCount DEF Queue
<1> QED BY <1>1, <1>4, <1>5, <1>6, <1>7 DEF Queue, touch_order

LEMMA Rest ==
  ASSUME NEW q \in Seq(Keys), NEW n \in Nat, n = Len(q), NEW m \in Nat, m <= n
  PROVE  LET r == SubSeq(q, m + 1, n)
         IN  /\ r \in Seq(Keys) /\ Len(r) = n - m /\ DOMAIN r = 1..(n - m)
             /\ \A i \in 1..(n - m) : r[i] = q[i + m]
OBVIOUS

(* Making room: pops keys leave at the front, at most one of them.          *)
Shifted(q, pops, key) == Append(SubSeq(q, pops + 1, Len(q)), key)

Front(q, pops) == {q[i] : i \in 1..pops}

MakesRoom(q, K, key, rec, use, pops) ==
    /\ Queue(q, K) /\ Recent(q, rec)
    /\ key \in Keys \ K
    /\ \A j \in K : use[j] = rec[j] \cup {key}
    /\ pops \in Nat
    /\ \/ pops = 0 /\ Len(q) < MaxConversations
       \/ pops = 1 /\ Len(q) = MaxConversations

LEMMA ShiftQueue ==
  ASSUME NEW q, NEW K, NEW key, NEW rec, NEW use, NEW pops,
         MakesRoom(q, K, key, rec, use, pops)
  PROVE  /\ Queue(Shifted(q, pops, key), (K \ Front(q, pops)) \cup {key})
         /\ Recent(Shifted(q, pops, key), use)
         /\ Front(q, pops) \subseteq K
         /\ \A j \in Front(q, pops) :
                Len(q) = MaxConversations /\ \A k \in K \ {j} : k \in rec[j]
<1> USE DEF MakesRoom
<1>1. PICK n \in Nat : n = Len(q) /\ DOMAIN q = 1..n /\ q \in Seq(Keys)
  BY DEF Queue
<1>2. PICK max \in Nat \ {0} : max = MaxConversations
  BY SelectorAssumption
<1>3. n <= max /\ pops = IF n = max THEN 1 ELSE 0
  BY <1>1, <1>2
<1>4. PICK r : r = SubSeq(q, pops + 1, n)
  OBVIOUS
<1>5. PICK gone : gone = {q[i] : i \in 1..pops}
  OBVIOUS
<1>6. /\ r \in Seq(Keys) /\ Len(r) = n - pops /\ DOMAIN r = 1..(n - pops)
      /\ \A i \in 1..(n - pops) : r[i] = q[i + pops]
  <2>1. pops <= n
    BY <1>2, <1>3
  <2> QED BY <1>1, <1>4, <2>1, Rest
<1>7. Range(r) = K \ gone
  <2>1. ASSUME NEW k \in Range(r) PROVE k \in K \ gone
    <3>1. PICK i \in 1..(n - pops) : k = q[i + pops]
      BY <1>6 DEF Range
    <3>2. i + pops \in 1..n /\ i + pops \notin 1..pops
      BY <1>3, <1>2
    <3>3. \A j \in 1..pops : j \in 1..n
      BY <1>2, <1>3
    <3> QED BY <1>1, <1>5, <3>1, <3>2, <3>3 DEF Queue, Range, Distinct
  <2>2. ASSUME NEW k \in K \ gone PROVE k \in Range(r)
    <3>1. PICK i \in 1..n : k = q[i]
      BY <1>1 DEF Queue, Range
    <3>2. i \notin 1..pops
      BY <1>5, <3>1
    <3>3. i - pops \in 1..(n - pops) /\ (i - pops) + pops = i
      BY <1>2, <1>3, <3>2
    <3>4. r[i - pops] = k
      BY <1>6, <3>1, <3>3
    <3> QED BY <1>6, <3>3, <3>4 DEF Range
  <2> QED BY <2>1, <2>2
<1>8. Distinct(r)
  <2> SUFFICES ASSUME NEW i \in 1..(n - pops), NEW j \in 1..(n - pops), r[i] = r[j]
               PROVE  i = j
    BY <1>6 DEF Distinct
  <2>1. i + pops \in 1..n /\ j + pops \in 1..n /\ q[i + pops] = q[j + pops]
    BY <1>2, <1>3, <1>6
  <2>2. i + pops = j + pops
    BY <1>1, <2>1 DEF Queue, Distinct
  <2> QED BY <1>2, <1>3, <2>2
<1>9. Recent(r, rec)
  <2> SUFFICES ASSUME NEW i \in 1..(n - pops), NEW j \in 1..(n - pops), i < j
               PROVE  r[j] \in rec[r[i]]
    BY <1>6 DEF Recent
  <2>1. i + pops \in 1..n /\ j + pops \in 1..n /\ i + pops < j + pops
    BY <1>2, <1>3
  <2> QED BY <1>1, <1>6, <2>1, SMTT(30) DEF Recent
<1>10. PICK e : e = Append(r, key)
  OBVIOUS
<1>11. /\ e \in Seq(Keys) /\ Len(e) = (n - pops) + 1 /\ Range(e) = (K \ gone) \cup {key}
       /\ Distinct(e) /\ Recent(e, use)
  BY <1>6, <1>7, <1>8, <1>9, <1>10, AppendQueue
<1>12. Len(e) <= MaxConversations
  BY <1>2, <1>3, <1>11
<1>13. gone \subseteq K
  BY <1>1, <1>2, <1>3, <1>5 DEF Queue, Range
<1>14. ASSUME NEW j \in gone PROVE n = max /\ \A k \in K \ {j} : k \in rec[j]
  <2>1. n = max /\ pops = 1 /\ j = q[1] /\ 1 \in 1..n
    BY <1>2, <1>3, <1>5
  <2>2. ASSUME NEW k \in K \ {j} PROVE k \in rec[j]
    <3>1. PICK i \in 1..n : k = q[i]
      BY <1>1 DEF Queue, Range
    <3>2. 1 < i
      BY <2>1, <3>1
    <3> QED BY <1>1, <2>1, <3>1, <3>2 DEF Recent
  <2> QED BY <2>1, <2>2
<1>15. Shifted(q, pops, key) = e /\ Front(q, pops) = gone
  BY <1>1, <1>4, <1>5, <1>10 DEF Shifted, Front
<1> QED BY <1>1, <1>2, <1>11, <1>12, <1>13, <1>14, <1>15 DEF Queue

-----------------------------------------------------------------------------
(* The map with its queue and its timestamps, against the history of uses:  *)
(* rec[k] is what was used since k, used[k] when k was last used.           *)

Used(rec, key) == [j \in Keys |-> IF j = key THEN {} ELSE rec[j] \cup {key}]

Linked(s, rec, used) ==
    /\ Shaped(s)
    /\ Queue(s.order, DOMAIN s.entries)
    /\ Recent(s.order, rec)
    /\ \A k \in DOMAIN s.entries :
           /\ s.entries[k].last_seen <= used[k]
           /\ used[k] <= s.entries[k].last_seen + MaxDelay

TimedOut(used, time, j) == time - used[j] + MaxDelay >= ConversationTtl

LEMMA LinkedKeys ==
  ASSUME NEW s, NEW rec, NEW used, Linked(s, rec, used)
  PROVE  DOMAIN s.entries \subseteq Keys
BY DEF Linked, Queue, Range

LEMMA PurgeContent ==
  ASSUME NEW s, Shaped(s), NEW now
  PROVE  /\ purge_expired(s, now).entries = Without(s.entries, Expired(s, now))
         /\ purge_expired(s, now).order = Dropped(s.order, Expired(s, now))
<1>1. PICK old, e, o : old = Expired(s, now) /\ e = Without(s.entries, old)
                       /\ o = Dropped(s.order, old)
  OBVIOUS
<1>2. purge_expired(s, now) = [s EXCEPT !.entries = e, !.order = o]
  BY <1>1 DEF purge_expired
<1>3. purge_expired(s, now) = [global_account_id |-> s.global_account_id,
                               round_robin_after |-> s.round_robin_after,
                               entries |-> e, order |-> o]
  BY <1>2, MapWrite
<1> QED BY <1>1, <1>3

LEMMA PurgeLinked ==
  ASSUME NEW s, NEW rec, NEW used \in [Keys -> Nat], Linked(s, rec, used),
         NEW now \in Nat, NEW time \in Nat, now <= time, time - now <= MaxDelay
  PROVE  LET p == purge_expired(s, now)
         IN  /\ Linked(p, rec, used)
             /\ \A k \in DOMAIN p.entries :
                    /\ k \in DOMAIN s.entries /\ p.entries[k] = s.entries[k]
                    /\ time - used[k] < ConversationTtl + MaxDelay
             /\ \A k \in DOMAIN s.entries : k \notin DOMAIN p.entries => TimedOut(used, time, k)
<1>1. PICK p : p = purge_expired(s, now)
  OBVIOUS
<1>2. PICK old : old = Expired(s, now)
  OBVIOUS
<1>3. Shaped(s) /\ Shaped(p)
  BY <1>1, PurgeKeeps DEF Linked
<1>4. p.entries = Without(s.entries, old) /\ p.order = Dropped(s.order, old)
  BY <1>1, <1>2, <1>3, PurgeContent
<1>5. /\ DOMAIN p.entries = (DOMAIN s.entries) \ old
      /\ \A k \in DOMAIN p.entries : p.entries[k] = s.entries[k]
  BY <1>4 DEF Without
<1>6. Queue(p.order, DOMAIN p.entries) /\ Recent(p.order, rec)
  BY <1>4, <1>5, DropQueue DEF Linked
<1>7. Linked(p, rec, used)
  BY <1>3, <1>5, <1>6 DEF Linked
<1>8. ASSUME NEW k \in DOMAIN s.entries
      PROVE  /\ k \in old => TimedOut(used, time, k)
             /\ k \notin old => time - used[k] < ConversationTtl + MaxDelay
  <2>1. PICK seen \in Nat, u \in Nat : seen = s.entries[k].last_seen /\ u = used[k]
    BY <1>3, LinkedKeys DEF Shaped, ConversationBinding
  <2>2. seen <= u /\ u <= seen + MaxDelay
    BY <2>1 DEF Linked
  <2>3. k \in old <=> (IF now >= seen THEN now - seen ELSE 0) >= ConversationTtl
    BY <1>2, <2>1 DEF Expired, Age
  <2>4. PICK ttl \in Nat, delay \in Nat :
            ttl = ConversationTtl /\ ttl # 0 /\ delay = MaxDelay
    BY SelectorAssumption, RoutingAssumption
  <2>5. k \in old <=> now >= seen /\ now - seen >= ttl
    BY <2>3, <2>4
  <2>6. /\ k \in old => time - u + delay >= ttl
        /\ k \notin old => time - u < ttl + delay
    BY <2>2, <2>4, <2>5
  <2> QED BY <2>1, <2>4, <2>6 DEF TimedOut
<1> QED BY <1>1, <1>5, <1>7, <1>8

LEMMA FreshLinked ==
  ASSUME NEW s, NEW rec, NEW used \in [Keys -> Nat], Linked(s, rec, used), NEW key \in Keys,
         NEW now \in Nat, NEW time \in Nat, now <= time, time - now <= MaxDelay
  PROVE  LET g == get_fresh(s, key, now)
         IN  /\ IF key \in DOMAIN g.entries
                THEN Linked(g, Used(rec, key), [used EXCEPT ![key] = time])
                ELSE Linked(g, rec, used)
             /\ \A k \in DOMAIN g.entries :
                    /\ k \in DOMAIN s.entries /\ SameTarget(s.entries[k], g.entries[k])
                    /\ time - used[k] < ConversationTtl + MaxDelay
             /\ \A k \in DOMAIN s.entries : k \notin DOMAIN g.entries => TimedOut(used, time, k)
<1>1. PICK p : p = purge_expired(s, now)
  OBVIOUS
<1>2. /\ Linked(p, rec, used)
      /\ \A k \in DOMAIN p.entries :
             /\ k \in DOMAIN s.entries /\ p.entries[k] = s.entries[k]
             /\ time - used[k] < ConversationTtl + MaxDelay
      /\ \A k \in DOMAIN s.entries : k \notin DOMAIN p.entries => TimedOut(used, time, k)
  BY <1>1, PurgeLinked
<1>3. PICK g : g = get_fresh(s, key, now)
  OBVIOUS
<1>4. Shaped(p) /\ Shaped(g)
  BY <1>2, <1>3, FreshKeeps DEF Linked
<1>5. CASE key \notin DOMAIN p.entries
  <2>1. g = p
    BY <1>1, <1>3, <1>5 DEF get_fresh
  <2> QED BY <1>2, <1>3, <1>5, <2>1 DEF SameTarget
<1>6. CASE key \in DOMAIN p.entries
  <2>1. PICK b, o : b = Refreshed(p.entries[key], now) /\ o = touch_order(p.order, key)
    OBVIOUS
  <2>2. b \in ConversationBinding /\ b.last_seen = now /\ SameTarget(p.entries[key], b)
    <3>1. p.entries[key] \in ConversationBinding
      BY <1>4, <1>6 DEF Shaped
    <3> QED BY <2>1, <3>1, RefreshedBinding DEF Refreshed, ConversationBinding
  <2>3. g = [p EXCEPT !.entries[key] = b, !.order = o]
    BY <1>1, <1>3, <1>6, <2>1 DEF get_fresh
  <2>4. g.entries = [p.entries EXCEPT ![key] = b] /\ g.order = o
    <3>1. PICK e : e = [p.entries EXCEPT ![key] = b]
      OBVIOUS
    <3>2. g = [global_account_id |-> p.global_account_id,
               round_robin_after |-> p.round_robin_after, entries |-> e, order |-> o]
      BY <1>4, <1>6, <2>3, <3>1, EntryWrite, ZenonT(40)
    <3> QED BY <3>1, <3>2
  <2>5. /\ DOMAIN g.entries = DOMAIN p.entries /\ g.entries[key] = b
        /\ \A k \in DOMAIN p.entries : k # key => g.entries[k] = p.entries[k]
    BY <1>6, <2>4
  <2>6. DOMAIN p.entries \subseteq Keys
    BY <1>2, LinkedKeys
  <2>7. Queue(g.order, DOMAIN g.entries) /\ Recent(g.order, Used(rec, key))
    <3>1. \A j \in (DOMAIN p.entries) \ {key} : Used(rec, key)[j] = rec[j] \cup {key}
      BY <2>6 DEF Used
    <3>2. PICK use : use = Used(rec, key)
      OBVIOUS
    <3>3. PICK q, K : q = p.order /\ K = DOMAIN p.entries
      OBVIOUS
    <3>4. Queue(q, K) /\ Recent(q, rec) /\ key \in K
      BY <1>2, <1>6, <3>3 DEF Linked
    <3>5. \A j \in K \ {key} : use[j] = rec[j] \cup {key}
      BY <3>1, <3>2, <3>3
    <3>6. Queue(touch_order(q, key), K) /\ Recent(touch_order(q, key), use)
      BY <3>4, <3>5, TouchQueue
    <3> QED BY <2>1, <2>4, <2>5, <3>2, <3>3, <3>6
  <2>8. ASSUME NEW k \in DOMAIN g.entries
        PROVE  /\ g.entries[k].last_seen <= [used EXCEPT ![key] = time][k]
               /\ [used EXCEPT ![key] = time][k] <= g.entries[k].last_seen + MaxDelay
    <3>1. CASE k = key
      BY <2>2, <2>5, <3>1, RoutingAssumption
    <3>2. CASE k # key
      BY <1>2, <2>5, <2>6, <3>2 DEF Linked
    <3> QED BY <3>1, <3>2
  <2>9. Linked(g, Used(rec, key), [used EXCEPT ![key] = time])
    BY <1>4, <2>7, <2>8 DEF Linked
  <2>10. \A k \in DOMAIN g.entries : SameTarget(p.entries[k], g.entries[k])
    BY <2>2, <2>5 DEF SameTarget
  <2> QED BY <1>2, <1>3, <1>6, <2>5, <2>9, <2>10
<1> QED BY <1>5, <1>6

LEMMA ManyUsed ==
  ASSUME NEW rec, NEW K \in SUBSET Keys, NEW key \in Keys, key \notin K, NEW j \in K,
         IsFiniteSet(K), Cardinality(K) = MaxConversations,
         IsFiniteSet(rec[j]), \A k \in K \ {j} : k \in rec[j]
  PROVE  Cardinality(Used(rec, key)[j]) >= MaxConversations
<1>1. PICK R, U : R = (K \ {j}) \cup {key} /\ U = rec[j] \cup {key}
  OBVIOUS
<1>2. Used(rec, key)[j] = U /\ R \subseteq U
  BY <1>1 DEF Used
<1>3. IsFiniteSet(U)
  BY <1>1, FS_AddElement
<1>4. Cardinality(R) = Cardinality(K)
  <2>1. IsFiniteSet(K \ {j}) /\ Cardinality(K \ {j}) = Cardinality(K) - 1
    BY FS_RemoveElement
  <2>2. Cardinality(R) = Cardinality(K \ {j}) + 1
    BY <1>1, <2>1, FS_AddElement
  <2>3. Cardinality(K) \in Nat
    BY FS_CardinalityType
  <2> QED BY <2>1, <2>2, <2>3
<1>5. Cardinality(R) <= Cardinality(U) /\ Cardinality(U) \in Nat
  BY <1>2, <1>3, FS_Subset, FS_CardinalityType
<1>6. Cardinality(R) \in Nat
  BY <1>4, FS_CardinalityType
<1> QED BY <1>2, <1>4, <1>5, <1>6

LEMMA InsertLinked ==
  ASSUME NEW s, NEW rec, NEW used \in [Keys -> Nat], Linked(s, rec, used), NEW key \in Keys,
         NEW now \in Nat, NEW time \in Nat, now <= time, time - now <= MaxDelay,
         NEW cand \in Candidate, \A k \in Keys : IsFiniteSet(rec[k])
  PROVE  LET t == insert(s, key, cand, now)
         IN  /\ Linked(t, Used(rec, key), [used EXCEPT ![key] = time])
             /\ key \in DOMAIN t.entries /\ SameTarget(cand, t.entries[key])
             /\ \A k \in DOMAIN t.entries : k # key =>
                    k \in DOMAIN s.entries /\ t.entries[k] = s.entries[k]
             /\ \A k \in DOMAIN s.entries : k \notin DOMAIN t.entries =>
                    \/ TimedOut(used, time, k)
                    \/ Cardinality(Used(rec, key)[k]) >= MaxConversations
<1>1. PICK p : p = purge_expired(s, now)
  OBVIOUS
<1>2. /\ Linked(p, rec, used)
      /\ \A k \in DOMAIN p.entries : k \in DOMAIN s.entries /\ p.entries[k] = s.entries[k]
      /\ \A k \in DOMAIN s.entries : k \notin DOMAIN p.entries => TimedOut(used, time, k)
  BY <1>1, PurgeLinked
<1>3. PICK t : t = insert(s, key, cand, now)
  OBVIOUS
<1>4. Shaped(s) /\ Shaped(p) /\ Shaped(t)
  BY <1>2, <1>3, InsertKeeps DEF Linked
<1>5. PICK q, K : q = p.order /\ K = DOMAIN p.entries
  OBVIOUS
<1>6. Queue(q, K) /\ Recent(q, rec) /\ K \subseteq Keys
  BY <1>2, <1>5, LinkedKeys DEF Linked
<1>7. PICK new : new = NewBinding(cand, now)
  OBVIOUS
<1>8. new.last_seen = now /\ SameTarget(cand, new)
  BY <1>7 DEF NewBinding, SameTarget
<1>9. PICK use : use = Used(rec, key)
  OBVIOUS
<1>10. \A j \in K \ {key} : use[j] = rec[j] \cup {key}
  BY <1>6, <1>9 DEF Used
<1>11. PICK pops \in Nat :
           /\ pops = IF Cardinality(DOMAIN p.entries) + 1 - MaxConversations > 0
                     THEN Cardinality(DOMAIN p.entries) + 1 - MaxConversations ELSE 0
           /\ \/ pops = 0 /\ Len(q) < MaxConversations
              \/ pops = 1 /\ Len(q) = MaxConversations
  <2>1. PICK n \in Nat, max \in Nat \ {0} : n = Len(q) /\ max = MaxConversations /\ n <= max
    BY <1>6, SelectorAssumption DEF Queue
  <2>2. Cardinality(DOMAIN p.entries) = n
    BY <1>5, <1>6, <2>1, DistinctCount DEF Queue
  <2> QED BY <2>1, <2>2
<1>12. /\ key \in K => t.entries = [p.entries EXCEPT ![key] = new] /\ t.order = touch_order(q, key)
       /\ key \notin K =>
              LET room == Without(p.entries, {q[i] : i \in 1..pops})
              IN  /\ t.entries = [k \in DOMAIN room \cup {key} |-> IF k = key THEN new ELSE room[k]]
                  /\ t.order = Append(SubSeq(q, pops + 1, Len(q)), key)
  <2>1. CASE key \in DOMAIN p.entries
    <3>1. PICK o : o = touch_order(p.order, key)
      OBVIOUS
    <3>2. t = [p EXCEPT !.entries[key] = new, !.order = o]
      BY <1>1, <1>3, <1>7, <2>1, <3>1 DEF insert
    <3>3. PICK e : e = [p.entries EXCEPT ![key] = new]
      OBVIOUS
    <3>4. t = [global_account_id |-> p.global_account_id,
               round_robin_after |-> p.round_robin_after, entries |-> e, order |-> o]
      BY <1>4, <2>1, <3>2, <3>3, EntryWrite, ZenonT(40)
    <3>5. t.entries = e /\ t.order = o
      BY <3>4
    <3> QED BY <1>5, <2>1, <3>1, <3>3, <3>5
  <2>2. CASE key \notin DOMAIN p.entries
    <3>1. PICK room : room = Without(p.entries, {p.order[i] : i \in 1..pops})
      OBVIOUS
    <3>2. PICK e : e = [k \in DOMAIN room \cup {key} |-> IF k = key THEN new ELSE room[k]]
      OBVIOUS
    <3>3. PICK o : o = Append(SubSeq(p.order, pops + 1, Len(p.order)), key)
      OBVIOUS
    <3>4. t = [p EXCEPT !.entries = e, !.order = o]
      BY <1>1, <1>3, <1>7, <1>11, <2>2, <3>1, <3>2, <3>3 DEF insert
    <3>5. t = [global_account_id |-> p.global_account_id,
               round_robin_after |-> p.round_robin_after, entries |-> e, order |-> o]
      BY <1>4, <3>4, MapWrite
    <3>6. t.entries = e /\ t.order = o
      BY <3>5
    <3> QED BY <1>5, <2>2, <3>1, <3>2, <3>3, <3>6
  <2> QED BY <2>1, <2>2
<1>13. PICK gone : gone = IF key \in K THEN {} ELSE {q[i] : i \in 1..pops}
  OBVIOUS
<1>14. /\ DOMAIN t.entries = (K \ gone) \cup {key}
       /\ t.entries[key] = new
       /\ \A k \in K \ gone : k # key => t.entries[k] = p.entries[k]
  <2>1. CASE key \in K
    BY <1>5, <1>12, <1>13, <2>1
  <2>2. CASE key \notin K
    BY <1>5, <1>12, <1>13, <2>2 DEF Without
  <2> QED BY <2>1, <2>2
<1>15. /\ Queue(t.order, DOMAIN t.entries) /\ Recent(t.order, use)
       /\ \A j \in gone : /\ j \in K /\ key \notin K /\ Len(q) = MaxConversations
                          /\ \A k \in K \ {j} : k \in rec[j]
  <2>1. CASE key \in K
    <3>1. Queue(touch_order(q, key), K) /\ Recent(touch_order(q, key), use)
      BY <1>6, <1>10, <2>1, TouchQueue
    <3>2. DOMAIN t.entries = K /\ gone = {}
      BY <1>13, <1>14, <2>1
    <3> QED BY <1>12, <2>1, <3>1, <3>2
  <2>2. CASE key \notin K
    <3>1. \A j \in K : use[j] = rec[j] \cup {key}
      BY <1>10, <2>2
    <3>2. gone = Front(q, pops)
      BY <1>13, <2>2 DEF Front
    <3>3. t.order = Shifted(q, pops, key)
      BY <1>12, <2>2 DEF Shifted
    <3>4. /\ Queue(Shifted(q, pops, key), (K \ Front(q, pops)) \cup {key})
          /\ Recent(Shifted(q, pops, key), use)
          /\ Front(q, pops) \subseteq K
          /\ \A j \in Front(q, pops) :
                 Len(q) = MaxConversations /\ \A k \in K \ {j} : k \in rec[j]
      <4>1. MakesRoom(q, K, key, rec, use, pops)
        BY <1>6, <1>11, <2>2, <3>1 DEF MakesRoom
      <4> QED BY <4>1, ShiftQueue
    <3> QED BY <1>14, <2>2, <3>2, <3>3, <3>4
  <2> QED BY <2>1, <2>2
<1>16. ASSUME NEW k \in DOMAIN t.entries
       PROVE  /\ t.entries[k].last_seen <= [used EXCEPT ![key] = time][k]
              /\ [used EXCEPT ![key] = time][k] <= t.entries[k].last_seen + MaxDelay
  <2>1. CASE k = key
    BY <1>8, <1>14, <2>1, RoutingAssumption
  <2>2. CASE k # key
    BY <1>2, <1>5, <1>6, <1>14, <2>2 DEF Linked
  <2> QED BY <2>1, <2>2
<1>17. Linked(t, Used(rec, key), [used EXCEPT ![key] = time])
  BY <1>4, <1>9, <1>15, <1>16 DEF Linked
<1>18. ASSUME NEW k \in DOMAIN s.entries, k \notin DOMAIN t.entries
       PROVE  TimedOut(used, time, k) \/ Cardinality(Used(rec, key)[k]) >= MaxConversations
  <2>1. CASE k \notin K
    BY <1>2, <1>5, <2>1
  <2>2. CASE k \in K
    <3>1. k \in gone
      BY <1>14, <1>18, <2>2
    <3>2. Cardinality(K) = MaxConversations /\ IsFiniteSet(K)
      BY <1>6, <1>15, <3>1, DistinctCount DEF Queue
    <3>3. key \notin K /\ (\A j \in K \ {k} : j \in rec[k]) /\ IsFiniteSet(rec[k])
      BY <1>6, <1>15, <2>2, <3>1
    <3>4. K \in SUBSET Keys
      BY <1>6
    <3> QED BY <2>2, <3>2, <3>3, <3>4, ManyUsed
  <2> QED BY <2>1, <2>2
<1>19. \A k \in DOMAIN t.entries : k # key => k \in DOMAIN s.entries /\ t.entries[k] = s.entries[k]
  BY <1>2, <1>5, <1>14
<1> QED BY <1>3, <1>8, <1>14, <1>17, <1>18, <1>19

-----------------------------------------------------------------------------
(* What a call does to the map: it looks conversations up, or it binds one. *)

LEMMA LinkedFrame ==
  ASSUME NEW s, NEW rec, NEW used, Linked(s, rec, used), NEW t, Shaped(t), SameMap(s, t)
  PROVE  Linked(t, rec, used)
BY DEF Linked, SameMap

History(rec, used) ==
    /\ rec \in [Keys -> SUBSET Keys]
    /\ \A k \in Keys : IsFiniteSet(rec[k])
    /\ used \in [Keys -> Nat]

LEMMA HistoryOfUse ==
  ASSUME NEW rec, NEW used, History(rec, used), NEW key \in Keys, NEW time \in Nat
  PROVE  /\ History(Used(rec, key), [used EXCEPT ![key] = time])
         /\ Used(Used(rec, key), key) = Used(rec, key)
         /\ [[used EXCEPT ![key] = time] EXCEPT ![key] = time] = [used EXCEPT ![key] = time]
<1>1. \A k \in Keys : IsFiniteSet(Used(rec, key)[k])
  <2> SUFFICES ASSUME NEW k \in Keys PROVE IsFiniteSet(Used(rec, key)[k])
    OBVIOUS
  <2>1. CASE k = key
    BY <2>1, FS_EmptySet DEF Used
  <2>2. CASE k # key
    <3>1. IsFiniteSet(rec[k] \cup {key})
      BY FS_AddElement DEF History
    <3> QED BY <2>2, <3>1 DEF Used
  <2> QED BY <2>1, <2>2
<1>2. Used(rec, key) \in [Keys -> SUBSET Keys]
  BY DEF Used, History
<1>3. [used EXCEPT ![key] = time] \in [Keys -> Nat]
  BY DEF History
<1>4. Used(Used(rec, key), key) = Used(rec, key)
  BY DEF Used
<1>5. [[used EXCEPT ![key] = time] EXCEPT ![key] = time] = [used EXCEPT ![key] = time]
  BY DEF History
<1> QED BY <1>1, <1>2, <1>3, <1>4, <1>5 DEF History

(* t remembers conversations of s, none beyond its lease, and forgot only   *)
(* those that timed out.                                                    *)
LookedUp(s, t, used, time) ==
    /\ \A k \in DOMAIN t.entries :
           /\ k \in DOMAIN s.entries /\ SameTarget(s.entries[k], t.entries[k])
           /\ time - used[k] < ConversationTtl + MaxDelay
    /\ \A k \in DOMAIN s.entries : k \notin DOMAIN t.entries => TimedOut(used, time, k)

(* t binds key to cand and otherwise remembers conversations of s; it       *)
(* forgot those that timed out or that too many others were used after.     *)
Rebound(s, t, rec, used, time, key, cand) ==
    /\ key \in DOMAIN t.entries /\ SameTarget(cand, t.entries[key])
    /\ \A k \in DOMAIN t.entries : k # key =>
           k \in DOMAIN s.entries /\ SameTarget(s.entries[k], t.entries[k])
    /\ \A k \in DOMAIN s.entries : k \notin DOMAIN t.entries =>
           \/ TimedOut(used, time, k)
           \/ Cardinality(Used(rec, key)[k]) >= MaxConversations

LEMMA ReboundAfterLookup ==
  ASSUME NEW s, NEW rec, NEW used, Linked(s, rec, used), History(rec, used), NEW key \in Keys,
         NEW now \in Nat, NEW time \in Nat, now <= time, time - now <= MaxDelay,
         NEW cand \in Candidate, NEW m, Shaped(m), SameMap(get_fresh(s, key, now), m)
  PROVE  /\ Linked(insert(m, key, cand, now), Used(rec, key), [used EXCEPT ![key] = time])
         /\ Rebound(s, insert(m, key, cand, now), rec, used, time, key, cand)
<1>1. PICK g : g = get_fresh(s, key, now)
  OBVIOUS
<1>2. used \in [Keys -> Nat] /\ \A k \in Keys : IsFiniteSet(rec[k])
  BY DEF History
<1>3. /\ IF key \in DOMAIN g.entries
         THEN Linked(g, Used(rec, key), [used EXCEPT ![key] = time])
         ELSE Linked(g, rec, used)
      /\ LookedUp(s, g, used, time)
  BY <1>1, <1>2, FreshLinked DEF LookedUp
<1>4. PICK rec1, used1 :
          IF key \in DOMAIN g.entries
          THEN rec1 = Used(rec, key) /\ used1 = [used EXCEPT ![key] = time]
          ELSE rec1 = rec /\ used1 = used
  OBVIOUS
<1>5. Linked(m, rec1, used1)
  BY <1>1, <1>3, <1>4, LinkedFrame
<1>6. /\ History(rec1, used1)
      /\ Used(rec1, key) = Used(rec, key)
      /\ [used1 EXCEPT ![key] = time] = [used EXCEPT ![key] = time]
      /\ \A k \in Keys : k # key => used1[k] = used[k]
  <2>1. CASE key \in DOMAIN g.entries
    <3>1. rec1 = Used(rec, key) /\ used1 = [used EXCEPT ![key] = time]
      BY <1>4, <2>1
    <3>2. \A k \in Keys : k # key => used1[k] = used[k]
      BY <1>2, <3>1
    <3> QED BY <3>1, <3>2, HistoryOfUse
  <2>2. CASE key \notin DOMAIN g.entries
    BY <1>4, <2>2
  <2> QED BY <2>1, <2>2
<1>7. used1 \in [Keys -> Nat] /\ \A k \in Keys : IsFiniteSet(rec1[k])
  BY <1>6 DEF History
<1>8. PICK t : t = insert(m, key, cand, now)
  OBVIOUS
<1>9. /\ Linked(t, Used(rec1, key), [used1 EXCEPT ![key] = time])
      /\ key \in DOMAIN t.entries /\ SameTarget(cand, t.entries[key])
      /\ \A k \in DOMAIN t.entries : k # key =>
             k \in DOMAIN m.entries /\ t.entries[k] = m.entries[k]
      /\ \A k \in DOMAIN m.entries : k \notin DOMAIN t.entries =>
             \/ TimedOut(used1, time, k)
             \/ Cardinality(Used(rec1, key)[k]) >= MaxConversations
  <2>1. LET n == insert(m, key, cand, now)
        IN  /\ Linked(n, Used(rec1, key), [used1 EXCEPT ![key] = time])
            /\ key \in DOMAIN n.entries /\ SameTarget(cand, n.entries[key])
            /\ \A k \in DOMAIN n.entries : k # key =>
                   k \in DOMAIN m.entries /\ n.entries[k] = m.entries[k]
            /\ \A k \in DOMAIN m.entries : k \notin DOMAIN n.entries =>
                   \/ TimedOut(used1, time, k)
                   \/ Cardinality(Used(rec1, key)[k]) >= MaxConversations
    BY <1>5, <1>7, InsertLinked, Zenon
  <2> QED BY <1>8, <2>1
<1>10. m.entries = g.entries /\ DOMAIN m.entries = DOMAIN g.entries
  BY <1>1 DEF SameMap
<1>11. DOMAIN s.entries \subseteq Keys
  BY LinkedKeys
<1>12. ASSUME NEW k \in DOMAIN t.entries, k # key
       PROVE  k \in DOMAIN s.entries /\ SameTarget(s.entries[k], t.entries[k])
  BY <1>3, <1>9, <1>10, <1>12 DEF LookedUp
<1>13. ASSUME NEW k \in DOMAIN s.entries, k \notin DOMAIN t.entries
       PROVE  TimedOut(used, time, k) \/ Cardinality(Used(rec, key)[k]) >= MaxConversations
  <2>1. CASE k \notin DOMAIN g.entries
    BY <1>3, <2>1 DEF LookedUp
  <2>2. CASE k \in DOMAIN g.entries
    <3>1. k # key /\ k \in Keys /\ used1[k] = used[k]
      BY <1>6, <1>9, <1>11, <1>13
    <3> QED BY <1>6, <1>9, <1>10, <1>13, <2>2, <3>1 DEF TimedOut
  <2> QED BY <2>1, <2>2
<1> QED BY <1>6, <1>8, <1>9, <1>12, <1>13 DEF Rebound

Stays(s, r, rec, used, time, cands, key, excluded) ==
    /\ Linked(r.state, Used(rec, key), [used EXCEPT ![key] = time])
    /\ LookedUp(s, r.state, used, time)
    /\ key \in DOMAIN r.state.entries
    /\ r.index \in Selectable(cands, excluded)
    /\ SameTarget(r.state.entries[key], cands[r.index])

Goes(s, r, rec, used, time, cands, key, excluded) ==
    /\ Linked(r.state, Used(rec, key), [used EXCEPT ![key] = time])
    /\ Rebound(s, r.state, rec, used, time, key, cands[r.index])
    /\ r.index \in Selectable(cands, excluded)
    /\ \A i \in Selectable(cands, excluded) :
           key \in DOMAIN s.entries /\ SameTarget(s.entries[key], cands[i])
           => TimedOut(used, time, key)

Fails(s, r, rec, used, time, key) ==
    /\ r.index = 0
    /\ LookedUp(s, r.state, used, time)
    /\ IF key \in DOMAIN r.state.entries
       THEN Linked(r.state, Used(rec, key), [used EXCEPT ![key] = time])
       ELSE Linked(r.state, rec, used)

LEMMA SelectOutcome ==
  ASSUME NEW s, NEW rec, NEW used, Linked(s, rec, used), History(rec, used),
         NEW key \in Keys, NEW now \in Nat, NEW time \in Nat, now <= time,
         time - now <= MaxDelay, NEW cands \in Seq(Candidate), NEW policy \in Policies,
         NEW excluded, ~HasDuplicate(cands)
  PROVE  LET r == select_at(s, cands, policy, key, excluded, now)
         IN  /\ r.error = FALSE
             /\ \/ Stays(s, r, rec, used, time, cands, key, excluded)
                \/ Goes(s, r, rec, used, time, cands, key, excluded)
                \/ Fails(s, r, rec, used, time, key)
<1>1. PICK g : g = get_fresh(s, key, now)
  OBVIOUS
<1>2. /\ IF key \in DOMAIN g.entries
         THEN Linked(g, Used(rec, key), [used EXCEPT ![key] = time])
         ELSE Linked(g, rec, used)
      /\ LookedUp(s, g, used, time)
  BY <1>1, FreshLinked DEF LookedUp, History
<1>3. Shaped(g)
  BY <1>2 DEF Linked
<1>4. key # None
  BY SelectorAssumption
<1>5. PICK p : p = by_policy(g, cands, policy, excluded)
  OBVIOUS
<1>6. Shaped(p.state) /\ SameMap(g, p.state)
  BY <1>3, <1>5, PolicyMoves
<1>7. PICK b : b = IF key \in DOMAIN g.entries
                   THEN find_available_index(cands, g.entries[key].account,
                                             g.entries[key].target, excluded)
                   ELSE 0
  OBVIOUS
<1>8. PICK r : r = select_at(s, cands, policy, key, excluded, now)
  OBVIOUS
<1>9. r = IF b # 0 THEN [state |-> g, index |-> b, error |-> FALSE]
          ELSE IF p.index # 0
          THEN [state |-> insert(p.state, key, cands[p.index], now),
                index |-> p.index, error |-> FALSE]
          ELSE [state |-> p.state, index |-> p.index, error |-> FALSE]
  BY <1>1, <1>4, <1>5, <1>7, <1>8 DEF select_at
<1>10. PICK S : S = {i \in Selectable(cands, excluded) :
                         /\ cands[i].account = g.entries[key].account
                         /\ cands[i].target = g.entries[key].target}
  OBVIOUS
<1>11. S \in SUBSET (Nat \ {0}) /\ S \in SUBSET Nat
  BY <1>10, SelectableAreFromOne
<1>12. key \in DOMAIN g.entries => b = First(S)
  BY <1>7, <1>10 DEF find_available_index
<1>13. CASE b # 0
  <2>1. r.state = g /\ r.index = b /\ r.error = FALSE
    BY <1>9, <1>13
  <2>2. key \in DOMAIN g.entries
    BY <1>7, <1>13
  <2>3. b \in S
    BY <1>11, <1>12, <1>13, <2>2, FirstOrNone
  <2>4. b \in Selectable(cands, excluded) /\ SameTarget(g.entries[key], cands[b])
    BY <1>10, <2>3 DEF SameTarget
  <2> QED BY <1>2, <1>8, <2>1, <2>2, <2>4 DEF Stays
<1>14. CASE b = 0 /\ p.index # 0
  <2>1. PICK c, i : i = p.index /\ c = cands[i]
    OBVIOUS
  <2>2. r.state = insert(p.state, key, c, now) /\ r.index = i /\ r.error = FALSE
    BY <1>9, <1>14, <2>1
  <2>3. i \in Selectable(cands, excluded)
    BY <1>5, <1>14, <2>1, PolicySelects
  <2>4. c \in Candidate
    BY <2>1, <2>3 DEF Selectable
  <2>5. /\ Linked(r.state, Used(rec, key), [used EXCEPT ![key] = time])
        /\ Rebound(s, r.state, rec, used, time, key, c)
    BY <1>1, <1>6, <2>2, <2>4, ReboundAfterLookup
  <2>6. ASSUME NEW j \in Selectable(cands, excluded),
               key \in DOMAIN s.entries, SameTarget(s.entries[key], cands[j])
        PROVE  TimedOut(used, time, key)
    <3>1. CASE key \notin DOMAIN g.entries
      BY <1>2, <2>6, <3>1 DEF LookedUp
    <3>2. CASE key \in DOMAIN g.entries
      <4>1. SameTarget(s.entries[key], g.entries[key])
        BY <1>2, <3>2 DEF LookedUp
      <4>2. j \in S
        BY <1>10, <2>6, <4>1 DEF SameTarget
      <4> QED BY <1>11, <1>12, <1>14, <3>2, <4>2, FirstOfSome
    <3> QED BY <3>1, <3>2
  <2> QED BY <1>8, <2>1, <2>2, <2>3, <2>5, <2>6 DEF Goes
<1>15. CASE b = 0 /\ p.index = 0
  <2>1. r.state = p.state /\ r.index = 0 /\ r.error = FALSE
    BY <1>9, <1>15
  <2>2. p.state.entries = g.entries
    BY <1>6 DEF SameMap
  <2>3. IF key \in DOMAIN r.state.entries
        THEN Linked(r.state, Used(rec, key), [used EXCEPT ![key] = time])
        ELSE Linked(r.state, rec, used)
    <3>1. CASE key \in DOMAIN g.entries
      BY <1>2, <1>6, <2>1, <2>2, <3>1, LinkedFrame
    <3>2. CASE key \notin DOMAIN g.entries
      BY <1>2, <1>6, <2>1, <2>2, <3>2, LinkedFrame
    <3> QED BY <3>1, <3>2
  <2>4. LookedUp(s, r.state, used, time)
    BY <1>2, <2>1, <2>2 DEF LookedUp
  <2> QED BY <1>8, <2>1, <2>3, <2>4 DEF Fails
<1> QED BY <1>13, <1>14, <1>15

-----------------------------------------------------------------------------
(* The invariant that ties map, queue and timestamps to the history, and    *)
(* the abstract lease.                                                      *)

LeaseInv ==
    /\ Linked(sel, newer, usedAt)
    /\ History(newer, usedAt)
    /\ clock \in Nat

(* What a state promises to each conversation: the refinement mapping.      *)
BoundOf(s) == [k \in Keys |-> IF k \in DOMAIN s.entries THEN BindingOf(s.entries[k]) ELSE None]

Forgotten(s, t) == {k \in Keys : k \in DOMAIN s.entries /\ k \notin DOMAIN t.entries}

LEMMA BindingFacts ==
  /\ \A b, c : SameTarget(b, c) => BindingOf(b) = BindingOf(c)
  /\ \A b \in ConversationBinding : BindingOf(b) \in Bindings
  /\ \A c \in Candidate : BindingOf(c) \in Bindings
  /\ None \notin Bindings
<1>1. \A b, c : SameTarget(b, c) => BindingOf(b) = BindingOf(c)
  BY DEF SameTarget, BindingOf
<1>2. \A b \in ConversationBinding : BindingOf(b) \in Bindings
  BY DEF ConversationBinding, BindingOf, Bindings
<1>3. \A c \in Candidate : BindingOf(c) \in Bindings
  BY DEF Candidate, BindingOf, Bindings
<1>4. None \notin Bindings
  BY RoutingAssumption DEF Bindings
<1> QED BY <1>1, <1>2, <1>3, <1>4

LEMMA BoundFacts ==
  ASSUME NEW s, Shaped(s), NEW k \in Keys
  PROVE  /\ k \in DOMAIN s.entries => /\ BoundOf(s)[k] = BindingOf(s.entries[k])
                                      /\ BoundOf(s)[k] \in Bindings /\ BoundOf(s)[k] # None
         /\ k \notin DOMAIN s.entries => BoundOf(s)[k] = None
<1>1. CASE k \in DOMAIN s.entries
  <2>1. s.entries[k] \in ConversationBinding
    BY <1>1 DEF Shaped
  <2>2. PICK b : b = BindingOf(s.entries[k])
    OBVIOUS
  <2>3. b \in Bindings /\ b # None
    BY <2>1, <2>2, BindingFacts
  <2>4. BoundOf(s)[k] = b
    BY <1>1, <2>2 DEF BoundOf
  <2> QED BY <1>1, <2>2, <2>3, <2>4
<1>2. CASE k \notin DOMAIN s.entries
  BY <1>2 DEF BoundOf
<1> QED BY <1>1, <1>2

LEMMA BoundAfterLookup ==
  ASSUME NEW s, Shaped(s), NEW t, NEW used, NEW time, LookedUp(s, t, used, time)
  PROVE  /\ BoundOf(t) = [j \in Keys |-> IF j \in Forgotten(s, t) THEN None ELSE BoundOf(s)[j]]
         /\ \A j \in Forgotten(s, t) : BoundOf(s)[j] # None /\ TimedOut(used, time, j)
<1>1. ASSUME NEW j \in Keys
      PROVE  BoundOf(t)[j] = IF j \in Forgotten(s, t) THEN None ELSE BoundOf(s)[j]
  <2>1. CASE j \in DOMAIN t.entries
    <3>1. j \in DOMAIN s.entries /\ SameTarget(s.entries[j], t.entries[j])
      BY <2>1 DEF LookedUp
    <3>2. BindingOf(t.entries[j]) = BindingOf(s.entries[j])
      BY <3>1, BindingFacts
    <3> QED BY <2>1, <3>1, <3>2 DEF BoundOf, Forgotten
  <2>2. CASE j \notin DOMAIN t.entries
    BY <2>2 DEF BoundOf, Forgotten
  <2> QED BY <2>1, <2>2
<1>2. BoundOf(t) = [j \in Keys |-> BoundOf(t)[j]]
  BY DEF BoundOf
<1>3. ASSUME NEW j \in Forgotten(s, t) PROVE BoundOf(s)[j] # None /\ TimedOut(used, time, j)
  BY BoundFacts DEF Forgotten, LookedUp
<1> QED BY <1>1, <1>2, <1>3

LEMMA StayStep ==
  ASSUME LeaseInv, NEW key \in Keys, NEW offers \in SUBSET Bindings,
         LookedUp(sel, sel', usedAt, clock), key \in DOMAIN sel'.entries,
         BindingOf(sel'.entries[key]) \in offers, call' = Call("select", key, offers),
         answer' = BindingOf(sel'.entries[key]),
         newer' = Used(newer, key), usedAt' = [usedAt EXCEPT ![key] = clock], clock' = clock
  PROVE  Lease!Stay(key, offers)
<1> DEFINE gone == Forgotten(sel, sel')
<1>1. Shaped(sel)
  BY DEF LeaseInv, Linked
<1>2. /\ BoundOf(sel') = [j \in Keys |-> IF j \in gone THEN None ELSE BoundOf(sel)[j]]
      /\ \A j \in gone : BoundOf(sel)[j] # None /\ TimedOut(usedAt, clock, j)
  BY <1>1, BoundAfterLookup
<1>3. gone \in SUBSET (Keys \ {key})
  BY DEF Forgotten
<1> HIDE DEF gone
<1>4. key \in DOMAIN sel.entries /\ clock - usedAt[key] < ConversationTtl + MaxDelay
      /\ SameTarget(sel.entries[key], sel'.entries[key])
  BY DEF LookedUp
<1>5. BoundOf(sel)[key] = answer'
  BY <1>1, <1>4, BoundFacts, BindingFacts
<1>6. Lease!Forgetting(key, newer, gone)
  <2> SUFFICES ASSUME NEW j \in gone
               PROVE  BoundOf(sel)[j] # None /\ clock - usedAt[j] + MaxDelay >= ConversationTtl
    BY DEF Lease!Forgetting, Lease!Forgettable, Lease!Idle, BoundOf
  <2> QED BY <1>2 DEF TimedOut
<1>7. Lease!Keeping(gone) = BoundOf(sel')
  BY <1>2 DEF Lease!Keeping, BoundOf
<1>8. newer' = Lease!Used(key)
  BY DEF Lease!Used, Used
<1> QED BY <1>3, <1>4, <1>5, <1>6, <1>7, <1>8 DEF Lease!Stay, Lease!Call, Call, BoundOf

LEMMA BindingTells ==
  ASSUME NEW b, NEW c, BindingOf(b) = BindingOf(c) PROVE SameTarget(b, c)
<1>1. PICK x, y : x = b.account /\ y = b.target
  OBVIOUS
<1>2. PICK v, w : v = c.account /\ w = c.target
  OBVIOUS
<1>3. [account |-> x, target |-> y] = [account |-> v, target |-> w]
  BY <1>1, <1>2 DEF BindingOf
<1>4. x = v /\ y = w
  BY <1>3
<1> QED BY <1>1, <1>2, <1>4 DEF SameTarget

LEMMA BoundAfterBinding ==
  ASSUME NEW s, Shaped(s), NEW t, NEW rec, NEW used, NEW time, NEW key \in Keys, NEW cand,
         Rebound(s, t, rec, used, time, key, cand)
  PROVE  /\ BoundOf(t) = [[j \in Keys |-> IF j \in Forgotten(s, t) THEN None ELSE BoundOf(s)[j]]
                             EXCEPT ![key] = BindingOf(cand)]
         /\ \A j \in Forgotten(s, t) :
                /\ BoundOf(s)[j] # None
                /\ \/ TimedOut(used, time, j)
                   \/ Cardinality(Used(rec, key)[j]) >= MaxConversations
<1>1. ASSUME NEW j \in Keys
      PROVE  BoundOf(t)[j] = IF j = key THEN BindingOf(cand)
                             ELSE IF j \in Forgotten(s, t) THEN None ELSE BoundOf(s)[j]
  <2>1. CASE j = key
    <3>1. j \in DOMAIN t.entries /\ BindingOf(t.entries[j]) = BindingOf(cand)
      BY <2>1, BindingFacts DEF Rebound
    <3> QED BY <2>1, <3>1 DEF BoundOf
  <2>2. CASE j # key /\ j \in DOMAIN t.entries
    <3>1. j \in DOMAIN s.entries /\ SameTarget(s.entries[j], t.entries[j])
      BY <2>2 DEF Rebound
    <3>2. BindingOf(t.entries[j]) = BindingOf(s.entries[j])
      BY <3>1, BindingFacts
    <3> QED BY <2>2, <3>1, <3>2 DEF BoundOf, Forgotten
  <2>3. CASE j # key /\ j \notin DOMAIN t.entries
    BY <2>3 DEF BoundOf, Forgotten
  <2> QED BY <2>1, <2>2, <2>3
<1>2. BoundOf(t) = [j \in Keys |-> BoundOf(t)[j]]
  BY DEF BoundOf
<1>3. ASSUME NEW j \in Forgotten(s, t)
      PROVE  /\ BoundOf(s)[j] # None
             /\ \/ TimedOut(used, time, j)
                \/ Cardinality(Used(rec, key)[j]) >= MaxConversations
  BY BoundFacts DEF Forgotten, Rebound
<1> QED BY <1>1, <1>2, <1>3

(* The instance brings its own copy of Cardinality.                         *)
LEMMA LeaseCounts ==
  ASSUME NEW S PROVE Lease!Cardinality(S) = Cardinality(S)
BY DEF Cardinality, Lease!Cardinality

LEMMA MoveStep ==
  ASSUME LeaseInv, NEW key \in Keys, NEW offers \in SUBSET Bindings, NEW cand,
         BindingOf(cand) \in offers, Rebound(sel, sel', newer, usedAt, clock, key, cand),
         BoundOf(sel)[key] \in offers => TimedOut(usedAt, clock, key),
         call' = Call("select", key, offers), answer' = BindingOf(cand),
         newer' = Used(newer, key), usedAt' = [usedAt EXCEPT ![key] = clock], clock' = clock
  PROVE  Lease!Move(key, offers)
<1> DEFINE gone == Forgotten(sel, sel')
<1>1. Shaped(sel)
  BY DEF LeaseInv, Linked
<1>2. /\ BoundOf(sel') = [[j \in Keys |-> IF j \in gone THEN None ELSE BoundOf(sel)[j]]
                             EXCEPT ![key] = BindingOf(cand)]
      /\ \A j \in gone : /\ BoundOf(sel)[j] # None
                         /\ \/ TimedOut(usedAt, clock, j)
                            \/ Cardinality(Used(newer, key)[j]) >= MaxConversations
  BY <1>1, BoundAfterBinding
<1>3. gone \in SUBSET (Keys \ {key})
  BY DEF Forgotten, Rebound
<1> HIDE DEF gone
<1>4. Lease!Used(key) = Used(newer, key)
  BY DEF Lease!Used, Used
<1>5. Lease!Forgetting(key, Lease!Used(key), gone)
  <2> SUFFICES ASSUME NEW j \in gone
               PROVE  /\ BoundOf(sel)[j] # None
                      /\ \/ clock - usedAt[j] + MaxDelay >= ConversationTtl
                         \/ Cardinality(Used(newer, key)[j]) >= MaxConversations
    <3>1. PICK use : use = Used(newer, key)
      OBVIOUS
    <3>2. ASSUME \A j \in gone : /\ BoundOf(sel)[j] # None
                                 /\ \/ clock - usedAt[j] + MaxDelay >= ConversationTtl
                                    \/ Cardinality(use[j]) >= MaxConversations
          PROVE  Lease!Forgetting(key, use, gone)
      BY <3>2, LeaseCounts DEF Lease!Forgetting, Lease!Forgettable, Lease!Idle, BoundOf
    <3> QED BY <1>4, <3>1, <3>2
  <2> QED BY <1>2 DEF TimedOut
<1>6. BoundOf(sel') = [Lease!Keeping(gone) EXCEPT ![key] = BindingOf(cand)]
  BY <1>2 DEF Lease!Keeping, BoundOf
<1>7. BoundOf(sel)[key] \in offers => Lease!Idle(key)
  BY DEF TimedOut, Lease!Idle
<1> QED BY <1>3, <1>4, <1>5, <1>6, <1>7 DEF Lease!Move, Lease!Call, Call, BoundOf

LEMMA LookStep ==
  ASSUME LeaseInv, NEW key \in Keys, LookedUp(sel, sel', usedAt, clock), clock' = clock,
         IF key \in DOMAIN sel'.entries
         THEN newer' = Used(newer, key) /\ usedAt' = [usedAt EXCEPT ![key] = clock]
         ELSE UNCHANGED <<newer, usedAt>>
  PROVE  Lease!Look(key)
<1> DEFINE gone == Forgotten(sel, sel')
<1>1. Shaped(sel)
  BY DEF LeaseInv, Linked
<1>2. /\ BoundOf(sel') = [j \in Keys |-> IF j \in gone THEN None ELSE BoundOf(sel)[j]]
      /\ \A j \in gone : BoundOf(sel)[j] # None /\ TimedOut(usedAt, clock, j)
  BY <1>1, BoundAfterLookup
<1>3. gone \in SUBSET Keys
  BY DEF Forgotten
<1>4. BoundOf(sel)[key] # None /\ key \notin gone <=> key \in DOMAIN sel'.entries
  BY <1>1, BoundFacts DEF Forgotten, LookedUp
<1> HIDE DEF gone
<1>5. Lease!Forgetting(key, newer, gone)
  <2> SUFFICES ASSUME NEW j \in gone
               PROVE  BoundOf(sel)[j] # None /\ clock - usedAt[j] + MaxDelay >= ConversationTtl
    BY DEF Lease!Forgetting, Lease!Forgettable, Lease!Idle, BoundOf
  <2> QED BY <1>2 DEF TimedOut
<1>6. Lease!Keeping(gone) = BoundOf(sel')
  BY <1>2 DEF Lease!Keeping, BoundOf
<1>7. Lease!Used(key) = Used(newer, key)
  BY DEF Lease!Used, Used
<1>8. IF BoundOf(sel)[key] # None /\ key \notin gone
      THEN newer' = Lease!Used(key) /\ usedAt' = [usedAt EXCEPT ![key] = clock]
      ELSE UNCHANGED <<newer, usedAt>>
  BY <1>4, <1>7
<1> QED BY <1>3, <1>5, <1>6, <1>8 DEF Lease!Look, BoundOf

(* A lookup and what the history notes of it keep the invariant.            *)
LEMMA NoteKeeps ==
  ASSUME LeaseInv, NEW key \in Keys, clock' = clock,
         IF key \in DOMAIN sel'.entries
         THEN /\ Linked(sel', Used(newer, key), [usedAt EXCEPT ![key] = clock])
              /\ newer' = Used(newer, key) /\ usedAt' = [usedAt EXCEPT ![key] = clock]
         ELSE Linked(sel', newer, usedAt) /\ UNCHANGED <<newer, usedAt>>
  PROVE  LeaseInv'
<1>1. History(newer, usedAt) /\ clock \in Nat
  BY DEF LeaseInv
<1>2. CASE key \in DOMAIN sel'.entries
  <2>1. History(Used(newer, key), [usedAt EXCEPT ![key] = clock])
    BY <1>1, HistoryOfUse
  <2>2. Linked(sel', newer', usedAt') /\ History(newer', usedAt')
    BY <1>2, <2>1
  <2> QED BY <1>1, <2>2 DEF LeaseInv, Linked, History
<1>3. CASE key \notin DOMAIN sel'.entries
  <2>1. Linked(sel', newer', usedAt') /\ History(newer', usedAt')
    BY <1>1, <1>3
  <2> QED BY <1>1, <2>1 DEF LeaseInv, Linked, History
<1> QED BY <1>2, <1>3

LEMMA DefaultIsLinked ==
  ASSUME NEW rec, NEW used
  PROVE  Linked(Default, rec, used) /\ DOMAIN Default.entries = {}
<1>1. PICK e : e = << >> /\ e = Default.entries /\ e = Default.order
  BY DEF Default
<1>2. DOMAIN e = {} /\ e \in Seq(Keys) /\ Len(e) = 0
  BY <1>1
<1>3. Queue(e, DOMAIN e) /\ Recent(e, rec)
  BY <1>2, SelectorAssumption DEF Queue, Recent, Distinct, Range
<1> QED BY <1>1, <1>2, <1>3, DefaultIsShaped DEF Linked

LEMMA LeaseInitially == Init => LeaseInv /\ Lease!Init
<1> SUFFICES ASSUME Init PROVE LeaseInv /\ Lease!Init
  OBVIOUS
<1>1. sel = Default
  BY DEF Init
<1>2. PICK rec, used : rec = newer /\ used = usedAt
  OBVIOUS
<1>3. Linked(Default, rec, used) /\ DOMAIN Default.entries = {}
  BY DefaultIsLinked
<1>4. History(newer, usedAt)
  BY FS_EmptySet DEF Init, History
<1>5. Lease!Init
  BY <1>1, <1>3 DEF Init, Lease!Init, Lease!Call, Call
<1> QED BY <1>1, <1>2, <1>3, <1>4, <1>5 DEF Init, LeaseInv

LEMMA OffersAreBindings ==
  ASSUME NEW cands \in Seq(Candidate), NEW excluded
  PROVE  Offers(cands, excluded) \in SUBSET Bindings
<1>1. \A i \in Selectable(cands, excluded) : cands[i] \in Candidate
  BY DEF Selectable
<1> QED BY <1>1, BindingFacts DEF Offers

(* An answer is one of the offers, and there is one unless nothing can serve. *)
LEMMA AnswerIsOffered ==
  ASSUME NEW s, NEW cands \in Seq(Candidate), NEW policy \in Policies, NEW key,
         NEW excluded, NEW now, ~HasDuplicate(cands), NEW i,
         i = select_at(s, cands, policy, key, excluded, now).index, NEW b,
         b = IF i = 0 THEN None ELSE BindingOf(cands[i])
  PROVE  Lease!Answers(Offers(cands, excluded), b)
<1>1. CASE i = 0
  <2>1. Offers(cands, excluded) = {}
    BY <1>1, SelectAtCovers DEF Offers
  <2> QED BY <1>1, <2>1 DEF Lease!Answers
<1>2. CASE i # 0
  <2>1. i \in Selectable(cands, excluded)
    BY <1>2, SelectAtSelects
  <2>2. b \in Offers(cands, excluded)
    BY <1>2, <2>1 DEF Offers
  <2> QED BY <2>2 DEF Lease!Answers
<1> QED BY <1>1, <1>2

LEMMA SelectRefines ==
  ASSUME LeaseInv, NEW cands \in CandidateLists, NEW policy \in UsedPolicies,
         NEW key \in Keys \cup {None}, NEW excluded \in Excludes, NEW now \in Samples,
         Select(cands, policy, key, excluded, now)
  PROVE  LeaseInv' /\ Lease!Next
<1>1. /\ cands \in Seq(Candidate) /\ policy \in Policies /\ now \in Nat /\ clock \in Nat
      /\ now <= clock /\ clock - now <= MaxDelay
  BY RoutingAssumption DEF LeaseInv, Samples
<1>2. Linked(sel, newer, usedAt) /\ History(newer, usedAt) /\ Shaped(sel)
  BY DEF LeaseInv, Linked
<1>3. PICK r : r = select_at(sel, cands, policy, key, excluded, now)
  OBVIOUS
<1>4. /\ sel' = r.state
      /\ answer' = IF r.index = 0 THEN None ELSE BindingOf(cands[r.index])
      /\ IF r.error THEN UNCHANGED <<newer, usedAt>> ELSE Note(key, r.state)
      /\ clock' = clock
  BY <1>3 DEF Select
<1> DEFINE offers == Offers(cands, excluded)
<1>5. r.index # 0 => r.index \in Selectable(cands, excluded) /\ cands[r.index] \in Candidate
  BY <1>1, <1>3, SelectAtSelects DEF Selectable
<1>6. /\ offers \in SUBSET Bindings
      /\ call' = Call(IF HasDuplicate(cands) THEN "duplicate" ELSE "select", key, offers)
  BY <1>1, <1>4, OffersAreBindings DEF Select, CallOf
<1>7. CASE HasDuplicate(cands) \/ key = None
  <2>1. UNCHANGED <<newer, usedAt>> /\ SameMap(sel, sel') /\ Shaped(sel')
    <3>1. CASE HasDuplicate(cands)
      <4>1. r.state = sel /\ r.error = TRUE
        BY <1>3, <3>1 DEF select_at
      <4> QED BY <1>2, <1>4, <4>1 DEF SameMap
    <3>2. CASE ~HasDuplicate(cands) /\ key = None
      <4>1. r.state = by_policy(sel, cands, policy, excluded).state /\ r.error = FALSE
        BY <1>3, <3>2 DEF select_at, find_available_index
      <4>2. SameMap(sel, r.state) /\ Shaped(r.state)
        BY <1>1, <1>2, <4>1, PolicyMoves
      <4> QED BY <1>4, <3>2, <4>1, <4>2 DEF Note
    <3> QED BY <1>7, <3>1, <3>2
  <2>2. Linked(sel', newer, usedAt)
    BY <1>2, <2>1, LinkedFrame
  <2>3. LeaseInv'
    BY <1>1, <1>2, <1>4, <2>1, <2>2 DEF LeaseInv, Linked, History
  <2>4. CASE HasDuplicate(cands)
    <3>1. r.index = 0
      BY <1>3, <2>4 DEF select_at
    <3>2. Lease!Refuse(key, offers)
      BY <1>4, <1>6, <2>1, <2>4, <3>1 DEF Lease!Refuse, Lease!Call, Call, SameMap
    <3> QED BY <1>6, <2>3, <3>2 DEF Lease!Next
  <2>5. CASE ~HasDuplicate(cands) /\ key = None
    <3>1. Lease!Answers(offers, answer')
      BY <1>1, <1>3, <1>4, <2>5, AnswerIsOffered
    <3>2. Lease!Anonymous(offers)
      BY <1>4, <1>6, <2>1, <2>5, <3>1 DEF Lease!Anonymous, Lease!Call, Call, SameMap
    <3> QED BY <1>6, <2>3, <3>2 DEF Lease!Next
  <2> QED BY <1>7, <2>4, <2>5
<1>8. CASE ~HasDuplicate(cands) /\ key # None
  <2>1. key \in Keys
    BY <1>8
  <2>2. offers \in SUBSET Bindings /\ call' = Call("select", key, offers)
    BY <1>6, <1>8
  <2>3. /\ r.error = FALSE
        /\ \/ Stays(sel, r, newer, usedAt, clock, cands, key, excluded)
           \/ Goes(sel, r, newer, usedAt, clock, cands, key, excluded)
           \/ Fails(sel, r, newer, usedAt, clock, key)
    BY <1>1, <1>2, <1>3, <1>8, <2>1, SelectOutcome, ZenonT(40)
  <2>4. IF key \in DOMAIN sel'.entries
        THEN newer' = Used(newer, key) /\ usedAt' = [usedAt EXCEPT ![key] = clock]
        ELSE UNCHANGED <<newer, usedAt>>
    BY <1>4, <1>8, <2>3 DEF Note, Used
  <2>5. r.index \in Selectable(cands, excluded) =>
            r.index # 0 /\ BindingOf(cands[r.index]) \in offers
    BY <1>1, SelectableAreFromOne DEF Offers
  <2> HIDE DEF offers
  <2>6. CASE Stays(sel, r, newer, usedAt, clock, cands, key, excluded)
    <3>1. key \in DOMAIN sel'.entries /\ LookedUp(sel, sel', usedAt, clock)
      BY <1>4, <2>6 DEF Stays
    <3>2. answer' = BindingOf(sel'.entries[key]) /\ answer' \in offers
      BY <1>4, <2>5, <2>6, BindingFacts DEF Stays
    <3>3. Lease!Stay(key, offers)
      BY <1>4, <2>1, <2>2, <2>4, <3>1, <3>2, StayStep
    <3>4. LeaseInv'
      BY <1>4, <2>1, <2>4, <2>6, <3>1, NoteKeeps DEF Stays
    <3> QED BY <2>1, <2>2, <3>3, <3>4 DEF Lease!Next
  <2>7. CASE Goes(sel, r, newer, usedAt, clock, cands, key, excluded)
    <3>1. PICK cand : cand = cands[r.index]
      OBVIOUS
    <3>2. /\ Rebound(sel, sel', newer, usedAt, clock, key, cand)
          /\ answer' = BindingOf(cand) /\ answer' \in offers
      BY <1>4, <2>5, <2>7, <3>1 DEF Goes
    <3>3. key \in DOMAIN sel'.entries
      BY <3>2 DEF Rebound
    <3>4. ASSUME BoundOf(sel)[key] \in offers PROVE TimedOut(usedAt, clock, key)
      <4>1. PICK i \in Selectable(cands, excluded) : BoundOf(sel)[key] = BindingOf(cands[i])
        BY <3>4 DEF offers, Offers
      <4>2. BoundOf(sel)[key] # None
        BY <2>2, <3>4, BindingFacts
      <4>3. key \in DOMAIN sel.entries /\ BindingOf(sel.entries[key]) = BindingOf(cands[i])
        BY <1>2, <2>1, <4>1, <4>2, BoundFacts
      <4>4. SameTarget(sel.entries[key], cands[i])
        BY <4>3, BindingTells
      <4> QED BY <2>7, <4>3, <4>4 DEF Goes
    <3>5. Lease!Move(key, offers)
      BY <1>4, <2>1, <2>2, <2>4, <3>2, <3>3, <3>4, MoveStep
    <3>6. LeaseInv'
      BY <1>4, <2>1, <2>4, <2>7, <3>3, NoteKeeps DEF Goes
    <3> QED BY <2>1, <2>2, <3>5, <3>6 DEF Lease!Next
  <2>8. CASE Fails(sel, r, newer, usedAt, clock, key)
    <3>1. LookedUp(sel, sel', usedAt, clock)
      BY <1>4, <2>8 DEF Fails
    <3>2. r.index = 0 /\ answer' = None
      BY <1>4, <2>8 DEF Fails
    <3>3. offers = {}
      BY <1>1, <1>3, <1>8, <3>2, SelectAtCovers DEF offers, Offers
    <3>4. Lease!Look(key)
      BY <1>4, <2>1, <2>4, <3>1, LookStep
    <3>5. Lease!Starve(key)
      BY <2>2, <3>2, <3>3, <3>4 DEF Lease!Starve, Lease!Call, Call
    <3>6. LeaseInv'
      BY <1>4, <2>1, <2>4, <2>8, NoteKeeps DEF Fails
    <3> QED BY <2>1, <3>5, <3>6 DEF Lease!Next
  <2> QED BY <2>3, <2>6, <2>7, <2>8
<1> QED BY <1>7, <1>8

LEMMA PreviewRefines ==
  ASSUME LeaseInv, NEW cands \in CandidateLists, NEW policy \in UsedPolicies,
         NEW key \in Keys \cup {None}, NEW excluded \in Excludes, NEW now \in Samples,
         Preview(cands, policy, key, excluded, now)
  PROVE  LeaseInv' /\ Lease!Next
<1>1. /\ cands \in Seq(Candidate) /\ policy \in Policies /\ now \in Nat /\ clock \in Nat
      /\ now <= clock /\ clock - now <= MaxDelay
  BY RoutingAssumption DEF LeaseInv, Samples
<1>2. Linked(sel, newer, usedAt) /\ History(newer, usedAt) /\ Shaped(sel)
  BY DEF LeaseInv, Linked
<1>3. PICK r : r = select_at(sel, cands, policy, key, excluded, now)
  OBVIOUS
<1>4. /\ answer' = IF r.index = 0 THEN None ELSE BindingOf(cands[r.index])
      /\ UNCHANGED <<sel, clock, newer, usedAt>>
  BY <1>3 DEF Preview, preview_at
<1> DEFINE offers == Offers(cands, excluded)
<1>5. /\ offers \in SUBSET Bindings
      /\ call' = Call(IF HasDuplicate(cands) THEN "duplicate" ELSE "preview", key, offers)
  BY <1>1, OffersAreBindings DEF Preview, CallOf
<1>6. LeaseInv'
  BY <1>4 DEF LeaseInv, Linked, History
<1>7. CASE HasDuplicate(cands)
  <2>1. r.index = 0
    BY <1>3, <1>7 DEF select_at
  <2>2. Lease!Refuse(key, offers)
    BY <1>4, <1>5, <1>7, <2>1 DEF Lease!Refuse, Lease!Call, Call
  <2> QED BY <1>5, <1>6, <2>2 DEF Lease!Next
<1>8. CASE ~HasDuplicate(cands)
  <2>1. Lease!Answers(offers, answer')
    BY <1>1, <1>3, <1>4, <1>8, AnswerIsOffered
  <2>2. ASSUME key \in Keys, BoundOf(sel)[key] \in offers
        PROVE  answer' = BoundOf(sel)[key] \/ TimedOut(usedAt, clock, key)
    <3>1. PICK i \in Selectable(cands, excluded) : BoundOf(sel)[key] = BindingOf(cands[i])
      BY <2>2 DEF Offers
    <3>2. BoundOf(sel)[key] # None
      BY <1>5, <2>2, BindingFacts
    <3>3. key \in DOMAIN sel.entries /\ BindingOf(sel.entries[key]) = BoundOf(sel)[key]
      BY <1>2, <2>2, <3>2, BoundFacts
    <3>4. SameTarget(sel.entries[key], cands[i])
      BY <3>1, <3>3, BindingTells
    <3>5. \/ Stays(sel, r, newer, usedAt, clock, cands, key, excluded)
          \/ Goes(sel, r, newer, usedAt, clock, cands, key, excluded)
          \/ Fails(sel, r, newer, usedAt, clock, key)
      BY <1>1, <1>2, <1>3, <1>8, <2>2, SelectOutcome, ZenonT(40)
    <3>6. CASE Stays(sel, r, newer, usedAt, clock, cands, key, excluded)
      <4>1. r.index # 0
        BY <1>1, <3>6, SelectableAreFromOne DEF Stays
      <4>2. /\ SameTarget(sel.entries[key], r.state.entries[key])
            /\ SameTarget(r.state.entries[key], cands[r.index])
        BY <2>2, <3>6 DEF Stays, LookedUp
      <4>3. BindingOf(cands[r.index]) = BindingOf(sel.entries[key])
        BY <4>2, BindingFacts
      <4> QED BY <1>4, <3>3, <4>1, <4>3
    <3>7. CASE Goes(sel, r, newer, usedAt, clock, cands, key, excluded)
      BY <3>3, <3>4, <3>7 DEF Goes
    <3>8. CASE Fails(sel, r, newer, usedAt, clock, key)
      BY <1>1, <1>3, <1>8, <3>8, SelectAtCovers DEF Fails
    <3> QED BY <3>5, <3>6, <3>7, <3>8
  <2>3. key \in Keys /\ BoundOf(sel)[key] \in offers
        => answer' = BoundOf(sel)[key] \/ Lease!Idle(key)
    BY <2>2 DEF TimedOut, Lease!Idle
  <2>4. call' = Call("preview", key, offers)
    BY <1>5, <1>8
  <2> HIDE DEF offers
  <2>5. Lease!Preview(key, offers)
    BY <1>4, <2>1, <2>3, <2>4 DEF Lease!Preview, Lease!Call, Call, BoundOf
  <2> QED BY <1>5, <1>6, <2>5 DEF Lease!Next
<1> QED BY <1>7, <1>8

LEMMA LeaseStep == LeaseInv /\ [Next]_vars => LeaseInv' /\ [Lease!Next]_(Lease!vars)
<1> SUFFICES ASSUME LeaseInv, [Next]_vars PROVE LeaseInv' /\ [Lease!Next]_(Lease!vars)
  OBVIOUS
<1>1. CASE SelectAny
  BY <1>1, SelectRefines DEF SelectAny
<1>2. CASE PreviewAny
  BY <1>2, PreviewRefines DEF PreviewAny
<1>3. CASE StickyBindingAny
  <2>1. PICK key \in Keys, now \in Samples : StickyBinding(key, now)
    BY <1>3 DEF StickyBindingAny
  <2>2. now \in Nat /\ clock \in Nat /\ now <= clock /\ clock - now <= MaxDelay
    BY RoutingAssumption DEF LeaseInv, Samples
  <2>3. Linked(sel, newer, usedAt) /\ usedAt \in [Keys -> Nat]
    BY DEF LeaseInv, History
  <2>4. sel' = get_fresh(sel, key, now) /\ clock' = clock
        /\ answer' = (IF key \in DOMAIN sel'.entries THEN BindingOf(sel'.entries[key]) ELSE None)
    BY <2>1 DEF StickyBinding
  <2>5. key # None
    BY SelectorAssumption
  <2>6. IF key \in DOMAIN sel'.entries
        THEN newer' = Used(newer, key) /\ usedAt' = [usedAt EXCEPT ![key] = clock]
        ELSE UNCHANGED <<newer, usedAt>>
    BY <2>1, <2>4, <2>5 DEF StickyBinding, Note, Used
  <2>7. /\ IF key \in DOMAIN sel'.entries
           THEN Linked(sel', Used(newer, key), [usedAt EXCEPT ![key] = clock])
           ELSE Linked(sel', newer, usedAt)
        /\ LookedUp(sel, sel', usedAt, clock)
    BY <2>2, <2>3, <2>4, FreshLinked DEF LookedUp
  <2>8. Lease!Look(key)
    BY <2>4, <2>6, <2>7, LookStep
  <2>9. call' = Call("read", key, {}) /\ answer' = BoundOf(sel')[key]
    BY <2>1, <2>4 DEF StickyBinding, BoundOf
  <2>10. Lease!Read(key)
    BY <2>8, <2>9 DEF Lease!Read, Lease!Call, Call, BoundOf
  <2>11. LeaseInv'
    BY <2>4, <2>6, <2>7, NoteKeeps
  <2> QED BY <2>10, <2>11 DEF Lease!Next
<1>4. CASE Reset
  <2>1. /\ sel' = Default /\ call' = Call("reset", None, {}) /\ answer' = None
        /\ UNCHANGED <<clock, newer, usedAt>>
    BY <1>4 DEF Reset
  <2>2. PICK rec, used : rec = newer /\ used = usedAt
    OBVIOUS
  <2>3. Linked(Default, rec, used) /\ DOMAIN Default.entries = {}
    BY DefaultIsLinked
  <2>4. LeaseInv'
    BY <2>1, <2>2, <2>3 DEF LeaseInv, Linked, History
  <2>5. Lease!Reset
    BY <2>1, <2>3 DEF Lease!Reset, Lease!Call, Call
  <2> QED BY <2>4, <2>5 DEF Lease!Next
<1>5. CASE Tick
  <2>1. LeaseInv'
    BY <1>5 DEF Tick, LeaseInv, Linked, History
  <2>2. Lease!Tick
    BY <1>5 DEF Tick, Lease!Tick
  <2> QED BY <2>1, <2>2 DEF Lease!Next
<1>6. CASE UNCHANGED vars
  BY <1>6 DEF vars, Lease!vars, LeaseInv, Linked, History
<1> QED BY <1>1, <1>2, <1>3, <1>4, <1>5, <1>6 DEF Next

LEMMA QueueHolds == LeaseInv => QueueMatchesMap
<1> SUFFICES ASSUME LeaseInv PROVE QueueMatchesMap
  OBVIOUS
<1>1. PICK q, K : q = sel.order /\ K = DOMAIN sel.entries
  OBVIOUS
<1>2. Queue(q, K)
  BY <1>1 DEF LeaseInv, Linked
<1>3. {q[i] : i \in DOMAIN q} = K /\ Len(q) <= MaxConversations
  BY <1>2 DEF Queue, Range
<1>4. Cardinality(K) = Len(q)
  BY <1>2, DistinctCount DEF Queue
<1> QED BY <1>1, <1>3, <1>4 DEF QueueMatchesMap

(* The hash map and the recency queue of ConversationMap never drift apart  *)
(* and never exceed MAX_CONVERSATIONS, for any number of conversations,     *)
(* whatever calls purge, refresh, overwrite and evict, with clock samples   *)
(* in any order (selector.rs, get_fresh and insert).                        *)
THEOREM QueueAndMapAgree == Spec => []QueueMatchesMap
<1>1. Init => LeaseInv
  BY LeaseInitially
<1>2. LeaseInv /\ [Next]_vars => LeaseInv'
  BY LeaseStep
<1> QED BY <1>1, <1>2, QueueHolds, PTL DEF Spec

(* The LRU map with its timestamps implements the abstract lease: a call    *)
(* whose candidates include what its conversation is bound to is answered   *)
(* with it unless the binding was idle for the time-to-live, a call whose   *)
(* candidates can serve is answered with one of them, a route explanation   *)
(* answers alike, and a binding is forgotten only after the time-to-live or *)
(* when MAX_CONVERSATIONS others were used since (routing_runtime.rs,       *)
(* selector.rs).                                                            *)
THEOREM LeaseIsKept == Spec => LeaseSpec
<1>1. Init => LeaseInv /\ Lease!Init
  BY LeaseInitially
<1>2. LeaseInv /\ [Next]_vars => LeaseInv' /\ [Lease!Next]_(Lease!vars)
  BY LeaseStep
<1> QED BY <1>1, <1>2, PTL DEF Spec, LeaseSpec, Lease!Spec
=============================================================================
