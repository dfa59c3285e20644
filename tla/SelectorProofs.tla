--------------------------- MODULE SelectorProofs ---------------------------
(***************************************************************************)
(* Facts about the selector's operators, for every state, slice of         *)
(* candidates and policy: what is selected can serve, nothing is selected  *)
(* only when nothing can serve, and which parts of the state a selection   *)
(* moves.                                                                  *)
(***************************************************************************)
EXTENDS SelectorState, FiniteSetTheorems, TLAPS

-----------------------------------------------------------------------------
(* The selector answers with a selectable candidate or with none.  A set of *)
(* positions has a first one: otherwise the initial segments of the set     *)
(* below one of its members would have no smallest set among them.          *)

LEMMA HasFirst ==
  ASSUME NEW S \in SUBSET Nat, S # {}
  PROVE  \E i \in S : \A j \in S : i <= j
<1>1. PICK n \in S : TRUE
  OBVIOUS
<1> DEFINE Below(i) == {j \in S : j <= i}
           T == {Below(i) : i \in Below(n)}
           R == StrictSubsetOrdering(Nat)
<1>2. T \subseteq FiniteSubsetsOf(Nat)
  <2> SUFFICES ASSUME NEW i \in Below(n) PROVE Below(i) \in FiniteSubsetsOf(Nat)
    OBVIOUS
  <2>1. i \in Nat /\ Below(i) \in SUBSET Nat /\ \A s \in Below(i) : s <= i
    OBVIOUS
  <2> HIDE DEF Below
  <2>2. IsFiniteSet(Below(i))
    BY <2>1, FS_BoundedSetOfNaturals
  <2> QED BY <2>1, <2>2 DEF FiniteSubsetsOf
<1>3. T # {}
  BY <1>1, n \in Nat, n <= n
<1>4. \E x \in T : \A y \in T : ~ (<<y, x>> \in R)
  <2> HIDE DEF T, R
  <2>1. IsWellFoundedOn(R, FiniteSubsetsOf(Nat))
    BY FS_StrictSubsetOrderingWellFounded DEF R
  <2> QED BY <2>1, <1>2, <1>3, WFMin
<1>5. PICK i \in Below(n) : \A y \in T : ~ (<<y, Below(i)>> \in R)
  BY <1>4
<1>6. ASSUME NEW j \in S, ~(i <= j) PROVE FALSE
  <2>1. j \in Below(n) /\ j \in Below(j) /\ i \in Below(i) /\ i \notin Below(j)
    BY <1>6
  <2>2. Below(j) \subseteq Below(i)
    <3> SUFFICES ASSUME NEW k \in S, k <= j PROVE k <= i
      OBVIOUS
    <3>1. i \in Nat /\ j \in Nat /\ k \in Nat
      OBVIOUS
    <3> QED BY <3>1, <1>6
  <2>3. Below(j) \in SUBSET Nat /\ Below(i) \in SUBSET Nat /\ Below(j) \in T
    BY <2>1
  <2> HIDE DEF Below, T
  <2>4. <<Below(j), Below(i)>> \in R
    BY <2>1, <2>2, <2>3 DEF StrictSubsetOrdering
  <2> QED BY <2>3, <2>4, <1>5
<1> QED BY <1>6

LEMMA FirstIsMember ==
  \A S \in SUBSET Nat : S # {} => First(S) \in S
<1> SUFFICES ASSUME NEW S \in SUBSET Nat, S # {} PROVE First(S) \in S
  OBVIOUS
<1> QED BY HasFirst, Zenon DEF First

LEMMA FirstOrNone ==
  \A S \in SUBSET Nat : First(S) # 0 => First(S) \in S
<1> SUFFICES ASSUME NEW S \in SUBSET Nat, First(S) # 0 PROVE First(S) \in S
  OBVIOUS
<1>1. S # {}
  BY DEF First
<1> QED BY <1>1, FirstIsMember

LEMMA SelectablePositions ==
  \A cands \in Seq(Candidate) : \A excluded : Selectable(cands, excluded) \in SUBSET Nat
BY DEF Selectable

LEMMA RoundRobinSelects ==
  ASSUME NEW s, NEW cands \in Seq(Candidate), NEW excluded,
         select_round_robin(s, cands, excluded).index # 0
  PROVE  select_round_robin(s, cands, excluded).index \in Selectable(cands, excluded)
<1> DEFINE at(o) == ((RoundRobinStart(s, cands) + o) % Len(cands)) + 1
           open == {o \in 0..(Len(cands) - 1) : at(o) \in Selectable(cands, excluded)}
           first == CHOOSE o \in open : \A p \in open : o <= p
<1>1. open \in SUBSET Nat
  OBVIOUS
<1>2. open # {} => first \in open
  <2> HIDE DEF open
  <2> SUFFICES ASSUME open # {} PROVE first \in open
    OBVIOUS
  <2>1. \E i \in open : \A j \in open : i <= j
    BY <1>1, HasFirst
  <2> QED BY <2>1, Zenon
<1>3. open # {} => at(first) \in Selectable(cands, excluded)
  BY <1>2
<1>4. select_round_robin(s, cands, excluded)
        = IF open = {} THEN [state |-> s, index |-> 0]
          ELSE [state |-> [s EXCEPT !.round_robin_after = cands[at(first)].account],
                index |-> at(first)]
  BY Zenon DEF select_round_robin
<1> HIDE DEF at, open, first
<1>5. open # {} /\ select_round_robin(s, cands, excluded).index = at(first)
  BY <1>4
<1> QED BY <1>3, <1>5

LEMMA StickySelects ==
  ASSUME NEW s, NEW cands \in Seq(Candidate), NEW excluded,
         select_sticky_global(s, cands, excluded).index # 0
  PROVE  select_sticky_global(s, cands, excluded).index \in Selectable(cands, excluded)
<1> DEFINE held == {i \in Selectable(cands, excluded) : cands[i].account = s.global_account_id}
           index == select_sticky_global(s, cands, excluded).index
<1>1. held \in SUBSET Nat /\ Selectable(cands, excluded) \in SUBSET Nat
  BY SelectablePositions
<1>2. index \in {First(held), First(Selectable(cands, excluded))}
  BY DEF select_sticky_global, first_available_index
<1> HIDE DEF index
<1>3. index # 0
  BY DEF index
<1>4. CASE index = First(held)
  BY <1>1, <1>3, <1>4, FirstOrNone DEF index
<1>5. CASE index = First(Selectable(cands, excluded))
  BY <1>1, <1>3, <1>5, FirstOrNone DEF index
<1> QED BY <1>2, <1>4, <1>5

LEMMA PolicySelects ==
  ASSUME NEW s, NEW cands \in Seq(Candidate), NEW excluded, NEW policy \in Policies,
         by_policy(s, cands, policy, excluded).index # 0
  PROVE  by_policy(s, cands, policy, excluded).index \in Selectable(cands, excluded)
<1>1. CASE policy = "StrictPriority"
  <2>1. by_policy(s, cands, policy, excluded).index = First(Selectable(cands, excluded))
    BY <1>1 DEF by_policy, first_available_index
  <2> QED BY <2>1, FirstOrNone, SelectablePositions
<1>2. CASE policy = "StickyGlobal"
  <2>1. by_policy(s, cands, policy, excluded) = select_sticky_global(s, cands, excluded)
    BY <1>2 DEF by_policy
  <2> QED BY <2>1, StickySelects
<1>3. CASE policy = "RoundRobin"
  <2>1. by_policy(s, cands, policy, excluded) = select_round_robin(s, cands, excluded)
    BY <1>3 DEF by_policy
  <2> QED BY <2>1, RoundRobinSelects
<1> QED BY <1>1, <1>2, <1>3 DEF Policies

LEMMA SelectAtSelects ==
  ASSUME NEW s, NEW cands \in Seq(Candidate), NEW policy \in Policies, NEW key,
         NEW excluded, NEW now,
         select_at(s, cands, policy, key, excluded, now).index # 0
  PROVE  select_at(s, cands, policy, key, excluded, now).index \in Selectable(cands, excluded)
<1> DEFINE looked == IF key = None THEN s ELSE get_fresh(s, key, now)
           bind   == looked.entries[key]
           match  == {i \in Selectable(cands, excluded) :
                         cands[i].account = bind.account /\ cands[i].target = bind.target}
           pick   == by_policy(looked, cands, policy, excluded)
           index  == select_at(s, cands, policy, key, excluded, now).index
<1>1. match \in SUBSET Nat
  BY SelectablePositions
<1>2. index \in {0, First(match), pick.index}
  BY DEF select_at, find_available_index
<1>3. pick.index # 0 => pick.index \in Selectable(cands, excluded)
  BY PolicySelects
<1>4. First(match) # 0 => First(match) \in Selectable(cands, excluded)
  BY <1>1, FirstOrNone
<1> HIDE DEF pick, match, index
<1>5. index # 0 => index \in Selectable(cands, excluded)
  BY <1>2, <1>3, <1>4
<1> QED BY <1>5 DEF index

-----------------------------------------------------------------------------
(* Nothing is selected only when no candidate is selectable.                *)

LEMMA FirstOfSome ==
  \A S \in SUBSET (Nat \ {0}) : First(S) = 0 => S = {}
<1> SUFFICES ASSUME NEW S \in SUBSET (Nat \ {0}), S # {} PROVE First(S) # 0
  OBVIOUS
<1>1. First(S) \in S
  BY FirstIsMember
<1> QED BY <1>1

LEMMA SelectableAreFromOne ==
  \A cands \in Seq(Candidate) : \A excluded :
      Selectable(cands, excluded) \in SUBSET (Nat \ {0})
BY DEF Selectable

LEMMA Modulo ==
  /\ \A n \in Nat \ {0} : \A x \in 0..(n - 1) : x % n = x /\ (x + n) % n = x
  /\ \A n \in Nat \ {0} : \A x \in Nat : x % n \in 0..(n - 1)
OBVIOUS

LEMMA StartIsPosition ==
  \A s : \A cands \in Seq(Candidate) :
      Len(cands) # 0 => RoundRobinStart(s, cands) \in 0..(Len(cands) - 1)
<1> SUFFICES ASSUME NEW s, NEW cands \in Seq(Candidate), Len(cands) # 0
             PROVE  RoundRobinStart(s, cands) \in 0..(Len(cands) - 1)
  OBVIOUS
<1> DEFINE S == {i \in DOMAIN cands : cands[i].account = s.round_robin_after}
<1>1. S \in SUBSET Nat
  OBVIOUS
<1>2. First(S) \in Nat
  BY <1>1, FirstIsMember DEF First
<1>3. Len(cands) \in Nat \ {0}
  OBVIOUS
<1> HIDE DEF S
<1>4. First(S) % Len(cands) \in 0..(Len(cands) - 1)
  BY <1>2, <1>3, Modulo
<1> QED BY <1>4, Zenon DEF S, RoundRobinStart

(* The o-th position of the cyclic scan of n cards from `start`, and the scan *)
(* visits every position.                                                     *)
Visited(n, start, o) == ((start + o) % n) + 1

LEMMA ScanVisitsAll ==
  \A n \in Nat \ {0} : \A start \in 0..(n - 1), i \in 1..n :
      \E o \in 0..(n - 1) : Visited(n, start, o) = i
<1> SUFFICES ASSUME NEW n \in Nat \ {0}, NEW start \in 0..(n - 1), NEW i \in 1..n
             PROVE  \E o \in 0..(n - 1) : ((start + o) % n) + 1 = i
  BY DEF Visited
<1>1. i - 1 \in 0..(n - 1)
  OBVIOUS
<1>2. (i - 1) % n = i - 1 /\ ((i - 1) + n) % n = i - 1
  BY <1>1, Modulo
<1>3. CASE start <= i - 1
  <2>0. (i - 1) - start \in 0..(n - 1)
    BY <1>3
  <2> WITNESS (i - 1) - start \in 0..(n - 1)
  <2>1. start + ((i - 1) - start) = i - 1
    OBVIOUS
  <2> QED BY <2>1, <1>2
<1>4. CASE start > i - 1
  <2>1. ((i - 1) + n) - start \in 0..(n - 1)
    BY <1>4
  <2> WITNESS ((i - 1) + n) - start \in 0..(n - 1)
  <2>2. start + (((i - 1) + n) - start) = (i - 1) + n
    OBVIOUS
  <2> QED BY <2>2, <1>2
<1> QED BY <1>3, <1>4

LEMMA RoundRobinCovers ==
  ASSUME NEW s, NEW cands \in Seq(Candidate), NEW excluded,
         select_round_robin(s, cands, excluded).index = 0
  PROVE  Selectable(cands, excluded) = {}
<1> DEFINE start == RoundRobinStart(s, cands)
           at(o) == ((start + o) % Len(cands)) + 1
           open == {o \in 0..(Len(cands) - 1) : at(o) \in Selectable(cands, excluded)}
           first == CHOOSE o \in open : \A p \in open : o <= p
<1>1. select_round_robin(s, cands, excluded)
        = IF open = {} THEN [state |-> s, index |-> 0]
          ELSE [state |-> [s EXCEPT !.round_robin_after = cands[at(first)].account],
                index |-> at(first)]
  BY Zenon DEF select_round_robin
<1>2. open \in SUBSET Nat
  OBVIOUS
<1>3. open # {} => at(first) \in Selectable(cands, excluded)
  <2> SUFFICES ASSUME open # {} PROVE at(first) \in Selectable(cands, excluded)
    OBVIOUS
  <2> HIDE DEF open
  <2>1. \E i \in open : \A j \in open : i <= j
    BY <1>2, HasFirst
  <2>2. first \in open
    BY <2>1, Zenon
  <2> QED BY <2>2 DEF open
<1>4. open = {}
  <2> SUFFICES ASSUME open # {} PROVE FALSE
    OBVIOUS
  <2>1. at(first) # 0
    <3> HIDE DEF at, open, first
    <3> QED BY <1>3, SelectableAreFromOne
  <2> HIDE DEF at, open, first
  <2>2. select_round_robin(s, cands, excluded).index = at(first)
    BY <1>1
  <2> QED BY <2>1, <2>2
<1>5. ASSUME NEW i \in Selectable(cands, excluded) PROVE FALSE
  <2>1. i \in 1..Len(cands) /\ Len(cands) \in Nat \ {0}
    BY DEF Selectable
  <2>2. start \in 0..(Len(cands) - 1)
    BY <2>1, StartIsPosition
  <2> HIDE DEF start
  <2>3. PICK o \in 0..(Len(cands) - 1) : ((start + o) % Len(cands)) + 1 = i
    <3>1. PICK n \in Nat \ {0} : n = Len(cands)
      BY <2>1
    <3>2. start \in 0..(n - 1) /\ i \in 1..n
      BY <2>1, <2>2, <3>1
    <3>3. PICK o \in 0..(n - 1) : Visited(n, start, o) = i
      BY <3>2, ScanVisitsAll
    <3> QED BY <3>1, <3>3 DEF Visited
  <2> QED BY <2>3, <1>4
<1> QED BY <1>5

LEMMA StickyCovers ==
  ASSUME NEW s, NEW cands \in Seq(Candidate), NEW excluded,
         select_sticky_global(s, cands, excluded).index = 0
  PROVE  Selectable(cands, excluded) = {}
<1>1. First(Selectable(cands, excluded)) = 0
  BY DEF select_sticky_global, first_available_index
<1> QED BY <1>1, FirstOfSome, SelectableAreFromOne

LEMMA PolicyCovers ==
  ASSUME NEW s, NEW cands \in Seq(Candidate), NEW excluded, NEW policy \in Policies,
         by_policy(s, cands, policy, excluded).index = 0
  PROVE  Selectable(cands, excluded) = {}
<1>1. CASE policy = "StrictPriority"
  <2>1. First(Selectable(cands, excluded)) = 0
    BY <1>1 DEF by_policy, first_available_index
  <2> QED BY <2>1, FirstOfSome, SelectableAreFromOne
<1>2. CASE policy = "StickyGlobal"
  <2>1. by_policy(s, cands, policy, excluded) = select_sticky_global(s, cands, excluded)
    BY <1>2 DEF by_policy
  <2> QED BY <2>1, StickyCovers
<1>3. CASE policy = "RoundRobin"
  <2>1. by_policy(s, cands, policy, excluded) = select_round_robin(s, cands, excluded)
    BY <1>3 DEF by_policy
  <2> QED BY <2>1, RoundRobinCovers
<1> QED BY <1>1, <1>2, <1>3 DEF Policies

LEMMA SelectAtCovers ==
  ASSUME NEW s, NEW cands \in Seq(Candidate), NEW policy \in Policies, NEW key,
         NEW excluded, NEW now, ~HasDuplicate(cands),
         select_at(s, cands, policy, key, excluded, now).index = 0
  PROVE  Selectable(cands, excluded) = {}
<1>1. PICK looked : looked = IF key = None THEN s ELSE get_fresh(s, key, now)
  OBVIOUS
<1>2. by_policy(looked, cands, policy, excluded).index = 0
  BY <1>1 DEF select_at
<1> QED BY <1>2, PolicyCovers
=============================================================================
