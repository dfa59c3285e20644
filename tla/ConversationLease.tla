-------------------------- MODULE ConversationLease --------------------------
(* What conversation stickiness promises a client, without the map, the       *)
(* queue and the timestamps that implement it: a conversation stays with the  *)
(* account and target that served it while they can serve, and the gateway    *)
(* may forget it only when it has been idle for the lease or when Capacity    *)
(* other conversations were used more recently.                               *)
(*                                                                            *)
(* `call` is what the gateway was last asked and `answer` what it answered:   *)
(* the bindings that could serve the call are an input, which every step      *)
(* must respect.  `Delay` bounds how long before a call takes effect its      *)
(* clock was read.                                                            *)
EXTENDS Integers, FiniteSets

CONSTANTS
    Keys,       \* conversations
    Bindings,   \* what a conversation can be bound to
    NoBinding,  \* no binding, or no answer
    NoKey,      \* the call names no conversation
    Lease,      \* idle time after which a conversation may be forgotten
    Capacity,   \* how many conversations are remembered at least
    Delay       \* age of the clock reading a call works with, at most

VARIABLES
    bound,      \* [Keys -> Bindings \cup {NoBinding}]
    newer,      \* newer[k]: the conversations used since k was last used
    usedAt,     \* when k was last used
    clock,
    call,       \* the last call: [kind, key, offers]
    answer      \* answer to the last call

vars == <<bound, newer, usedAt, clock, call, answer>>

Call(kind, key, offers) == [kind |-> kind, key |-> key, offers |-> offers]

Init ==
    /\ bound = [k \in Keys |-> NoBinding]
    /\ newer = [k \in Keys |-> {}]
    /\ usedAt = [k \in Keys |-> 0]
    /\ clock = 0
    /\ call = Call("reset", NoKey, {})
    /\ answer = NoBinding

(* k has been idle for the lease, seen from a clock that may be late.         *)
Idle(k) == clock - usedAt[k] + Delay >= Lease

(* A conversation the gateway is allowed to have forgotten at this moment.    *)
Forgettable(j, recency) == Idle(j) \/ Cardinality(recency[j]) >= Capacity

Used(k) == [j \in Keys |-> IF j = k THEN {} ELSE newer[j] \cup {k}]

(* Conversations that may be forgotten while k is used.                       *)
Forgetting(k, recency, gone) ==
    \A j \in gone : bound[j] # NoBinding /\ Forgettable(j, recency)

Keeping(gone) == [j \in Keys |-> IF j \in gone THEN NoBinding ELSE bound[j]]

(* Only something that can serve the call is answered, and something is       *)
(* unless nothing can.                                                        *)
Answers(offers, b) == IF offers = {} THEN b = NoBinding ELSE b \in offers

(* A call for conversation k that its binding can serve is answered with it;  *)
(* a binding that is used is never older than the lease allows.               *)
Stay(k, offers) ==
    /\ call' = Call("select", k, offers)
    /\ bound[k] \in offers
    /\ answer' = bound[k]
    /\ clock - usedAt[k] < Lease + Delay
    /\ newer' = Used(k)
    /\ usedAt' = [usedAt EXCEPT ![k] = clock]
    /\ \E gone \in SUBSET (Keys \ {k}) :
          /\ Forgetting(k, newer, gone)
          /\ bound' = Keeping(gone)
    /\ UNCHANGED clock

(* Its binding cannot serve, or was idle for too long: any offer may, and k   *)
(* is bound to it.                                                            *)
Move(k, offers) ==
    /\ call' = Call("select", k, offers)
    /\ bound[k] \in offers => Idle(k)
    /\ answer' \in offers
    /\ newer' = Used(k)
    /\ usedAt' = [usedAt EXCEPT ![k] = clock]
    /\ \E gone \in SUBSET (Keys \ {k}) :
          /\ Forgetting(k, Used(k), gone)
          /\ bound' = [Keeping(gone) EXCEPT ![k] = answer']
    /\ UNCHANGED clock

(* Looking up a remembered conversation counts as using it.                   *)
Look(k) ==
    /\ \E gone \in SUBSET Keys :
          /\ Forgetting(k, newer, gone)
          /\ bound' = Keeping(gone)
          /\ IF bound[k] # NoBinding /\ k \notin gone
             THEN /\ newer' = Used(k)
                  /\ usedAt' = [usedAt EXCEPT ![k] = clock]
             ELSE UNCHANGED <<newer, usedAt>>
    /\ UNCHANGED clock

(* Nothing can serve the call: the binding is kept.                           *)
Starve(k) ==
    /\ call' = Call("select", k, {})
    /\ answer' = NoBinding
    /\ Look(k)

(* The binding is only read.                                                  *)
Read(k) ==
    /\ call' = Call("read", k, {})
    /\ Look(k)
    /\ answer' = bound'[k]

(* A call that names no conversation binds nothing.                           *)
Anonymous(offers) ==
    /\ call' = Call("select", NoKey, offers)
    /\ Answers(offers, answer')
    /\ UNCHANGED <<bound, newer, usedAt, clock>>

(* An explanation answers what the call would, and binds nothing.             *)
Preview(k, offers) ==
    /\ call' = Call("preview", k, offers)
    /\ Answers(offers, answer')
    /\ k \in Keys /\ bound[k] \in offers => answer' = bound[k] \/ Idle(k)
    /\ UNCHANGED <<bound, newer, usedAt, clock>>

(* A list that names an account twice is refused.                             *)
Refuse(k, offers) ==
    /\ call' = Call("duplicate", k, offers)
    /\ answer' = NoBinding
    /\ UNCHANGED <<bound, newer, usedAt, clock>>

Reset ==
    /\ bound' = [k \in Keys |-> NoBinding]
    /\ call' = Call("reset", NoKey, {})
    /\ answer' = NoBinding
    /\ UNCHANGED <<newer, usedAt, clock>>

Tick ==
    /\ clock' = clock + 1
    /\ UNCHANGED <<bound, newer, usedAt, call, answer>>

Next ==
    \/ Reset
    \/ Tick
    \/ \E offers \in SUBSET Bindings : Anonymous(offers)
    \/ \E k \in Keys \cup {NoKey}, offers \in SUBSET Bindings :
          Preview(k, offers) \/ Refuse(k, offers)
    \/ \E k \in Keys, offers \in SUBSET Bindings : Stay(k, offers) \/ Move(k, offers)
    \/ \E k \in Keys : Starve(k) \/ Read(k)

Spec == Init /\ [][Next]_vars
=============================================================================
