------------------------------ MODULE MCRouting ------------------------------
(* Instances of Routing for TLC.                                              *)
EXTENDS Routing

CONSTANTS a1, a2, a3, m1, k1, k2, k3

AllAccounts == {a1, a2, a3}
TwoAccounts == {a1, a2}
OneTarget == {m1}
OneKey == {k1}
ThreeKeys == {k1, k2, k3}

Card(a, m, up) == [account |-> a, target |-> m, available |-> up]

(* Two accounts that can be up or down, one after the other, and a list that  *)
(* names one twice.                                                           *)
LeaseLists ==
    {<<Card(a1, m1, u1), Card(a2, m1, u2)>> : u1 \in BOOLEAN, u2 \in BOOLEAN}
        \cup {<<Card(a1, m1, TRUE), Card(a1, m1, TRUE)>>}

(* Three cards in one order, each up or down.                                 *)
TurnLists ==
    {<<Card(a1, m1, u[1]), Card(a2, m1, u[2]), Card(a3, m1, u[3])>> :
        u \in [1..3 -> BOOLEAN]}

NoExcludes == {{}}
OneExcluded == {{}, {a1}}

(* No action reads what the last call was or what it answered: states that    *)
(* differ only there are explored once, and every step is still checked.      *)
ViewWithoutCall == <<sel, clock, missed, newer, usedAt>>

AllPolicies == Policies
Strict == {"StrictPriority"}

=============================================================================
