------------------------------ MODULE MCExecutor ------------------------------
(* Instances of Executor for TLC.                                             *)
EXTENDS Executor, TLC

CONSTANTS a1, a2, a3, m1, k1, r1

TwoAccounts == {a1, a2}
ThreeAccounts == {a1, a2, a3}
OneTarget == {m1}
OneKey == {k1}
OneRequest == {r1}

OneOrder == {<<a1, a2, a3>>}
TwoOrders == {<<a1, a2>>, <<a2, a1>>}

PaidPair == [a \in TwoAccounts |-> IF a = a1 THEN "go" ELSE "http"]
Mixed == [a \in ThreeAccounts |-> CASE a = a1 -> "free" [] a = a2 -> "goat" [] a = a3 -> "http"]

StreamOutcomes == {"ok", "connect", "interrupted", "429", "401", "after_output"}

NoConversation == [r \in OneRequest |-> None]
=============================================================================
