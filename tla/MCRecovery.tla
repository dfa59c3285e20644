------------------------------ MODULE MCRecovery ------------------------------
(***************************************************************************)
(* Small instances of Recovery for TLC.                                    *)
(***************************************************************************)
EXTENDS Recovery, TLC

CONSTANT RuleX      \* a policy source

Credential(pool, version) == [pool |-> pool, version |-> version, destination_id |-> "d"]
Request(a, free) == [account |-> a, endpoint |-> "e", model |-> "m", free_contract |-> free]
One == {{1}}

\* One account, paid or the anonymous Zen Free one.
Single(anonymous) ==
  [credentials |-> "a" :> Credential(NoPool, 1),
   destinations |-> "d" :> [url |-> 1, catalog |-> 1, anonymous |-> anonymous]]
FreeRoutes == <<[projection |-> Single(TRUE), request |-> Request("a", TRUE)]>>
BothRoutes == <<
  [projection |-> Single(TRUE), request |-> Request("a", TRUE)],
  [projection |-> Single(FALSE), request |-> Request("a", FALSE)]>>
Either == {{1}, {2}}

\* Two keys of one pool; the first is rotated, or its catalog refreshed, while
\* requests are in flight.
Pooled(version, catalog) ==
  [credentials |-> "a" :> Credential("pool", version) @@ "b" :> Credential("pool", 1),
   destinations |-> "d" :> [url |-> 1, catalog |-> catalog, anonymous |-> FALSE]]
PooledRoutes == <<
  [projection |-> Pooled(1, 1), request |-> Request("a", FALSE)],
  [projection |-> Pooled(1, 1), request |-> Request("b", FALSE)],
  [projection |-> Pooled(2, 1), request |-> Request("a", FALSE)],
  [projection |-> Pooled(1, 2), request |-> Request("a", FALSE)]>>
PooledCaptures == {{1, 2}, {3}, {4}}

\* Retry-After headers, in time units; 100 is beyond the representable dates.
Absent == {None}
PaidHeaders == {None, 100}

\* Local policies.
NoScope == [s \in {} |-> "Credential"]
NoBackoff == [s \in {} |-> [initial |-> 1, max |-> 1]]
OneScope == [s \in {RuleX} |-> "CredentialModel"]
OneBackoff == [s \in {RuleX} |-> [initial |-> 1, max |-> 2]]
NoRules == {[d \in {"d"} |-> {}]}
OneRule == {[d \in {"d"} |-> {RuleX}], [d \in {"d"} |-> {}]}

Forward == {1}
=============================================================================
