----------------------------- MODULE MCCpaRuntime -----------------------------
(* Instances of CpaRuntime for TLC.                                           *)
EXTENDS CpaRuntime, TLC

CONSTANTS v1, v2, v3, k1, k2

TwoVersions == {v1, v2}
ThreeVersions == {v1, v2, v3}
TwoProxies == {"direct", "manual"}
OneKey == {k1}
TwoKeys == {k1, k2}

(* Versions, keys and policies are only compared.                             *)
Renaming == Permutations(Versions) \cup Permutations(Keys)

(* No action reads the last report: of it only whether it was true matters.   *)
ViewOfReport ==
    <<disk, proc, proxy, op, queued, restore, shutting, marks, spent, FailureLeavesNoTrace>>
=============================================================================
