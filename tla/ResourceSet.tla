------------------------------ MODULE ResourceSet ------------------------------
(***************************************************************************)
(* The resources one outbound attempt is admitted against                  *)
(* (crates/ocg-core/src/gateway/recovery/context.rs).                      *)
(*                                                                         *)
(* A resource set is named by the index of the route it was captured for.  *)
(* A SHA-256 digest is the tagged tuple of what is hashed: digests are     *)
(* equal exactly when their inputs are.  Account and credential ids are in *)
(* one-to-one correspondence and are one name here.  A projection is what  *)
(* the routing snapshot says at one moment:                                *)
(*   credentials  : account -> [pool, version, destination_id], where      *)
(*                  version stands for key cipher, binding and grants;     *)
(*   destinations : id -> [url, catalog, anonymous], url standing for      *)
(*                  everything but the catalog.                            *)
(***************************************************************************)
EXTENDS Integers

CONSTANTS
  Routes,      \* index -> [projection, request]: what an attempt may capture
  Windows      \* quota windows an attempt claims: all three in the code

ASSUME WindowsAssumption == Windows \subseteq {"FiveHours", "Week", "Month"}

NoDigest == <<>>
NoPool == "no pool"

PolicyKinds == {"PolicyCredential", "PolicyCredentialModel"}
PoolKinds == {"EndpointModel", "Credits", "FreeEgress"} \cup Windows
ResourceKind == {"CredentialRetry"} \cup PoolKinds \cup PolicyKinds

is_policy(k) == k.kind \in PolicyKinds

-----------------------------------------------------------------------------
(* Capture of a ResourceSet from the routing snapshot.                     *)

destination_identity(p, id, free_contract) ==
  LET d == p.destinations[id]
  IN  <<id, d.url, IF free_contract /\ d.anonymous THEN 0 ELSE d.catalog>>

identity(p, a, free_contract) ==
  <<"credential", a, p.credentials[a].version,
    destination_identity(p, p.credentials[a].destination_id, free_contract)>>

\* The receiving key only: the catalog is cleared, so that a catalog refresh
\* does not move the CredentialRetry slot.
retry_identity(p, a) ==
  LET id == p.credentials[a].destination_id
  IN  <<"retry", a, p.credentials[a].version, <<id, p.destinations[id].url>>>>

pool_members(p, a) ==
  {b \in DOMAIN p.credentials :
     \/ b = a
     \/ /\ p.credentials[a].pool # NoPool
        /\ p.credentials[b].pool = p.credentials[a].pool}

from_snapshot(p, q) ==
  LET cred  == identity(p, q.account, q.free_contract)
      quota == <<"quota", {identity(p, b, q.free_contract) : b \in pool_members(p, q.account)}>>
  IN  [request          |-> q,
       owner            |-> q.account,
       members          |-> pool_members(p, q.account),
       free_contract    |-> q.free_contract,
       destination_id   |-> p.credentials[q.account].destination_id,
       endpoint         |-> <<"endpoint", q.endpoint, q.model>>,
       quota            |-> quota,
       credits          |-> <<"credits", quota, q.model>>,
       credential       |-> cred,
       credential_retry |-> retry_identity(p, q.account),
       policy_model     |-> IF q.endpoint = "" \/ q.model = ""
                            THEN NoDigest
                            ELSE <<"policy model", cred, q.endpoint, q.model>>]

\* The captured set of every route.
Resources == [rs \in DOMAIN Routes |-> from_snapshot(Routes[rs].projection, Routes[rs].request)]
ResourceSets == DOMAIN Resources

-----------------------------------------------------------------------------
(* Keys, ownership and enforcement.                                        *)

key(rs, kind) ==
  [kind |-> kind,
   generation |->
     CASE kind = "EndpointModel"         -> Resources[rs].endpoint
       [] kind = "Credits"               -> Resources[rs].credits
       [] kind = "CredentialRetry"       -> Resources[rs].credential_retry
       [] kind = "PolicyCredential"      -> Resources[rs].credential
       [] kind = "PolicyCredentialModel" -> Resources[rs].policy_model
       [] kind = "FreeEgress"            -> NoDigest
       [] OTHER                          -> Resources[rs].quota]

keys(rs) ==
  {key(rs, kind) : kind \in
     {x \in ResourceKind : x = "PolicyCredentialModel" => Resources[rs].policy_model # NoDigest}}

enforces(rs, k) ==
  CASE k.kind = "FreeEgress"                                    -> Resources[rs].free_contract
    [] k.kind \in {"EndpointModel", "CredentialRetry"}          -> TRUE
    [] k.kind \in PolicyKinds                                   -> TRUE
    [] OTHER                                                    -> ~Resources[rs].free_contract

\* One account owns its key retry and its policy resources; every member of
\* the pool owns the shared ones.  The code keeps a list sorted by id.
owners(rs, k) ==
  IF k.kind \in {"CredentialRetry"} \cup PolicyKinds THEN {Resources[rs].owner} ELSE Resources[rs].members

owner_generation(rs, k) ==
  CASE k.kind = "CredentialRetry" -> Resources[rs].credential_retry
    [] k.kind \in PolicyKinds     -> Resources[rs].credential
    [] OTHER                      -> Resources[rs].quota

policy_key(rs, scope) ==
  key(rs, IF scope = "Credential" THEN "PolicyCredential" ELSE "PolicyCredentialModel")

same_generation(a, b) ==
  /\ Resources[a].quota = Resources[b].quota
  /\ Resources[a].endpoint = Resources[b].endpoint
  /\ Resources[a].free_contract = Resources[b].free_contract
  /\ Resources[a].credential = Resources[b].credential
  /\ Resources[a].policy_model = Resources[b].policy_model

same_policy_identity(a, b) ==
  /\ Resources[a].credential = Resources[b].credential
  /\ Resources[a].policy_model = Resources[b].policy_model
  /\ Resources[a].destination_id = Resources[b].destination_id
  /\ Resources[a].owner = Resources[b].owner
  /\ Resources[a].free_contract = Resources[b].free_contract
=============================================================================
