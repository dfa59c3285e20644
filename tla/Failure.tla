-------------------------------- MODULE Failure --------------------------------
(***************************************************************************)
(* What a rejected attempt says and what the gateway decides from it       *)
(* (crates/ocg-core/src/gateway/failure.rs, failure/decode.rs).            *)
(* A Retry-After header is a number of time units after the reply, or None *)
(* when it is missing or malformed.                                        *)
(***************************************************************************)
EXTENDS Integers

CONSTANTS
  DateMax,       \* the last representable wall-clock instant
  Temporary429   \* TEMPORARY_429_SECS

ASSUME FailureAssumption == DateMax \in Nat /\ Temporary429 \in Nat

None == -1                     \* no instant
Unbounded == DateMax + 1       \* RetryHint::Unbounded, after every Until
Instant == Nat \cup {None}

later(a, b) == IF a < b THEN b ELSE a
earlier(a, b) == IF a < b THEN a ELSE b

parse_retry_after(header, now) ==
  IF header = None THEN None
  ELSE IF now + header > DateMax THEN Unbounded ELSE now + header

\* A zero Retry-After is not extra wait: the default applies.
temporary_429_deadline(header, now) ==
  LET hint == parse_retry_after(header, now)
  IN  IF hint > now THEN hint ELSE now + Temporary429

plan_window_admission(reset, header, now) ==
  later(reset, parse_retry_after(header, now))

-----------------------------------------------------------------------------
(* Facts and the decision taken on them.                                   *)

Temporary429Facts  == [cause |-> "Transient", scope |-> "Unspecified", window |-> "none"]
PlanWindowFacts    == [cause |-> "QuotaExhausted", scope |-> "Credential", window |-> "Month"]
OpenRouterFacts    == [cause |-> "Transient", scope |-> "QuotaPool", window |-> "none"]
FreeFacts          == [cause |-> "Transient", scope |-> "SharedFreeEgress", window |-> "Free"]

\* No reply decoded today carries a quota reset for a pool (persist_reset is
\* only reached by the credential's own plan window).
wait_for_recovery(facts) ==
  /\ facts.scope \in {"QuotaPool", "SharedFreeEgress"}
  /\ \/ facts.cause \in {"CreditsExhausted", "QuotaExhausted"}
     \/ facts.scope = "SharedFreeEgress" /\ facts.cause = "Transient"

\* A pool's restriction is kept at the window it names, or at its credits.
kind_for(facts) ==
  CASE facts.scope = "Unspecified"      -> "EndpointModel"
    [] facts.scope = "SharedFreeEgress" -> "FreeEgress"
    [] facts.scope = "Credential"       -> "CredentialRetry"
    [] facts.scope = "QuotaPool"        -> IF facts.window = "Free" THEN "FreeEgress"
                                           ELSE IF facts.window = "none" THEN "Credits"
                                           ELSE facts.window
=============================================================================
