------------------------------- MODULE Executor -------------------------------
(* GatewayExecutor::run (gateway/executor.rs): the selection, retry and       *)
(* fallback loop of one client request, with the outcome classes of one       *)
(* attempt (classify.rs, forward_action_for_class), for concurrent requests   *)
(* that share the selector.  The recovery runtime appears as the set of       *)
(* accounts that wait and the database as the set of usable accounts; both    *)
(* change under the requests (see Recovery and QuotaRecovery for their own    *)
(* behaviour).  Conversation bindings do not expire here (see Routing).       *)
EXTENDS SelectorState

CONSTANTS
    Requests,           \* client requests
    Orders,             \* card orders the operator may save
    Kind,               \* [Accounts -> AccountKinds], the provider of an account
    Outcomes,           \* what an attempt may meet, a subset of AllOutcomes
    Policy,             \* the routing mode
    KeyOf,              \* [Requests -> Keys \cup {None}], the conversations
    MaxRequestAttempts  \* MAX_REQUEST_ATTEMPTS

AccountKinds == {"go", "goat", "free", "openrouter_free", "minimax", "http", "anonymous"}

Transport == {"connect", "send_timeout", "header_timeout", "body_timeout", "other_send"}
Streams == {"interrupted", "ended_incomplete", "conversion_failed", "idle", "after_output"}
Statuses == {"429", "401", "401_credits", "403", "408", "400", "400_credits", "500"}
AllOutcomes == Transport \cup Streams \cup Statuses \cup {"ok", "bad_body", "envelope_error"}

ASSUME ExecutorAssumption ==
    /\ IsFiniteSet(Accounts)
    /\ Orders \subseteq Seq(Accounts) /\ Orders # {}
    /\ \A o \in Orders : \A a \in Accounts : \E i \in DOMAIN o : o[i] = a
    /\ \A o \in Orders : \A i, j \in DOMAIN o : o[i] = o[j] => i = j
    /\ Kind \in [Accounts -> AccountKinds]
    /\ Outcomes \subseteq AllOutcomes
    /\ Policy \in Policies
    /\ KeyOf \in [Requests -> Keys \cup {None}]
    /\ MaxRequestAttempts \in Nat \ {0}
    /\ Targets # {}

VARIABLES
    sel,        \* the shared selector
    cards,      \* the saved card order
    up,         \* accounts enabled, set up, authorized and not cooling
    waiting,    \* accounts whose resources the recovery runtime blocks
    freeWait,   \* the free channel waits for its egress restriction
    req,        \* per request: LoopState and the position in the loop
    sends,      \* history: [Requests -> [Accounts -> Nat]], attempts sent
    unknown,    \* history: accounts whose attempt may have been executed
    steady      \* history: accounts that could serve ever since the request began

vars == <<sel, cards, up, waiting, freeWait, req, sends, unknown, steady>>
world == <<cards, up, waiting, freeWait>>

-----------------------------------------------------------------------------
(* Outcome classes.                                                           *)

IsFree(a) == Kind[a] = "free"

(* classify_transport.                                                        *)
classify_transport(o) == IF o = "connect" THEN "Connect" ELSE "OutcomeUnknown"

(* classify_stream.                                                           *)
classify_stream(o) ==
    IF o \in {"interrupted", "ended_incomplete"}
    THEN "StreamRetryEligible" ELSE "StreamNoReplay"

\* Mutant: a 5xx is taken for a rejection and tried on the next account.
classify_http_mutant(o, k) ==
    CASE o = "500" -> "InsufficientCredits"
      [] o = "429" -> "RateLimited"
      [] OTHER -> "ClientError"

(* classify_http_response: status first, then the free channel, then the      *)
(* exact credit rejections of OpenCode Go (401) and Command Code GOAT (400).  *)
classify_http_response(o, k) ==
    CASE o = "429" -> "RateLimited"
      [] o # "429" /\ k = "free" -> "FreeRejected"
      [] o = "500" /\ k # "free" -> "ServerError"
      [] o = "408" /\ k # "free" -> "HttpRequestTimeout"
      [] o = "401" /\ k # "free" ->
             IF k = "go" THEN "UnauthorizedPassthrough" ELSE "UnauthorizedRotate"
      [] o = "401_credits" /\ k # "free" -> "UnauthorizedRotate"
      [] o = "403" /\ k # "free" ->
             IF k = "anonymous" THEN "ForbiddenStop" ELSE "ForbiddenRotate"
      [] o = "400_credits" /\ k = "goat" -> "InsufficientCredits"
      [] o = "400" \/ (o = "400_credits" /\ k \notin {"goat", "free"}) -> "ClientError"

classify(o, k) ==
    CASE o \in Transport -> classify_transport(o)
      [] o \in Streams   -> classify_stream(o)
      [] o \in Statuses  -> classify_http_response(o, k)
      [] o \in {"ok", "bad_body", "envelope_error"} -> "Answered"

same_account_retry_eligible(class) == class \in {"Connect", "StreamRetryEligible"}

(* forward_action_for_class.                                                  *)
forward_action_for_class(class, allow_same_account_retry) ==
    CASE same_account_retry_eligible(class) /\ allow_same_account_retry -> "RetrySameAccount"
      [] class \in {"UnauthorizedRotate", "ForbiddenRotate", "InsufficientCredits", "RateLimited"} ->
             "TryNextAccount"
      [] class = "FreeRejected" -> "ExhaustFreeChannel"
      [] OTHER -> "Return"

(* What forward_once makes of an outcome.  On the free routes a failure to    *)
(* connect, an unusable body and an HTTP error are rejections of the channel  *)
(* or of the model, and so is MiniMax's error envelope in a 200.              *)
ActionFor(o, a, allow) ==
    LET k == Kind[a]
    IN  CASE k = "free" /\ o \in {"connect", "bad_body", "429"} -> "ExhaustFreeChannel"
          [] k = "openrouter_free" /\ o \in {"connect", "bad_body"} \cup (Statuses \ {"429"}) ->
                 "TryNextAccount"
          [] k = "minimax" /\ o = "envelope_error" -> "TryNextAccount"
          [] OTHER -> forward_action_for_class(classify(o, k), allow)

(* The upstream may have executed, and charged, the attempt.  Free routes     *)
(* are not charged; a 4xx other than 408 proves a rejection.                  *)
Ambiguous(o, a) ==
    /\ Kind[a] \notin {"free", "openrouter_free"}
    /\ o \in (Transport \ {"connect"}) \cup Streams \cup {"408", "500", "bad_body"}

-----------------------------------------------------------------------------
Idle == [pc |-> "idle", failed |-> {}, attempt |-> 0, send_attempts |-> 0,
         retried |-> FALSE, account |-> None, view |-> << >>, late |-> FALSE,
         reply |-> "none"]

Reachable == {a \in up \ waiting : IsFree(a) => ~freeWait}

Init ==
    /\ sel = Default
    /\ cards \in Orders
    /\ up = Accounts
    /\ waiting = {}
    /\ freeWait = FALSE
    /\ req = [r \in Requests |-> Idle]
    /\ sends = [r \in Requests |-> [a \in Accounts |-> 0]]
    /\ unknown = [r \in Requests |-> {}]
    /\ steady = [r \in Requests |-> {}]

Goto(r, rec) == req' = [req EXCEPT ![r] = rec]

(* The reply ends the request.                                                *)
Done(r, reply) == [req[r] EXCEPT !.pc = "done", !.reply = reply, !.view = << >>]

(* run: preparation captured, the deadline starts.                            *)
begin(r) ==
    /\ req[r].pc = "idle"
    /\ Goto(r, [req[r] EXCEPT !.pc = "scan"])
    /\ steady' = [steady EXCEPT ![r] = Reachable]
    /\ UNCHANGED <<sel, world, sends, unknown>>

max_scans == Cardinality(Accounts) + MaxRequestAttempts

(* Top of the outer loop: the deadline and the scan limit.                    *)
out_of_budget(r) ==
    /\ req[r].pc = "scan"
    /\ req[r].late \/ req[r].attempt >= max_scans
    /\ Goto(r, Done(r, "budget"))
    /\ UNCHANGED <<sel, world, sends, unknown, steady>>

\* Mutant: the gates of a free card close every card.
candidates_mutant == [i \in DOMAIN cards |->
    [account |-> cards[i], target |-> CHOOSE t \in Targets : TRUE,
     available |-> cards[i] \in up /\ ~freeWait]]

(* The live snapshot: routes in the saved order, unauthorized or cooling      *)
(* accounts and a closed free channel marked unavailable.                     *)
Candidates == [i \in DOMAIN cards |->
    [account |-> cards[i], target |-> CHOOSE t \in Targets : TRUE,
     available |-> cards[i] \in up /\ (IsFree(cards[i]) => ~freeWait)]]

load(r) ==
    /\ req[r].pc = "scan"
    /\ ~req[r].late /\ req[r].attempt < max_scans
    /\ Goto(r, [req[r] EXCEPT !.pc = "choose", !.view = Candidates])
    /\ UNCHANGED <<sel, world, sends, unknown, steady>>

Picked(r) == select_at(sel, req[r].view, Policy, KeyOf[r], req[r].failed, 0)

(* try_select_candidate_index_at found nothing: 429 or 503.                   *)
no_candidate(r) ==
    /\ req[r].pc = "choose"
    /\ Picked(r).index = 0
    /\ sel' = Picked(r).state
    /\ Goto(r, Done(r, "no_candidate"))
    /\ UNCHANGED <<world, sends, unknown, steady>>

PickedAccount(r) == req[r].view[Picked(r).index].account

(* inspect_admission refuses the chosen account: it is logged and skipped.    *)
skip(r) ==
    /\ req[r].pc = "choose"
    /\ Picked(r).index # 0
    /\ PickedAccount(r) \in waiting
    /\ sel' = Picked(r).state
    /\ Goto(r, [req[r] EXCEPT !.pc = "scan", !.view = << >>, !.attempt = @ + 1,
                              !.failed = @ \cup {PickedAccount(r)}])
    /\ UNCHANGED <<world, sends, unknown, steady>>

choose(r) ==
    /\ req[r].pc = "choose"
    /\ Picked(r).index # 0
    /\ PickedAccount(r) \notin waiting
    /\ sel' = Picked(r).state
    /\ Goto(r, [req[r] EXCEPT !.pc = "try", !.view = << >>, !.retried = FALSE,
                              !.account = PickedAccount(r)])
    /\ UNCHANGED <<world, sends, unknown, steady>>

\* Mutant: the inner loop looks at the deadline only.
no_more_sends_mutant(r) ==
    /\ req[r].pc = "try"
    /\ req[r].late
    /\ Goto(r, Done(r, "budget"))
    /\ UNCHANGED <<sel, world, sends, unknown, steady>>

(* Top of the inner loop.                                                     *)
no_more_sends(r) ==
    /\ req[r].pc = "try"
    /\ req[r].send_attempts >= MaxRequestAttempts \/ req[r].late
    /\ Goto(r, Done(r, "budget"))
    /\ UNCHANGED <<sel, world, sends, unknown, steady>>

\* Mutant: the attempt budget is not checked before a send.
may_try_mutant(r) == req[r].pc = "try" /\ ~req[r].late

MayTry(r) ==
    /\ req[r].pc = "try"
    /\ req[r].send_attempts < MaxRequestAttempts
    /\ ~req[r].late

\* Mutant: the failed account is not remembered.
forget_mutant(rec) == [rec EXCEPT !.pc = "scan", !.account = None]

\* Mutant: only the last failed account is remembered.
last_failed_mutant(rec) == [rec EXCEPT !.pc = "scan", !.failed = {rec.account}, !.account = None]

(* Back to the outer loop with the account excluded.                          *)
Excluding(rec) == [rec EXCEPT !.pc = "scan", !.failed = @ \cup {rec.account}, !.account = None]

(* The send-time checks refuse: authorization, decryption or admission        *)
(* changed since the snapshot.  Nothing is sent.                              *)
unsent(r) ==
    /\ MayTry(r)
    /\ req[r].account \notin Reachable
    /\ Goto(r, Excluding([req[r] EXCEPT !.attempt = @ + 1]))
    /\ UNCHANGED <<sel, world, sends, unknown, steady>>

dispatch(r) ==
    /\ MayTry(r)
    /\ req[r].account \in Reachable
    /\ Goto(r, [req[r] EXCEPT !.pc = "sent", !.attempt = @ + 1])
    /\ sends' = [sends EXCEPT ![r][req[r].account] = @ + 1]
    /\ UNCHANGED <<sel, world, unknown, steady>>

(* The account state an outcome leaves behind, if the observation is still    *)
(* current: a rejected Key is marked, a 429 cools its account, a rejected     *)
(* free channel waits.                                                        *)
Marks(o, a, act) ==
    \/ UNCHANGED world
    \/ /\ act = "ExhaustFreeChannel" /\ freeWait' = TRUE
       /\ UNCHANGED <<cards, up, waiting>>
    \/ /\ classify(o, Kind[a]) = "UnauthorizedRotate" /\ up' = up \ {a}
       /\ UNCHANGED <<cards, waiting, freeWait>>
    \/ /\ act = "TryNextAccount" /\ ~IsFree(a)
       /\ \/ classify(o, Kind[a]) \in {"RateLimited", "InsufficientCredits"}
          \/ Kind[a] = "openrouter_free"
       /\ waiting' = waiting \cup {a}
       /\ UNCHANGED <<cards, up, freeWait>>

StillSteady == steady' = [q \in Requests |-> {a \in steady[q] : a \in Reachable'}]

(* forward_request_with_deadline returns.                                     *)
answer(r, o) ==
    LET a    == req[r].account
        act  == ActionFor(o, a, ~req[r].retried)
        done == [req[r] EXCEPT !.send_attempts = @ + 1]
    IN  /\ req[r].pc = "sent"
        /\ unknown' = IF Ambiguous(o, a)
                      THEN [unknown EXCEPT ![r] = @ \cup {<<a, o>>}] ELSE unknown
        /\ Marks(o, a, act)
        /\ CASE act = "Return" \/ (act = "RetrySameAccount" /\ req[r].retried) ->
                    Goto(r, [done EXCEPT !.pc = "done", !.reply = o])
             [] act = "RetrySameAccount" /\ ~req[r].retried ->
                    Goto(r, [done EXCEPT !.pc = "try", !.retried = TRUE])
             [] act \in {"TryNextAccount", "ExhaustFreeChannel"} ->
                    Goto(r, Excluding(done))
        /\ StillSteady
        /\ UNCHANGED <<sel, sends>>

(* A local error while forwarding ends the request.                           *)
forward_error(r) ==
    /\ MayTry(r)
    /\ Goto(r, Done(r, "internal"))
    /\ UNCHANGED <<sel, world, sends, unknown, steady>>

(* The request deadline passes.                                               *)
expire(r) ==
    /\ req[r].pc \notin {"idle", "done"}
    /\ ~req[r].late
    /\ Goto(r, [req[r] EXCEPT !.late = TRUE])
    /\ UNCHANGED <<sel, world, sends, unknown, steady>>

Step(r) ==
    \/ begin(r) \/ out_of_budget(r) \/ load(r)
    \/ no_candidate(r) \/ skip(r) \/ choose(r)
    \/ no_more_sends(r) \/ unsent(r) \/ dispatch(r) \/ forward_error(r)
    \/ \E o \in Outcomes : answer(r, o)

(* The operator edits accounts and card order; cooldowns and recovery waits   *)
(* begin and end.                                                             *)
Environment ==
    /\ \/ /\ \E a \in Accounts : up' \in {up \cup {a}, up \ {a}}
          /\ UNCHANGED <<cards, waiting, freeWait>>
       \/ /\ \E a \in Accounts : waiting' \in {waiting \cup {a}, waiting \ {a}}
          /\ UNCHANGED <<cards, up, freeWait>>
       \/ /\ cards' \in Orders
          /\ UNCHANGED <<up, waiting, freeWait>>
       \/ /\ freeWait' = FALSE
          /\ UNCHANGED <<cards, up, waiting>>
    /\ StillSteady
    /\ UNCHANGED <<sel, req, sends, unknown>>

Next ==
    \/ \E r \in Requests : Step(r)
    \/ \E r \in Requests : expire(r)
    \/ Environment

Fairness == \A r \in Requests : WF_vars(Step(r))

Spec == Init /\ [][Next]_vars /\ Fairness
-----------------------------------------------------------------------------
Pcs == {"idle", "scan", "choose", "try", "sent", "done"}

TypeOK ==
    /\ cards \in Orders
    /\ up \subseteq Accounts /\ waiting \subseteq Accounts /\ freeWait \in BOOLEAN
    /\ \A r \in Requests :
           /\ req[r].pc \in Pcs
           /\ req[r].failed \subseteq Accounts
           /\ req[r].attempt \in 0..(max_scans + MaxRequestAttempts)
           /\ req[r].send_attempts \in 0..MaxRequestAttempts
           /\ req[r].account \in Accounts \cup {None}
    /\ sends \in [Requests -> [Accounts -> Nat]]
    /\ unknown \in [Requests -> SUBSET (Accounts \X AllOutcomes)]
    /\ steady \in [Requests -> SUBSET Accounts]

(* Whatever the classes, the retries and the other requests do, one client    *)
(* request reaches one account twice at most, and a second time only as the   *)
(* one retry of the account it is working on.                                 *)
TwicePerAccount ==
    \A r \in Requests, a \in Accounts :
        /\ sends[r][a] <= 2
        /\ sends[r][a] = 2 /\ req[r].account = a => req[r].retried

(* "The gateway does not replay 408, 5xx, or ambiguous send/body failures":   *)
(* after an attempt on a charged account that the upstream may have executed, *)
(* other than a stream that died before any output, the request is over.      *)
AmbiguousOutcomeIsFinal ==
    \A r \in Requests : \A u \in unknown[r] :
        u[2] \notin {"interrupted", "ended_incomplete"} => req[r].pc = "done"

(* A client is told that no account is available only after every account     *)
(* that could serve during the whole request was tried: races with edits,     *)
(* cooldowns, recovery waits, reordering and other requests moving the shared *)
(* selector never make the loop pass over a healthy account.                  *)
NoReachableAccountSkipped ==
    \A r \in Requests :
        req[r].reply = "no_candidate" => \A a \in steady[r] : sends[r][a] > 0

(* An account a request gave up on is never sent that request again.          *)
GivenUpForGood ==
    [][\A r \in Requests : \A a \in req[r].failed :
          a \in req'[r].failed /\ sends'[r][a] = sends[r][a]]_vars

(* Every request is answered: the loop ends although accounts come and go     *)
(* under it for ever.                                                         *)
EveryRequestEnds == \A r \in Requests : <>(req[r].pc = "done")

(* "The upstream outcome and quota charge can still be ambiguous, so the      *)
(* retry remains bounded to the same account" (forwarder.rs): once an attempt *)
(* may have been charged, the request goes to no other account.               *)
AmbiguousStaysOnAccount ==
    [][\A r \in Requests : \A u \in unknown[r] : \A b \in Accounts \ {u[1]} :
          sends'[r][b] = sends[r][b]]_vars
=============================================================================
