--------------------------- MODULE ExecutorProofs ---------------------------
(***************************************************************************)
(* What the executor's loop never does, for every set of accounts, every   *)
(* number of concurrent requests, every policy and every budget.           *)
(***************************************************************************)
EXTENDS Executor, SelectorProofs, TLAPS

-----------------------------------------------------------------------------
(* The inductive invariant.  TwicePerAccount is not inductive: the retry flag *)
(* is cleared when the next account is chosen, so the bound also needs that   *)
(* every account sent to is the current one or excluded, that the current one *)
(* is not excluded while it is tried, and how many attempts the flag stands   *)
(* for.                                                                       *)

Replies == {"none", "budget", "no_candidate", "internal"} \cup AllOutcomes

LoopState == [pc : Pcs, failed : SUBSET Accounts, attempt : Nat, send_attempts : Nat,
              retried : BOOLEAN, account : Accounts \cup {None}, view : Seq(Candidate),
              late : BOOLEAN, reply : Replies]

Attempts(q) == IF q.retried THEN 1 ELSE 0

(* A request in state q that sent s[a] attempts to account a.                 *)
Fine(q, s) ==
  /\ q.pc \in {"idle", "scan", "choose"} => q.account = None
  /\ q.pc \in {"try", "sent"} => q.account \in Accounts /\ q.account \notin q.failed
  /\ q.pc = "try" => s[q.account] = Attempts(q)
  /\ q.pc = "sent" => s[q.account] = Attempts(q) + 1
  /\ \A a \in Accounts : s[a] > 0 => a \in q.failed \/ q.account = a
  /\ \A a \in Accounts : s[a] <= 2 /\ (s[a] = 2 /\ q.account = a => q.retried)

ExecutorInv ==
  /\ cards \in Orders
  /\ req \in [Requests -> LoopState]
  /\ sends \in [Requests -> [Accounts -> Nat]]
  /\ \A r \in Requests : Fine(req[r], sends[r])

LEMMA NoneIsNoAccount == None \notin Accounts
BY SelectorAssumption

LEMMA CandidatesAreTyped == cards \in Orders => Candidates \in Seq(Candidate)
<1> SUFFICES ASSUME cards \in Orders PROVE Candidates \in Seq(Candidate)
  OBVIOUS
<1>1. cards \in Seq(Accounts)
  BY ExecutorAssumption
<1>2. (CHOOSE t \in Targets : TRUE) \in Targets
  BY ExecutorAssumption, Zenon
<1>3. \A i \in DOMAIN cards : Candidates[i] \in Candidate
  <2> SUFFICES ASSUME NEW i \in DOMAIN cards PROVE Candidates[i] \in Candidate
    OBVIOUS
  <2>1. cards[i] \in Accounts
    BY <1>1
  <2> DEFINE open == cards[i] \in up /\ (IsFree(cards[i]) => ~freeWait)
             some == CHOOSE t \in Targets : TRUE
  <2>2. open \in BOOLEAN /\ some \in Targets
    BY <1>2
  <2>3. Candidates[i] = [account |-> cards[i], target |-> some, available |-> open]
    BY Zenon DEF Candidates
  <2> HIDE DEF open, some
  <2>4. [account |-> cards[i], target |-> some, available |-> open] \in Candidate
    BY <2>1, <2>2, Zenon DEF Candidate
  <2> QED BY <2>3, <2>4, Zenon
<1>4. Len(cards) \in Nat /\ DOMAIN cards = 1..Len(cards)
  BY <1>1
<1>5. Candidates \in [1..Len(cards) -> Candidate]
  <2>1. Candidates = [i \in 1..Len(cards) |-> Candidates[i]]
    BY <1>4, Zenon DEF Candidates
  <2> QED BY <2>1, <1>3, <1>4, Zenon
<1> QED BY <1>4, <1>5

LEMMA PickedIsFresh ==
  \A r \in Requests : ExecutorInv /\ Picked(r).index # 0 =>
      PickedAccount(r) \in Accounts \ req[r].failed
<1> SUFFICES ASSUME NEW r \in Requests, ExecutorInv, Picked(r).index # 0
             PROVE  PickedAccount(r) \in Accounts \ req[r].failed
  OBVIOUS
<1>1. PICK v \in Seq(Candidate), f \in SUBSET Accounts : v = req[r].view /\ f = req[r].failed
  BY DEF ExecutorInv, LoopState
<1>2. PICK i : i = Picked(r).index
  OBVIOUS
<1>3. PICK s : s = sel
  OBVIOUS
<1>4. PICK k : k = KeyOf[r]
  OBVIOUS
<1>5. i = select_at(s, v, Policy, k, f, 0).index /\ Policy \in Policies
  BY <1>1, <1>2, <1>3, <1>4, ExecutorAssumption DEF Picked
<1>6. i \in Selectable(v, f)
  BY <1>2, <1>5, SelectAtSelects
<1>7. i \in DOMAIN v /\ v[i].account \notin f
  BY <1>6 DEF Selectable, IsSelectable
<1>8. v[i] \in Candidate
  BY <1>7
<1> QED BY <1>1, <1>2, <1>7, <1>8 DEF PickedAccount, Candidate
-----------------------------------------------------------------------------
(* Each step keeps the invariant.  All but dispatch change one request and    *)
(* no count.                                                                  *)

LEMMA EmptyView == << >> \in Seq(Candidate)
OBVIOUS

LEMMA DoneIsTyped ==
  \A q \in LoopState, v \in Seq(Candidate), y \in Replies :
      [q EXCEPT !.pc = "done", !.reply = y, !.view = v] \in LoopState
BY DEF LoopState, Pcs

LEMMA SkippedIsTyped ==
  \A q \in LoopState, v \in Seq(Candidate), n \in Nat, f \in SUBSET Accounts :
      [q EXCEPT !.pc = "scan", !.view = v, !.attempt = n, !.failed = f] \in LoopState
BY DEF LoopState, Pcs

LEMMA ChosenIsTyped ==
  \A q \in LoopState, v \in Seq(Candidate), b \in BOOLEAN, a \in Accounts :
      [q EXCEPT !.pc = "try", !.view = v, !.retried = b, !.account = a] \in LoopState
BY DEF LoopState, Pcs

LEMMA SentIsTyped ==
  \A q \in LoopState, n \in Nat : [q EXCEPT !.pc = "sent", !.attempt = n] \in LoopState
BY DEF LoopState, Pcs

LEMMA CountedIsTyped ==
  \A q \in LoopState, n \in Nat : [q EXCEPT !.send_attempts = n] \in LoopState
BY DEF LoopState

LEMMA ExcludedIsTyped ==
  \A q \in LoopState, f \in SUBSET Accounts :
      [q EXCEPT !.pc = "scan", !.failed = f, !.account = None] \in LoopState
BY DEF LoopState, Pcs

LEMMA ExcludingIsTyped ==
  \A q \in LoopState : q.account \in Accounts => Excluding(q) \in LoopState
<1> SUFFICES ASSUME NEW q \in LoopState, q.account \in Accounts PROVE Excluding(q) \in LoopState
  OBVIOUS
<1>1. q.failed \cup {q.account} \in SUBSET Accounts
  BY DEF LoopState
<1>2. Excluding(q) = [q EXCEPT !.pc = "scan", !.failed = q.failed \cup {q.account},
                               !.account = None]
  BY DEF Excluding
<1> QED BY <1>1, <1>2, ExcludedIsTyped, Zenon

LEMMA RequestMoves ==
  \A r \in Requests : \A rec \in LoopState :
      ExecutorInv /\ Goto(r, rec) /\ Fine(rec, sends[r]) /\ UNCHANGED <<cards, sends>>
      => ExecutorInv'
<1> SUFFICES ASSUME NEW r \in Requests, NEW rec \in LoopState, ExecutorInv, Goto(r, rec),
                    Fine(rec, sends[r]), UNCHANGED <<cards, sends>>
             PROVE  ExecutorInv'
  OBVIOUS
<1>1. req' \in [Requests -> LoopState] /\ req'[r] = rec
  BY DEF ExecutorInv, Goto
<1>2. \A q \in Requests : q # r => req'[q] = req[q]
  BY DEF ExecutorInv, Goto
<1>3. ASSUME NEW q \in Requests PROVE Fine(req'[q], sends'[q])
  <2>1. CASE q = r
    BY <2>1, <1>1
  <2>2. CASE q # r
    <3>1. Fine(req[q], sends[q]) /\ req'[q] = req[q] /\ sends'[q] = sends[q]
      BY <2>2, <1>2 DEF ExecutorInv
    <3> QED BY <3>1
  <2> QED BY <2>1, <2>2
<1> QED BY <1>1, <1>3, Zenon DEF ExecutorInv

LEMMA BeginKeeps == \A r \in Requests : ExecutorInv /\ begin(r) => ExecutorInv'
<1> SUFFICES ASSUME NEW r \in Requests, ExecutorInv, begin(r) PROVE ExecutorInv'
  OBVIOUS
<1>1. PICK q \in LoopState, s \in [Accounts -> Nat] :
        q = req[r] /\ s = sends[r] /\ Fine(q, s)
  BY DEF ExecutorInv
<1> DEFINE rec == [q EXCEPT !.pc = "scan"]
<1>3. rec \in LoopState
  BY DEF LoopState, Pcs
<1>4. Fine(rec, s)
  BY <1>1, NoneIsNoAccount DEF LoopState, Fine, Attempts, begin
<1>5. Goto(r, rec) /\ UNCHANGED <<cards, sends>>
  BY <1>1 DEF begin, world
<1> HIDE DEF rec
<1> QED BY <1>1, <1>3, <1>4, <1>5, RequestMoves

LEMMA OutOfBudgetKeeps == \A r \in Requests : ExecutorInv /\ out_of_budget(r) => ExecutorInv'
<1> SUFFICES ASSUME NEW r \in Requests, ExecutorInv, out_of_budget(r) PROVE ExecutorInv'
  OBVIOUS
<1>1. PICK q \in LoopState, s \in [Accounts -> Nat] :
        q = req[r] /\ s = sends[r] /\ Fine(q, s)
  BY DEF ExecutorInv
<1> DEFINE rec == [q EXCEPT !.pc = "done", !.reply = "budget", !.view = << >>]
<1>3. rec \in LoopState
  <2>1. "budget" \in Replies
    BY DEF Replies
  <2> QED BY <2>1, EmptyView, DoneIsTyped, Zenon
<1>4. Fine(rec, s)
  BY <1>1, NoneIsNoAccount DEF LoopState, Fine, Attempts, out_of_budget
<1>5. Goto(r, rec) /\ UNCHANGED <<cards, sends>>
  BY <1>1 DEF out_of_budget, world, Done
<1> HIDE DEF rec
<1> QED BY <1>1, <1>3, <1>4, <1>5, RequestMoves

LEMMA LoadKeeps == \A r \in Requests : ExecutorInv /\ load(r) => ExecutorInv'
<1> SUFFICES ASSUME NEW r \in Requests, ExecutorInv, load(r) PROVE ExecutorInv'
  OBVIOUS
<1>1. PICK q \in LoopState, s \in [Accounts -> Nat] :
        q = req[r] /\ s = sends[r] /\ Fine(q, s)
  BY DEF ExecutorInv
<1>2. PICK new \in Seq(Candidate) : new = Candidates
  BY CandidatesAreTyped DEF ExecutorInv
<1> DEFINE rec == [q EXCEPT !.pc = "choose", !.view = new]
<1>3. rec \in LoopState
  BY DEF LoopState, Pcs
<1>4. Fine(rec, s)
  BY <1>1, NoneIsNoAccount DEF LoopState, Fine, Attempts, load
<1>5. Goto(r, rec) /\ UNCHANGED <<cards, sends>>
  BY <1>1, <1>2 DEF load, world
<1> HIDE DEF rec
<1> QED BY <1>1, <1>3, <1>4, <1>5, RequestMoves

LEMMA NoCandidateKeeps == \A r \in Requests : ExecutorInv /\ no_candidate(r) => ExecutorInv'
<1> SUFFICES ASSUME NEW r \in Requests, ExecutorInv, no_candidate(r) PROVE ExecutorInv'
  OBVIOUS
<1>1. PICK q \in LoopState, s \in [Accounts -> Nat] :
        q = req[r] /\ s = sends[r] /\ Fine(q, s)
  BY DEF ExecutorInv
<1> DEFINE rec == [q EXCEPT !.pc = "done", !.reply = "no_candidate", !.view = << >>]
<1>3. rec \in LoopState
  <2>1. "no_candidate" \in Replies
    BY DEF Replies
  <2> QED BY <2>1, EmptyView, DoneIsTyped, Zenon
<1>4. Fine(rec, s)
  BY <1>1, NoneIsNoAccount DEF LoopState, Fine, Attempts, no_candidate
<1>5. Goto(r, rec) /\ UNCHANGED <<cards, sends>>
  BY <1>1 DEF no_candidate, world, Done
<1> HIDE DEF rec
<1> QED BY <1>1, <1>3, <1>4, <1>5, RequestMoves

LEMMA SkipKeeps == \A r \in Requests : ExecutorInv /\ skip(r) => ExecutorInv'
<1> SUFFICES ASSUME NEW r \in Requests, ExecutorInv, skip(r) PROVE ExecutorInv'
  OBVIOUS
<1>1. PICK q \in LoopState, s \in [Accounts -> Nat] :
        q = req[r] /\ s = sends[r] /\ Fine(q, s)
  BY DEF ExecutorInv
<1>2. PICK new \in Accounts \ q.failed : new = PickedAccount(r)
  BY <1>1, PickedIsFresh DEF skip
<1> DEFINE rec == [q EXCEPT !.pc = "scan", !.view = << >>, !.attempt = @ + 1,
                              !.failed = @ \cup {new}]
<1>3. rec \in LoopState
  <2>1. q.failed \cup {new} \in SUBSET Accounts /\ q.attempt + 1 \in Nat
    BY DEF LoopState
  <2>2. rec = [q EXCEPT !.pc = "scan", !.view = << >>, !.attempt = q.attempt + 1,
                        !.failed = q.failed \cup {new}]
    OBVIOUS
  <2> QED BY <2>1, <2>2, EmptyView, SkippedIsTyped, Zenon
<1>4. Fine(rec, s)
  BY <1>1, NoneIsNoAccount DEF LoopState, Fine, Attempts, skip
<1>5. Goto(r, rec) /\ UNCHANGED <<cards, sends>>
  BY <1>1, <1>2 DEF skip, world
<1> HIDE DEF rec
<1> QED BY <1>1, <1>3, <1>4, <1>5, RequestMoves

LEMMA ChooseKeeps == \A r \in Requests : ExecutorInv /\ choose(r) => ExecutorInv'
<1> SUFFICES ASSUME NEW r \in Requests, ExecutorInv, choose(r) PROVE ExecutorInv'
  OBVIOUS
<1>1. PICK q \in LoopState, s \in [Accounts -> Nat] :
        q = req[r] /\ s = sends[r] /\ Fine(q, s)
  BY DEF ExecutorInv
<1>2. PICK new \in Accounts \ q.failed : new = PickedAccount(r)
  BY <1>1, PickedIsFresh DEF choose
<1> DEFINE rec == [q EXCEPT !.pc = "try", !.view = << >>, !.retried = FALSE,
                              !.account = new]
<1>3. rec \in LoopState
  BY EmptyView, ChosenIsTyped
<1>4. Fine(rec, s)
  BY <1>1, NoneIsNoAccount DEF LoopState, Fine, Attempts, choose
<1>5. Goto(r, rec) /\ UNCHANGED <<cards, sends>>
  BY <1>1, <1>2 DEF choose, world
<1> HIDE DEF rec
<1> QED BY <1>1, <1>3, <1>4, <1>5, RequestMoves

LEMMA NoMoreSendsKeeps == \A r \in Requests : ExecutorInv /\ no_more_sends(r) => ExecutorInv'
<1> SUFFICES ASSUME NEW r \in Requests, ExecutorInv, no_more_sends(r) PROVE ExecutorInv'
  OBVIOUS
<1>1. PICK q \in LoopState, s \in [Accounts -> Nat] :
        q = req[r] /\ s = sends[r] /\ Fine(q, s)
  BY DEF ExecutorInv
<1> DEFINE rec == [q EXCEPT !.pc = "done", !.reply = "budget", !.view = << >>]
<1>3. rec \in LoopState
  <2>1. "budget" \in Replies
    BY DEF Replies
  <2> QED BY <2>1, EmptyView, DoneIsTyped, Zenon
<1>4. Fine(rec, s)
  BY <1>1, NoneIsNoAccount DEF LoopState, Fine, Attempts, no_more_sends
<1>5. Goto(r, rec) /\ UNCHANGED <<cards, sends>>
  BY <1>1 DEF no_more_sends, world, Done
<1> HIDE DEF rec
<1> QED BY <1>1, <1>3, <1>4, <1>5, RequestMoves

LEMMA UnsentKeeps == \A r \in Requests : ExecutorInv /\ unsent(r) => ExecutorInv'
<1> SUFFICES ASSUME NEW r \in Requests, ExecutorInv, unsent(r) PROVE ExecutorInv'
  OBVIOUS
<1>1. PICK q \in LoopState, s \in [Accounts -> Nat] :
        q = req[r] /\ s = sends[r] /\ Fine(q, s)
  BY DEF ExecutorInv
<1> DEFINE rec == Excluding([q EXCEPT !.attempt = @ + 1])
<1>3. rec \in LoopState
  <2>1. [q EXCEPT !.attempt = @ + 1] \in LoopState /\ q.account \in Accounts
    BY <1>1 DEF LoopState, Fine, unsent, MayTry
  <2>2. [q EXCEPT !.attempt = @ + 1].account = q.account
    BY DEF LoopState
  <2> QED BY <2>1, <2>2, ExcludingIsTyped
<1>4. Fine(rec, s)
  BY <1>1, NoneIsNoAccount DEF LoopState, Fine, Attempts, unsent, MayTry, Excluding
<1>5. Goto(r, rec) /\ UNCHANGED <<cards, sends>>
  BY <1>1 DEF unsent, world, MayTry
<1> HIDE DEF rec
<1> QED BY <1>1, <1>3, <1>4, <1>5, RequestMoves

LEMMA ForwardErrorKeeps == \A r \in Requests : ExecutorInv /\ forward_error(r) => ExecutorInv'
<1> SUFFICES ASSUME NEW r \in Requests, ExecutorInv, forward_error(r) PROVE ExecutorInv'
  OBVIOUS
<1>1. PICK q \in LoopState, s \in [Accounts -> Nat] :
        q = req[r] /\ s = sends[r] /\ Fine(q, s)
  BY DEF ExecutorInv
<1> DEFINE rec == [q EXCEPT !.pc = "done", !.reply = "internal", !.view = << >>]
<1>3. rec \in LoopState
  <2>1. "internal" \in Replies
    BY DEF Replies
  <2> QED BY <2>1, EmptyView, DoneIsTyped, Zenon
<1>4. Fine(rec, s)
  BY <1>1, NoneIsNoAccount DEF LoopState, Fine, Attempts, forward_error, MayTry
<1>5. Goto(r, rec) /\ UNCHANGED <<cards, sends>>
  BY <1>1 DEF forward_error, world, MayTry, Done
<1> HIDE DEF rec
<1> QED BY <1>1, <1>3, <1>4, <1>5, RequestMoves

LEMMA ExpireKeeps == \A r \in Requests : ExecutorInv /\ expire(r) => ExecutorInv'
<1> SUFFICES ASSUME NEW r \in Requests, ExecutorInv, expire(r) PROVE ExecutorInv'
  OBVIOUS
<1>1. PICK q \in LoopState, s \in [Accounts -> Nat] :
        q = req[r] /\ s = sends[r] /\ Fine(q, s)
  BY DEF ExecutorInv
<1> DEFINE rec == [q EXCEPT !.late = TRUE]
<1>3. rec \in LoopState
  BY DEF LoopState, Pcs
<1>4. Fine(rec, s)
  BY <1>1, NoneIsNoAccount DEF LoopState, Fine, Attempts, expire
<1>5. Goto(r, rec) /\ UNCHANGED <<cards, sends>>
  BY <1>1 DEF expire, world
<1> HIDE DEF rec
<1> QED BY <1>1, <1>3, <1>4, <1>5, RequestMoves

LEMMA DispatchKeeps == \A r \in Requests : ExecutorInv /\ dispatch(r) => ExecutorInv'
<1> SUFFICES ASSUME NEW r \in Requests, ExecutorInv, dispatch(r) PROVE ExecutorInv'
  OBVIOUS
<1>1. PICK q \in LoopState, s \in [Accounts -> Nat] :
        q = req[r] /\ s = sends[r] /\ Fine(q, s)
  BY DEF ExecutorInv
<1> DEFINE rec == [q EXCEPT !.pc = "sent", !.attempt = @ + 1]
           cnt == [s EXCEPT ![q.account] = @ + 1]
<1>2. q.pc = "try" /\ q.account \in Accounts
  BY <1>1 DEF dispatch, MayTry, Fine
<1>3. rec \in LoopState /\ cnt \in [Accounts -> Nat]
  <2>1. q.attempt + 1 \in Nat
    BY DEF LoopState
  <2>2. rec \in LoopState
    BY <2>1, SentIsTyped
  <2> QED BY <1>2, <2>2
<1>4. Fine(rec, cnt)
  BY <1>1, <1>2, NoneIsNoAccount DEF LoopState, Fine, Attempts
<1>5. req' = [req EXCEPT ![r] = rec] /\ sends' = [sends EXCEPT ![r] = cnt] /\ cards' = cards
  BY <1>1 DEF dispatch, Goto, world, ExecutorInv
<1> HIDE DEF rec, cnt
<1>6. req' \in [Requests -> LoopState] /\ sends' \in [Requests -> [Accounts -> Nat]]
  BY <1>3, <1>5 DEF ExecutorInv
<1>7. ASSUME NEW u \in Requests PROVE Fine(req'[u], sends'[u])
  <2>1. CASE u = r
    <3>1. req'[u] = rec /\ sends'[u] = cnt
      BY <2>1, <1>5 DEF ExecutorInv
    <3> QED BY <3>1, <1>4
  <2>2. CASE u # r
    <3>1. req'[u] = req[u] /\ sends'[u] = sends[u] /\ Fine(req[u], sends[u])
      BY <2>2, <1>5 DEF ExecutorInv
    <3> QED BY <3>1
  <2> QED BY <2>1, <2>2
<1> QED BY <1>5, <1>6, <1>7 DEF ExecutorInv

LEMMA ActionIsOneOfFour ==
  \A o, a, allow : ActionFor(o, a, allow)
      \in {"Return", "RetrySameAccount", "TryNextAccount", "ExhaustFreeChannel"}
BY DEF ActionFor, forward_action_for_class

(* What an answer makes of the request: it ends, it retries, or it goes on    *)
(* without the account.                                                       *)
LEMMA AnswerMoves ==
  \A r \in Requests, o \in Outcomes : ExecutorInv /\ answer(r, o) =>
    LET done == [req[r] EXCEPT !.send_attempts = @ + 1]
    IN  /\ req[r].pc = "sent" /\ UNCHANGED <<cards, sends, sel>>
        /\ \/ Goto(r, [done EXCEPT !.pc = "done", !.reply = o])
           \/ ~req[r].retried /\ Goto(r, [done EXCEPT !.pc = "try", !.retried = TRUE])
           \/ Goto(r, Excluding(done))
<1> SUFFICES ASSUME NEW r \in Requests, NEW o \in Outcomes, ExecutorInv, answer(r, o)
             PROVE  LET done == [req[r] EXCEPT !.send_attempts = @ + 1]
                    IN  /\ req[r].pc = "sent" /\ UNCHANGED <<cards, sends, sel>>
                        /\ \/ Goto(r, [done EXCEPT !.pc = "done", !.reply = o])
                           \/ ~req[r].retried
                              /\ Goto(r, [done EXCEPT !.pc = "try", !.retried = TRUE])
                           \/ Goto(r, Excluding(done))
  OBVIOUS
<1> DEFINE act == ActionFor(o, req[r].account, ~req[r].retried)
<1>1. act \in {"Return", "RetrySameAccount", "TryNextAccount", "ExhaustFreeChannel"}
  BY ActionIsOneOfFour, Zenon
<1> HIDE DEF act
<1>2. cards' = cards
  BY DEF answer, Marks, world
<1>3. CASE act = "Return" \/ (act = "RetrySameAccount" /\ req[r].retried)
  BY <1>2, <1>3 DEF answer, act
<1>4. CASE act = "RetrySameAccount" /\ ~req[r].retried
  BY <1>2, <1>4 DEF answer, act
<1>5. CASE act \in {"TryNextAccount", "ExhaustFreeChannel"}
  BY <1>2, <1>5 DEF answer, act
<1> QED BY <1>1, <1>3, <1>4, <1>5

LEMMA AnswerKeeps ==
  \A r \in Requests, o \in Outcomes : ExecutorInv /\ answer(r, o) => ExecutorInv'
<1> SUFFICES ASSUME NEW r \in Requests, NEW o \in Outcomes, ExecutorInv, answer(r, o)
             PROVE  ExecutorInv'
  OBVIOUS
<1>1. PICK q \in LoopState, s \in [Accounts -> Nat] :
        q = req[r] /\ s = sends[r] /\ Fine(q, s)
  BY DEF ExecutorInv
<1>2. PICK done \in LoopState : done = [q EXCEPT !.send_attempts = @ + 1]
  <2>1. q.send_attempts + 1 \in Nat
    BY DEF LoopState
  <2> QED BY <2>1, CountedIsTyped
<1>3. q.pc = "sent" /\ UNCHANGED <<cards, sends>>
  BY <1>1, AnswerMoves
<1>4. done.pc = "sent" /\ Fine(done, s) /\ done.retried = q.retried
  BY <1>1, <1>2, <1>3 DEF LoopState, Fine, Attempts
<1>5. done.account \in Accounts
  BY <1>4 DEF Fine
<1>6. CASE Goto(r, [done EXCEPT !.pc = "done", !.reply = o])
  <2>1. o \in Replies
    BY ExecutorAssumption DEF Replies
  <2>2. [done EXCEPT !.pc = "done", !.reply = o] \in LoopState
    BY <2>1 DEF LoopState, Pcs
  <2>3. Fine([done EXCEPT !.pc = "done", !.reply = o], s)
    BY <1>4, NoneIsNoAccount DEF LoopState, Fine, Attempts
  <2> QED BY <1>1, <1>3, <1>6, <2>2, <2>3, RequestMoves
<1>7. CASE ~q.retried /\ Goto(r, [done EXCEPT !.pc = "try", !.retried = TRUE])
  <2>1. [done EXCEPT !.pc = "try", !.retried = TRUE] \in LoopState
    BY DEF LoopState, Pcs
  <2>2. Fine([done EXCEPT !.pc = "try", !.retried = TRUE], s)
    BY <1>4, <1>7, NoneIsNoAccount DEF LoopState, Fine, Attempts
  <2> QED BY <1>1, <1>3, <1>7, <2>1, <2>2, RequestMoves
<1>8. CASE Goto(r, Excluding(done))
  <2>1. Excluding(done) \in LoopState
    BY <1>5, ExcludingIsTyped
  <2>2. Fine(Excluding(done), s)
    BY <1>4, <1>5, NoneIsNoAccount DEF LoopState, Fine, Attempts, Excluding
  <2> QED BY <1>1, <1>3, <1>8, <2>1, <2>2, RequestMoves
<1> QED BY <1>1, <1>2, <1>6, <1>7, <1>8, AnswerMoves

LEMMA EnvironmentKeeps == ExecutorInv /\ Environment => ExecutorInv'
<1> SUFFICES ASSUME ExecutorInv, Environment PROVE ExecutorInv'
  OBVIOUS
<1>1. cards' \in Orders /\ UNCHANGED <<req, sends>>
  BY DEF Environment, ExecutorInv
<1> QED BY <1>1 DEF ExecutorInv

LEMMA ExecutorStep == ExecutorInv /\ [Next]_vars => ExecutorInv'
<1> SUFFICES ASSUME ExecutorInv, [Next]_vars PROVE ExecutorInv'
  OBVIOUS
<1>1. CASE \E r \in Requests : Step(r)
  <2>1. PICK r \in Requests : Step(r)
    BY <1>1
  <2> QED BY <2>1, BeginKeeps, OutOfBudgetKeeps, LoadKeeps, NoCandidateKeeps, SkipKeeps,
             ChooseKeeps, NoMoreSendsKeeps, UnsentKeeps, DispatchKeeps, ForwardErrorKeeps,
             AnswerKeeps DEF Step
<1>2. CASE \E r \in Requests : expire(r)
  BY <1>2, ExpireKeeps
<1>3. CASE Environment
  BY <1>3, EnvironmentKeeps
<1>4. CASE UNCHANGED vars
  BY <1>4 DEF vars, ExecutorInv
<1> QED BY <1>1, <1>2, <1>3, <1>4 DEF Next

LEMMA ExecutorInit == Init => ExecutorInv
<1> SUFFICES ASSUME Init PROVE ExecutorInv
  OBVIOUS
<1>1. Idle \in LoopState
  BY EmptyView DEF Idle, LoopState, Pcs, Replies
<1>2. req = [r \in Requests |-> Idle] /\ sends = [r \in Requests |-> [a \in Accounts |-> 0]]
      /\ cards \in Orders
  BY DEF Init
<1>3. Fine(Idle, [a \in Accounts |-> 0])
  BY DEF Idle, Fine
<1> QED BY <1>1, <1>2, <1>3 DEF ExecutorInv

(* The loop's invariant holds of every reachable state. *)
THEOREM ExecutorInvariant == Spec => []ExecutorInv
BY ExecutorInit, ExecutorStep, PTL DEF Spec

(* One client request reaches one account at most twice, the second time as   *)
(* the one same-account retry of run: for any number of requests sharing the  *)
(* selector, any classes of outcomes and any edits under the loop.            *)
THEOREM TwiceAtMost == Spec => []TwicePerAccount
<1>1. ExecutorInv => TwicePerAccount
  BY DEF ExecutorInv, Fine, TwicePerAccount
<1> QED BY <1>1, ExecutorInvariant, PTL

-----------------------------------------------------------------------------
(* A step works on one unfinished request, which forgets no failed account.   *)

Advances(r) ==
  /\ req[r].pc # "done"
  /\ \A u \in Requests : u # r => req'[u] = req[u]
  /\ req[r].failed \subseteq req'[r].failed

LEMMA GotoAdvances ==
  \A r \in Requests : \A rec :
      ExecutorInv /\ Goto(r, rec) /\ req[r].pc # "done" /\ req[r].failed \subseteq rec.failed
      => Advances(r) /\ req'[r] = rec
BY DEF ExecutorInv, Goto, Advances

LEMMA StepAdvances ==
  \A r \in Requests : ExecutorInv /\ (Step(r) \/ expire(r)) => Advances(r)
<1> SUFFICES ASSUME NEW r \in Requests, ExecutorInv, Step(r) \/ expire(r) PROVE Advances(r)
  OBVIOUS
<1>0. req[r] \in LoopState /\ req \in [Requests -> LoopState]
  BY DEF ExecutorInv
<1>1. CASE begin(r)
  BY <1>0, <1>1 DEF begin, Goto, Advances, LoopState
<1>2. CASE out_of_budget(r)
  BY <1>0, <1>2 DEF out_of_budget, Goto, Advances, LoopState, Done
<1>3. CASE load(r)
  BY <1>0, <1>3 DEF load, Goto, Advances, LoopState
<1>4. CASE no_candidate(r)
  BY <1>0, <1>4 DEF no_candidate, Goto, Advances, LoopState, Done
<1>5. CASE skip(r)
  BY <1>0, <1>5 DEF skip, Goto, Advances, LoopState
<1>6. CASE choose(r)
  BY <1>0, <1>6 DEF choose, Goto, Advances, LoopState
<1>7. CASE no_more_sends(r)
  BY <1>0, <1>7 DEF no_more_sends, Goto, Advances, LoopState, Done
<1>8. CASE unsent(r)
  BY <1>0, <1>8 DEF unsent, Goto, Advances, LoopState, MayTry, Excluding
<1>9. CASE dispatch(r)
  BY <1>0, <1>9 DEF dispatch, Goto, Advances, LoopState, MayTry
<1>10. CASE forward_error(r)
  BY <1>0, <1>10 DEF forward_error, Goto, Advances, LoopState, MayTry, Done
<1>11. CASE expire(r)
  BY <1>0, <1>11 DEF expire, Goto, Advances, LoopState
<1>12. CASE \E o \in Outcomes : answer(r, o)
  <2>1. PICK o \in Outcomes : answer(r, o)
    BY <1>12
  <2>2. PICK q \in LoopState : q = req[r]
    BY <1>0
  <2> DEFINE done == [q EXCEPT !.send_attempts = @ + 1]
  <2>3. /\ q.pc = "sent"
        /\ \/ Goto(r, [done EXCEPT !.pc = "done", !.reply = o])
           \/ Goto(r, [done EXCEPT !.pc = "try", !.retried = TRUE])
           \/ Goto(r, Excluding(done))
    BY <2>1, <2>2, AnswerMoves
  <2>4. /\ q.failed \subseteq [done EXCEPT !.pc = "done", !.reply = o].failed
        /\ q.failed \subseteq [done EXCEPT !.pc = "try", !.retried = TRUE].failed
        /\ q.failed \subseteq Excluding(done).failed
    BY DEF LoopState, Excluding
  <2> HIDE DEF done
  <2> QED BY <2>2, <2>3, <2>4, GotoAdvances
<1> QED BY <1>1, <1>2, <1>3, <1>4, <1>5, <1>6, <1>7, <1>8, <1>9, <1>10, <1>11, <1>12 DEF Step

LEMMA SendsMove ==
  \A r \in Requests : ExecutorInv /\ (Step(r) \/ expire(r)) =>
      UNCHANGED sends \/ dispatch(r)
<1> SUFFICES ASSUME NEW r \in Requests, ExecutorInv, Step(r) \/ expire(r)
             PROVE  UNCHANGED sends \/ dispatch(r)
  OBVIOUS
<1>1. CASE \E o \in Outcomes : answer(r, o)
  BY <1>1, AnswerMoves
<1> QED BY <1>1 DEF Step, expire, begin, out_of_budget, load, no_candidate, skip, choose,
                    no_more_sends, unsent, forward_error

(* GivenUpForGood: a request that gave up on an account (it waited, its       *)
(* checks refused, or its answer sent the loop on) never sends to it again,   *)
(* whatever the shared selector, the card order and the bindings become.      *)
THEOREM GivenUpIsFinal == Spec => GivenUpForGood
<1> DEFINE A == \A r \in Requests : \A a \in req[r].failed :
                   a \in req'[r].failed /\ sends'[r][a] = sends[r][a]
<1>1. ExecutorInv /\ [Next]_vars => [A]_vars
  <2> SUFFICES ASSUME ExecutorInv, Next PROVE A
    OBVIOUS
  <2>1. CASE Environment
    BY <2>1 DEF Environment
  <2>2. ASSUME NEW r \in Requests, Step(r) \/ expire(r) PROVE A
    <3>1. Advances(r) /\ (UNCHANGED sends \/ dispatch(r))
      BY <2>2, StepAdvances, SendsMove
    <3>2. ASSUME NEW u \in Requests, NEW a \in req[u].failed
          PROVE  a \in req'[u].failed /\ sends'[u][a] = sends[u][a]
      <4>1. a \in req'[u].failed
        BY <3>1, <3>2 DEF Advances
      <4>2. CASE UNCHANGED sends
        BY <4>1, <4>2
      <4>3. CASE dispatch(r)
        <5>1. /\ req[r].account \in Accounts /\ req[r].account \notin req[r].failed
              /\ a \in Accounts
          BY <4>3 DEF ExecutorInv, Fine, dispatch, MayTry, LoopState
        <5>2. sends' = [sends EXCEPT ![r][req[r].account] = @ + 1]
          BY <4>3 DEF dispatch
        <5>3. sends'[u][a] = sends[u][a]
          BY <5>1, <5>2, <3>2 DEF ExecutorInv
        <5> QED BY <4>1, <5>3
      <4> QED BY <4>2, <4>3, <3>1
    <3> QED BY <3>2
  <2> QED BY <2>1, <2>2 DEF Next
<1> QED BY <1>1, ExecutorInvariant, PTL DEF Spec, GivenUpForGood

-----------------------------------------------------------------------------
(* An ambiguous outcome on a charged account ends the request.                *)

LEMMA AmbiguousReturns ==
  \A o \in AllOutcomes, a \in Accounts : \A allow :
      Ambiguous(o, a) /\ o \notin {"interrupted", "ended_incomplete"}
      => ActionFor(o, a, allow) = "Return"
<1> SUFFICES ASSUME NEW o \in AllOutcomes, NEW a \in Accounts, NEW allow,
                    Ambiguous(o, a), o \notin {"interrupted", "ended_incomplete"}
             PROVE  ActionFor(o, a, allow) = "Return"
  OBVIOUS
<1>1. PICK k \in AccountKinds : k = Kind[a] /\ k \notin {"free", "openrouter_free"}
  BY ExecutorAssumption DEF Ambiguous
<1>2. o \in {"send_timeout", "header_timeout", "body_timeout", "other_send", "conversion_failed",
             "idle", "after_output", "408", "500", "bad_body"}
  BY DEF Ambiguous, Transport, Streams
<1>3. classify(o, k) \in {"OutcomeUnknown", "StreamNoReplay", "HttpRequestTimeout",
                          "ServerError", "Answered"}
  BY <1>1, <1>2 DEF classify, classify_transport, classify_stream, classify_http_response,
                    Transport, Streams, Statuses
<1>4. forward_action_for_class(classify(o, k), allow) = "Return"
  BY <1>3 DEF forward_action_for_class, same_account_retry_eligible
<1> QED BY <1>1, <1>2, <1>4 DEF ActionFor

UnknownInv ==
  /\ unknown \in [Requests -> SUBSET (Accounts \X AllOutcomes)]
  /\ AmbiguousOutcomeIsFinal

LEMMA AnswerEndsAmbiguous ==
  \A r \in Requests, o \in Outcomes : ExecutorInv /\ UnknownInv /\ answer(r, o) => UnknownInv'
<1> SUFFICES ASSUME NEW r \in Requests, NEW o \in Outcomes, ExecutorInv, UnknownInv, answer(r, o)
             PROVE  UnknownInv'
  OBVIOUS
<1>1. PICK a \in Accounts : a = req[r].account
  BY DEF ExecutorInv, Fine, answer
<1>2. o \in AllOutcomes
  BY ExecutorAssumption
<1>3. \A u \in Requests : u # r => req'[u] = req[u] /\ unknown'[u] = unknown[u]
  <2>1. Advances(r)
    BY StepAdvances DEF Step
  <2> QED BY <2>1 DEF Advances, answer, UnknownInv
<1>4. unknown' \in [Requests -> SUBSET (Accounts \X AllOutcomes)]
  <2>1. <<a, o>> \in Accounts \X AllOutcomes
    BY <1>2
  <2> QED BY <1>1, <2>1 DEF answer, UnknownInv
<1>5. ASSUME NEW u \in unknown'[r], u[2] \notin {"interrupted", "ended_incomplete"}
      PROVE  req'[r].pc = "done"
  <2>1. u \notin unknown[r]
    BY <1>5 DEF UnknownInv, AmbiguousOutcomeIsFinal, answer
  <2>2. Ambiguous(o, a) /\ u = <<a, o>>
    BY <2>1, <1>1, <1>5 DEF answer, UnknownInv
  <2>3. ActionFor(o, a, ~req[r].retried) = "Return"
    BY <2>2, <1>2, <1>5, AmbiguousReturns
  <2>4. PICK q \in LoopState : q = [req[r] EXCEPT !.send_attempts = @ + 1]
    <3>1. PICK p \in LoopState : p = req[r]
      BY DEF ExecutorInv
    <3>2. p.send_attempts + 1 \in Nat
      BY DEF LoopState
    <3> QED BY <3>1, <3>2, CountedIsTyped
  <2>5. Goto(r, [q EXCEPT !.pc = "done", !.reply = o])
    BY <2>3, <2>4, <1>1 DEF answer
  <2>6. req'[r] = [q EXCEPT !.pc = "done", !.reply = o]
    BY <2>5 DEF Goto, ExecutorInv
  <2> QED BY <2>6 DEF LoopState
<1>6. AmbiguousOutcomeIsFinal'
  BY <1>3, <1>5 DEF UnknownInv, AmbiguousOutcomeIsFinal
<1> QED BY <1>4, <1>6 DEF UnknownInv

LEMMA UnknownStep == ExecutorInv /\ UnknownInv /\ [Next]_vars => UnknownInv'
<1> SUFFICES ASSUME ExecutorInv, UnknownInv, [Next]_vars PROVE UnknownInv'
  OBVIOUS
<1>1. ASSUME NEW r \in Requests, Step(r) \/ expire(r) PROVE UnknownInv'
  <2>1. CASE \E o \in Outcomes : answer(r, o)
    BY <2>1, AnswerEndsAmbiguous
  <2>2. CASE ~ \E o \in Outcomes : answer(r, o)
    <3>1. UNCHANGED unknown
      BY <1>1, <2>2 DEF Step, expire, begin, out_of_budget, load, no_candidate, skip, choose,
                        no_more_sends, unsent, dispatch, forward_error
    <3>2. Advances(r)
      BY <1>1, StepAdvances
    <3>3. \A u \in Requests : req[u].pc = "done" => req'[u].pc = "done"
      BY <3>2 DEF Advances
    <3> QED BY <3>1, <3>3 DEF UnknownInv, AmbiguousOutcomeIsFinal
  <2> QED BY <2>1, <2>2
<1>2. CASE Environment
  BY <1>2 DEF Environment, UnknownInv, AmbiguousOutcomeIsFinal
<1>3. CASE UNCHANGED vars
  BY <1>3 DEF vars, UnknownInv, AmbiguousOutcomeIsFinal
<1> QED BY <1>1, <1>2, <1>3 DEF Next

(* AmbiguousOutcomeIsFinal: no class of outcome that may have been executed,  *)
(* other than a stream that died before any output, is ever tried again.      *)
THEOREM AmbiguityEndsTheRequest == Spec => []AmbiguousOutcomeIsFinal
<1>1. Init => UnknownInv
  BY DEF Init, UnknownInv, AmbiguousOutcomeIsFinal
<1>2. UnknownInv => AmbiguousOutcomeIsFinal
  BY DEF UnknownInv
<1> QED BY <1>1, <1>2, UnknownStep, ExecutorInvariant, PTL DEF Spec

-----------------------------------------------------------------------------
(* Nothing is passed over.  NoReachableAccountSkipped rests on what every     *)
(* exclusion means: an account that has been reachable since the request      *)
(* began is excluded only after an attempt was sent to it, and every snapshot *)
(* the selector chooses from offers it.  TypeOK rests on how far the budgets  *)
(* can be overdrawn: the scan limit is only looked at in the outer loop, so   *)
(* the retry of the last account may exceed it by one.                        *)

(* A request in state q that sent s[a] attempts to account a, when t is the   *)
(* set of accounts that were reachable ever since it began.                   *)
Covers(q, s, t) ==
  /\ q.pc = "idle" => q.failed = {}
  /\ \A a \in t : a \in q.failed => s[a] > 0
  /\ q.pc = "choose" =>
       /\ ~HasDuplicate(q.view)
       /\ \A a \in t : \E i \in DOMAIN q.view : q.view[i].account = a /\ q.view[i].available
  /\ q.reply = "no_candidate" => q.pc = "done" /\ \A a \in t : s[a] > 0

Budget(q) ==
  /\ q.send_attempts <= MaxRequestAttempts
  /\ q.pc = "sent" => q.send_attempts < MaxRequestAttempts
  /\ q.pc = "idle" => q.attempt = 0
  /\ q.pc = "choose" => q.attempt < max_scans
  /\ q.pc = "try" => q.attempt < max_scans + Attempts(q)
  /\ q.pc = "sent" => q.attempt <= max_scans + Attempts(q)
  /\ q.attempt <= max_scans + 1

CoverInv ==
  /\ up \subseteq Accounts /\ waiting \subseteq Accounts /\ freeWait \in BOOLEAN
  /\ steady \in [Requests -> SUBSET Accounts]
  /\ \A r \in Requests : steady[r] \subseteq Reachable
  /\ \A r \in Requests : Covers(req[r], sends[r], steady[r])
  /\ \A r \in Requests : Budget(req[r])
(* The snapshot lists each account once, and every reachable one as available. *)
LEMMA SnapshotOffers ==
  \A r \in Requests : ExecutorInv /\ CoverInv =>
      /\ ~HasDuplicate(Candidates)
      /\ \A a \in steady[r] : \E i \in DOMAIN Candidates :
             Candidates[i].account = a /\ Candidates[i].available
<1> SUFFICES ASSUME NEW r \in Requests, ExecutorInv, CoverInv
             PROVE  /\ ~HasDuplicate(Candidates)
                    /\ \A a \in steady[r] : \E i \in DOMAIN Candidates :
                           Candidates[i].account = a /\ Candidates[i].available
  OBVIOUS
<1>1. /\ DOMAIN Candidates = DOMAIN cards
      /\ \A i \in DOMAIN cards :
             /\ Candidates[i].account = cards[i]
             /\ Candidates[i].available = (cards[i] \in up /\ (IsFree(cards[i]) => ~freeWait))
  BY DEF Candidates
<1>2. ~HasDuplicate(Candidates)
  <2>1. \A i, j \in DOMAIN cards : cards[i] = cards[j] => i = j
    BY ExecutorAssumption DEF ExecutorInv
  <2> QED BY <1>1, <2>1 DEF HasDuplicate
<1>3. ASSUME NEW a \in steady[r]
      PROVE  \E i \in DOMAIN Candidates : Candidates[i].account = a /\ Candidates[i].available
  <2>1. a \in Accounts /\ a \in Reachable
    BY DEF CoverInv
  <2>2. PICK i \in DOMAIN cards : cards[i] = a
    BY <2>1, ExecutorAssumption DEF ExecutorInv
  <2>3. a \in up /\ (IsFree(a) => ~freeWait)
    BY <2>1 DEF Reachable
  <2> QED BY <1>1, <2>2, <2>3
<1> QED BY <1>2, <1>3

(* The selector that finds nothing has nothing left to offer.                 *)
LEMMA NothingLeft ==
  \A r \in Requests : ExecutorInv /\ CoverInv /\ req[r].pc = "choose" /\ Picked(r).index = 0 =>
      \A a \in steady[r] : a \in req[r].failed
<1> SUFFICES ASSUME NEW r \in Requests, ExecutorInv, CoverInv, req[r].pc = "choose",
                    Picked(r).index = 0, NEW a \in steady[r]
             PROVE  a \in req[r].failed
  OBVIOUS
<1>1. PICK v \in Seq(Candidate), f \in SUBSET Accounts : v = req[r].view /\ f = req[r].failed
  BY DEF ExecutorInv, LoopState
<1>2. PICK s : s = sel
  OBVIOUS
<1>3. PICK k : k = KeyOf[r]
  OBVIOUS
<1>4. select_at(s, v, Policy, k, f, 0).index = 0 /\ Policy \in Policies
  BY <1>1, <1>2, <1>3, ExecutorAssumption DEF Picked
<1>5. /\ ~HasDuplicate(v)
      /\ \E i \in DOMAIN v : v[i].account = a /\ v[i].available
  BY <1>1 DEF CoverInv, Covers
<1>6. Selectable(v, f) = {}
  BY <1>4, <1>5, SelectAtCovers
<1> QED BY <1>1, <1>5, <1>6 DEF Selectable, IsSelectable

LEMMA MaxScansIsNat == max_scans \in Nat /\ MaxRequestAttempts \in Nat \ {0}
<1>1. Cardinality(Accounts) \in Nat
  BY ExecutorAssumption, FS_CardinalityType
<1> QED BY <1>1, ExecutorAssumption DEF max_scans

LEMMA CoversShrinks ==
  \A q, s, t : \A u \in SUBSET t : Covers(q, s, t) => Covers(q, s, u)
BY DEF Covers

(* One request moves and the accounts that stayed reachable only shrink.      *)
LEMMA CoverFrame ==
  \A r \in Requests : \A rec \in LoopState :
      /\ ExecutorInv /\ CoverInv /\ Goto(r, rec)
      /\ up' \subseteq Accounts /\ waiting' \subseteq Accounts /\ freeWait' \in BOOLEAN
      /\ steady' \in [Requests -> SUBSET Accounts]
      /\ \A u \in Requests : steady'[u] \subseteq Reachable'
      /\ \A u \in Requests : u # r => steady'[u] \subseteq steady[u] /\ sends'[u] = sends[u]
      /\ Covers(rec, sends'[r], steady'[r]) /\ Budget(rec)
      => CoverInv'
<1> SUFFICES ASSUME NEW r \in Requests, NEW rec \in LoopState,
                    ExecutorInv, CoverInv, Goto(r, rec),
                    up' \subseteq Accounts, waiting' \subseteq Accounts, freeWait' \in BOOLEAN,
                    steady' \in [Requests -> SUBSET Accounts],
                    \A u \in Requests : steady'[u] \subseteq Reachable',
                    \A u \in Requests : u # r => steady'[u] \subseteq steady[u]
                                                 /\ sends'[u] = sends[u],
                    Covers(rec, sends'[r], steady'[r]), Budget(rec)
             PROVE  CoverInv'
  OBVIOUS
<1>1. req'[r] = rec /\ \A u \in Requests : u # r => req'[u] = req[u]
  BY DEF ExecutorInv, Goto
<1>2. ASSUME NEW u \in Requests PROVE Covers(req'[u], sends'[u], steady'[u]) /\ Budget(req'[u])
  <2>1. CASE u = r
    BY <2>1, <1>1
  <2>2. CASE u # r
    <3>1. /\ Covers(req[u], sends[u], steady[u]) /\ Budget(req[u])
          /\ req'[u] = req[u] /\ sends'[u] = sends[u] /\ steady'[u] \in SUBSET steady[u]
      BY <2>2, <1>1 DEF CoverInv
    <3>2. Covers(req[u], sends[u], steady'[u])
      BY <3>1, CoversShrinks, Zenon
    <3> QED BY <3>1, <3>2
  <2> QED BY <2>1, <2>2
<1> QED BY <1>2, Zenon DEF CoverInv

LEMMA CoverMoves ==
  \A r \in Requests : \A rec \in LoopState :
      /\ ExecutorInv /\ CoverInv /\ Goto(r, rec) /\ UNCHANGED <<up, waiting, freeWait, sends, steady>>
      /\ Covers(rec, sends[r], steady[r]) /\ Budget(rec)
      => CoverInv'
<1> SUFFICES ASSUME NEW r \in Requests, NEW rec \in LoopState,
                    ExecutorInv, CoverInv, Goto(r, rec),
                    UNCHANGED <<up, waiting, freeWait, sends, steady>>,
                    Covers(rec, sends[r], steady[r]), Budget(rec)
             PROVE  CoverInv'
  OBVIOUS
<1>1. Reachable' = Reachable
  BY DEF Reachable
<1>2. \A u \in Requests : steady'[u] \subseteq Reachable'
  BY <1>1 DEF CoverInv
<1>3. /\ up' \subseteq Accounts /\ waiting' \subseteq Accounts /\ freeWait' \in BOOLEAN
      /\ steady' \in [Requests -> SUBSET Accounts]
  BY DEF CoverInv
<1>4. \A u \in Requests : u # r => steady'[u] \subseteq steady[u] /\ sends'[u] = sends[u]
  OBVIOUS
<1>5. Covers(rec, sends'[r], steady'[r])
  OBVIOUS
<1> QED BY <1>2, <1>3, <1>4, <1>5, CoverFrame, Zenon

LEMMA OutOfBudgetCovers == \A r \in Requests : ExecutorInv /\ CoverInv /\ out_of_budget(r) => CoverInv'
<1> SUFFICES ASSUME NEW r \in Requests, ExecutorInv, CoverInv, out_of_budget(r) PROVE CoverInv'
  OBVIOUS
<1>1. PICK q \in LoopState, s \in [Accounts -> Nat], t \in SUBSET Accounts :
        /\ q = req[r] /\ s = sends[r] /\ t = steady[r]
        /\ Fine(q, s) /\ Covers(q, s, t) /\ Budget(q)
  BY DEF ExecutorInv, CoverInv
<1> DEFINE rec == [q EXCEPT !.pc = "done", !.reply = "budget", !.view = << >>]
<1>4. rec \in LoopState
  <2>1. "budget" \in Replies
    BY DEF Replies
  <2> QED BY <2>1, EmptyView, DoneIsTyped, Zenon
<1>5. Covers(rec, s, t)
  BY <1>1 DEF LoopState, Covers, Fine, Attempts, out_of_budget
<1>6. Budget(rec)
  BY <1>1, MaxScansIsNat DEF LoopState, Budget, Attempts, out_of_budget
<1>7. Goto(r, rec) /\ UNCHANGED <<up, waiting, freeWait, sends, steady>>
  BY <1>1 DEF out_of_budget, world, Done
<1> HIDE DEF rec
<1> QED BY <1>1, <1>4, <1>5, <1>6, <1>7, CoverMoves

LEMMA NoMoreSendsCovers == \A r \in Requests : ExecutorInv /\ CoverInv /\ no_more_sends(r) => CoverInv'
<1> SUFFICES ASSUME NEW r \in Requests, ExecutorInv, CoverInv, no_more_sends(r) PROVE CoverInv'
  OBVIOUS
<1>1. PICK q \in LoopState, s \in [Accounts -> Nat], t \in SUBSET Accounts :
        /\ q = req[r] /\ s = sends[r] /\ t = steady[r]
        /\ Fine(q, s) /\ Covers(q, s, t) /\ Budget(q)
  BY DEF ExecutorInv, CoverInv
<1> DEFINE rec == [q EXCEPT !.pc = "done", !.reply = "budget", !.view = << >>]
<1>4. rec \in LoopState
  <2>1. "budget" \in Replies
    BY DEF Replies
  <2> QED BY <2>1, EmptyView, DoneIsTyped, Zenon
<1>5. Covers(rec, s, t)
  BY <1>1 DEF LoopState, Covers, Fine, Attempts, no_more_sends
<1>6. Budget(rec)
  BY <1>1, MaxScansIsNat DEF LoopState, Budget, Attempts, no_more_sends
<1>7. Goto(r, rec) /\ UNCHANGED <<up, waiting, freeWait, sends, steady>>
  BY <1>1 DEF no_more_sends, world, Done
<1> HIDE DEF rec
<1> QED BY <1>1, <1>4, <1>5, <1>6, <1>7, CoverMoves

LEMMA ForwardErrorCovers == \A r \in Requests : ExecutorInv /\ CoverInv /\ forward_error(r) => CoverInv'
<1> SUFFICES ASSUME NEW r \in Requests, ExecutorInv, CoverInv, forward_error(r) PROVE CoverInv'
  OBVIOUS
<1>1. PICK q \in LoopState, s \in [Accounts -> Nat], t \in SUBSET Accounts :
        /\ q = req[r] /\ s = sends[r] /\ t = steady[r]
        /\ Fine(q, s) /\ Covers(q, s, t) /\ Budget(q)
  BY DEF ExecutorInv, CoverInv
<1> DEFINE rec == [q EXCEPT !.pc = "done", !.reply = "internal", !.view = << >>]
<1>4. rec \in LoopState
  <2>1. "internal" \in Replies
    BY DEF Replies
  <2> QED BY <2>1, EmptyView, DoneIsTyped, Zenon
<1>5. Covers(rec, s, t)
  BY <1>1 DEF LoopState, Covers, Fine, Attempts, forward_error, MayTry
<1>6. Budget(rec)
  BY <1>1, MaxScansIsNat DEF LoopState, Budget, Attempts, forward_error, MayTry
<1>7. Goto(r, rec) /\ UNCHANGED <<up, waiting, freeWait, sends, steady>>
  BY <1>1 DEF forward_error, world, Done, MayTry
<1> HIDE DEF rec
<1> QED BY <1>1, <1>4, <1>5, <1>6, <1>7, CoverMoves

LEMMA ExpireCovers == \A r \in Requests : ExecutorInv /\ CoverInv /\ expire(r) => CoverInv'
<1> SUFFICES ASSUME NEW r \in Requests, ExecutorInv, CoverInv, expire(r) PROVE CoverInv'
  OBVIOUS
<1>1. PICK q \in LoopState, s \in [Accounts -> Nat], t \in SUBSET Accounts :
        /\ q = req[r] /\ s = sends[r] /\ t = steady[r]
        /\ Fine(q, s) /\ Covers(q, s, t) /\ Budget(q)
  BY DEF ExecutorInv, CoverInv
<1> DEFINE rec == [q EXCEPT !.late = TRUE]
<1>4. rec \in LoopState
  BY DEF LoopState, Pcs
<1>5. Covers(rec, s, t)
  BY <1>1 DEF LoopState, Covers, Fine, Attempts, expire
<1>6. Budget(rec)
  BY <1>1, MaxScansIsNat DEF LoopState, Budget, Attempts, expire
<1>7. Goto(r, rec) /\ UNCHANGED <<up, waiting, freeWait, sends, steady>>
  BY <1>1 DEF expire, world
<1> HIDE DEF rec
<1> QED BY <1>1, <1>4, <1>5, <1>6, <1>7, CoverMoves

LEMMA LoadCovers == \A r \in Requests : ExecutorInv /\ CoverInv /\ load(r) => CoverInv'
<1> SUFFICES ASSUME NEW r \in Requests, ExecutorInv, CoverInv, load(r) PROVE CoverInv'
  OBVIOUS
<1>1. PICK q \in LoopState, s \in [Accounts -> Nat], t \in SUBSET Accounts :
        /\ q = req[r] /\ s = sends[r] /\ t = steady[r]
        /\ Fine(q, s) /\ Covers(q, s, t) /\ Budget(q)
  BY DEF ExecutorInv, CoverInv
<1>2. PICK new \in Seq(Candidate) : new = Candidates
  BY CandidatesAreTyped DEF ExecutorInv
<1>3. /\ ~HasDuplicate(new)
      /\ \A a \in t : \E i \in DOMAIN new : new[i].account = a /\ new[i].available
  BY <1>1, <1>2, SnapshotOffers DEF ExecutorInv, CoverInv
<1> DEFINE rec == [q EXCEPT !.pc = "choose", !.view = new]
<1>4. rec \in LoopState
  BY DEF LoopState, Pcs
<1>5. Covers(rec, s, t)
  BY <1>1, <1>2, <1>3 DEF LoopState, Covers, Fine, Attempts, load
<1>6. Budget(rec)
  BY <1>1, MaxScansIsNat DEF LoopState, Budget, Attempts, load
<1>7. Goto(r, rec) /\ UNCHANGED <<up, waiting, freeWait, sends, steady>>
  BY <1>1, <1>2, <1>3 DEF load, world
<1> HIDE DEF rec
<1> QED BY <1>1, <1>4, <1>5, <1>6, <1>7, CoverMoves

LEMMA NoCandidateCovers == \A r \in Requests : ExecutorInv /\ CoverInv /\ no_candidate(r) => CoverInv'
<1> SUFFICES ASSUME NEW r \in Requests, ExecutorInv, CoverInv, no_candidate(r) PROVE CoverInv'
  OBVIOUS
<1>1. PICK q \in LoopState, s \in [Accounts -> Nat], t \in SUBSET Accounts :
        /\ q = req[r] /\ s = sends[r] /\ t = steady[r]
        /\ Fine(q, s) /\ Covers(q, s, t) /\ Budget(q)
  BY DEF ExecutorInv, CoverInv
<1>2. \A a \in t : a \in q.failed
  BY <1>1, NothingLeft DEF no_candidate
<1> DEFINE rec == [q EXCEPT !.pc = "done", !.reply = "no_candidate", !.view = << >>]
<1>4. rec \in LoopState
  <2>1. "no_candidate" \in Replies
    BY DEF Replies
  <2> QED BY <2>1, EmptyView, DoneIsTyped, Zenon
<1>5. Covers(rec, s, t)
  BY <1>1, <1>2 DEF LoopState, Covers, Fine, Attempts, no_candidate
<1>6. Budget(rec)
  BY <1>1, MaxScansIsNat DEF LoopState, Budget, Attempts, no_candidate
<1>7. Goto(r, rec) /\ UNCHANGED <<up, waiting, freeWait, sends, steady>>
  BY <1>1, <1>2 DEF no_candidate, world, Done
<1> HIDE DEF rec
<1> QED BY <1>1, <1>4, <1>5, <1>6, <1>7, CoverMoves

LEMMA SkipCovers == \A r \in Requests : ExecutorInv /\ CoverInv /\ skip(r) => CoverInv'
<1> SUFFICES ASSUME NEW r \in Requests, ExecutorInv, CoverInv, skip(r) PROVE CoverInv'
  OBVIOUS
<1>1. PICK q \in LoopState, s \in [Accounts -> Nat], t \in SUBSET Accounts :
        /\ q = req[r] /\ s = sends[r] /\ t = steady[r]
        /\ Fine(q, s) /\ Covers(q, s, t) /\ Budget(q)
  BY DEF ExecutorInv, CoverInv
<1>2. PICK new \in Accounts \ q.failed : new = PickedAccount(r)
  BY <1>1, PickedIsFresh DEF skip
<1>3. new \notin t
  BY <1>1, <1>2 DEF skip, CoverInv, Reachable
<1> DEFINE rec == [q EXCEPT !.pc = "scan", !.view = << >>, !.attempt = @ + 1,
                            !.failed = @ \cup {new}]
<1>4. rec \in LoopState
  <2>1. q.failed \cup {new} \in SUBSET Accounts /\ q.attempt + 1 \in Nat
    BY DEF LoopState
  <2>2. rec = [q EXCEPT !.pc = "scan", !.view = << >>, !.attempt = q.attempt + 1,
                        !.failed = q.failed \cup {new}]
    OBVIOUS
  <2> QED BY <2>1, <2>2, EmptyView, SkippedIsTyped, Zenon
<1>5. Covers(rec, s, t)
  BY <1>1, <1>2, <1>3 DEF LoopState, Covers, Fine, Attempts, skip
<1>6. Budget(rec)
  BY <1>1, MaxScansIsNat DEF LoopState, Budget, Attempts, skip
<1>7. Goto(r, rec) /\ UNCHANGED <<up, waiting, freeWait, sends, steady>>
  BY <1>1, <1>2, <1>3 DEF skip, world
<1> HIDE DEF rec
<1> QED BY <1>1, <1>4, <1>5, <1>6, <1>7, CoverMoves

LEMMA ChooseCovers == \A r \in Requests : ExecutorInv /\ CoverInv /\ choose(r) => CoverInv'
<1> SUFFICES ASSUME NEW r \in Requests, ExecutorInv, CoverInv, choose(r) PROVE CoverInv'
  OBVIOUS
<1>1. PICK q \in LoopState, s \in [Accounts -> Nat], t \in SUBSET Accounts :
        /\ q = req[r] /\ s = sends[r] /\ t = steady[r]
        /\ Fine(q, s) /\ Covers(q, s, t) /\ Budget(q)
  BY DEF ExecutorInv, CoverInv
<1>2. PICK new \in Accounts \ q.failed : new = PickedAccount(r)
  BY <1>1, PickedIsFresh DEF choose
<1> DEFINE rec == [q EXCEPT !.pc = "try", !.view = << >>, !.retried = FALSE,
                            !.account = new]
<1>4. rec \in LoopState
  BY EmptyView, ChosenIsTyped
<1>5. Covers(rec, s, t)
  BY <1>1, <1>2 DEF LoopState, Covers, Fine, Attempts, choose
<1>6. Budget(rec)
  BY <1>1, MaxScansIsNat DEF LoopState, Budget, Attempts, choose
<1>7. Goto(r, rec) /\ UNCHANGED <<up, waiting, freeWait, sends, steady>>
  BY <1>1, <1>2 DEF choose, world
<1> HIDE DEF rec
<1> QED BY <1>1, <1>4, <1>5, <1>6, <1>7, CoverMoves

LEMMA UnsentCovers == \A r \in Requests : ExecutorInv /\ CoverInv /\ unsent(r) => CoverInv'
<1> SUFFICES ASSUME NEW r \in Requests, ExecutorInv, CoverInv, unsent(r) PROVE CoverInv'
  OBVIOUS
<1>1. PICK q \in LoopState, s \in [Accounts -> Nat], t \in SUBSET Accounts :
        /\ q = req[r] /\ s = sends[r] /\ t = steady[r]
        /\ Fine(q, s) /\ Covers(q, s, t) /\ Budget(q)
  BY DEF ExecutorInv, CoverInv
<1>2. q.account \notin t
  BY <1>1 DEF unsent, CoverInv
<1> DEFINE rec == Excluding([q EXCEPT !.attempt = @ + 1])
<1>4. rec \in LoopState
  <2>1. [q EXCEPT !.attempt = @ + 1] \in LoopState /\ q.account \in Accounts
    BY <1>1 DEF LoopState, Fine, unsent, MayTry
  <2>2. [q EXCEPT !.attempt = @ + 1].account = q.account
    BY DEF LoopState
  <2> QED BY <2>1, <2>2, ExcludingIsTyped
<1>5. Covers(rec, s, t)
  BY <1>1, <1>2 DEF LoopState, Covers, Fine, Attempts, unsent, MayTry, Excluding
<1>6. Budget(rec)
  BY <1>1, MaxScansIsNat DEF LoopState, Budget, Attempts, unsent, MayTry, Excluding
<1>7. Goto(r, rec) /\ UNCHANGED <<up, waiting, freeWait, sends, steady>>
  BY <1>1, <1>2 DEF unsent, world, MayTry
<1> HIDE DEF rec
<1> QED BY <1>1, <1>4, <1>5, <1>6, <1>7, CoverMoves

(* The request begins: the accounts reachable now are the ones it owes a try. *)
LEMMA BeginCovers == \A r \in Requests : ExecutorInv /\ CoverInv /\ begin(r) => CoverInv'
<1> SUFFICES ASSUME NEW r \in Requests, ExecutorInv, CoverInv, begin(r) PROVE CoverInv'
  OBVIOUS
<1>1. PICK q \in LoopState, s \in [Accounts -> Nat], t \in SUBSET Accounts :
        /\ q = req[r] /\ s = sends[r] /\ t = steady[r]
        /\ Covers(q, s, t) /\ Budget(q)
  BY DEF ExecutorInv, CoverInv
<1> DEFINE rec == [q EXCEPT !.pc = "scan"]
<1>2. PICK w \in SUBSET Accounts : w = Reachable
  BY DEF CoverInv, Reachable
<1>3. /\ UNCHANGED <<up, waiting, freeWait, sends>>
      /\ steady' = [steady EXCEPT ![r] = w]
  BY <1>2 DEF begin, world
<1>4. rec \in LoopState
  BY DEF LoopState, Pcs
<1>5. Covers(rec, s, w)
  BY <1>1 DEF LoopState, Covers, begin
<1>6. Budget(rec)
  BY <1>1, MaxScansIsNat DEF LoopState, Budget, begin
<1>7. Goto(r, rec)
  BY <1>1 DEF begin
<1>8. /\ steady' \in [Requests -> SUBSET Accounts] /\ steady'[r] = w
      /\ \A u \in Requests : u # r => steady'[u] = steady[u]
  BY <1>3 DEF CoverInv
<1>9. \A u \in Requests : steady'[u] \subseteq Reachable'
  <2>1. Reachable' = w
    BY <1>2, <1>3 DEF Reachable
  <2> QED BY <2>1, <1>2, <1>8 DEF CoverInv
<1>10. up' \subseteq Accounts /\ waiting' \subseteq Accounts /\ freeWait' \in BOOLEAN
  BY <1>3 DEF CoverInv
<1> HIDE DEF rec
<1>11. Covers(rec, sends'[r], steady'[r])
  BY <1>1, <1>3, <1>5, <1>8
<1>12. \A u \in Requests : u # r => steady'[u] \subseteq steady[u] /\ sends'[u] = sends[u]
  BY <1>3, <1>8
<1> QED BY <1>4, <1>6, <1>7, <1>8, <1>9, <1>10, <1>11, <1>12, CoverFrame, Zenon

LEMMA DispatchCovers == \A r \in Requests : ExecutorInv /\ CoverInv /\ dispatch(r) => CoverInv'
<1> SUFFICES ASSUME NEW r \in Requests, ExecutorInv, CoverInv, dispatch(r) PROVE CoverInv'
  OBVIOUS
<1>1. PICK q \in LoopState, s \in [Accounts -> Nat], t \in SUBSET Accounts :
        /\ q = req[r] /\ s = sends[r] /\ t = steady[r]
        /\ Fine(q, s) /\ Covers(q, s, t) /\ Budget(q)
  BY DEF ExecutorInv, CoverInv
<1> DEFINE rec == [q EXCEPT !.pc = "sent", !.attempt = @ + 1]
           cnt == [s EXCEPT ![q.account] = @ + 1]
<1>2. q.pc = "try" /\ q.account \in Accounts /\ q.send_attempts < MaxRequestAttempts
  BY <1>1 DEF dispatch, MayTry, Fine
<1>3. rec \in LoopState
  <2>1. q.attempt + 1 \in Nat
    BY DEF LoopState
  <2> QED BY <2>1, SentIsTyped
<1>4. Covers(rec, cnt, t)
  BY <1>1, <1>2 DEF LoopState, Covers
<1>5. Budget(rec)
  BY <1>1, <1>2, MaxScansIsNat DEF LoopState, Budget, Attempts
<1>6. /\ Goto(r, rec) /\ sends' = [sends EXCEPT ![r] = cnt]
      /\ UNCHANGED <<up, waiting, freeWait, steady>>
  BY <1>1 DEF dispatch, world, ExecutorInv
<1> HIDE DEF rec, cnt
<1>7. Reachable' = Reachable
  BY <1>6 DEF Reachable
<1>8. /\ up' \subseteq Accounts /\ waiting' \subseteq Accounts /\ freeWait' \in BOOLEAN
      /\ steady' \in [Requests -> SUBSET Accounts]
      /\ \A u \in Requests : steady'[u] \subseteq Reachable'
  BY <1>6, <1>7 DEF CoverInv
<1>9. sends'[r] = cnt /\ \A u \in Requests : u # r => sends'[u] = sends[u]
  BY <1>6 DEF ExecutorInv
<1>10. Covers(rec, sends'[r], steady'[r])
  BY <1>1, <1>4, <1>6, <1>9
<1>11. \A u \in Requests : u # r => steady'[u] \subseteq steady[u] /\ sends'[u] = sends[u]
  BY <1>6, <1>9
<1> QED BY <1>3, <1>5, <1>6, <1>8, <1>10, <1>11, CoverFrame, Zenon

LEMMA StillSteadyShrinks ==
  CoverInv /\ StillSteady =>
      /\ steady' \in [Requests -> SUBSET Accounts]
      /\ \A u \in Requests : steady'[u] \subseteq steady[u] /\ steady'[u] \subseteq Reachable'
BY DEF CoverInv, StillSteady

LEMMA AnswerCovers ==
  \A r \in Requests, o \in Outcomes : ExecutorInv /\ CoverInv /\ answer(r, o) => CoverInv'
<1> SUFFICES ASSUME NEW r \in Requests, NEW o \in Outcomes, ExecutorInv, CoverInv, answer(r, o)
             PROVE  CoverInv'
  OBVIOUS
<1>1. PICK q \in LoopState, s \in [Accounts -> Nat], t \in SUBSET Accounts :
        /\ q = req[r] /\ s = sends[r] /\ t = steady[r]
        /\ Fine(q, s) /\ Covers(q, s, t) /\ Budget(q)
  BY DEF ExecutorInv, CoverInv
<1>2. PICK done \in LoopState : done = [q EXCEPT !.send_attempts = @ + 1]
  <2>1. q.send_attempts + 1 \in Nat
    BY DEF LoopState
  <2> QED BY <2>1, CountedIsTyped
<1>3. q.pc = "sent" /\ UNCHANGED <<cards, sends>> /\ q.account \in Accounts /\ s[q.account] > 0
  <2>1. q.pc = "sent" /\ UNCHANGED <<cards, sends>>
    BY <1>1, AnswerMoves
  <2> QED BY <2>1, <1>1 DEF Fine, Attempts
<1>4. /\ steady' \in [Requests -> SUBSET Accounts]
      /\ \A u \in Requests : steady'[u] \subseteq steady[u] /\ steady'[u] \subseteq Reachable'
  BY StillSteadyShrinks DEF answer
<1>5. PICK w \in SUBSET t : w = steady'[r]
  BY <1>1, <1>4
<1>6. /\ up' \subseteq Accounts /\ waiting' \subseteq Accounts /\ freeWait' \in BOOLEAN
      /\ \A u \in Requests : u # r => steady'[u] \subseteq steady[u] /\ sends'[u] = sends[u]
  <2>1. Marks(o, q.account, ActionFor(o, q.account, ~q.retried))
    BY <1>1 DEF answer
  <2>2. up' \subseteq Accounts /\ waiting' \subseteq Accounts /\ freeWait' \in BOOLEAN
    BY <2>1, <1>3 DEF Marks, world, CoverInv
  <2> QED BY <2>2, <1>3, <1>4
<1>7. Covers(q, s, w)
  BY <1>1, <1>5, CoversShrinks, Zenon
<1>8. ASSUME NEW rec \in LoopState, Goto(r, rec), Covers(rec, s, w), Budget(rec)
      PROVE  CoverInv'
  <2>1. Covers(rec, sends'[r], steady'[r])
    BY <1>1, <1>3, <1>5, <1>8
  <2> QED BY <2>1, <1>4, <1>6, <1>8, CoverFrame, Zenon
<1>9. CASE Goto(r, [done EXCEPT !.pc = "done", !.reply = o])
  <2>1. o \in Replies /\ o # "no_candidate"
    BY ExecutorAssumption DEF Replies, AllOutcomes, Transport, Streams, Statuses
  <2>2. [done EXCEPT !.pc = "done", !.reply = o] \in LoopState
    BY <2>1 DEF LoopState, Pcs
  <2>3. Covers([done EXCEPT !.pc = "done", !.reply = o], s, w)
    BY <1>2, <1>3, <1>7, <2>1 DEF LoopState, Covers
  <2>4. Budget([done EXCEPT !.pc = "done", !.reply = o])
    BY <1>1, <1>2, <1>3, MaxScansIsNat DEF LoopState, Budget, Attempts
  <2> QED BY <1>8, <1>9, <2>2, <2>3, <2>4
<1>10. CASE ~q.retried /\ Goto(r, [done EXCEPT !.pc = "try", !.retried = TRUE])
  <2>1. [done EXCEPT !.pc = "try", !.retried = TRUE] \in LoopState
    BY DEF LoopState, Pcs
  <2>2. Covers([done EXCEPT !.pc = "try", !.retried = TRUE], s, w)
    BY <1>2, <1>3, <1>7 DEF LoopState, Covers
  <2>3. Budget([done EXCEPT !.pc = "try", !.retried = TRUE])
    BY <1>1, <1>2, <1>3, <1>10, MaxScansIsNat DEF LoopState, Budget, Attempts
  <2> QED BY <1>8, <1>10, <2>1, <2>2, <2>3
<1>11. CASE Goto(r, Excluding(done))
  <2>1. Excluding(done) \in LoopState
    BY <1>2, <1>3, ExcludingIsTyped DEF LoopState
  <2>2. Covers(Excluding(done), s, w)
    BY <1>2, <1>3, <1>7 DEF LoopState, Covers, Excluding
  <2>3. Budget(Excluding(done))
    BY <1>1, <1>2, <1>3, MaxScansIsNat DEF LoopState, Budget, Attempts, Excluding
  <2> QED BY <1>8, <1>11, <2>1, <2>2, <2>3
<1> QED BY <1>1, <1>2, <1>9, <1>10, <1>11, AnswerMoves

LEMMA EnvironmentCovers == ExecutorInv /\ CoverInv /\ Environment => CoverInv'
<1> SUFFICES ASSUME ExecutorInv, CoverInv, Environment PROVE CoverInv'
  OBVIOUS
<1>1. /\ steady' \in [Requests -> SUBSET Accounts]
      /\ \A u \in Requests : steady'[u] \subseteq steady[u] /\ steady'[u] \subseteq Reachable'
  BY StillSteadyShrinks DEF Environment
<1>2. up' \subseteq Accounts /\ waiting' \subseteq Accounts /\ freeWait' \in BOOLEAN
  BY DEF Environment, CoverInv
<1>3. UNCHANGED <<req, sends>>
  BY DEF Environment
<1>4. ASSUME NEW u \in Requests
      PROVE  Covers(req'[u], sends'[u], steady'[u]) /\ Budget(req'[u])
  <2>1. Covers(req[u], sends[u], steady[u]) /\ Budget(req[u]) /\ steady'[u] \in SUBSET steady[u]
    BY <1>1 DEF CoverInv
  <2>2. Covers(req[u], sends[u], steady'[u])
    BY <2>1, CoversShrinks, Zenon
  <2> QED BY <2>1, <2>2, <1>3
<1> QED BY <1>1, <1>2, <1>4, Zenon DEF CoverInv

LEMMA CoverStep == ExecutorInv /\ CoverInv /\ [Next]_vars => CoverInv'
<1> SUFFICES ASSUME ExecutorInv, CoverInv, [Next]_vars PROVE CoverInv'
  OBVIOUS
<1>1. CASE \E r \in Requests : Step(r)
  <2>1. PICK r \in Requests : Step(r)
    BY <1>1
  <2> QED BY <2>1, BeginCovers, OutOfBudgetCovers, LoadCovers, NoCandidateCovers, SkipCovers,
             ChooseCovers, NoMoreSendsCovers, UnsentCovers, DispatchCovers, ForwardErrorCovers,
             AnswerCovers DEF Step
<1>2. CASE \E r \in Requests : expire(r)
  BY <1>2, ExpireCovers
<1>3. CASE Environment
  BY <1>3, EnvironmentCovers
<1>4. CASE UNCHANGED vars
  BY <1>4 DEF vars, CoverInv, Reachable
<1> QED BY <1>1, <1>2, <1>3, <1>4 DEF Next

LEMMA CoverInit == Init => CoverInv
<1> SUFFICES ASSUME Init PROVE CoverInv
  OBVIOUS
<1>1. Covers(Idle, [a \in Accounts |-> 0], {}) /\ Budget(Idle)
  BY MaxScansIsNat DEF Covers, Budget, Idle
<1>2. \A r \in Requests : req[r] = Idle /\ sends[r] = [a \in Accounts |-> 0] /\ steady[r] = {}
  BY DEF Init
<1> QED BY <1>1, <1>2 DEF Init, CoverInv

(* Every exclusion of a reachable account stands for an attempt, and the      *)
(* budgets are kept, in every reachable state.                                *)
THEOREM CoverInvariant == Spec => []CoverInv
BY CoverInit, CoverStep, ExecutorInvariant, PTL DEF Spec

(* NoReachableAccountSkipped: a client is told that no account is available   *)
(* only after an attempt on every account that could serve during the whole   *)
(* request, for every policy, binding, card order and set of requests that    *)
(* share the selector.                                                        *)
THEOREM NothingReachableIsSkipped == Spec => []NoReachableAccountSkipped
<1>1. CoverInv => NoReachableAccountSkipped
  BY DEF CoverInv, Covers, NoReachableAccountSkipped
<1> QED BY <1>1, CoverInvariant, PTL

LEMMA UnknownInvariant == Spec => []UnknownInv
<1>1. Init => UnknownInv
  BY DEF Init, UnknownInv, AmbiguousOutcomeIsFinal
<1> QED BY <1>1, UnknownStep, ExecutorInvariant, PTL DEF Spec

(* TypeOK, with the budgets of the loop: a request makes at most              *)
(* MAX_REQUEST_ATTEMPTS attempts, and the scans stay within max_scans and the *)
(* attempts.                                                                  *)
THEOREM BudgetsHold == Spec => []TypeOK
<1>1. ExecutorInv /\ CoverInv /\ UnknownInv => TypeOK
  <2> SUFFICES ASSUME ExecutorInv, CoverInv, UnknownInv PROVE TypeOK
    OBVIOUS
  <2>1. ASSUME NEW r \in Requests
        PROVE  /\ req[r].pc \in Pcs
               /\ req[r].failed \subseteq Accounts
               /\ req[r].attempt \in 0..(max_scans + MaxRequestAttempts)
               /\ req[r].send_attempts \in 0..MaxRequestAttempts
               /\ req[r].account \in Accounts \cup {None}
    <3>1. PICK q \in LoopState : q = req[r] /\ Budget(q)
      BY DEF ExecutorInv, CoverInv
    <3> QED BY <3>1, MaxScansIsNat DEF LoopState, Budget
  <2> QED BY <2>1 DEF TypeOK, ExecutorInv, CoverInv, UnknownInv
<1> QED BY <1>1, ExecutorInvariant, CoverInvariant, UnknownInvariant, PTL
=============================================================================
