------------------------------ MODULE Resilient ------------------------------
(***************************************************************************)
(* Concurrent callers of functions wrapped by @resilient                   *)
(* (python/src/cubiczan_resilience/retry.py) that share one circuit        *)
(* breaker: the loops of _run_sync and _run_async.                         *)
(*                                                                         *)
(* A caller's program counter is                                           *)
(*   "idle"    outside the wrapper                                         *)
(*   "guard"   at the top of the loop, before cb.guard() calls allow()     *)
(*             (the backoff sleep of a retry is spent here)                *)
(*   "denied"  allow() returned False; retry_after() and the raise follow  *)
(*   "call"    inside fn                                                   *)
(* The end of an attempt and its report to the breaker are one step: what  *)
(* lies between them is local to the caller.  The two loops differ only in *)
(* who ends a slow attempt: wait_for does for an async caller, nobody does *)
(* for a sync one, whose timeout is noticed once fn has returned.          *)
(***************************************************************************)
EXTENDS CircuitBreaker, FiniteSets

CONSTANTS
  Callers,        \* threads or tasks inside wrapped functions
  AsyncCallers,   \* those of them that run _run_async
  MaxAttempts     \* policy.max_attempts

ASSUME CallersAssumption ==
  /\ IsFiniteSet(Callers)
  /\ AsyncCallers \subseteq Callers
  /\ MaxAttempts \in Nat /\ MaxAttempts >= 1

VARIABLES
  pc,        \* pc[c], as above
  attempt,   \* attempt[c], the index of the attempt in progress
  outcome,   \* outcome[c], how the caller's last call ended
  slot,      \* history: how the breaker let c's running attempt through
  quiet      \* history: time since any caller reported a failure

callerVars == <<pc, attempt, outcome, slot>>
vars == <<cb, answer, pc, attempt, outcome, slot, quiet>>

PC == {"idle", "guard", "denied", "call"}

Outcome == {"none", "returned", "CircuitOpenError", "TimeoutExceeded",
            "retryable_error", "fatal_error"}

\* "trial": through a slot of the present HALF_OPEN period; "stale": through a
\* slot of a HALF_OPEN period that has ended since; "normal": while CLOSED.
Slot == {"none", "normal", "trial", "stale"}

Holding(kind) == {c \in Callers : slot[c] = kind}

-----------------------------------------------------------------------------
Init ==
  /\ BreakerInit
  /\ pc = [c \in Callers |-> "idle"]
  /\ attempt = [c \in Callers |-> 0]
  /\ outcome = [c \in Callers |-> "none"]
  /\ slot = [c \in Callers |-> "none"]
  /\ quiet = Cooldown

\* The present HALF_OPEN period, if any, is over, and r has left fn.
SlotsAfterReport(r) ==
  [c \in Callers |-> IF c = r THEN "none"
                     ELSE IF slot[c] = "trial" THEN "stale" ELSE slot[c]]

\* The call leaves the wrapper with result res.
Leave(c, res) ==
  /\ pc' = [pc EXCEPT ![c] = "idle"]
  /\ outcome' = [outcome EXCEPT ![c] = res]
  /\ UNCHANGED attempt

\* Slip: the loop goes round without counting the attempt.
Retry_Uncounted(c) ==
  /\ pc' = [pc EXCEPT ![c] = "guard"]
  /\ UNCHANGED <<attempt, outcome>>

\* The loop goes round: backoff, then the next attempt.
Retry(c) ==
  /\ pc' = [pc EXCEPT ![c] = "guard"]
  /\ attempt' = [attempt EXCEPT ![c] = @ + 1]
  /\ UNCHANGED outcome

LastAttempt(c) == attempt[c] = MaxAttempts - 1

-----------------------------------------------------------------------------
(* The steps of a call. *)

Begin(c) ==
  /\ pc[c] = "idle"
  /\ pc' = [pc EXCEPT ![c] = "guard"]
  /\ attempt' = [attempt EXCEPT ![c] = 0]
  /\ outcome' = [outcome EXCEPT ![c] = "none"]
  /\ UNCHANGED <<cb, answer, slot, quiet>>

\* cb.guard(), first half: allow()
Guard(c) ==
  /\ pc[c] = "guard"
  /\ AskAllow
  /\ IF Allowed(cb)
       THEN /\ pc' = [pc EXCEPT ![c] = "call"]
            /\ slot' = [slot EXCEPT ![c] =
                          IF cb'.state = "HALF_OPEN" THEN "trial" ELSE "normal"]
       ELSE /\ pc' = [pc EXCEPT ![c] = "denied"]
            /\ UNCHANGED slot
  /\ UNCHANGED <<attempt, outcome, quiet>>

\* cb.guard(), second half: retry_after() fills in the CircuitOpenError, which
\* the loop does not catch.
Reject(c) ==
  /\ pc[c] = "denied"
  /\ AskRetryAfter
  /\ Leave(c, "CircuitOpenError")
  /\ UNCHANGED <<slot, quiet>>

\* A cancellation or KeyboardInterrupt ends the backoff sleep of a retry; the
\* breaker, told of the failed attempt, is not told of this.
BackoffInterrupted(c) ==
  /\ pc[c] = "guard" /\ attempt[c] > 0
  /\ Leave(c, "fatal_error")
  /\ UNCHANGED <<cb, answer, slot, quiet>>

AttemptReturns(c) ==
  /\ pc[c] = "call"
  /\ RecordSuccess
  /\ slot' = SlotsAfterReport(c)
  /\ Leave(c, "returned")
  /\ UNCHANGED quiet

\* Every unsuccessful attempt is reported before the loop decides.
ReportFailure(c) ==
  /\ pc[c] = "call"
  /\ RecordFailure
  /\ slot' = SlotsAfterReport(c)
  /\ quiet' = 0

\* elapsed > timeout, or asyncio.TimeoutError: retried without is_retryable
AttemptTimesOut(c) ==
  /\ ReportFailure(c)
  /\ IF LastAttempt(c) THEN Leave(c, "TimeoutExceeded") ELSE Retry(c)

\* fn raised something is_retryable accepts
AttemptRaisesRetryable(c) ==
  /\ ReportFailure(c)
  /\ IF LastAttempt(c) THEN Leave(c, "retryable_error") ELSE Retry(c)

\* fn raised something else: an unlisted exception or status, the
\* CircuitOpenError of an inner breaker, a cancellation
AttemptRaisesFatal(c) ==
  /\ ReportFailure(c)
  /\ Leave(c, "fatal_error")

AttemptFails(c) ==
  AttemptTimesOut(c) \/ AttemptRaisesRetryable(c) \/ AttemptRaisesFatal(c)

AttemptEnds(c) == AttemptReturns(c) \/ AttemptFails(c)

-----------------------------------------------------------------------------
(* The rest of the application, and time. *)

Observe ==
  /\ ReadState
  /\ UNCHANGED <<callerVars, quiet>>

OperatorReset ==
  /\ Reset
  /\ slot' = [c \in Callers |-> IF slot[c] = "trial" THEN "stale" ELSE slot[c]]
  /\ UNCHANGED <<pc, attempt, outcome, quiet>>

Clock ==
  /\ \/ Tick
     \/ quiet < Cooldown /\ cb.opened \notin 0 .. Cooldown - 1 /\ UNCHANGED breakerVars
  /\ quiet' = IF quiet < Cooldown THEN quiet + 1 ELSE Cooldown
  /\ UNCHANGED callerVars

Next ==
  \/ \E c \in Callers :
       \/ Begin(c) \/ Guard(c) \/ Reject(c) \/ BackoffInterrupted(c)
       \/ AttemptReturns(c)
       \/ AttemptTimesOut(c) \/ AttemptRaisesRetryable(c) \/ AttemptRaisesFatal(c)
  \/ Observe
  \/ OperatorReset
  \/ Clock

Spec == Init /\ [][Next]_vars

\* Threads and tasks are scheduled, backoff sleeps end and time passes.  An
\* attempt is sure to end only for an async caller: wait_for ends it.
Fairness ==
  /\ WF_vars(Clock)
  /\ \A c \in Callers : WF_vars(Guard(c)) /\ WF_vars(Reject(c))
  /\ \A c \in AsyncCallers : WF_vars(AttemptEnds(c))

FairSpec == Spec /\ Fairness

-----------------------------------------------------------------------------
(* Properties *)

TypeOK ==
  /\ BreakerTypeOK
  /\ pc \in [Callers -> PC]
  /\ attempt \in [Callers -> 0 .. MaxAttempts - 1]
  /\ outcome \in [Callers -> Outcome]
  /\ slot \in [Callers -> Slot]
  /\ quiet \in 0 .. Cooldown

\* half_open_calls is never decremented: it can only be right because any
\* report, late ones included, ends the HALF_OPEN period.  So in HALF_OPEN the
\* slots taken are exactly the trials of this period still running: none
\* leaks, and none is handed out twice.
SlotsAreHeld ==
  IF cb.state = "HALF_OPEN"
    THEN Cardinality(Holding("trial")) = cb.half_open_calls
    ELSE Holding("trial") = {}

\* No trial is let through within Cooldown of any failure, the late reports of
\* attempts that were let through before the circuit opened included.
QuietBeforeTrial == cb.state = "HALF_OPEN" => quiet = Cooldown

\* An async call always comes back, whatever the breaker and the other callers
\* do: every attempt is bounded and the attempts are counted.
AsyncCallsEnd == \A c \in AsyncCallers : pc[c] # "idle" ~> pc[c] = "idle"

\* A HALF_OPEN period in which an async caller holds a slot comes to an end;
\* one whose slots are all held by sync calls that hang never does.
TrialResolves ==
  (cb.state = "HALF_OPEN" /\ Holding("trial") \cap AsyncCallers # {})
    ~> cb.state # "HALF_OPEN"

\* Once no attempt fails any more, calls keep arriving and none hangs, the
\* circuit closes for good.
Recovers ==
  (/\ \A c \in Callers : []<>(pc[c] = "idle")
   /\ \E c \in Callers : []<>(pc[c] = "guard")
   /\ <>[][~\E c \in Callers : AttemptFails(c)]_vars)
  => <>[](cb.state = "CLOSED")

-----------------------------------------------------------------------------
(* What the documentation says, and the code does not do. *)

\* The diagram at the top of circuit.py.
DocumentedTransition ==
  <<cb.state, cb'.state>> \in {<<"CLOSED", "OPEN">>, <<"OPEN", "HALF_OPEN">>,
                               <<"HALF_OPEN", "CLOSED">>, <<"HALF_OPEN", "OPEN">>}

\* The circuit changes state only along the edges of the documented diagram.
OnlyDocumentedTransitions ==
  [][cb'.state # cb.state => DocumentedTransition]_cb

\* half_open_max_calls is the "maximum number of concurrent trial calls".
ConcurrentTrialsBounded ==
  Cardinality(Holding("trial") \cup Holding("stale")) <= HalfOpenMaxCalls

\* RetriesExhausted is "raised when all retry attempts have been used without
\* success"; no path of the loop leaves with any outcome of that kind.
ExhaustionIsReported ==
  \A c \in Callers :
    pc[c] = "idle" /\ LastAttempt(c) =>
      outcome[c] \notin {"TimeoutExceeded", "retryable_error"}
=============================================================================
