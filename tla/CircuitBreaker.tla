---------------------------- MODULE CircuitBreaker ----------------------------
(***************************************************************************)
(* The in-memory circuit breaker of                                        *)
(* python/src/cubiczan_resilience/circuit.py.                              *)
(*                                                                         *)
(* Every method runs under one RLock, so every method is one atomic        *)
(* operation on the record cb: it is written as a function from the record *)
(* before to the record after, and an action applies it.  Only guard() is  *)
(* two critical sections (allow() and then retry_after()); the code that   *)
(* calls it, in module Resilient, takes two steps.                         *)
(*                                                                         *)
(* The clock is relative.  The code reads it only as clock() - opened_at,  *)
(* and only to compare with, or subtract from, cooldown_seconds; the field *)
(* opened is that difference, saturated at Cooldown, and NotOpened when    *)
(* opened_at is None.  failure_count is only compared with the threshold;  *)
(* it saturates at CountCap.                                               *)
(***************************************************************************)
EXTENDS Integers

CONSTANTS
  FailureThreshold,   \* failure_threshold
  Cooldown,           \* cooldown_seconds, in ticks
  HalfOpenMaxCalls,   \* half_open_max_calls
  CountCap,           \* where the model stops counting failures
  Resettable          \* whether the application ever calls reset()

\* The checks of __init__; CountCap must leave the threshold reachable.
ASSUME BreakerAssumption ==
  /\ FailureThreshold \in Nat /\ FailureThreshold >= 1
  /\ Cooldown \in Nat
  /\ HalfOpenMaxCalls \in Nat /\ HalfOpenMaxCalls >= 1
  /\ CountCap \in Nat /\ CountCap >= FailureThreshold
  /\ Resettable \in BOOLEAN

VARIABLES
  cb,       \* the breaker object
  answer    \* what the last allow() or retry_after() returned

breakerVars == <<cb, answer>>

CircuitState == {"CLOSED", "OPEN", "HALF_OPEN"}

NotOpened == -1

Breaker == [state : CircuitState,
            failure_count : 0 .. CountCap,
            opened : {NotOpened} \cup 0 .. Cooldown,
            half_open_calls : 0 .. HalfOpenMaxCalls]

Closed == [state |-> "CLOSED", failure_count |-> 0,
           opened |-> NotOpened, half_open_calls |-> 0]

Answer == {<<"none", 0>>, <<"allow", 0>>, <<"allow", 1>>}
            \cup {<<"retry_after", n>> : n \in 0 .. Cooldown}

-----------------------------------------------------------------------------
(* The methods, as functions of the breaker record. *)

\* Slip: the transition to HALF_OPEN also forgets the failures counted so far.
MaybeHalfOpen_ForgetsFailures(b) ==
  IF b.state = "OPEN" /\ b.opened >= Cooldown
    THEN [b EXCEPT !.state = "HALF_OPEN", !.half_open_calls = 0, !.failure_count = 0]
    ELSE b

\* Slip: without the test on OPEN every later call re-arms the slots.
MaybeHalfOpen_Rearms(b) ==
  IF b.opened # NotOpened /\ b.opened >= Cooldown
    THEN [b EXCEPT !.state = "HALF_OPEN", !.half_open_calls = 0]
    ELSE b

\* _maybe_half_open
MaybeHalfOpen(b) ==
  IF b.state = "OPEN" /\ b.opened # NotOpened /\ b.opened >= Cooldown
    THEN [b EXCEPT !.state = "HALF_OPEN", !.half_open_calls = 0]
    ELSE b

\* What allow() returns.
Allowed(b) ==
  LET h == MaybeHalfOpen(b)
  IN  /\ h.state # "OPEN"
      /\ h.state = "HALF_OPEN" => h.half_open_calls < HalfOpenMaxCalls

\* The breaker after allow(): a trial reserves a slot, a refusal leaves none.
AfterAllow(b) ==
  LET h == MaybeHalfOpen(b)
  IN  IF h.state = "HALF_OPEN" /\ Allowed(b)
        THEN [h EXCEPT !.half_open_calls = @ + 1]
        ELSE h

\* retry_after(), evaluated after its own _maybe_half_open
RetryAfter(b) ==
  LET h == MaybeHalfOpen(b)
  IN  IF h.state = "OPEN" /\ h.opened # NotOpened THEN Cooldown - h.opened ELSE 0

\* Slip: a failed trial re-opens the circuit but keeps the slots reserved.
TripOpen_KeepsSlots(b) ==
  [b EXCEPT !.state = "OPEN", !.opened = 0]

\* _trip_open
TripOpen(b) ==
  [b EXCEPT !.state = "OPEN", !.opened = 0, !.half_open_calls = 0]

\* Slip: a success clears the counters and forgets to close the circuit.
AfterSuccess_StaysHalfOpen(b) ==
  [b EXCEPT !.failure_count = 0, !.half_open_calls = 0]

\* record_success, whatever the state
AfterSuccess(b) == Closed

\* Slip: a failure that comes in while OPEN does not restart the cooldown.
AfterFailure_IgnoredWhileOpen(b) ==
  LET n == IF b.failure_count < CountCap THEN b.failure_count + 1 ELSE CountCap
  IN  IF b.state = "HALF_OPEN" THEN TripOpen(b)
      ELSE IF b.state = "CLOSED" /\ n >= FailureThreshold
        THEN TripOpen([b EXCEPT !.failure_count = n])
        ELSE [b EXCEPT !.failure_count = n]

\* record_failure
AfterFailure(b) ==
  LET n == IF b.failure_count < CountCap THEN b.failure_count + 1 ELSE CountCap
  IN  IF b.state = "HALF_OPEN" THEN TripOpen(b)
      ELSE IF n >= FailureThreshold
        THEN TripOpen([b EXCEPT !.failure_count = n])
        ELSE [b EXCEPT !.failure_count = n]

-----------------------------------------------------------------------------
(* The operations, one critical section each. *)

BreakerInit ==
  /\ cb = Closed
  /\ answer = <<"none", 0>>

AskAllow ==
  /\ cb' = AfterAllow(cb)
  /\ answer' = <<"allow", IF Allowed(cb) THEN 1 ELSE 0>>

AskRetryAfter ==
  /\ cb' = MaybeHalfOpen(cb)
  /\ answer' = <<"retry_after", RetryAfter(cb)>>

\* Reading the property state may move OPEN to HALF_OPEN.
ReadState ==
  /\ cb' = MaybeHalfOpen(cb)
  /\ UNCHANGED answer

RecordSuccess ==
  /\ cb' = AfterSuccess(cb)
  /\ UNCHANGED answer

RecordFailure ==
  /\ cb' = AfterFailure(cb)
  /\ UNCHANGED answer

Reset ==
  /\ Resettable
  /\ cb' = Closed
  /\ UNCHANGED answer

\* The monotonic clock moves on; nothing depends on it once it saturates.
Tick ==
  /\ cb.opened \in 0 .. Cooldown - 1
  /\ cb' = [cb EXCEPT !.opened = @ + 1]
  /\ UNCHANGED answer

BreakerNext ==
  \/ AskAllow \/ AskRetryAfter \/ ReadState
  \/ RecordSuccess \/ RecordFailure \/ Reset
  \/ Tick

BreakerSpec == BreakerInit /\ [][BreakerNext]_breakerVars

-----------------------------------------------------------------------------
(* Properties *)

BreakerTypeOK == cb \in Breaker /\ answer \in Answer

\* The four fields stay coherent through every order of admissions and
\* (possibly late) reports: the circuit is CLOSED exactly while it has no
\* opening time and fewer failures than the threshold, and slots are reserved
\* in HALF_OPEN only, which is entered only once the cooldown has run out.
Coherent ==
  /\ cb.state = "CLOSED" <=> cb.opened = NotOpened
  /\ cb.state = "CLOSED" <=> cb.failure_count < FailureThreshold
  /\ cb.state # "HALF_OPEN" => cb.half_open_calls = 0
  /\ cb.state = "HALF_OPEN" => cb.opened = Cooldown

Contract ==
  INSTANCE BreakerContract
    WITH fails   <- IF cb.failure_count < FailureThreshold
                      THEN cb.failure_count ELSE FailureThreshold,
         cooling <- IF cb.opened = NotOpened THEN 0 ELSE Cooldown - cb.opened,
         trials  <- cb.half_open_calls

\* The state machine answers every allow() and retry_after() as the contract,
\* which knows only what was reported and when, says it must.
MeetsContract == Contract!ContractSpec
=============================================================================
