--------------------------- MODULE ResilientProofs ---------------------------
(***************************************************************************)
(* Proofs about the breaker alone, for every threshold, cooldown and limit *)
(* and any order of calls to it; and about the callers of one shared       *)
(* breaker, for any finite set of callers and any retry policy.            *)
(***************************************************************************)
EXTENDS Resilient, FiniteSetTheorems, TLAPS

-----------------------------------------------------------------------------
(* The breaker. *)


\* The inductive invariant: types and the coherence of the four fields.
BreakerInv == BreakerTypeOK /\ Coherent

\* A breaker record satisfying the invariant; the operations preserve it.
Good(b) ==
  /\ b \in Breaker
  /\ b.state = "CLOSED" <=> b.opened = NotOpened
  /\ b.state = "CLOSED" <=> b.failure_count < FailureThreshold
  /\ b.state # "HALF_OPEN" => b.half_open_calls = 0
  /\ b.state = "HALF_OPEN" => b.opened = Cooldown

\* The initial breaker is good.
LEMMA ClosedGood == Good(Closed)
  BY BreakerAssumption DEF Good, Closed, Breaker, CircuitState, NotOpened

\* _maybe_half_open preserves coherence.
LEMMA MaybeHalfOpenGood ==
  ASSUME NEW b, Good(b)
  PROVE  Good(MaybeHalfOpen(b))
  <1>1. CASE b.state = "OPEN" /\ b.opened # NotOpened /\ b.opened >= Cooldown
    <2> DEFINE r == [b EXCEPT !.state = "HALF_OPEN", !.half_open_calls = 0]
    <2>1. /\ b \in Breaker
          /\ b.failure_count >= FailureThreshold
          /\ b.opened = Cooldown
      BY <1>1, BreakerAssumption DEF Good, Breaker, NotOpened
    <2>2. r \in Breaker
      <3>1. "HALF_OPEN" \in CircuitState /\ 0 \in 0 .. HalfOpenMaxCalls
        BY BreakerAssumption DEF CircuitState
      <3> QED
        BY <2>1, <3>1 DEF Breaker
    <2>3. /\ r.state = "HALF_OPEN" /\ r.opened = Cooldown
          /\ r.failure_count = b.failure_count
      BY <2>1 DEF Breaker
    <2> HIDE DEF r
    <2>4. Good(r)
      BY <2>1, <2>2, <2>3, BreakerAssumption DEF Good, Breaker, NotOpened
    <2> QED
      BY <1>1, <2>4 DEF MaybeHalfOpen, r
  <1>2. CASE ~(b.state = "OPEN" /\ b.opened # NotOpened /\ b.opened >= Cooldown)
    BY <1>2 DEF MaybeHalfOpen
  <1> QED
    BY <1>1, <1>2

\* allow() preserves coherence.
LEMMA AfterAllowGood ==
  ASSUME NEW b, Good(b)
  PROVE  Good(AfterAllow(b))
  <1> DEFINE h == MaybeHalfOpen(b)
  <1>1. Good(h)
    BY MaybeHalfOpenGood
  <1>2. CASE h.state = "HALF_OPEN" /\ Allowed(b)
    <2>1. h.half_open_calls < HalfOpenMaxCalls
      BY <1>2 DEF Allowed
    <2>2. AfterAllow(b) = [h EXCEPT !.half_open_calls = @ + 1]
      BY <1>2 DEF AfterAllow
    <2> HIDE DEF h
    <2> QED
      BY <1>1, <1>2, <2>1, <2>2, BreakerAssumption DEF Good, Breaker, CircuitState, NotOpened
  <1>3. CASE ~(h.state = "HALF_OPEN" /\ Allowed(b))
    BY <1>1, <1>3 DEF AfterAllow
  <1> QED
    BY <1>2, <1>3

\* _trip_open makes the breaker coherent once the count is at the threshold.
LEMMA TripOpenGood ==
  ASSUME NEW b \in Breaker, b.failure_count >= FailureThreshold
  PROVE  Good(TripOpen(b))
  <1> DEFINE r == TripOpen(b)
  <1>1. r \in Breaker
    <2>1. /\ "OPEN" \in CircuitState
          /\ 0 \in {NotOpened} \cup 0 .. Cooldown
          /\ 0 \in 0 .. HalfOpenMaxCalls
      BY BreakerAssumption DEF CircuitState
    <2> QED
      BY <2>1 DEF TripOpen, Breaker
  <1>2. /\ r.state = "OPEN" /\ r.opened = 0 /\ r.half_open_calls = 0
        /\ r.failure_count = b.failure_count
    BY DEF TripOpen, Breaker
  <1> HIDE DEF r
  <1>3. Good(r)
    BY <1>1, <1>2, BreakerAssumption DEF Good, Breaker, NotOpened
  <1> QED
    BY <1>3 DEF r

\* record_failure preserves coherence.
LEMMA AfterFailureGood ==
  ASSUME NEW b, Good(b)
  PROVE  Good(AfterFailure(b))
  <1> DEFINE n == IF b.failure_count < CountCap THEN b.failure_count + 1 ELSE CountCap
             d == [b EXCEPT !.failure_count = n]
  <1>1. /\ n \in 0 .. CountCap
        /\ n < FailureThreshold => b.failure_count < FailureThreshold
    BY BreakerAssumption DEF Good, Breaker
  <1> HIDE DEF n
  <1>2. d \in Breaker /\ d.failure_count = n
    BY <1>1 DEF Good, Breaker
  <1>3. CASE b.state = "HALF_OPEN"
    <2>1. b.failure_count >= FailureThreshold
      BY <1>3, BreakerAssumption DEF Good, Breaker
    <2> QED
      BY <1>3, <2>1, TripOpenGood DEF AfterFailure, Good
  <1>4. CASE b.state # "HALF_OPEN" /\ n >= FailureThreshold
    <2>1. AfterFailure(b) = TripOpen(d)
      BY <1>4 DEF AfterFailure, n
    <2> QED
      BY <1>2, <1>4, <2>1, TripOpenGood
  <1>5. CASE b.state # "HALF_OPEN" /\ ~(n >= FailureThreshold)
    <2>1. AfterFailure(b) = d
      BY <1>5 DEF AfterFailure, n
    <2>2. b.state = "CLOSED"
      BY <1>1, <1>5, BreakerAssumption DEF Good, Breaker
    <2> QED
      BY <1>1, <1>2, <1>5, <2>1, <2>2, BreakerAssumption DEF Good, Breaker
  <1> QED
    BY <1>3, <1>4, <1>5

\* Every operation preserves the invariant.
LEMMA BreakerInvStep == BreakerInv /\ [BreakerNext]_breakerVars => BreakerInv'
  <1> SUFFICES ASSUME BreakerInv, [BreakerNext]_breakerVars
               PROVE  BreakerInv'
    OBVIOUS
  <1>0. Good(cb) /\ answer \in Answer
    BY DEF BreakerInv, BreakerTypeOK, Coherent, Good
  <1>1. SUFFICES Good(cb') /\ answer' \in Answer
    BY DEF BreakerInv, BreakerTypeOK, Coherent, Good
  <1>2. CASE AskAllow
    BY <1>0, <1>2, AfterAllowGood DEF AskAllow, Answer
  <1>3. CASE AskRetryAfter
    <2>1. Good(MaybeHalfOpen(cb))
      BY <1>0, MaybeHalfOpenGood
    <2>2. RetryAfter(cb) \in 0 .. Cooldown
      BY <2>1, BreakerAssumption DEF RetryAfter, Good, Breaker, NotOpened
    <2> QED
      BY <1>3, <2>1, <2>2 DEF AskRetryAfter, Answer
  <1>4. CASE ReadState
    BY <1>0, <1>4, MaybeHalfOpenGood DEF ReadState
  <1>5. CASE RecordSuccess
    BY <1>0, <1>5, ClosedGood DEF RecordSuccess, AfterSuccess
  <1>6. CASE RecordFailure
    BY <1>0, <1>6, AfterFailureGood DEF RecordFailure
  <1>7. CASE Reset
    BY <1>0, <1>7, ClosedGood DEF Reset
  <1>8. CASE Tick
    BY <1>0, <1>8, BreakerAssumption DEF Tick, Good, Breaker, CircuitState, NotOpened
  <1>9. CASE UNCHANGED breakerVars
    BY <1>0, <1>9 DEF breakerVars
  <1> QED
    BY <1>2, <1>3, <1>4, <1>5, <1>6, <1>7, <1>8, <1>9 DEF BreakerNext

\* Types hold and the four fields of the breaker stay coherent, for every
\* threshold, cooldown and slot limit __init__ accepts.
THEOREM BreakerCoherent == BreakerSpec => [](BreakerTypeOK /\ Coherent)
  <1>1. BreakerInit => BreakerInv
    BY ClosedGood DEF BreakerInit, BreakerInv, BreakerTypeOK, Coherent, Good, Answer
  <1> QED
    BY <1>1, BreakerInvStep, PTL DEF BreakerSpec, BreakerInv

-----------------------------------------------------------------------------
(* The breaker implements its contract. *)

\* One operation of the breaker is one step of the contract, or none.
LEMMA ContractStep ==
  BreakerInv /\ [BreakerNext]_breakerVars
    => [Contract!ContractNext]_(Contract!contractVars)
  <1> SUFFICES ASSUME BreakerInv, [BreakerNext]_breakerVars
               PROVE  [Contract!ContractNext]_(Contract!contractVars)
    OBVIOUS
  <1> DEFINE h == MaybeHalfOpen(cb)
  <1>0. Good(cb) /\ Good(h)
    BY MaybeHalfOpenGood DEF BreakerInv, BreakerTypeOK, Coherent, Good
  <1>h. /\ h.failure_count = cb.failure_count
        /\ h.opened = cb.opened
        /\ h.half_open_calls = cb.half_open_calls
        /\ h.state = "OPEN" => cb.opened < Cooldown
    BY <1>0, BreakerAssumption DEF MaybeHalfOpen, Good, Breaker, CircuitState, NotOpened
  <1>t. Contract!Tripped <=> h.state # "CLOSED"
    BY <1>0, <1>h, BreakerAssumption DEF Contract!Tripped, Good, Breaker
  <1>a. Contract!CanAdmit <=> Allowed(cb)
    BY <1>0, <1>h, <1>t, BreakerAssumption
       DEF Contract!CanAdmit, Allowed, Good, Breaker, CircuitState, NotOpened
  <1>2. CASE AskAllow
    <2>1. CASE Allowed(cb)
      <3>1. /\ cb'.failure_count = cb.failure_count
            /\ cb'.opened = cb.opened
            /\ cb'.half_open_calls = IF h.state = "HALF_OPEN" THEN cb.half_open_calls + 1
                                                             ELSE cb.half_open_calls
        BY <1>0, <1>h, <1>2, <2>1 DEF AskAllow, AfterAllow, Good, Breaker
      <3>2. h.state = "HALF_OPEN" <=> Contract!Tripped
        BY <1>0, <1>t, <2>1 DEF Allowed, Good, Breaker, CircuitState
      <3>3. answer' = <<"allow", 1>>
        BY <1>2, <2>1 DEF AskAllow
      <3>4. Contract!Admit
        BY <1>a, <2>1, <3>1, <3>2, <3>3 DEF Contract!Admit
      <3> QED
        BY <3>4 DEF Contract!ContractNext
    <2>2. CASE ~Allowed(cb)
      <3>1. Contract!Deny
        BY <1>h, <1>a, <1>2, <2>2 DEF AskAllow, AfterAllow, Contract!Deny
      <3> QED
        BY <3>1 DEF Contract!ContractNext
    <2> QED
      BY <2>1, <2>2
  <1>3. CASE AskRetryAfter
    <2>1. Contract!TellWait
      BY <1>0, <1>h, <1>t, <1>3, BreakerAssumption
         DEF AskRetryAfter, RetryAfter, Contract!TellWait, Good, Breaker, CircuitState, NotOpened
    <2> QED
      BY <2>1 DEF Contract!ContractNext
  <1>4. CASE ReadState
    BY <1>h, <1>4 DEF ReadState, Contract!contractVars
  <1>5. CASE RecordSuccess
    <2>1. Contract!Succeed
      BY <1>5, BreakerAssumption
         DEF RecordSuccess, AfterSuccess, Closed, NotOpened, Contract!Succeed
    <2> QED
      BY <2>1 DEF Contract!ContractNext
  <1>6. CASE RecordFailure
    <2>1. Contract!Fail
      BY <1>0, <1>6, BreakerAssumption
         DEF RecordFailure, AfterFailure, TripOpen, Contract!Fail, Contract!Tripped,
             Good, Breaker, CircuitState, NotOpened
    <2> QED
      BY <2>1 DEF Contract!ContractNext
  <1>7. CASE Reset
    <2>1. Contract!Succeed
      BY <1>7, BreakerAssumption DEF Reset, Closed, NotOpened, Contract!Succeed
    <2> QED
      BY <2>1 DEF Contract!ContractNext
  <1>8. CASE Tick
    <2>1. Contract!TimePasses
      BY <1>0, <1>8, BreakerAssumption
         DEF Tick, Contract!TimePasses, Good, Breaker, CircuitState, NotOpened
    <2> QED
      BY <2>1 DEF Contract!ContractNext
  <1>9. CASE UNCHANGED breakerVars
    BY <1>9 DEF breakerVars, Contract!contractVars
  <1> QED
    BY <1>2, <1>3, <1>4, <1>5, <1>6, <1>7, <1>8, <1>9 DEF BreakerNext

\* The state machine of circuit.py implements the contract: every answer of
\* allow() and retry_after() is the one the reports made so far call for.
THEOREM BreakerMeetsContract == BreakerSpec => MeetsContract
  <1>1. BreakerInit => Contract!ContractInit
    BY BreakerAssumption DEF BreakerInit, Closed, NotOpened, Contract!ContractInit
  <1>2. BreakerSpec => []BreakerInv
    BY BreakerCoherent DEF BreakerInv
  <1> QED
    BY <1>1, <1>2, ContractStep, PTL DEF BreakerSpec, MeetsContract, Contract!ContractSpec

-----------------------------------------------------------------------------
(* Its callers. *)

CallersTypeOK ==
  /\ pc \in [Callers -> PC]
  /\ attempt \in [Callers -> 0 .. MaxAttempts - 1]
  /\ outcome \in [Callers -> Outcome]
  /\ slot \in [Callers -> Slot]
  /\ quiet \in 0 .. Cooldown

\* A caller was let through exactly when it is inside fn.
SlotWhileCalling == \A c \in Callers : slot[c] = "none" <=> pc[c] # "call"

\* While the circuit is not CLOSED, its age is that of the last failure: every
\* failure reported in OPEN trips again because the count is past the threshold.
AgeIsQuiet == cb.state # "CLOSED" => cb.opened = quiet

\* SlotsAreHeld of an arbitrary breaker record.
SlotsHeldIn(b) ==
  IF b.state = "HALF_OPEN"
    THEN Cardinality(Holding("trial")) = b.half_open_calls
    ELSE Holding("trial") = {}

\* The inductive invariant.
RInv ==
  /\ BreakerInv
  /\ CallersTypeOK
  /\ SlotWhileCalling
  /\ SlotsAreHeld
  /\ AgeIsQuiet

-----------------------------------------------------------------------------
(* Facts about single operations. *)

\* Every step of the callers is an operation of the breaker, or none.
LEMMA StepIsBreakerStep == [Next]_vars => [BreakerNext]_breakerVars
  <1> SUFFICES ASSUME [Next]_vars PROVE [BreakerNext]_breakerVars
    OBVIOUS
  <1>1. ASSUME NEW c \in Callers,
               Begin(c) \/ Guard(c) \/ Reject(c) \/ BackoffInterrupted(c)
                 \/ AttemptReturns(c)
                 \/ AttemptTimesOut(c) \/ AttemptRaisesRetryable(c) \/ AttemptRaisesFatal(c)
        PROVE  [BreakerNext]_breakerVars
    BY <1>1 DEF Begin, Guard, Reject, BackoffInterrupted, AttemptReturns,
                AttemptTimesOut, AttemptRaisesRetryable, AttemptRaisesFatal, ReportFailure,
                BreakerNext, breakerVars
  <1>2. CASE Observe \/ OperatorReset \/ Clock
    BY <1>2 DEF Observe, OperatorReset, Clock, BreakerNext, breakerVars
  <1>3. CASE UNCHANGED vars
    BY <1>3 DEF vars, breakerVars
  <1> QED
    BY <1>1, <1>2, <1>3 DEF Next

\* A report of failure leaves the circuit out of HALF_OPEN, and if it is not
\* CLOSED then the failure (re)started its cooldown.
LEMMA AfterFailureShape ==
  ASSUME NEW b, Good(b)
  PROVE  /\ AfterFailure(b).state # "HALF_OPEN"
         /\ AfterFailure(b).state # "CLOSED" => AfterFailure(b).opened = 0
  <1> DEFINE n == IF b.failure_count < CountCap THEN b.failure_count + 1 ELSE CountCap
             d == [b EXCEPT !.failure_count = n]
  <1>1. /\ n \in 0 .. CountCap
        /\ n < FailureThreshold => b.failure_count < FailureThreshold
    BY BreakerAssumption DEF Good, Breaker
  <1> HIDE DEF n
  <1>2. d \in Breaker /\ d.state = b.state
    BY <1>1 DEF Good, Breaker
  <1>3. \A r \in Breaker : TripOpen(r).state = "OPEN" /\ TripOpen(r).opened = 0
    BY DEF TripOpen, Breaker
  <1>4. CASE b.state = "HALF_OPEN"
    BY <1>3, <1>4 DEF AfterFailure, Good
  <1>5. CASE b.state # "HALF_OPEN" /\ n >= FailureThreshold
    BY <1>2, <1>3, <1>5 DEF AfterFailure, n
  <1>6. CASE b.state # "HALF_OPEN" /\ ~(n >= FailureThreshold)
    <2>1. AfterFailure(b) = d
      BY <1>6 DEF AfterFailure, n
    <2>2. b.state = "CLOSED"
      BY <1>1, <1>6, BreakerAssumption DEF Good, Breaker
    <2> QED
      BY <1>2, <2>1, <2>2
  <1> QED
    BY <1>4, <1>5, <1>6

\* Entering HALF_OPEN starts with no slot taken and changes no other field.
LEMMA MaybeHalfOpenShape ==
  ASSUME NEW b, Good(b)
  PROVE  /\ MaybeHalfOpen(b).opened = b.opened
         /\ MaybeHalfOpen(b).state = "CLOSED" <=> b.state = "CLOSED"
         /\ MaybeHalfOpen(b).half_open_calls = b.half_open_calls
         /\ b.state = "HALF_OPEN" => MaybeHalfOpen(b) = b
         /\ MaybeHalfOpen(b).state # b.state =>
              b.state = "OPEN" /\ MaybeHalfOpen(b).state = "HALF_OPEN"
                /\ MaybeHalfOpen(b).half_open_calls = 0
  BY DEF MaybeHalfOpen, Good, Breaker, CircuitState

\* The cardinality facts behind SlotsAreHeld need Callers to be finite.
LEMMA HoldingFinite == IsFiniteSet(Holding("trial"))
  BY CallersAssumption, FS_Subset DEF Holding

\* _maybe_half_open keeps the slots right.
LEMMA MaybeHalfOpenHeld ==
  ASSUME Good(cb), SlotsAreHeld
  PROVE  SlotsHeldIn(MaybeHalfOpen(cb))
  <1>1. CASE MaybeHalfOpen(cb).state = cb.state
    BY <1>1, MaybeHalfOpenShape DEF SlotsAreHeld, SlotsHeldIn
  <1>2. CASE MaybeHalfOpen(cb).state # cb.state
    <2>1. Holding("trial") = {}
      BY <1>2, MaybeHalfOpenShape DEF SlotsAreHeld
    <2> QED
      BY <1>2, <2>1, MaybeHalfOpenShape, FS_EmptySet DEF SlotsHeldIn
  <1> QED
    BY <1>1, <1>2

-----------------------------------------------------------------------------
(* The inductive step, one conjunct of the invariant at a time. *)

\* The callers' variables keep their types.
LEMMA TypeStep == RInv /\ [Next]_vars => CallersTypeOK'
  <1> SUFFICES ASSUME RInv, [Next]_vars PROVE CallersTypeOK'
    OBVIOUS
  <1> USE DEF RInv, CallersTypeOK
  <1>c. Cooldown \in Nat /\ MaxAttempts \in Nat /\ MaxAttempts >= 1
    BY BreakerAssumption, CallersAssumption
  <1>s. \A r \in Callers : SlotsAfterReport(r) \in [Callers -> Slot]
    BY DEF SlotsAfterReport, Slot
  <1>l. ASSUME NEW c \in Callers, NEW res \in Outcome, Leave(c, res)
        PROVE  /\ pc' \in [Callers -> PC]
               /\ attempt' \in [Callers -> 0 .. MaxAttempts - 1]
               /\ outcome' \in [Callers -> Outcome]
    BY <1>l DEF Leave, PC
  <1>r. ASSUME NEW c \in Callers, Retry(c), ~LastAttempt(c)
        PROVE  /\ pc' \in [Callers -> PC]
               /\ attempt' \in [Callers -> 0 .. MaxAttempts - 1]
               /\ outcome' \in [Callers -> Outcome]
    <2>1. attempt[c] + 1 \in 0 .. MaxAttempts - 1
      BY <1>r, <1>c DEF LastAttempt
    <2> QED
      BY <1>r, <2>1 DEF Retry, PC
  <1>1. ASSUME NEW c \in Callers, Begin(c) PROVE CallersTypeOK'
    <2>1. 0 \in 0 .. MaxAttempts - 1
      BY <1>c
    <2> QED
      BY <1>1, <2>1 DEF Begin, PC, Outcome
  <1>2. ASSUME NEW c \in Callers, Guard(c) PROVE CallersTypeOK'
    BY <1>2 DEF Guard, PC, Slot
  <1>3. ASSUME NEW c \in Callers, Reject(c) PROVE CallersTypeOK'
    BY <1>3, <1>l DEF Reject, Outcome
  <1>4. ASSUME NEW c \in Callers, AttemptReturns(c) PROVE CallersTypeOK'
    BY <1>4, <1>l, <1>s DEF AttemptReturns, Outcome
  <1>5. ASSUME NEW c \in Callers, AttemptTimesOut(c) PROVE CallersTypeOK'
    BY <1>5, <1>l, <1>r, <1>s, <1>c DEF AttemptTimesOut, ReportFailure, Outcome
  <1>6. ASSUME NEW c \in Callers, AttemptRaisesRetryable(c) PROVE CallersTypeOK'
    BY <1>6, <1>l, <1>r, <1>s, <1>c DEF AttemptRaisesRetryable, ReportFailure, Outcome
  <1>7. ASSUME NEW c \in Callers, AttemptRaisesFatal(c) PROVE CallersTypeOK'
    BY <1>7, <1>l, <1>s, <1>c DEF AttemptRaisesFatal, ReportFailure, Outcome
  <1>8. CASE Observe
    BY <1>8 DEF Observe, callerVars
  <1>9. CASE OperatorReset
    BY <1>9 DEF OperatorReset, Slot
  <1>10. CASE Clock
    BY <1>10, <1>c DEF Clock, callerVars
  <1>11. ASSUME NEW c \in Callers, BackoffInterrupted(c) PROVE CallersTypeOK'
    BY <1>11, <1>l DEF BackoffInterrupted, Outcome
  <1>12. CASE UNCHANGED vars
    BY <1>12 DEF vars
  <1> QED
    BY <1>1, <1>2, <1>3, <1>4, <1>5, <1>6, <1>7, <1>8, <1>9, <1>10, <1>11, <1>12 DEF Next

\* A caller holds a slot exactly while it is inside fn.
LEMMA SlotWhileCallingStep == RInv /\ [Next]_vars => SlotWhileCalling'
  <1> SUFFICES ASSUME RInv, [Next]_vars PROVE SlotWhileCalling'
    OBVIOUS
  <1> USE DEF RInv, CallersTypeOK, SlotWhileCalling
  <1>1. ASSUME NEW c \in Callers, Begin(c) PROVE SlotWhileCalling'
    BY <1>1 DEF Begin
  <1>2. ASSUME NEW c \in Callers, Guard(c) PROVE SlotWhileCalling'
    BY <1>2 DEF Guard
  <1>3. ASSUME NEW c \in Callers, Reject(c) PROVE SlotWhileCalling'
    BY <1>3 DEF Reject, Leave
  <1>4. ASSUME NEW c \in Callers, slot' = SlotsAfterReport(c),
               NEW v \in PC \ {"call"}, pc' = [pc EXCEPT ![c] = v]
        PROVE  SlotWhileCalling'
    BY <1>4 DEF SlotsAfterReport
  <1>5. ASSUME NEW c \in Callers,
               AttemptReturns(c) \/ AttemptTimesOut(c)
                 \/ AttemptRaisesRetryable(c) \/ AttemptRaisesFatal(c)
        PROVE  SlotWhileCalling'
    <2>1. slot' = SlotsAfterReport(c)
      BY <1>5 DEF AttemptReturns, AttemptTimesOut, AttemptRaisesRetryable,
                  AttemptRaisesFatal, ReportFailure
    <2>2. pc' = [pc EXCEPT ![c] = "idle"] \/ pc' = [pc EXCEPT ![c] = "guard"]
      BY <1>5 DEF AttemptReturns, AttemptTimesOut, AttemptRaisesRetryable,
                  AttemptRaisesFatal, Leave, Retry
    <2>3. "idle" \in PC \ {"call"} /\ "guard" \in PC \ {"call"}
      BY DEF PC
    <2> QED
      BY <1>4, <2>1, <2>2, <2>3
  <1>6. CASE Observe \/ Clock
    BY <1>6 DEF Observe, Clock, callerVars
  <1>7. CASE OperatorReset
    BY <1>7 DEF OperatorReset
  <1>8. ASSUME NEW c \in Callers, BackoffInterrupted(c) PROVE SlotWhileCalling'
    BY <1>8 DEF BackoffInterrupted, Leave
  <1>9. CASE UNCHANGED vars
    BY <1>9 DEF vars
  <1> QED
    BY <1>1, <1>2, <1>3, <1>5, <1>6, <1>7, <1>8, <1>9 DEF Next

\* In HALF_OPEN the slots taken stay exactly the trials still running.
LEMMA SlotsStep == RInv /\ [Next]_vars => SlotsAreHeld'
  <1> SUFFICES ASSUME RInv, [Next]_vars PROVE SlotsAreHeld'
    OBVIOUS
  <1> DEFINE h == MaybeHalfOpen(cb)
  <1>g. Good(cb) /\ Good(h) /\ SlotsHeldIn(h)
    BY MaybeHalfOpenHeld, MaybeHalfOpenGood
       DEF RInv, BreakerInv, BreakerTypeOK, Coherent, Good
  <1>0. ASSUME cb' = h, slot' = slot PROVE SlotsAreHeld'
    BY <1>0, <1>g DEF SlotsAreHeld, SlotsHeldIn, Holding
  <1>1. ASSUME cb'.state # "HALF_OPEN",
               \A c \in Callers : slot'[c] # "trial"
        PROVE  SlotsAreHeld'
    BY <1>1 DEF SlotsAreHeld, Holding
  <1>2. ASSUME NEW c \in Callers, slot' = SlotsAfterReport(c)
        PROVE  \A d \in Callers : slot'[d] # "trial"
    BY <1>2 DEF SlotsAfterReport
  <1>3. ASSUME NEW c \in Callers, Begin(c) PROVE SlotsAreHeld'
    BY <1>3 DEF RInv, Begin, SlotsAreHeld, Holding
  <1>4. ASSUME NEW c \in Callers, Guard(c) PROVE SlotsAreHeld'
    <2>c. slot[c] = "none"
      BY <1>4 DEF Guard, RInv, SlotWhileCalling
    <2>1. CASE ~Allowed(cb)
      <3>1. cb' = h /\ slot' = slot
        BY <1>4, <2>1 DEF Guard, AskAllow, AfterAllow
      <3> QED
        BY <3>1, <1>0
    <2>2. CASE Allowed(cb) /\ h.state # "HALF_OPEN"
      <3>1. cb' = h
        BY <1>4, <2>2 DEF Guard, AskAllow, AfterAllow
      <3>2. slot' = [slot EXCEPT ![c] = "normal"]
        BY <1>4, <2>2, <3>1 DEF Guard
      <3>3. Holding("trial") = {}
        BY <1>g, <2>2 DEF SlotsHeldIn
      <3>4. \A d \in Callers : slot'[d] # "trial"
        BY <3>2, <3>3 DEF Holding, RInv, CallersTypeOK
      <3> QED
        BY <1>1, <2>2, <3>1, <3>4
    <2>3. CASE Allowed(cb) /\ h.state = "HALF_OPEN"
      <3>1. cb' = [h EXCEPT !.half_open_calls = @ + 1]
        BY <1>4, <2>3 DEF Guard, AskAllow, AfterAllow
      <3>2. cb'.state = "HALF_OPEN" /\ cb'.half_open_calls = h.half_open_calls + 1
        BY <3>1, <2>3, <1>g DEF Good, Breaker
      <3>3. slot' = [slot EXCEPT ![c] = "trial"]
        BY <1>4, <2>3, <3>2 DEF Guard
      <3>4. /\ Holding("trial")' = Holding("trial") \cup {c}
            /\ c \notin Holding("trial")
        BY <3>3, <2>c DEF Holding, RInv, CallersTypeOK
      <3>5. Cardinality(Holding("trial")') = Cardinality(Holding("trial")) + 1
        BY <3>4, HoldingFinite, FS_AddElement
      <3>6. Cardinality(Holding("trial")) = h.half_open_calls
        BY <1>g, <2>3 DEF SlotsHeldIn
      <3> QED
        BY <3>2, <3>5, <3>6 DEF SlotsAreHeld
    <2> QED
      BY <2>1, <2>2, <2>3
  <1>5. ASSUME NEW c \in Callers, Reject(c) PROVE SlotsAreHeld'
    BY <1>5, <1>0 DEF Reject, AskRetryAfter
  <1>6. ASSUME NEW c \in Callers, AttemptReturns(c) PROVE SlotsAreHeld'
    BY <1>6, <1>1, <1>2 DEF AttemptReturns, RecordSuccess, AfterSuccess, Closed
  <1>7. ASSUME NEW c \in Callers, ReportFailure(c) PROVE SlotsAreHeld'
    BY <1>7, <1>1, <1>2, <1>g, AfterFailureShape DEF ReportFailure, RecordFailure
  <1>8. CASE Observe
    BY <1>8, <1>0 DEF Observe, ReadState, callerVars
  <1>9. CASE OperatorReset
    BY <1>9, <1>1 DEF OperatorReset, Reset, Closed
  <1>10. CASE Clock
    <2>1. /\ cb'.state = cb.state /\ cb'.half_open_calls = cb.half_open_calls
          /\ slot' = slot
      BY <1>10, <1>g DEF Clock, Tick, breakerVars, callerVars, Good, Breaker
    <2> QED
      BY <2>1 DEF RInv, SlotsAreHeld, Holding
  <1>11. ASSUME NEW c \in Callers, BackoffInterrupted(c) PROVE SlotsAreHeld'
    BY <1>11 DEF BackoffInterrupted, RInv, SlotsAreHeld, Holding
  <1>12. CASE UNCHANGED vars
    BY <1>12 DEF vars, RInv, SlotsAreHeld, Holding
  <1> QED
    BY <1>3, <1>4, <1>5, <1>6, <1>7, <1>8, <1>9, <1>10, <1>11, <1>12
       DEF Next, AttemptTimesOut, AttemptRaisesRetryable, AttemptRaisesFatal

\* The age of an open circuit stays the time since the last failure.
LEMMA AgeStep == RInv /\ [Next]_vars => AgeIsQuiet'
  <1> SUFFICES ASSUME RInv, [Next]_vars PROVE AgeIsQuiet'
    OBVIOUS
  <1> DEFINE h == MaybeHalfOpen(cb)
  <1>g. Good(cb) /\ Good(h)
    BY MaybeHalfOpenGood DEF RInv, BreakerInv, BreakerTypeOK, Coherent, Good
  <1>0. ASSUME cb' = h, quiet' = quiet PROVE AgeIsQuiet'
    BY <1>0, <1>g, MaybeHalfOpenShape DEF RInv, AgeIsQuiet
  <1>1. ASSUME NEW c \in Callers, Begin(c) PROVE AgeIsQuiet'
    BY <1>1 DEF Begin, RInv, AgeIsQuiet
  <1>2. ASSUME NEW c \in Callers, Guard(c) PROVE AgeIsQuiet'
    <2>1. cb'.state = h.state /\ cb'.opened = h.opened /\ quiet' = quiet
      BY <1>2, <1>g DEF Guard, AskAllow, AfterAllow, Good, Breaker
    <2> QED
      BY <2>1, <1>g, MaybeHalfOpenShape DEF RInv, AgeIsQuiet
  <1>3. ASSUME NEW c \in Callers, Reject(c) PROVE AgeIsQuiet'
    BY <1>3, <1>0 DEF Reject, AskRetryAfter
  <1>4. ASSUME NEW c \in Callers, AttemptReturns(c) PROVE AgeIsQuiet'
    BY <1>4 DEF AttemptReturns, RecordSuccess, AfterSuccess, Closed, AgeIsQuiet
  <1>5. ASSUME NEW c \in Callers, ReportFailure(c) PROVE AgeIsQuiet'
    BY <1>5, <1>g, AfterFailureShape DEF ReportFailure, RecordFailure, AgeIsQuiet
  <1>6. CASE Observe
    BY <1>6, <1>0 DEF Observe, ReadState
  <1>7. CASE OperatorReset
    BY <1>7 DEF OperatorReset, Reset, Closed, AgeIsQuiet
  <1>8. CASE Clock
    <2>1. CASE Tick
      <3>1. cb'.state = cb.state /\ cb'.opened = cb.opened + 1
        BY <2>1, <1>g DEF Tick, Good, Breaker
      <3>2. cb.opened < Cooldown
        BY <2>1, BreakerAssumption DEF Tick
      <3> QED
        BY <1>8, <3>1, <3>2, BreakerAssumption DEF Clock, RInv, AgeIsQuiet
    <2>2. CASE quiet < Cooldown /\ cb.opened \notin 0 .. Cooldown - 1 /\ UNCHANGED breakerVars
      <3>1. cb.state = "CLOSED"
        BY <2>2, <1>g, BreakerAssumption DEF RInv, CallersTypeOK, AgeIsQuiet
      <3> QED
        BY <2>2, <3>1 DEF breakerVars, AgeIsQuiet
    <2> QED
      BY <1>8, <2>1, <2>2 DEF Clock
  <1>9. ASSUME NEW c \in Callers, BackoffInterrupted(c) PROVE AgeIsQuiet'
    BY <1>9 DEF BackoffInterrupted, RInv, AgeIsQuiet
  <1>10. CASE UNCHANGED vars
    BY <1>10 DEF vars, RInv, AgeIsQuiet
  <1> QED
    BY <1>1, <1>2, <1>3, <1>4, <1>5, <1>6, <1>7, <1>8, <1>9, <1>10
       DEF Next, AttemptTimesOut, AttemptRaisesRetryable, AttemptRaisesFatal

-----------------------------------------------------------------------------
(* The theorems. *)

\* The invariant holds while no caller has called yet.
LEMMA RInvInit == Init => RInv
  <1> SUFFICES ASSUME Init PROVE RInv
    OBVIOUS
  <1>1. BreakerInv
    BY ClosedGood DEF Init, BreakerInit, BreakerInv, BreakerTypeOK, Coherent, Good, Answer
  <1>2. CallersTypeOK
    BY BreakerAssumption, CallersAssumption
       DEF Init, CallersTypeOK, PC, Outcome, Slot
  <1>3. Holding("trial") = {}
    BY DEF Init, Holding
  <1> QED
    BY <1>1, <1>2, <1>3
       DEF Init, BreakerInit, Closed, RInv, SlotWhileCalling, SlotsAreHeld, AgeIsQuiet

\* Every step of a caller, the application or the clock preserves it.
LEMMA RInvStep == RInv /\ [Next]_vars => RInv'
  <1>1. RInv /\ [Next]_vars => BreakerInv'
    BY BreakerInvStep, StepIsBreakerStep DEF RInv
  <1> QED
    BY <1>1, TypeStep, SlotWhileCallingStep, SlotsStep, AgeStep DEF RInv

\* Hence it always holds.
LEMMA RInvHolds == Spec => []RInv
  BY RInvInit, RInvStep, PTL DEF Spec

\* Every variable keeps its type, for any number of callers.
THEOREM TypeCorrect == Spec => []TypeOK
  <1>1. RInv => TypeOK
    BY DEF RInv, BreakerInv, CallersTypeOK, TypeOK
  <1> QED
    BY <1>1, RInvHolds, PTL

\* No half-open slot leaks or is handed out twice, although the breaker never
\* takes one back: for any number of callers and any half_open_max_calls.
THEOREM SlotsNeverLeak == Spec => []SlotsAreHeld
  <1>1. RInv => SlotsAreHeld
    BY DEF RInv
  <1> QED
    BY <1>1, RInvHolds, PTL

\* A trial is let through only after a full cooldown without any failure.
THEOREM TrialsAfterQuiet == Spec => []QuietBeforeTrial
  <1>1. RInv => QuietBeforeTrial
    BY DEF RInv, BreakerInv, Coherent, AgeIsQuiet, QuietBeforeTrial
  <1> QED
    BY <1>1, RInvHolds, PTL

\* The callers only ever use the breaker through its operations, so its state
\* stays coherent and every answer they get is the one the contract calls for.
THEOREM CallersSeeContract == Spec => MeetsContract /\ []Coherent
  <1>1. Init => BreakerInit
    BY DEF Init
  <1>2. Spec => BreakerSpec
    BY <1>1, StepIsBreakerStep, PTL DEF Spec, BreakerSpec
  <1> QED
    BY <1>2, BreakerMeetsContract, BreakerCoherent, PTL
=============================================================================
