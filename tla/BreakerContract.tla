--------------------------- MODULE BreakerContract ---------------------------
(***************************************************************************)
(* What the circuit breaker of python/.../circuit.py promises the code     *)
(* that goes through it, stated without its three-valued state machine: a  *)
(* request is let through when fewer than FailureThreshold failures were   *)
(* reported since the last success or, failing that, when Cooldown time    *)
(* units went by since the last reported failure and fewer than            *)
(* HalfOpenMaxCalls trials were let through since then.                    *)
(***************************************************************************)
EXTENDS Naturals

CONSTANTS
  FailureThreshold,   \* failure_threshold of the breaker
  Cooldown,           \* cooldown_seconds, in ticks of the model's clock
  HalfOpenMaxCalls    \* half_open_max_calls

VARIABLES
  fails,     \* failures since the last success, saturated at FailureThreshold
  cooling,   \* time left before a trial may be let through
  trials,    \* trials let through since the last report
  answer     \* what the last question to the breaker returned

contractVars == <<fails, cooling, trials, answer>>

Tripped == fails >= FailureThreshold

CanAdmit == ~Tripped \/ (cooling = 0 /\ trials < HalfOpenMaxCalls)

ContractInit ==
  /\ fails = 0
  /\ cooling = 0
  /\ trials = 0
  /\ answer = <<"none", 0>>

Admit ==
  /\ CanAdmit
  /\ trials' = IF Tripped THEN trials + 1 ELSE trials
  /\ answer' = <<"allow", 1>>
  /\ UNCHANGED <<fails, cooling>>

Deny ==
  /\ ~CanAdmit
  /\ answer' = <<"allow", 0>>
  /\ UNCHANGED <<fails, cooling, trials>>

TellWait ==
  /\ answer' = <<"retry_after", IF Tripped THEN cooling ELSE 0>>
  /\ UNCHANGED <<fails, cooling, trials>>

Succeed ==
  /\ fails' = 0
  /\ cooling' = 0
  /\ trials' = 0
  /\ UNCHANGED answer

Fail ==
  /\ fails' = IF Tripped THEN fails ELSE fails + 1
  /\ cooling' = IF fails + 1 >= FailureThreshold THEN Cooldown ELSE cooling
  /\ trials' = 0
  /\ UNCHANGED answer

TimePasses ==
  /\ cooling > 0
  /\ cooling' = cooling - 1
  /\ UNCHANGED <<fails, trials, answer>>

ContractNext ==
  \/ Admit \/ Deny \/ TellWait
  \/ Succeed \/ Fail
  \/ TimePasses

ContractSpec == ContractInit /\ [][ContractNext]_contractVars
=============================================================================
