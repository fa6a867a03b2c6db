------------------------------ MODULE CrdbRetry ------------------------------
(***************************************************************************)
(* Clients of the Rust crate that run a transaction with crdb_retry        *)
(* (rust/src/crdb.rs, over retry.rs) inside with_timeout (timeout.rs), and *)
(* the database they share, a serializable one: a transaction that commits *)
(* when another committed since it read is refused with SQLSTATE 40001.    *)
(*                                                                         *)
(* A client is "idle", "running" its transaction, "committing" (the        *)
(* request is with the server), "answered" (the server's answer is on its  *)
(* way), in "backoff", or "done".  with_timeout may drop the whole future  *)
(* at any await; what is with the server then still happens.               *)
(***************************************************************************)
EXTENDS Naturals, FiniteSets

CONSTANTS
  Clients,
  MaxAttempts,  \* RetryPolicy.max_attempts
  Durations,    \* what a policy may set its delays to, in units of a clock
  PerMilli,     \* units in a millisecond: 1,000,000 for a Duration
  Bits          \* width of the unsigned arithmetic, 64 in the code

\* 2 to the n: what shifting 1 by n places is to give.
PowerOfTwo(n) ==
  LET power[i \in 0 .. n] == IF i = 0 THEN 1 ELSE 2 * power[i - 1]
  IN  power[n]

Largest == PowerOfTwo(Bits) - 1

ASSUME PolicyAssumption ==
  /\ IsFiniteSet(Clients)
  /\ Bits \in Nat /\ Bits >= 1
  /\ MaxAttempts \in Nat
  /\ Durations \subseteq Nat
  /\ PerMilli \in Nat /\ PerMilli >= 1

VARIABLES
  policy,    \* RetryPolicy's base_delay and max_delay
  place,     \* place[c], as above
  attempt,   \* attempt[c], failed attempts
  delay,     \* delay[c], of the sleep c is in, in milliseconds
  outcome,   \* outcome[c], what crdb_retry or with_timeout returned
  fresh,     \* fresh[c], whether nobody committed since c's transaction read
  server,    \* server[c], what the server has of c: nothing, the request to
             \* commit, or the answer to it
  applied    \* history: applied[c], transactions of c that took effect

crdbVars == <<policy, place, attempt, delay, outcome, fresh, server, applied>>

Places == {"idle", "running", "committing", "backoff", "done"}

\* Answers: committed, serialization_failure, and any other SQLSTATE.
Answers == {"ok", "40001", "other"}

CrdbInit ==
  /\ policy \in [base_delay : Durations, max_delay : Durations]
  /\ place = [c \in Clients |-> "idle"]
  /\ attempt = [c \in Clients |-> 0]
  /\ delay = [c \in Clients |-> 0]
  /\ outcome = [c \in Clients |-> "none"]
  /\ fresh = [c \in Clients |-> FALSE]
  /\ server = [c \in Clients |-> "nothing"]
  /\ applied = [c \in Clients |-> 0]

MoveTo(c, where) == place' = [place EXCEPT ![c] = where]

End(c, how) ==
  /\ MoveTo(c, "done")
  /\ outcome' = [outcome EXCEPT ![c] = how]

-----------------------------------------------------------------------------
(* The backoff: min(base * 2^i, max), in whole milliseconds and saturating    *)
(* arithmetic.                                                                *)

\* as_millis() as u64: fractions are dropped, and what the word cannot hold.
AsMillis(d) == (d \div PerMilli) % PowerOfTwo(Bits)

Saturated(n) == IF n > Largest THEN Largest ELSE n

Lesser(m, n) == IF m < n THEN m ELSE n

\* Slip: a shift out of range wraps, as wrapping_shl does.
CappedCeiling_Wraps(i) ==
  Lesser(Saturated(AsMillis(policy.base_delay) * PowerOfTwo(i % Bits)),
         AsMillis(policy.max_delay))

\* capped_ceiling: checked_shl gives nothing from Bits places on.
CappedCeiling(i) ==
  LET factor == IF i < Bits THEN PowerOfTwo(i) ELSE Largest
  IN  Lesser(Saturated(AsMillis(policy.base_delay) * factor), AsMillis(policy.max_delay))

\* jittered_delay
JitteredDelays(i) == 0 .. CappedCeiling(i)

-----------------------------------------------------------------------------
(* crdb_retry *)

\* op(): the transaction is opened and reads.
Begin(c) ==
  /\ MoveTo(c, "running")
  /\ fresh' = [fresh EXCEPT ![c] = TRUE]

Start(c) ==
  /\ place[c] = "idle"
  /\ Begin(c)
  /\ UNCHANGED <<policy, attempt, delay, outcome, server, applied>>

AskCommit(c) ==
  /\ place[c] = "running"
  /\ MoveTo(c, "committing")
  /\ server' = [server EXCEPT ![c] = "request"]
  /\ UNCHANGED <<policy, attempt, delay, outcome, fresh, applied>>

\* Slip: whatever fails is tried again.
Retryable_All(answer) == answer \in {"40001", "other"}

\* is_serialization_failure
Retryable(answer) == answer = "40001"

\* policy.max_attempts.max(1)
Budget == IF MaxAttempts = 0 THEN 1 ELSE MaxAttempts

\* Slip: the count starts over with each attempt.
FailedAttempt_StartsOver(c) ==
  /\ attempt' = [attempt EXCEPT ![c] = 1]
  /\ IF Budget = 1
       THEN End(c, "exhausted") /\ UNCHANGED delay
       ELSE /\ \E d \in JitteredDelays(0) : delay' = [delay EXCEPT ![c] = d]
            /\ MoveTo(c, "backoff")
            /\ UNCHANGED outcome

\* A retryable failure: counted, and retried within the budget.
FailedAttempt(c) ==
  /\ attempt' = [attempt EXCEPT ![c] = @ + 1]
  /\ IF attempt[c] + 1 >= Budget
       THEN End(c, "exhausted") /\ UNCHANGED delay
       ELSE /\ \E d \in JitteredDelays(attempt[c]) : delay' = [delay EXCEPT ![c] = d]
            /\ MoveTo(c, "backoff")
            /\ UNCHANGED outcome

\* The answer ends the call or is retried.  "other" also stands for a
\* connection that is lost with the outcome unknown.
Answered(c) ==
  /\ place[c] = "committing" /\ server[c] \in Answers
  /\ IF Retryable(server[c])
       THEN FailedAttempt(c)
       ELSE /\ End(c, IF server[c] = "ok" THEN "ok" ELSE "terminal")
            /\ UNCHANGED <<attempt, delay>>
  /\ server' = [server EXCEPT ![c] = "nothing"]
  /\ UNCHANGED <<policy, fresh, applied>>

\* The sleep is over (it is skipped when the delay is zero): op() again.
Wake(c) ==
  /\ place[c] = "backoff"
  /\ delay' = [delay EXCEPT ![c] = 0]
  /\ Begin(c)
  /\ UNCHANGED <<policy, attempt, outcome, server, applied>>

\* with_timeout: the future is dropped where it is.
TimesOut(c) ==
  /\ place[c] \notin {"idle", "done"}
  /\ End(c, "timeout")
  /\ delay' = [delay EXCEPT ![c] = 0]
  /\ UNCHANGED <<policy, attempt, fresh, server, applied>>

-----------------------------------------------------------------------------
(* The database. *)

Commit(c) ==
  /\ applied' = [applied EXCEPT ![c] = @ + 1]
  /\ fresh' = [d \in Clients |-> FALSE]

\* The server commits, if it may, or refuses (with 40001 for reasons of its own
\* as well), and answers; the connection may be lost before the answer, or
\* before anything happened.
ServerActs(c) ==
  /\ server[c] = "request"
  /\ \/ /\ fresh[c]
        /\ Commit(c)
        /\ \E a \in {"ok", "other"} : server' = [server EXCEPT ![c] = a]
     \/ /\ \E a \in {"40001", "other"} : server' = [server EXCEPT ![c] = a]
        /\ UNCHANGED <<applied, fresh>>
  /\ UNCHANGED <<policy, place, attempt, delay, outcome>>

Advance(c) == AskCommit(c) \/ Answered(c) \/ Wake(c)

CrdbNext ==
  \E c \in Clients : Start(c) \/ Advance(c) \/ TimesOut(c) \/ ServerActs(c)

CrdbSpec == CrdbInit /\ [][CrdbNext]_crdbVars

\* The executor polls the future, sleeps end, and the server answers or its
\* connection is lost; no timeout is counted on.
Fairness == \A c \in Clients : WF_crdbVars(Advance(c)) /\ WF_crdbVars(ServerActs(c))

FairSpec == CrdbSpec /\ Fairness

-----------------------------------------------------------------------------
(* Properties *)

CrdbTypeOK ==
  /\ policy \in [base_delay : Durations, max_delay : Durations]
  /\ place \in [Clients -> Places]
  /\ attempt \in [Clients -> 0 .. Budget]
  /\ delay \in [Clients -> 0 .. Largest]
  /\ outcome \in [Clients -> {"none", "ok", "exhausted", "terminal", "timeout"}]
  /\ fresh \in [Clients -> BOOLEAN]
  /\ server \in [Clients -> {"nothing", "request"} \cup Answers]
  /\ applied \in [Clients -> Nat]

\* Only what certainly did not happen is tried again: whatever answers are
\* lost and whenever the future is dropped, no call takes effect twice, one
\* that returns Ok took effect, and one that is exhausted did not.
EffectMatchesOutcome ==
  \A c \in Clients :
    /\ applied[c] <= 1
    /\ outcome[c] = "ok" => applied[c] = 1
    /\ outcome[c] = "exhausted" => applied[c] = 0

\* "min(base * 2^attempt, max_delay)", of the policy as it was set.
PolicyCeiling(i) == Lesser(policy.base_delay * PowerOfTwo(i), policy.max_delay)

Fits(d) == d \div PerMilli <= Largest

\* No sleep is longer than the policy's capped exponential, whatever shifts,
\* products and conversions do to the word; and if the word holds the delays, a
\* sleep can be as long as that, in whole milliseconds, but for the fraction of
\* a millisecond that base_delay loses, times 2^i.
BackoffIsCappedExponential ==
  \A c \in Clients : place[c] = "backoff" =>
    LET i == attempt[c] - 1
        fraction == policy.base_delay % PerMilli
    IN  /\ delay[c] * PerMilli <= PolicyCeiling(i)
        /\ Fits(policy.base_delay) /\ Fits(policy.max_delay) =>
             PolicyCeiling(i) < (CappedCeiling(i) + 1) * PerMilli + fraction * PowerOfTwo(i)

\* Every call ends, also when no timeout fires and everyone conflicts.
CallsEnd == \A c \in Clients : place[c] = "running" ~> place[c] = "done"

-----------------------------------------------------------------------------
(* What the documentation says, and the code does not do. *)

\* "min(base * 2^attempt, max_delay)": a base below a millisecond gives no
\* backoff at all, however often it is doubled.
BackoffGrows ==
  \A c \in Clients : place[c] = "backoff" =>
    (PolicyCeiling(attempt[c] - 1) >= PerMilli => CappedCeiling(attempt[c] - 1) > 0)
=============================================================================
