------------------------------ MODULE SafeFetch ------------------------------
(***************************************************************************)
(* Concurrent calls of safeFetch (typescript/src/safeFetch.ts) over the    *)
(* retry loop it runs in (retry.ts), all of them with one AbortSignal of   *)
(* the caller's.                                                           *)
(*                                                                         *)
(* JavaScript runs to the next await without interruption.  The places of  *)
(* a call are the awaits of its attempt and of the loop:                   *)
(*   "idle"      not called                                                *)
(*   "fetching"  doFetch has not settled                                   *)
(*   "settled"   it has, but the await has not resumed yet                 *)
(*   "backoff"   asleep between two attempts                               *)
(*   "done"      the promise of the call is settled                        *)
(* Hooks (allowlist, onRetry) do not throw.                                *)
(***************************************************************************)
EXTENDS Naturals

CONSTANTS
  Calls,        \* calls that can run at the same time
  Deaf,         \* those whose fetchImpl ignores the signal it is given
  MaxAttempts   \* maxAttempts

ASSUME FetchAssumption ==
  /\ Deaf \subseteq Calls
  /\ MaxAttempts \in Nat /\ MaxAttempts >= 1

VARIABLES
  aborted,   \* callerSignal.aborted
  place,     \* place[c], as above
  attempt,   \* attempt[c], of retry
  linked,    \* linked[c], whether onCallerAbort listens to the signal
  control,   \* control[c], what the attempt's controller was aborted for
  reply,     \* reply[c], what doFetch settled with
  outcome    \* outcome[c], the response or the kind of the error

fetchVars == <<aborted, place, attempt, linked, control, reply, outcome>>

Places == {"idle", "fetching", "settled", "backoff", "done"}

\* "good" is any status that is not retried, a 404 included.
Replies == {"good", "retryable", "failure", "reason"}

\* Errors before any request: the host is not in the allowlist, or there is no
\* fetch (a "network" error of no attempts).
Refusals == {"ssrf", "unavailable"}

Errors == {"http", "network", "timeout", "aborted"} \cup Refusals

FetchInit ==
  /\ aborted = FALSE
  /\ place = [c \in Calls |-> "idle"]
  /\ attempt = [c \in Calls |-> 1]
  /\ linked = [c \in Calls |-> FALSE]
  /\ control = [c \in Calls |-> "live"]
  /\ reply = [c \in Calls |-> "none"]
  /\ outcome = [c \in Calls |-> "none"]

MoveTo(c, where) == place' = [place EXCEPT ![c] = where]

End(c, how) ==
  /\ MoveTo(c, "done")
  /\ outcome' = [outcome EXCEPT ![c] = how]

-----------------------------------------------------------------------------
(* One call. *)

\* The head of the loop and what follows up to the await of doFetch: a
\* controller linked to the caller's signal, and its timer.
Attempt(c) ==
  IF aborted
    THEN End(c, "aborted") /\ UNCHANGED <<linked, control>>
    ELSE /\ linked' = [linked EXCEPT ![c] = TRUE]
         /\ control' = [control EXCEPT ![c] = "live"]
         /\ MoveTo(c, "fetching")
         /\ UNCHANGED outcome

\* What is checked once, before the loop, may end the call.
Call(c) ==
  /\ place[c] = "idle"
  /\ \/ Attempt(c)
     \/ (\E why \in Refusals : End(c, why)) /\ UNCHANGED <<linked, control>>
  /\ UNCHANGED <<aborted, attempt, reply>>

\* The attempt's time is up.
TimerFires(c) ==
  /\ place[c] \in {"fetching", "settled"} /\ control[c] = "live"
  /\ control' = [control EXCEPT ![c] = "timeout"]
  /\ UNCHANGED <<aborted, place, attempt, linked, reply, outcome>>

\* doFetch settles: with what came over the network, or, once its controller
\* was aborted, with the reason.
Settles(c) ==
  /\ place[c] = "fetching"
  /\ \E r \in Replies :
       /\ r = "reason" <=> (control[c] # "live" /\ c \notin Deaf)
       /\ reply' = [reply EXCEPT ![c] = r]
  /\ MoveTo(c, "settled")
  /\ UNCHANGED <<aborted, attempt, linked, control, outcome>>

\* The error of an attempt that failed.  A reason is the timeout error or the
\* caller's, and in the latter case the signal is aborted.
ErrorOf(c) ==
  IF aborted THEN "aborted"
  ELSE IF reply[c] = "retryable" THEN "http"
  ELSE IF reply[c] = "reason" THEN "timeout"
  ELSE "network"

\* Slip: the listener is removed only when the call is over.
Cleanup_KeepsListener(c) ==
  /\ linked' = [linked EXCEPT ![c] = attempt[c] < MaxAttempts /\ reply[c] # "good"]
  /\ control' = [control EXCEPT ![c] = "live"]
  /\ reply' = [reply EXCEPT ![c] = "none"]

\* finally: the timer is cleared, the listener removed.
Cleanup(c) ==
  /\ linked' = [linked EXCEPT ![c] = FALSE]
  /\ control' = [control EXCEPT ![c] = "live"]
  /\ reply' = [reply EXCEPT ![c] = "none"]

\* Slip: a timeout is not retried.
IsFinal_Timeout(c) == attempt[c] = MaxAttempts \/ ErrorOf(c) \in {"aborted", "timeout"}

\* The last attempt, or shouldRetry says no.
IsFinal(c) == attempt[c] = MaxAttempts \/ ErrorOf(c) = "aborted"

\* The await resumes: the response is returned, or the error is thrown, and
\* retried after a sleep.  The catch of the attempt and that of retry, a
\* microtask apart, are one step.
Resume(c) ==
  /\ place[c] = "settled"
  /\ IF reply[c] = "good" THEN End(c, "response")
     ELSE IF IsFinal(c) THEN End(c, ErrorOf(c))
     ELSE MoveTo(c, "backoff") /\ UNCHANGED outcome
  /\ Cleanup(c)
  /\ UNCHANGED <<aborted, attempt>>

\* Slip: the head of the loop forgets the signal.
Wake_Unasked(c) ==
  /\ place[c] = "backoff"
  /\ attempt' = [attempt EXCEPT ![c] = @ + 1]
  /\ linked' = [linked EXCEPT ![c] = TRUE]
  /\ control' = [control EXCEPT ![c] = IF aborted THEN "caller" ELSE "live"]
  /\ MoveTo(c, "fetching")
  /\ UNCHANGED <<aborted, reply, outcome>>

\* The sleep is over.  When the signal was aborted meanwhile the attempt is
\* not made.
Wake(c) ==
  /\ place[c] = "backoff"
  /\ attempt' = [attempt EXCEPT ![c] = IF aborted THEN @ ELSE @ + 1]
  /\ Attempt(c)
  /\ UNCHANGED <<aborted, reply>>

\* The caller aborts: every listener aborts its controller at once.
CallerAborts ==
  /\ ~aborted
  /\ aborted' = TRUE
  /\ control' = [c \in Calls |->
       IF linked[c] /\ control[c] = "live" THEN "caller" ELSE control[c]]
  /\ UNCHANGED <<place, attempt, linked, reply, outcome>>

\* What the event loop and fetch owe a call.
Advance(c) ==
  \/ TimerFires(c) \/ Settles(c) \/ Resume(c) \/ Wake(c)

-----------------------------------------------------------------------------
(* Properties *)

FetchTypeOK ==
  /\ aborted \in BOOLEAN
  /\ place \in [Calls -> Places]
  /\ attempt \in [Calls -> 1 .. MaxAttempts]
  /\ linked \in [Calls -> BOOLEAN]
  /\ control \in [Calls -> {"live", "timeout", "caller"}]
  /\ reply \in [Calls -> {"none"} \cup Replies]
  /\ outcome \in [Calls -> {"none", "response"} \cup Errors]

\* The shared signal carries one listener for each attempt in flight, however
\* attempts end and calls overlap: none outlives its attempt, and an abort
\* reaches every attempt it finds.
ListenersMatchAttempts ==
  \A c \in Calls :
    /\ linked[c] <=> place[c] \in {"fetching", "settled"}
    /\ aborted /\ linked[c] => control[c] # "live"

\* A call gives up on what could have been retried only when all its attempts
\* are used, and reports a timeout only if the last one really timed out; an
\* attempt whose answer came first is not taken for one that timed out.
GivesUpWhenSpent ==
  [][\A c \in Calls : outcome'[c] # outcome[c] =>
       /\ outcome'[c] \in {"http", "network", "timeout"} => attempt[c] = MaxAttempts
       /\ outcome'[c] = "timeout" => control[c] = "timeout" /\ reply[c] = "reason"
     ]_fetchVars

\* From the abort on, a call that is not over sends no request, and ends
\* aborted, unless it was refused at once, or its last request is answered: it
\* was already, or its fetch ignores the signal.
AbortIsFinal ==
  [][aborted => \A c \in Calls :
       /\ ~(place[c] # "fetching" /\ place'[c] = "fetching")
       /\ outcome'[c] # outcome[c] =>
            outcome'[c] \in {"aborted"} \cup Refusals \/ reply[c] = "good"]_fetchVars

-----------------------------------------------------------------------------
(* What the documentation says, and the code does not do. *)

\* "Number of attempts made before giving up (1-based)."  retry's own error
\* counts them; an error of an attempt is rethrown as it was made, with 1.
AttemptsReported ==
  \A c \in Calls : outcome[c] \in {"http", "network", "timeout"} => attempt[c] = 1
=============================================================================
