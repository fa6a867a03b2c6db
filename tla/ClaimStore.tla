------------------------------ MODULE ClaimStore ------------------------------
(***************************************************************************)
(* What the IdempotencyStore protocol                                      *)
(* (python/src/cubiczan_resilience/idempotency.py) promises to threads     *)
(* that guard a charge with it: mark_done admits one claimant of a key,    *)
(* whatever else happens, until the store forgets.                         *)
(*                                                                         *)
(* With Durable = FALSE this is InMemoryIdempotencyStore itself: what it   *)
(* holds is gone with clear and with the process.  With Durable = TRUE it  *)
(* is the contract of FileIdempotencyStore, where a claim is saved before  *)
(* mark_done returns, or the call fails and leaves the claim in memory.    *)
(***************************************************************************)
EXTENDS Naturals

CONSTANTS
  Workers,      \* threads of the process
  Keys,         \* idempotency keys
  Durable,      \* whether claims are saved
  MaxForgotten  \* bound: how often claims that were made are forgotten

VARIABLES
  place,      \* place[w]: "idle", "check", "claim", "saving" or "charge"
  key,        \* key[w], the key of w's present or last request
  answer,     \* answer[w], how w's last request ended
  done,       \* the keys the store answers for
  saved,      \* the keys a restart finds
  executed,   \* executed[k], charges made for k
  forgotten   \* how often the store lost claims it had returned

vars == <<place, key, answer, done, saved, executed, forgotten>>

\* Charges are counted this far.
ExecutedCap == MaxForgotten + 2

Init ==
  /\ place = [w \in Workers |-> "idle"]
  /\ key \in [Workers -> Keys]
  /\ answer = [w \in Workers |-> "none"]
  /\ done = {}
  /\ saved = {}
  /\ executed = [k \in Keys |-> 0]
  /\ forgotten = 0

Goto(w, p) == place' = [place EXCEPT ![w] = p]

Finish(w, how) ==
  /\ Goto(w, "idle")
  /\ answer' = [answer EXCEPT ![w] = how]

Ask(w) ==
  /\ place[w] = "idle"
  /\ \E k \in Keys : key' = [key EXCEPT ![w] = k]
  /\ Goto(w, "check")
  /\ answer' = [answer EXCEPT ![w] = "none"]
  /\ UNCHANGED <<done, saved, executed, forgotten>>

\* already_done, and get_result for a key that is there
Check(w) ==
  /\ place[w] = "check"
  /\ IF key[w] \in done
       THEN Finish(w, "replayed")
       ELSE Goto(w, "claim") /\ UNCHANGED answer
  /\ UNCHANGED <<key, done, saved, executed, forgotten>>

\* mark_done
MarkDone(w) ==
  /\ place[w] = "claim"
  /\ IF key[w] \in done
       THEN Finish(w, "replayed") /\ UNCHANGED done
       ELSE /\ done' = done \cup {key[w]}
            /\ Goto(w, IF Durable THEN "saving" ELSE "charge")
            /\ UNCHANGED answer
  /\ UNCHANGED <<key, saved, executed, forgotten>>

Save(w) ==
  /\ place[w] = "saving"
  /\ saved' = done
  /\ Goto(w, "charge")
  /\ UNCHANGED <<key, answer, done, executed, forgotten>>

Charge(w) ==
  /\ place[w] = "charge"
  /\ executed' = [executed EXCEPT ![key[w]] = IF @ < ExecutedCap THEN @ + 1 ELSE @]
  /\ Finish(w, "charged")
  /\ UNCHANGED <<key, done, saved, forgotten>>

\* Saving or charging fails; the claim stays.
Fail(w) ==
  /\ place[w] \in {"saving", "charge"}
  /\ Finish(w, "error")
  /\ UNCHANGED <<key, done, saved, executed, forgotten>>

\* The store comes to hold nothing.
Forget ==
  /\ forgotten < MaxForgotten
  /\ done' = {}
  /\ forgotten' = forgotten + 1

\* clear of the in-memory store, with requests under way
Clear ==
  /\ ~Durable
  /\ Forget
  /\ UNCHANGED <<place, key, answer, saved, executed>>

\* The process dies and starts again.
Restart ==
  /\ place' = [w \in Workers |-> "idle"]
  /\ answer' = [w \in Workers |-> "none"]
  /\ \/ Durable /\ done' = saved /\ UNCHANGED forgotten
     \/ Forget
  /\ UNCHANGED <<key, saved, executed>>

Next ==
  \/ \E w \in Workers :
       Ask(w) \/ Check(w) \/ MarkDone(w) \/ Save(w) \/ Charge(w) \/ Fail(w)
  \/ Clear
  \/ Restart

Spec == Init /\ [][Next]_vars

-----------------------------------------------------------------------------
(* Properties *)

\* The charge of a key is made once, and once more at most each time the store
\* was made to forget, however requests race and wherever they fail.
OncePerMemory == \A k \in Keys : executed[k] <= 1 + forgotten
=============================================================================
