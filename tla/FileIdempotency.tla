--------------------------- MODULE FileIdempotency ---------------------------
(***************************************************************************)
(* FileIdempotencyStore (python/src/cubiczan_resilience/idempotency.py),   *)
(* the steps of atomic_write (atomic.py) it flushes through, and threads   *)
(* of one process that guard a charge with it the way python/README.md     *)
(* shows:                                                                  *)
(*                                                                         *)
(*   "check"   if already_done(key): return get_result(key)                *)
(*   "claim"   if not mark_done(key, "charged"): return get_result(key)    *)
(*   "open", "write", "replace"   inside mark_done, holding the lock, in   *)
(*             atomic_write: mkstemp, write and fsync, os.replace          *)
(*   "charge"  provider.charge(amount)                                     *)
(*                                                                         *)
(* The process may die between any two steps and start again on whatever   *)
(* the disk holds; any step of atomic_write may raise.                     *)
(***************************************************************************)
EXTENDS Naturals, FiniteSets

CONSTANTS
  Workers,   \* threads of the process
  Keys,      \* idempotency keys
  MaxMisreads \* bound: starts of a process at which the file cannot be read

ASSUME StoreAssumption == IsFiniteSet(Workers) /\ MaxMisreads \in Nat

VARIABLES
  pc,         \* pc[w], as above, or "idle"
  key,        \* key[w], the key of w's present or last request
  answer,     \* answer[w], how w's last request ended
  memory,     \* self._data: the keys in the in-memory map
  file,       \* the JSON file: the keys in it, and whether it is whole
  temp,       \* the temp file of the flush in progress
  executed,   \* executed[k], charges made for k, counted up to ExecutedCap
  misreads,   \* history: how many starts could not read the file
  lost        \* history: keys whose claim ended without a charge

vars == <<pc, key, answer, memory, file, temp, executed, misreads, lost>>

ExecutedCap == MaxMisreads + 2

PC == {"idle", "check", "claim", "open", "write", "replace", "charge"}

Answers == {"none", "charged", "replayed", "error"}

Content == [keys : SUBSET Keys, whole : BOOLEAN]
Empty   == [keys |-> {}, whole |-> TRUE]
Partial == [keys |-> {}, whole |-> FALSE]
NoTemp  == [keys |-> {}, whole |-> TRUE]

Init ==
  /\ pc = [w \in Workers |-> "idle"]
  /\ key \in [Workers -> Keys]
  /\ answer = [w \in Workers |-> "none"]
  /\ memory = {}
  /\ file = Empty
  /\ temp = NoTemp
  /\ executed = [k \in Keys |-> 0]
  /\ misreads = 0
  /\ lost = {}

Goto(w, place) == pc' = [pc EXCEPT ![w] = place]

Finish(w, how) ==
  /\ Goto(w, "idle")
  /\ answer' = [answer EXCEPT ![w] = how]

\* The RLock is held from the insertion in the map to the end of the flush.
Flushing(w) == pc[w] \in {"open", "write", "replace"}

LockFree == \A w \in Workers : ~Flushing(w)

-----------------------------------------------------------------------------
(* A guarded request. *)

Request(w) ==
  /\ pc[w] = "idle"
  /\ \E k \in Keys : key' = [key EXCEPT ![w] = k]
  /\ Goto(w, "check")
  /\ answer' = [answer EXCEPT ![w] = "none"]
  /\ UNCHANGED <<memory, file, temp, executed, misreads, lost>>

\* Slip: already_done enters the key it does not find.
Check_Enters(w) ==
  /\ pc[w] = "check"
  /\ LockFree
  /\ IF key[w] \in memory
       THEN Finish(w, "replayed")
       ELSE Goto(w, "claim") /\ UNCHANGED answer
  /\ memory' = memory \cup {key[w]}
  /\ UNCHANGED <<key, file, temp, executed, misreads, lost>>

\* already_done, and get_result for a key that is there
Check(w) ==
  /\ pc[w] = "check"
  /\ LockFree
  /\ IF key[w] \in memory
       THEN Finish(w, "replayed")
       ELSE Goto(w, "claim") /\ UNCHANGED answer
  /\ UNCHANGED <<key, memory, file, temp, executed, misreads, lost>>

\* Slip: mark_done relies on the caller's already_done.
Claim_Unchecked(w) ==
  /\ pc[w] = "claim"
  /\ LockFree
  /\ memory' = memory \cup {key[w]}
  /\ Goto(w, "open")
  /\ UNCHANGED <<key, answer, file, temp, executed, misreads, lost>>

\* mark_done up to the flush: the map is updated first.
Claim(w) ==
  /\ pc[w] = "claim"
  /\ LockFree
  /\ IF key[w] \in memory
       THEN Finish(w, "replayed") /\ UNCHANGED memory
       ELSE /\ memory' = memory \cup {key[w]}
            /\ Goto(w, "open")
            /\ UNCHANGED answer
  /\ UNCHANGED <<key, file, temp, executed, misreads, lost>>

\* Slip: the destination itself is opened for writing.
OpenTemp_InPlace(w) ==
  /\ pc[w] = "open"
  /\ file' = Partial
  /\ temp' = Partial
  /\ Goto(w, "write")
  /\ UNCHANGED <<key, answer, memory, executed, misreads, lost>>

OpenTemp(w) ==
  /\ pc[w] = "open"
  /\ temp' = Partial
  /\ Goto(w, "write")
  /\ UNCHANGED <<key, answer, memory, file, executed, misreads, lost>>

\* write, flush and fsync of the whole map
WriteTemp(w) ==
  /\ pc[w] = "write"
  /\ temp' = [keys |-> memory, whole |-> TRUE]
  /\ Goto(w, "replace")
  /\ UNCHANGED <<key, answer, memory, file, executed, misreads, lost>>

\* os.replace, and mark_done returns True
Replace(w) ==
  /\ pc[w] = "replace"
  /\ file' = temp
  /\ temp' = NoTemp
  /\ Goto(w, "charge")
  /\ UNCHANGED <<key, answer, memory, executed, misreads, lost>>

\* Slip: the exception of a failed flush is swallowed by mark_done.
FlushFails_Swallowed(w) ==
  /\ Flushing(w)
  /\ temp' = NoTemp
  /\ Goto(w, "charge")
  /\ UNCHANGED <<key, answer, memory, file, executed, misreads, lost>>

\* Slip: a failed flush is tried again and again.
FlushFails_RetriedForEver(w) ==
  /\ Flushing(w)
  /\ temp' = NoTemp
  /\ Goto(w, "open")
  /\ UNCHANGED <<key, answer, memory, file, executed, misreads, lost>>

\* mkstemp, the write or the replace raises: the temp file is unlinked and the
\* exception leaves mark_done and the request; the key stays in the map.
FlushFails(w) ==
  /\ Flushing(w)
  /\ temp' = NoTemp
  /\ lost' = lost \cup {key[w]}
  /\ Finish(w, "error")
  /\ UNCHANGED <<key, memory, file, executed, misreads>>

Charge(w) ==
  /\ pc[w] = "charge"
  /\ executed' = [executed EXCEPT ![key[w]] = IF @ < ExecutedCap THEN @ + 1 ELSE @]
  /\ Finish(w, "charged")
  /\ UNCHANGED <<key, memory, file, temp, misreads, lost>>

\* The provider refuses without charging.
ChargeFails(w) ==
  /\ pc[w] = "charge"
  /\ lost' = lost \cup {key[w]}
  /\ Finish(w, "error")
  /\ UNCHANGED <<key, memory, file, temp, executed, misreads>>

-----------------------------------------------------------------------------
(* The process dies (an orphan temp file may remain; nothing reads it) and  *)
(* a new one constructs the store.                                          *)

\* _load: a file that does not parse or cannot be read counts as empty.
Loaded(readable) == IF file.whole /\ readable THEN file.keys ELSE {}

Restart ==
  /\ pc' = [w \in Workers |-> "idle"]
  /\ answer' = [w \in Workers |-> "none"]
  /\ \E readable \in BOOLEAN :
       /\ readable \/ misreads < MaxMisreads
       /\ memory' = Loaded(readable)
       /\ misreads' = IF readable THEN misreads ELSE misreads + 1
  /\ temp' = NoTemp
  /\ lost' = lost \cup {key[w] : w \in {v \in Workers : Flushing(v) \/ pc[v] = "charge"}}
  /\ UNCHANGED <<key, file, executed>>

Work(w) ==
  \/ Check(w) \/ Claim(w)
  \/ OpenTemp(w) \/ WriteTemp(w) \/ Replace(w) \/ FlushFails(w)
  \/ Charge(w) \/ ChargeFails(w)

Next ==
  \/ \E w \in Workers : Request(w) \/ Work(w)
  \/ Restart

Spec == Init /\ [][Next]_vars

\* Threads are scheduled, file operations and charges return.  Taking the lock
\* is strongly fair: the lock is free again and again, and a waiting thread is
\* not passed over for ever.
Fairness ==
  \A w \in Workers : WF_vars(Work(w)) /\ SF_vars(Check(w)) /\ SF_vars(Claim(w))

FairSpec == Spec /\ Fairness

-----------------------------------------------------------------------------
(* Properties *)

TypeOK ==
  /\ pc \in [Workers -> PC]
  /\ key \in [Workers -> Keys]
  /\ answer \in [Workers -> Answers]
  /\ memory \subseteq Keys
  /\ file \in Content
  /\ temp \in Content
  /\ executed \in [Keys -> 0 .. ExecutedCap]
  /\ misreads \in 0 .. MaxMisreads
  /\ lost \subseteq Keys

\* However requests with one key race, are retried, crash or fail half-way, and
\* whatever the disk refuses, the charge is made once, and once more at most for
\* every start of the process that could not read a good file.
AtMostOnce == \A k \in Keys : executed[k] <= 1 + misreads

\* A request is answered from the store without the charge having been made
\* only while the claimant of its key is still at it, or after a claim of that
\* key was lost to a failure or a crash: never for a key nobody claimed.
ReplayExplained ==
  \A w \in Workers : answer[w] = "replayed" /\ executed[key[w]] = 0 =>
    \/ key[w] \in lost
    \/ \E v \in Workers : key[v] = key[w] /\ (Flushing(v) \/ pc[v] = "charge")

\* Before its charge is attempted a claim is on disk, and no claim of a charge
\* that was made is lost.
ClaimsPersisted ==
  /\ \A w \in Workers : pc[w] = "charge" => key[w] \in file.keys
  /\ misreads = 0 => \A k \in Keys : executed[k] > 0 => k \in file.keys

\* At every instant at which the process may die the file is whole, and it
\* knows nothing that the map in memory does not.
FileUsable == file.whole /\ (misreads = 0 => file.keys \subseteq memory)

\* The store keeps the contract its protocol states: the steps of a flush are
\* one save, and nothing but an unreadable file makes it forget.
Contract ==
  INSTANCE ClaimStore WITH
    Durable <- TRUE,
    MaxForgotten <- MaxMisreads,
    place <- [w \in Workers |-> IF Flushing(w) THEN "saving" ELSE pc[w]],
    done <- memory,
    saved <- file.keys,
    forgotten <- misreads

KeepsContract == Contract!Spec

\* No request is stuck behind the lock, a failed flush included.
RequestsEnd == \A w \in Workers : pc[w] # "idle" ~> pc[w] = "idle"

-----------------------------------------------------------------------------
(* What the documentation says, and the code does not do. *)

\* python/README.md, of the guarded call: "runs exactly once"
NeverTwice == \A k \in Keys : executed[k] <= 1

\* already_done: "has key been completed before?"
ReplayedWasCompleted ==
  \A w \in Workers : answer[w] = "replayed" => executed[key[w]] > 0
=============================================================================
