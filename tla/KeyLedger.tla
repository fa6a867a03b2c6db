------------------------------ MODULE KeyLedger ------------------------------
(***************************************************************************)
(* The Rust FileLedger (rust/src/ledger.rs): an append-only JSONL file of  *)
(* keys with an in-memory mirror, and threads that use it the way the      *)
(* trait's documentation shows: contains, then the operation, then record. *)
(*                                                                         *)
(* A line of the file is the sequence of the pieces written to it: a key   *)
(* stands for the JSON of a whole entry, Torn for a part of one.  Only a   *)
(* line that is exactly one whole entry parses.  writeln! reaches the file *)
(* in several writes, so a failure or a crash can leave nothing, part of   *)
(* the entry, or the entry without its newline; the next entry then goes   *)
(* on the same line.                                                       *)
(***************************************************************************)
EXTENDS Naturals, Sequences, FiniteSets

CONSTANTS
  Workers,    \* threads that share the ledger
  Keys,       \* keys of guarded operations
  Torn,       \* part of an entry
  MaxTears,   \* bound: appends that fail half-way
  MaxReopens  \* bound: restarts of the process

ASSUME LedgerAssumption ==
  /\ IsFiniteSet(Workers) /\ IsFiniteSet(Keys)
  /\ Torn \notin Keys
  /\ MaxTears \in Nat /\ MaxReopens \in Nat

VARIABLES
  pc, key,    \* pc[w] in "idle", "contains", "act", "record"; key[w]
  seen,       \* the HashSet mirror
  lines,      \* the file
  open,       \* whether the last line still lacks its newline
  acked,      \* history: keys for which record returned Ok
  executed,   \* history: executed[k], runs of the guarded operation
  tears, reopens

vars == <<pc, key, seen, lines, open, acked, executed, tears, reopens>>

PC == {"idle", "contains", "act", "record"}

Init ==
  /\ pc = [w \in Workers |-> "idle"]
  /\ key \in [Workers -> Keys]
  /\ seen = {}
  /\ lines = <<>>
  /\ open = FALSE
  /\ acked = {}
  /\ executed = [k \in Keys |-> 0]
  /\ tears = 0
  /\ reopens = 0

-----------------------------------------------------------------------------
(* The file. *)

\* load_keys: every line that parses, wherever it is
Loaded == {k \in Keys : \E i \in 1 .. Len(lines) : lines[i] = <<k>>}

\* The file after one more piece was appended to it.
Appended(piece) ==
  IF open THEN [lines EXCEPT ![Len(lines)] = Append(@, piece)]
          ELSE Append(lines, <<piece>>)

-----------------------------------------------------------------------------
(* A guarded operation. *)

Goto(w, place) == pc' = [pc EXCEPT ![w] = place]

Request(w) ==
  /\ pc[w] = "idle"
  /\ \E k \in Keys : key' = [key EXCEPT ![w] = k]
  /\ Goto(w, "contains")
  /\ UNCHANGED <<seen, lines, open, acked, executed, tears, reopens>>

Contains(w) ==
  /\ pc[w] = "contains"
  /\ Goto(w, IF key[w] \in seen THEN "idle" ELSE "act")
  /\ UNCHANGED <<key, seen, lines, open, acked, executed, tears, reopens>>

\* do_the_money_thing
Act(w) ==
  /\ pc[w] = "act"
  /\ executed' = [executed EXCEPT ![key[w]] = IF @ < 2 THEN @ + 1 ELSE @]
  /\ Goto(w, "record")
  /\ UNCHANGED <<key, seen, lines, open, acked, tears, reopens>>

\* Slip: record updates the mirror and leaves the file for later.
RecordNew_MirrorOnly(w) ==
  /\ key[w] \notin seen
  /\ seen' = seen \cup {key[w]}
  /\ UNCHANGED <<lines, open>>

\* record of a new key: the whole line is appended, then the mirror updated.
RecordNew(w) ==
  /\ key[w] \notin seen
  /\ lines' = Appended(key[w])
  /\ open' = FALSE
  /\ seen' = seen \cup {key[w]}

\* record of a key that is there is a no-op
RecordKnown(w) ==
  /\ key[w] \in seen
  /\ UNCHANGED <<seen, lines, open>>

Record(w) ==
  /\ pc[w] = "record"
  /\ RecordNew(w) \/ RecordKnown(w)
  /\ acked' = acked \cup {key[w]}
  /\ Goto(w, "idle")
  /\ UNCHANGED <<key, executed, tears, reopens>>

\* Slip: the mirror is updated before the file is written.
RecordFails_MirrorFirst(w) ==
  /\ pc[w] = "record" /\ key[w] \notin seen
  /\ tears < MaxTears
  /\ tears' = tears + 1
  /\ \/ UNCHANGED <<lines, open>>
     \/ \E piece \in {key[w], Torn} : lines' = Appended(piece) /\ open' = TRUE
  /\ seen' = seen \cup {key[w]}
  /\ Goto(w, "idle")
  /\ UNCHANGED <<key, acked, executed, reopens>>

\* An append that fails part of the way: record returns the error and the
\* mirror is left as it was.
RecordFails(w) ==
  /\ pc[w] = "record" /\ key[w] \notin seen
  /\ tears < MaxTears
  /\ tears' = tears + 1
  /\ \/ UNCHANGED <<lines, open>>
     \/ \E piece \in {key[w], Torn} : lines' = Appended(piece) /\ open' = TRUE
  /\ Goto(w, "idle")
  /\ UNCHANGED <<key, seen, acked, executed, reopens>>

-----------------------------------------------------------------------------
\* The process dies, possibly right after a torn append, and opens the ledger.
Reopen ==
  /\ reopens < MaxReopens
  /\ reopens' = reopens + 1
  /\ pc' = [w \in Workers |-> "idle"]
  /\ seen' = Loaded
  /\ UNCHANGED <<key, lines, open, acked, executed, tears>>

Next ==
  \/ \E w \in Workers :
       Request(w) \/ Contains(w) \/ Act(w) \/ Record(w) \/ RecordFails(w)
  \/ Reopen

Spec == Init /\ [][Next]_vars

-----------------------------------------------------------------------------
(* Properties *)

TypeOK ==
  /\ pc \in [Workers -> PC]
  /\ key \in [Workers -> Keys]
  /\ seen \subseteq Keys
  /\ lines \in Seq(Seq(Keys \cup {Torn}))
  /\ open \in BOOLEAN
  /\ acked \subseteq Keys
  /\ executed \in [Keys -> 0 .. 2]
  /\ tears \in 0 .. MaxTears /\ reopens \in 0 .. MaxReopens

\* What the file has lost of the keys record vouched for is bounded by the
\* appends that failed: one of them can spoil the entry it left without a
\* newline (vouched for since, from the mirror) and the one written behind it.
LossBoundedByTears == Cardinality(acked \ Loaded) <= 2 * tears

\* Between restarts the mirror knows no key that the file has not been given.
MirrorFromFile ==
  \A k \in seen : \E i \in 1 .. Len(lines) : \E j \in 1 .. Len(lines[i]) : lines[i][j] = k

-----------------------------------------------------------------------------
(* What the documentation says, and the code does not do. *)

\* "crash-safe in the sense that a partially written final line is simply
\* ignored on reload": it is not alone to be ignored.
RecordedKeysSurvive == acked \subseteq Loaded

\* "Guards money/state operations against duplicate execution."
NoDuplicateExecution == \A k \in Keys : executed[k] <= 1
=============================================================================
