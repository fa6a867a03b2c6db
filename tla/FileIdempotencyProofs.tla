------------------------ MODULE FileIdempotencyProofs ------------------------
(***************************************************************************)
(* Proofs about the file store, for any threads, keys and number of        *)
(* unreadable starts.                                                      *)
(*                                                                         *)
(* A key is held by the thread that claimed it, from the insertion in the  *)
(* map until its request ends.  The argument: there is at most one flush   *)
(* and one holder of a key, what a flush is about to put in place is the   *)
(* map in memory, and every key the store answers for was claimed.         *)
(***************************************************************************)
EXTENDS FileIdempotency, TLAPS

Holds(w) == Flushing(w) \/ pc[w] = "charge"

\* Why k may be in the store: charged for, given up, or being worked on.
Claimed(k) ==
  \/ executed[k] > 0
  \/ k \in lost
  \/ \E v \in Workers : key[v] = k /\ Holds(v)

OneFlush == \A v, w \in Workers : Flushing(v) /\ Flushing(w) => v = w

OneHolder ==
  \A v, w \in Workers : Holds(v) /\ Holds(w) /\ key[v] = key[w] => v = w

HeldIsKnown ==
  \A w \in Workers :
    /\ Holds(w) => key[w] \in memory
    /\ pc[w] = "charge" => key[w] \in file.keys
    /\ pc[w] = "replace" => temp = [keys |-> memory, whole |-> TRUE]

FileBehind == file.whole /\ (misreads = 0 => file.keys \subseteq memory)

\* A charge beyond the unreadable starts is one the map and the file know of,
\* and that no holder is still to make.
Counted ==
  \A k \in Keys :
    /\ executed[k] <= 1 + misreads
    /\ k \notin memory => executed[k] <= misreads
    /\ k \notin file.keys => executed[k] <= misreads
    /\ \A w \in Workers : Holds(w) /\ key[w] = k => executed[k] <= misreads

Explained ==
  /\ \A k \in memory \cup file.keys : Claimed(k)
  /\ \A w \in Workers : answer[w] = "replayed" => Claimed(key[w])

StoreInv ==
  /\ TypeOK
  /\ OneFlush
  /\ OneHolder
  /\ HeldIsKnown
  /\ FileBehind
  /\ Counted
  /\ Explained

-----------------------------------------------------------------------------
(* The invariant is inductive. *)

\* What the file and the temp file may hold.
LEMMA ContentRecord ==
  ASSUME NEW known \in SUBSET Keys, NEW b \in BOOLEAN
  PROVE  [keys |-> known, whole |-> b] \in Content
  BY DEF Content

\* No temp file, and one just created, are such contents.
LEMMA Blanks == NoTemp \in Content /\ Partial \in Content
  <1>1. {} \in SUBSET Keys
    OBVIOUS
  <1> QED
    BY <1>1, ContentRecord DEF NoTemp, Partial

\* An empty store has no flush and no holder.
LEMMA InitInv == Init => StoreInv
  <1> SUFFICES ASSUME Init PROVE StoreInv
    OBVIOUS
  <1> USE StoreAssumption
  <1>1. \A w \in Workers : ~Holds(w) /\ pc[w] = "idle"
    BY DEF Init, Holds, Flushing
  <1>2. TypeOK
    BY DEF Init, TypeOK, PC, Answers, Content, Empty, NoTemp, ExecutedCap
  <1>3. OneFlush /\ OneHolder /\ HeldIsKnown
    BY <1>1 DEF OneFlush, OneHolder, HeldIsKnown, Holds
  <1>4. FileBehind /\ Counted /\ Explained
    BY <1>1 DEF Init, Empty, FileBehind, Counted, Explained
  <1> QED
    BY <1>2, <1>3, <1>4 DEF StoreInv

\* A new request holds nothing yet.
LEMMA RequestInv == ASSUME StoreInv, NEW w \in Workers, Request(w) PROVE StoreInv'
  <1> USE DEF StoreInv
  <1>1. PICK k \in Keys : key' = [key EXCEPT ![w] = k]
    BY DEF Request
  <1>2. TypeOK'
    BY <1>1 DEF Request, TypeOK, Goto, PC, Answers
  <1>3. \A v \in Workers : /\ Holds(v)' <=> Holds(v)
                           /\ Flushing(v)' <=> Flushing(v)
                           /\ Holds(v) => key'[v] = key[v] /\ pc'[v] = pc[v] /\ v # w
                           /\ pc'[v] \in {"charge", "replace"} => pc'[v] = pc[v] /\ v # w
    BY <1>1 DEF Request, TypeOK, Goto, Holds, Flushing
  <1>4. OneFlush' /\ OneHolder'
    BY <1>3 DEF OneFlush, OneHolder
  <1>5. HeldIsKnown' /\ FileBehind' /\ Counted'
    BY <1>3 DEF HeldIsKnown, FileBehind, Counted, Request
  <1>6. \A j \in Keys : Claimed(j) => Claimed(j)'
    BY <1>3 DEF Claimed, Request
  <1>7. Explained'
    BY <1>1, <1>6 DEF Explained, Request, TypeOK, Content
  <1> QED
    BY <1>2, <1>4, <1>5, <1>7

\* already_done only reads.
LEMMA CheckInv == ASSUME StoreInv, NEW w \in Workers, Check(w) PROVE StoreInv'
  <1> USE DEF StoreInv
  <1>2. TypeOK'
    BY DEF Check, TypeOK, Goto, Finish, PC, Answers
  <1>3. \A v \in Workers : /\ Holds(v)' <=> Holds(v)
                           /\ Flushing(v)' <=> Flushing(v)
                           /\ pc'[v] \in {"charge", "replace"} => pc'[v] = pc[v]
    BY DEF Check, TypeOK, Goto, Finish, Holds, Flushing
  <1>4. OneFlush' /\ OneHolder'
    BY <1>3 DEF OneFlush, OneHolder, Check
  <1>5. HeldIsKnown' /\ FileBehind' /\ Counted'
    BY <1>3 DEF HeldIsKnown, FileBehind, Counted, Check
  <1>6. \A j \in Keys : Claimed(j) => Claimed(j)'
    BY <1>3 DEF Claimed, Check
  <1>7. Explained'
    BY <1>6 DEF Explained, Check, TypeOK, Content, Goto, Finish
  <1> QED
    BY <1>2, <1>4, <1>5, <1>7

\* mark_done enters a key nobody holds, while nobody flushes.
LEMMA ClaimInv == ASSUME StoreInv, NEW w \in Workers, Claim(w) PROVE StoreInv'
  <1> USE DEF StoreInv
  <1>1. CASE key[w] \in memory
    <2>1. TypeOK'
      BY <1>1 DEF Claim, TypeOK, Goto, Finish, PC, Answers
    <2>2. \A v \in Workers : /\ Holds(v)' <=> Holds(v)
                             /\ Flushing(v)' <=> Flushing(v)
                             /\ pc'[v] \in {"charge", "replace"} => pc'[v] = pc[v]
      BY <1>1 DEF Claim, TypeOK, Goto, Finish, Holds, Flushing
    <2>3. OneFlush' /\ OneHolder' /\ HeldIsKnown' /\ FileBehind' /\ Counted'
      BY <1>1, <2>2 DEF OneFlush, OneHolder, HeldIsKnown, FileBehind, Counted, Claim
    <2>4. \A j \in Keys : Claimed(j) => Claimed(j)'
      BY <1>1, <2>2 DEF Claimed, Claim
    <2>5. Explained'
      BY <1>1, <2>4 DEF Explained, Claim, TypeOK, Content, Finish
    <2> QED
      BY <2>1, <2>3, <2>5
  <1>2. CASE key[w] \notin memory
    <2>1. TypeOK'
      BY <1>2 DEF Claim, TypeOK, Goto, Finish, PC, Answers
    <2>2. /\ ~Holds(w) /\ Holds(w)' /\ Flushing(w)'
          /\ \A v \in Workers : ~Flushing(v)
          /\ \A v \in Workers \ {w} : pc'[v] = pc[v]
          /\ pc'[w] = "open"
          /\ memory' = memory \cup {key[w]}
      BY <1>2 DEF Claim, LockFree, TypeOK, Goto, Holds, Flushing
    <2>3. \A v \in Workers \ {w} : Holds(v)' = Holds(v) /\ ~Flushing(v)'
      BY <2>2 DEF Holds, Flushing
    <2>4. \A v \in Workers : Holds(v) => key[v] # key[w]
      BY <1>2 DEF HeldIsKnown
    <2>5. OneFlush' /\ OneHolder'
      BY <2>2, <2>3, <2>4 DEF OneFlush, OneHolder, Claim
    <2>6. HeldIsKnown'
      BY <2>2, <2>3 DEF HeldIsKnown, Claim, Flushing
    <2>7. FileBehind' /\ Counted'
      BY <1>2, <2>2, <2>3 DEF FileBehind, Counted, Claim
    <2>8. \A j \in Keys : Claimed(j) => Claimed(j)'
      BY <2>2, <2>3 DEF Claimed, Claim
    <2>9. Claimed(key[w])'
      BY <2>2 DEF Claimed, Claim
    <2>10. Explained'
      BY <1>2, <2>2, <2>8, <2>9 DEF Explained, Claim, TypeOK, Content, Goto
    <2> QED
      BY <2>1, <2>5, <2>6, <2>7, <2>10
  <1> QED
    BY <1>1, <1>2

\* The first two steps of a flush touch the temp file only.
LEMMA FlushingInv ==
  ASSUME StoreInv, NEW w \in Workers, OpenTemp(w) \/ WriteTemp(w)
  PROVE  StoreInv'
  <1> USE DEF StoreInv
  <1>0. temp' \in Content
    BY Blanks, ContentRecord DEF OpenTemp, WriteTemp, TypeOK
  <1>1. TypeOK'
    BY <1>0 DEF OpenTemp, WriteTemp, TypeOK, Goto, PC
  <1>2. \A v \in Workers : Holds(v)' = Holds(v) /\ Flushing(v)' = Flushing(v)
    BY DEF OpenTemp, WriteTemp, TypeOK, Goto, Holds, Flushing
  <1>3. \A v \in Workers : pc'[v] = "charge" => pc[v] = "charge"
    BY DEF OpenTemp, WriteTemp, TypeOK, Goto
  <1>4. \A v \in Workers : pc'[v] = "replace" => v = w /\ WriteTemp(w)
    BY DEF OpenTemp, WriteTemp, TypeOK, Goto, OneFlush, Flushing
  <1>5. OneFlush' /\ OneHolder'
    BY <1>2 DEF OneFlush, OneHolder, OpenTemp, WriteTemp
  <1>6. HeldIsKnown' /\ FileBehind' /\ Counted'
    BY <1>2, <1>3, <1>4 DEF HeldIsKnown, FileBehind, Counted, OpenTemp, WriteTemp
  <1>7. \A j \in Keys : Claimed(j) => Claimed(j)'
    BY <1>2 DEF Claimed, OpenTemp, WriteTemp
  <1>8. Explained'
    BY <1>7 DEF Explained, OpenTemp, WriteTemp, TypeOK, Content
  <1> QED
    BY <1>1, <1>5, <1>6, <1>8

\* The file becomes the map in memory, which holds the key to be charged.
LEMMA ReplaceInv == ASSUME StoreInv, NEW w \in Workers, Replace(w) PROVE StoreInv'
  <1> USE DEF StoreInv
  <1>1. file' = [keys |-> memory, whole |-> TRUE]
    BY DEF Replace, HeldIsKnown
  <1>2. TypeOK'
    BY <1>1 DEF Replace, TypeOK, Goto, PC, Content, NoTemp
  <1>3. \A v \in Workers : /\ Holds(v)' = Holds(v)
                           /\ Flushing(v)' => Flushing(v) /\ v # w
                           /\ pc'[v] # "replace"
    BY DEF Replace, TypeOK, Goto, Holds, Flushing, OneFlush
  <1>4. OneFlush' /\ OneHolder'
    BY <1>3 DEF OneFlush, OneHolder, Replace
  <1>5. HeldIsKnown'
    BY <1>1, <1>3 DEF HeldIsKnown, Replace, Holds
  <1>6. FileBehind' /\ Counted'
    BY <1>1, <1>3 DEF FileBehind, Counted, Replace
  <1>7. \A j \in Keys : Claimed(j) => Claimed(j)'
    BY <1>3 DEF Claimed, Replace
  <1>8. Explained'
    BY <1>1, <1>7 DEF Explained, Replace, TypeOK, Content
  <1> QED
    BY <1>2, <1>4, <1>5, <1>6, <1>8

\* A request that ends with an error: its claim is lost.
LEMMA GivesUpInv ==
  ASSUME StoreInv, NEW w \in Workers, FlushFails(w) \/ ChargeFails(w)
  PROVE  StoreInv'
  <1> USE DEF StoreInv
  <1>0. Holds(w) /\ temp' \in Content
    BY Blanks DEF FlushFails, ChargeFails, Holds, TypeOK
  <1>1. TypeOK'
    BY <1>0 DEF FlushFails, ChargeFails, TypeOK, Goto, Finish, PC, Answers
  <1>2. /\ \A v \in Workers \ {w} : pc'[v] = pc[v] /\ answer'[v] = answer[v]
        /\ pc'[w] = "idle" /\ answer'[w] = "error"
        /\ lost' = lost \cup {key[w]}
        /\ UNCHANGED <<key, memory, file, executed, misreads>>
    BY DEF FlushFails, ChargeFails, TypeOK, Goto, Finish
  <1>3. /\ \A v \in Workers \ {w} : Holds(v)' = Holds(v) /\ Flushing(v)' = Flushing(v)
        /\ ~Holds(w)' /\ ~Flushing(w)'
    BY <1>2 DEF Holds, Flushing
  <1>4. OneFlush' /\ OneHolder'
    BY <1>2, <1>3 DEF OneFlush, OneHolder
  <1>5. \A v \in Workers : pc'[v] = "replace" => temp' = temp
    BY <1>2, <1>3 DEF FlushFails, ChargeFails, OneFlush, Flushing
  <1>6. HeldIsKnown' /\ FileBehind' /\ Counted'
    BY <1>2, <1>3, <1>5 DEF HeldIsKnown, FileBehind, Counted
  <1>7. \A j \in Keys : Claimed(j) => Claimed(j)'
    <2> SUFFICES ASSUME NEW j \in Keys, Claimed(j) PROVE Claimed(j)'
      OBVIOUS
    <2>1. CASE \E v \in Workers : key[v] = j /\ Holds(v)
      BY <1>2, <1>3, <2>1 DEF Claimed
    <2>2. CASE executed[j] > 0 \/ j \in lost
      BY <1>2, <2>2 DEF Claimed
    <2> QED
      BY <2>1, <2>2 DEF Claimed
  <1>8. Explained'
    BY <1>2, <1>7 DEF Explained, TypeOK, Content
  <1> QED
    BY <1>1, <1>4, <1>6, <1>8

\* A charge uses up the allowance of its key, which no one else holds.
LEMMA ChargeInv == ASSUME StoreInv, NEW w \in Workers, Charge(w) PROVE StoreInv'
  <1> USE StoreAssumption DEF StoreInv
  <1> DEFINE k == key[w]
  <1>0. Holds(w) /\ k \in Keys /\ pc[w] = "charge"
    BY DEF Charge, Holds, TypeOK
  <1>1. /\ executed' \in [Keys -> 0 .. ExecutedCap]
        /\ \A j \in Keys \ {k} : executed'[j] = executed[j]
        /\ executed'[k] <= executed[k] + 1
        /\ executed'[k] > 0
    BY <1>0 DEF Charge, TypeOK, ExecutedCap
  <1>2. TypeOK'
    BY <1>1 DEF Charge, TypeOK, Goto, Finish, PC, Answers
  <1>3. /\ \A v \in Workers \ {w} : pc'[v] = pc[v] /\ answer'[v] = answer[v]
        /\ pc'[w] = "idle" /\ answer'[w] = "charged"
        /\ UNCHANGED <<key, memory, file, temp, misreads, lost>>
    BY DEF Charge, TypeOK, Goto, Finish
  <1>4. /\ \A v \in Workers \ {w} : Holds(v)' = Holds(v) /\ Flushing(v)' = Flushing(v)
        /\ ~Holds(w)' /\ ~Flushing(w)'
    BY <1>3 DEF Holds, Flushing
  <1>5. OneFlush' /\ OneHolder'
    BY <1>3, <1>4 DEF OneFlush, OneHolder
  <1>6. HeldIsKnown' /\ FileBehind'
    BY <1>3, <1>4 DEF HeldIsKnown, FileBehind
  <1>7. Counted'
    <2> SUFFICES ASSUME NEW j \in Keys
                 PROVE  /\ executed'[j] <= 1 + misreads
                        /\ j \notin memory => executed'[j] <= misreads
                        /\ j \notin file.keys => executed'[j] <= misreads
                        /\ \A v \in Workers : Holds(v)' /\ key[v] = j
                                             => executed'[j] <= misreads
      BY <1>3 DEF Counted
    <2>1. CASE j # k
      BY <1>1, <1>4, <2>1 DEF Counted
    <2>2. CASE j = k
      <3>1. /\ j \in memory /\ j \in file.keys
            /\ executed[j] <= misreads
            /\ executed[j] \in Nat /\ executed'[j] \in Nat /\ misreads \in Nat
        BY <1>0, <1>1, <2>2 DEF HeldIsKnown, Counted, TypeOK, ExecutedCap
      <3>2. \A v \in Workers : ~(Holds(v)' /\ key[v] = j)
        BY <1>0, <1>4, <2>2 DEF OneHolder
      <3> QED
        BY <1>1, <2>2, <3>1, <3>2
    <2> QED
      BY <2>1, <2>2
  <1>8. \A j \in Keys : Claimed(j) => Claimed(j)'
    <2> SUFFICES ASSUME NEW j \in Keys, Claimed(j) PROVE Claimed(j)'
      OBVIOUS
    <2>1. CASE j = k
      BY <1>1, <2>1 DEF Claimed
    <2>2. CASE j # k
      BY <1>1, <1>3, <1>4, <2>2 DEF Claimed
    <2> QED
      BY <2>1, <2>2
  <1>9. Explained'
    BY <1>3, <1>8 DEF Explained, TypeOK, Content
  <1> QED
    BY <1>2, <1>5, <1>6, <1>7, <1>9

\* A start that reads the file keeps every claim on it; one that does not
\* raises the allowance of every key.
LEMMA RestartInv == ASSUME StoreInv, Restart PROVE StoreInv'
  <1> USE StoreAssumption DEF StoreInv
  <1>1. PICK readable \in BOOLEAN :
          /\ readable \/ misreads < MaxMisreads
          /\ memory' = Loaded(readable)
          /\ misreads' = IF readable THEN misreads ELSE misreads + 1
    BY DEF Restart
  <1>2. /\ memory' = IF readable THEN file.keys ELSE {}
        /\ \A v \in Workers : pc'[v] = "idle" /\ answer'[v] = "none"
        /\ UNCHANGED <<key, file, executed>>
        /\ lost \subseteq lost'
        /\ \A v \in Workers : Holds(v) => key[v] \in lost'
    BY <1>1 DEF Restart, Loaded, FileBehind, Holds
  <1>3. \A v \in Workers : ~Holds(v)' /\ ~Flushing(v)'
    BY <1>2 DEF Holds, Flushing
  <1>4. TypeOK'
    <2>1. temp' \in Content /\ misreads' \in 0 .. MaxMisreads
      BY <1>1 DEF Restart, TypeOK, NoTemp, Content
    <2>2. memory' \subseteq Keys /\ lost' \subseteq Keys
      BY <1>2 DEF Restart, TypeOK, Content
    <2> QED
      BY <2>1, <2>2 DEF Restart, TypeOK, PC, Answers
  <1>5. OneFlush' /\ OneHolder' /\ HeldIsKnown'
    BY <1>2, <1>3 DEF OneFlush, OneHolder, HeldIsKnown, Holds
  <1>6. FileBehind' /\ Counted'
    BY <1>1, <1>2, <1>3 DEF FileBehind, Counted, TypeOK, ExecutedCap
  <1>7. \A j \in Keys : Claimed(j) => Claimed(j)'
    BY <1>2 DEF Claimed
  <1>8. Explained'
    BY <1>2, <1>7 DEF Explained, TypeOK, Content
  <1> QED
    BY <1>4, <1>5, <1>6, <1>8

\* A stuttering step changes nothing the invariant speaks of.
LEMMA StutterInv == StoreInv /\ UNCHANGED vars => StoreInv'
  BY DEF StoreInv, vars, TypeOK, OneFlush, OneHolder, HeldIsKnown, FileBehind, Counted,
         Explained, Claimed, Holds, Flushing

\* Every step keeps the invariant.
LEMMA StoreInvStep == StoreInv /\ [Next]_vars => StoreInv'
  <1> SUFFICES ASSUME StoreInv, [Next]_vars PROVE StoreInv'
    OBVIOUS
  <1>1. ASSUME NEW w \in Workers, Request(w) \/ Work(w) PROVE StoreInv'
    BY <1>1, RequestInv, CheckInv, ClaimInv, FlushingInv, ReplaceInv, GivesUpInv, ChargeInv
       DEF Work
  <1>2. CASE Restart
    BY <1>2, RestartInv
  <1>3. CASE UNCHANGED vars
    BY <1>3, StutterInv
  <1> QED
    BY <1>1, <1>2, <1>3 DEF Next

\* The invariant holds in every behaviour of the store.
LEMMA StoreInvariant == Spec => []StoreInv
  BY InitInv, StoreInvStep, PTL DEF Spec

-----------------------------------------------------------------------------
(* The properties. *)

\* However requests race, crash and are retried, and whatever the disk
\* refuses, a key is charged for once, and once more at most for every start
\* that could not read a good file.
THEOREM ChargedOnce == Spec => []AtMostOnce
  <1>1. StoreInv => AtMostOnce
    BY DEF StoreInv, Counted, AtMostOnce
  <1> QED
    BY <1>1, StoreInvariant, PTL

\* A replay without a charge is that of a claim still at work or lost.
THEOREM ReplaysExplained == Spec => []ReplayExplained
  <1>1. StoreInv => ReplayExplained
    BY DEF StoreInv, Explained, Claimed, Holds, ReplayExplained, TypeOK, ExecutedCap
  <1> QED
    BY <1>1, StoreInvariant, PTL

\* A claim is on disk before its charge is attempted, and stays.
THEOREM ClaimsSurvive == Spec => []ClaimsPersisted
  <1>1. StoreInv => ClaimsPersisted
    BY DEF StoreInv, HeldIsKnown, Counted, ClaimsPersisted, TypeOK, ExecutedCap
  <1> QED
    BY <1>1, StoreInvariant, PTL

\* A crash finds the file whole, and never ahead of the map in memory.
THEOREM FileAlwaysUsable == Spec => []FileUsable
  <1>1. StoreInv => FileUsable
    BY DEF StoreInv, FileBehind, FileUsable
  <1> QED
    BY <1>1, StoreInvariant, PTL

-----------------------------------------------------------------------------
(* The store implements the contract of its protocol. *)

\* Where the contract sees a thread.
Seen == [w \in Workers |-> IF Flushing(w) THEN "saving" ELSE pc[w]]

\* A thread whose pc moves is the only one the contract sees move.
LEMMA SeenMoves ==
  ASSUME TypeOK, NEW w \in Workers, NEW to \in PC, Goto(w, to)
  PROVE  Seen' = [Seen EXCEPT ![w] =
                    IF to \in {"open", "write", "replace"} THEN "saving" ELSE to]
  BY DEF Seen, Flushing, Goto, TypeOK

\* Every step of the store is one of the contract, or none.
LEMMA ContractStep ==
  StoreInv /\ [Next]_vars => [Contract!Next]_(Contract!vars)
  <1> SUFFICES ASSUME StoreInv, [Next]_vars
               PROVE  [Contract!Next]_(Contract!vars)
    OBVIOUS
  <1> USE DEF StoreInv
  <1>0. TypeOK
    OBVIOUS
  <1>1. ASSUME NEW w \in Workers, Request(w)
        PROVE  Contract!Ask(w)
    <2>1. Seen' = [Seen EXCEPT ![w] = "check"] /\ Seen[w] = "idle"
      BY <1>0, <1>1, SeenMoves DEF Request, PC, Seen, Flushing
    <2> QED
      BY <1>1, <2>1 DEF Request, Contract!Ask, Contract!Goto, Seen
  <1>2. ASSUME NEW w \in Workers, Check(w)
        PROVE  Contract!Check(w)
    <2>1. Seen[w] = "check"
      BY <1>2 DEF Check, Seen, Flushing
    <2>2. CASE key[w] \in memory
      <3>1. Seen' = [Seen EXCEPT ![w] = "idle"]
        BY <1>0, <1>2, <2>2, SeenMoves DEF Check, Finish, PC
      <3> QED
        BY <1>2, <2>1, <2>2, <3>1
           DEF Check, Finish, Contract!Check, Contract!Finish, Contract!Goto, Seen
    <2>3. CASE key[w] \notin memory
      <3>1. Seen' = [Seen EXCEPT ![w] = "claim"]
        BY <1>0, <1>2, <2>3, SeenMoves DEF Check, PC
      <3> QED
        BY <1>2, <2>1, <2>3, <3>1 DEF Check, Contract!Check, Contract!Goto, Seen
    <2> QED
      BY <2>2, <2>3
  <1>3. ASSUME NEW w \in Workers, Claim(w)
        PROVE  Contract!MarkDone(w)
    <2>1. Seen[w] = "claim"
      BY <1>3 DEF Claim, Seen, Flushing
    <2>2. CASE key[w] \in memory
      <3>1. Seen' = [Seen EXCEPT ![w] = "idle"]
        BY <1>0, <1>3, <2>2, SeenMoves DEF Claim, Finish, PC
      <3> QED
        BY <1>3, <2>1, <2>2, <3>1
           DEF Claim, Finish, Contract!MarkDone, Contract!Finish, Contract!Goto, Seen
    <2>3. CASE key[w] \notin memory
      <3>1. Seen' = [Seen EXCEPT ![w] = "saving"]
        BY <1>0, <1>3, <2>3, SeenMoves DEF Claim, PC
      <3> QED
        BY <1>3, <2>1, <2>3, <3>1 DEF Claim, Contract!MarkDone, Contract!Goto, Seen
    <2> QED
      BY <2>2, <2>3
  <1>4. ASSUME NEW w \in Workers, OpenTemp(w) \/ WriteTemp(w)
        PROVE  UNCHANGED Contract!vars
    <2>1. Seen' = Seen
      <3>1. \A v \in Workers : /\ Flushing(v)' = Flushing(v)
                               /\ ~Flushing(v) => pc'[v] = pc[v]
        BY <1>0, <1>4 DEF OpenTemp, WriteTemp, Goto, TypeOK, Flushing
      <3> QED
        BY <3>1 DEF Seen
    <2> QED
      BY <1>4, <2>1 DEF OpenTemp, WriteTemp, Contract!vars, Seen
  <1>5. ASSUME NEW w \in Workers, Replace(w)
        PROVE  Contract!Save(w)
    <2>1. Seen' = [Seen EXCEPT ![w] = "charge"] /\ Seen[w] = "saving"
      BY <1>0, <1>5, SeenMoves DEF Replace, PC, Seen, Flushing
    <2>2. file'.keys = memory
      BY <1>5 DEF Replace, HeldIsKnown
    <2> QED
      BY <1>5, <2>1, <2>2 DEF Replace, Contract!Save, Contract!Goto, Seen
  <1>6. ASSUME NEW w \in Workers, FlushFails(w) \/ ChargeFails(w)
        PROVE  Contract!Fail(w)
    <2>1. Seen' = [Seen EXCEPT ![w] = "idle"] /\ Seen[w] \in {"saving", "charge"}
      BY <1>0, <1>6, SeenMoves DEF FlushFails, ChargeFails, Finish, PC, Seen, Flushing
    <2> QED
      BY <1>6, <2>1
         DEF FlushFails, ChargeFails, Finish, Contract!Fail, Contract!Finish, Contract!Goto, Seen
  <1>7. ASSUME NEW w \in Workers, Charge(w)
        PROVE  Contract!Charge(w)
    <2>1. Seen' = [Seen EXCEPT ![w] = "idle"] /\ Seen[w] = "charge"
      BY <1>0, <1>7, SeenMoves DEF Charge, Finish, PC, Seen, Flushing
    <2> QED
      BY <1>7, <2>1
         DEF Charge, Finish, Contract!Charge, Contract!Finish, Contract!Goto,
             ExecutedCap, Contract!ExecutedCap, Seen
  <1>8. CASE Restart
    <2>1. Seen' = [w \in Workers |-> "idle"]
      BY <1>8 DEF Restart, Seen, Flushing
    <2>2. PICK readable \in BOOLEAN :
            /\ readable \/ misreads < MaxMisreads
            /\ memory' = Loaded(readable)
            /\ misreads' = IF readable THEN misreads ELSE misreads + 1
      BY <1>8 DEF Restart
    <2>3. \/ memory' = file.keys /\ misreads' = misreads
          \/ misreads < MaxMisreads /\ memory' = {} /\ misreads' = misreads + 1
      BY <2>2 DEF Loaded, FileBehind
    <2>4. Contract!Restart
      BY <1>8, <2>1, <2>3 DEF Restart, Contract!Restart, Contract!Forget, Seen
    <2> QED
      BY <2>4 DEF Contract!Next
  <1>9. CASE UNCHANGED vars
    BY <1>9 DEF vars, Contract!vars, Flushing
  <1> QED
    BY <1>1, <1>2, <1>3, <1>4, <1>5, <1>6, <1>7, <1>8, <1>9 DEF Next, Work, Contract!Next

\* The steps of a flush are one save of the contract, and only a start that
\* cannot read its file makes the store forget.
THEOREM StoreKeepsContract == Spec => KeepsContract
  <1>1. Init => Contract!Init
    BY DEF Init, Contract!Init, Flushing, Empty
  <1> QED
    BY <1>1, ContractStep, StoreInvariant, PTL DEF Spec, KeepsContract, Contract!Spec
=============================================================================
