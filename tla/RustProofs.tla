----------------------------- MODULE RustProofs -----------------------------
(***************************************************************************)
(* Proofs about the Rust crate: its ledger, for any threads and keys and   *)
(* any number of failed appends and restarts, and crdb_retry inside        *)
(* with_timeout, for any clients, attempts and delays.                     *)
(*                                                                         *)
(* The ledger.  What the file lost of the keys record vouched for is not   *)
(* inductive: a key that a reload put in the mirror can be spoilt first    *)
(* and vouched for afterwards, from the mirror.  The keys at stake are     *)
(* therefore those of the mirror as well, and each failed append pays for  *)
(* two of them: one that may share its line from before, one that may come *)
(* to.                                                                     *)
(*                                                                         *)
(* The retry.  At most one request of a client is ever with the server: an *)
(* attempt follows only an answer which says that the last one did not     *)
(* commit, and a dropped future starts none.  So a transaction took effect *)
(* only if its client is still to see an answer that is not 40001, or saw  *)
(* one, or left.                                                           *)
(*                                                                         *)
(* The backoff.  Saturation only ever hides what the cap cuts off as well: *)
(* the cap fits in a word, and beyond a word is at least the next power.   *)
(* The conversion to milliseconds only ever makes a delay smaller, and by  *)
(* less than a millisecond where the word holds it.                        *)
(***************************************************************************)
EXTENDS KeyLedger, CrdbRetry, FiniteSetTheorems, WellFoundedInduction, TLAPS

AtStake == (acked \cup seen) \ Loaded

\* A line without its newline has still to spoil two keys.
Pending == IF open THEN 2 ELSE 0

LossPaidFor == Cardinality(AtStake) + Pending <= 2 * tears

LedgerInv ==
  /\ TypeOK
  /\ open => Len(lines) > 0
  /\ LossPaidFor
  /\ MirrorFromFile

-----------------------------------------------------------------------------
(* The file after an append. *)

\* One more piece keeps a file a sequence of lines, the last of which it is on.
LEMMA AppendedShape ==
  ASSUME TypeOK, open => Len(lines) > 0, NEW p \in Keys \cup {Torn}
  PROVE  /\ Appended(p) \in Seq(Seq(Keys \cup {Torn}))
         /\ Len(Appended(p)) > 0
         /\ Len(lines) <= Len(Appended(p))
         /\ \A i \in 1 .. Len(lines) : i # Len(lines) \/ ~open => Appended(p)[i] = lines[i]
         /\ open => /\ Len(Appended(p)) = Len(lines)
                    /\ Appended(p)[Len(lines)] = Append(lines[Len(lines)], p)
         /\ ~open => /\ Len(Appended(p)) = Len(lines) + 1
                     /\ Appended(p)[Len(lines) + 1] = <<p>>
  <1> DEFINE Piece == Keys \cup {Torn}
             n == Len(lines)
  <1>0. lines \in Seq(Seq(Piece)) /\ n \in Nat
    BY DEF TypeOK
  <1>1. CASE open
    <2>1. n \in 1 .. n /\ lines[n] \in Seq(Piece)
      BY <1>0, <1>1
    <2>2. Append(lines[n], p) \in Seq(Piece)
      BY <2>1
    <2>3. Appended(p) = [lines EXCEPT ![n] = Append(lines[n], p)]
      BY <1>1 DEF Appended
    <2> HIDE DEF Piece
    <2>4. Appended(p) \in Seq(Seq(Piece)) /\ Len(Appended(p)) = n
      BY <1>0, <2>1, <2>2, <2>3
    <2>5. /\ \A i \in 1 .. n : i # n => Appended(p)[i] = lines[i]
          /\ Appended(p)[n] = Append(lines[n], p)
      BY <1>0, <2>1, <2>3
    <2>6. Appended(p) \in Seq(Seq(Keys \cup {Torn}))
      BY <2>4 DEF Piece
    <2> QED
      BY <1>0, <1>1, <2>4, <2>5, <2>6
  <1>2. CASE ~open
    <2>1. Appended(p) = Append(lines, <<p>>)
      BY <1>2 DEF Appended
    <2>2. <<p>> \in Seq(Piece)
      OBVIOUS
    <2> HIDE DEF Piece
    <2>3. Appended(p) \in Seq(Seq(Piece)) /\ Len(Appended(p)) = n + 1
      BY <1>0, <2>1, <2>2
    <2>4. /\ \A i \in 1 .. n : Appended(p)[i] = lines[i]
          /\ Appended(p)[n + 1] = <<p>>
      BY <1>0, <2>1
    <2>5. Appended(p) \in Seq(Seq(Keys \cup {Torn}))
      BY <2>3 DEF Piece
    <2> QED
      BY <1>0, <1>2, <2>3, <2>4, <2>5
  <1> QED
    BY <1>1, <1>2

\* No piece of the file is ever lost, and the new one is in it.
LEMMA PiecesKept ==
  ASSUME TypeOK, open => Len(lines) > 0, NEW p \in Keys \cup {Torn},
         NEW k \in Keys,
         \/ k = p
         \/ \E i \in 1 .. Len(lines) : \E j \in 1 .. Len(lines[i]) : lines[i][j] = k
  PROVE  \E i \in 1 .. Len(Appended(p)) :
           \E j \in 1 .. Len(Appended(p)[i]) : Appended(p)[i][j] = k
  <1> DEFINE n == Len(lines)
             L == Appended(p)
  <1>0. n \in Nat /\ \A i \in 1 .. n : lines[i] \in Seq(Keys \cup {Torn})
    BY DEF TypeOK
  <1>1. CASE k = p
    <2>1. CASE open
      <3>1. /\ L[n] = Append(lines[n], p) /\ n \in 1 .. Len(L)
            /\ Len(lines[n]) \in Nat
        BY <1>0, <2>1, AppendedShape
      <3>2. Len(lines[n]) + 1 \in 1 .. Len(L[n]) /\ L[n][Len(lines[n]) + 1] = k
        BY <1>0, <1>1, <2>1, <3>1
      <3> QED
        BY <3>1, <3>2
    <2>2. CASE ~open
      <3>1. n + 1 \in 1 .. Len(L) /\ L[n + 1] = <<p>>
        BY <1>0, <2>2, AppendedShape
      <3>2. 1 \in 1 .. Len(L[n + 1]) /\ L[n + 1][1] = k
        BY <1>1, <3>1
      <3> QED
        BY <3>1, <3>2
    <2> QED
      BY <2>1, <2>2
  <1>2. CASE k # p
    <2>1. PICK i \in 1 .. n : \E j \in 1 .. Len(lines[i]) : lines[i][j] = k
      BY <1>2
    <2>2. PICK j \in 1 .. Len(lines[i]) : lines[i][j] = k
      BY <2>1
    <2>3. i \in 1 .. Len(L)
      BY <1>0, AppendedShape
    <2>4. j \in 1 .. Len(L[i]) /\ L[i][j] = k
      <3>1. CASE i # n \/ ~open
        BY <2>2, <3>1, AppendedShape
      <3>2. CASE i = n /\ open
        <4>1. L[i] = Append(lines[i], p) /\ lines[i] \in Seq(Keys \cup {Torn})
          BY <1>0, <3>2, AppendedShape
        <4> QED
          BY <2>2, <4>1
      <3> QED
        BY <3>1, <3>2
    <2> QED
      BY <2>3, <2>4
  <1> QED
    BY <1>1, <1>2

\* The keys a load finds after an append: at most one is gone, and only from a
\* line that lacked its newline.
LEMMA LoadedAfter ==
  ASSUME TypeOK, open => Len(lines) > 0, NEW p \in Keys \cup {Torn},
         lines' = Appended(p)
  PROVE  /\ ~open => Loaded \subseteq Loaded' /\ (p \in Keys => p \in Loaded')
         /\ \E x : Loaded \ {x} \subseteq Loaded'
  <1> DEFINE n == Len(lines)
  <1>0. n \in Nat
    BY DEF TypeOK
  <1>1. CASE ~open
    <2>1. Loaded \subseteq Loaded'
      <3> SUFFICES ASSUME NEW k \in Loaded PROVE k \in Loaded'
        OBVIOUS
      <3>1. PICK i \in 1 .. n : lines[i] = <<k>>
        BY DEF Loaded
      <3>2. i \in 1 .. Len(lines') /\ lines'[i] = <<k>>
        BY <1>0, <1>1, <3>1, AppendedShape
      <3> QED
        BY <3>2 DEF Loaded
    <2>2. p \in Keys => p \in Loaded'
      <3>1. n + 1 \in 1 .. Len(lines') /\ lines'[n + 1] = <<p>>
        BY <1>0, <1>1, AppendedShape
      <3> QED
        BY <3>1 DEF Loaded
    <2> QED
      BY <2>1, <2>2
  <1>2. CASE open
    <2> DEFINE x == lines[n][1]
    <2>1. Loaded \ {x} \subseteq Loaded'
      <3> SUFFICES ASSUME NEW k \in Loaded, k # x PROVE k \in Loaded'
        OBVIOUS
      <3>1. PICK i \in 1 .. n : lines[i] = <<k>>
        BY DEF Loaded
      <3>2. i # n
        BY <3>1
      <3>3. i \in 1 .. Len(lines') /\ lines'[i] = <<k>>
        BY <1>0, <1>2, <3>1, <3>2, AppendedShape
      <3> QED
        BY <3>3 DEF Loaded
    <2> QED
      BY <1>2, <2>1
  <1> QED
    BY <1>1, <1>2

-----------------------------------------------------------------------------
(* Counting the keys at stake. *)

\* Any set of keys is finite, and its size a number.
LEMMA KeysCounted ==
  ASSUME NEW S \in SUBSET Keys
  PROVE  IsFiniteSet(S) /\ Cardinality(S) \in Nat
  BY LedgerAssumption, FS_Subset, FS_CardinalityType

\* One more element makes a set larger by one at most.
LEMMA OneMore ==
  ASSUME NEW S, IsFiniteSet(S), NEW x
  PROVE  /\ IsFiniteSet(S \cup {x})
         /\ Cardinality(S) \in Nat /\ Cardinality(S \cup {x}) \in Nat
         /\ Cardinality(S \cup {x}) <= Cardinality(S) + 1
  <1>1. /\ IsFiniteSet(S \cup {x})
        /\ Cardinality(S \cup {x}) = IF x \in S THEN Cardinality(S) ELSE Cardinality(S) + 1
    BY FS_AddElement
  <1>2. Cardinality(S) \in Nat /\ Cardinality(S \cup {x}) \in Nat
    BY <1>1, FS_CardinalityType
  <1> QED
    BY <1>1, <1>2

\* A part of a set is no larger, and two more elements add two at most.
LEMMA Grows ==
  ASSUME NEW S \in SUBSET Keys, NEW T \in SUBSET Keys
  PROVE  /\ T \subseteq S => Cardinality(T) <= Cardinality(S)
         /\ \A x, y : T \subseteq (S \cup {x}) \cup {y} => Cardinality(T) <= Cardinality(S) + 2
  <1>0. IsFiniteSet(S) /\ Cardinality(S) \in Nat /\ Cardinality(T) \in Nat
    BY KeysCounted
  <1>1. ASSUME T \subseteq S PROVE Cardinality(T) <= Cardinality(S)
    BY <1>0, <1>1, FS_Subset
  <1>2. ASSUME NEW x, NEW y, T \subseteq (S \cup {x}) \cup {y}
        PROVE  Cardinality(T) <= Cardinality(S) + 2
    <2>1. /\ IsFiniteSet(S \cup {x})
          /\ Cardinality(S \cup {x}) \in Nat
          /\ Cardinality(S \cup {x}) <= Cardinality(S) + 1
      BY <1>0, OneMore
    <2>2. /\ IsFiniteSet((S \cup {x}) \cup {y})
          /\ Cardinality((S \cup {x}) \cup {y}) \in Nat
          /\ Cardinality((S \cup {x}) \cup {y}) <= Cardinality(S \cup {x}) + 1
      BY <2>1, OneMore
    <2>3. Cardinality(T) <= Cardinality((S \cup {x}) \cup {y})
      BY <1>2, <2>2, FS_Subset
    <2> QED
      BY <1>0, <2>1, <2>2, <2>3
  <1> QED
    BY <1>1, <1>2

-----------------------------------------------------------------------------
(* The invariant is inductive. *)

\* An empty file has nothing to lose.
LEMMA InitInv == Init => LedgerInv
  <1> SUFFICES ASSUME Init PROVE LedgerInv
    OBVIOUS
  <1>0. <<>> \in Seq(Seq(Keys \cup {Torn}))
    OBVIOUS
  <1>1. TypeOK
    <2>1. lines \in Seq(Seq(Keys \cup {Torn}))
      BY <1>0 DEF Init
    <2>2. /\ pc \in [Workers -> PC] /\ key \in [Workers -> Keys]
          /\ executed \in [Keys -> 0 .. 2]
          /\ tears \in 0 .. MaxTears /\ reopens \in 0 .. MaxReopens
      BY LedgerAssumption DEF Init, PC
    <2> QED
      BY <2>1, <2>2 DEF Init, TypeOK
  <1>2. AtStake = {} /\ Pending = 0 /\ tears = 0
    BY DEF Init, AtStake, Pending
  <1>3. LossPaidFor
    BY <1>2, FS_EmptySet DEF LossPaidFor
  <1> QED
    BY <1>1, <1>3 DEF LedgerInv, Init, MirrorFromFile

\* Steps that leave file, mirror and reports alone, and the moves of a thread.
LEMMA LocalInv ==
  ASSUME LedgerInv, NEW w \in Workers, Request(w) \/ Contains(w) \/ Act(w)
  PROVE  LedgerInv'
  <1> USE DEF LedgerInv
  <1>1. UNCHANGED <<seen, lines, open, acked, tears>>
    BY DEF Request, Contains, Act
  <1>2. TypeOK'
    <2>1. CASE Request(w) \/ Contains(w)
      BY <2>1 DEF Request, Contains, TypeOK, Goto, PC
    <2>2. CASE Act(w)
      <3>1. executed' \in [Keys -> 0 .. 2]
        BY <2>2 DEF Act, TypeOK
      <3> QED
        BY <2>2, <3>1 DEF Act, TypeOK, Goto, PC
    <2> QED
      BY <2>1, <2>2
  <1>3. LossPaidFor'
    BY <1>1 DEF LossPaidFor, AtStake, Loaded, Pending
  <1>4. MirrorFromFile'
    BY <1>1 DEF MirrorFromFile
  <1> QED
    BY <1>1, <1>2, <1>3, <1>4

\* record of a new key: on a new line it is safe; behind an open one it is
\* lost, with one more key at most, and the line is closed.
LEMMA RecordNewInv ==
  ASSUME LedgerInv, NEW w \in Workers, Record(w), RecordNew(w)
  PROVE  LedgerInv'
  <1> USE DEF LedgerInv
  <1> DEFINE k == key[w]
  <1>0. k \in Keys /\ pc[w] = "record"
    BY DEF Record, TypeOK
  <1>1. /\ lines' = Appended(k) /\ open' = FALSE
        /\ seen' = seen \cup {k} /\ acked' = acked \cup {k} /\ tears' = tears
    BY DEF Record, RecordNew
  <1>2. TypeOK'
    BY <1>0, <1>1, AppendedShape DEF TypeOK, Record, Goto, PC
  <1>3. AtStake \in SUBSET Keys /\ AtStake' \in SUBSET Keys
    BY <1>2 DEF AtStake, TypeOK
  <1>4. Cardinality(AtStake) \in Nat /\ Cardinality(AtStake') \in Nat /\ tears \in Nat
    BY <1>3, KeysCounted, LedgerAssumption DEF TypeOK
  <1>5. LossPaidFor'
    <2>1. CASE open
      <3>1. PICK x : Loaded \ {x} \subseteq Loaded'
        BY <1>0, <1>1, LoadedAfter
      <3>2. AtStake' \subseteq (AtStake \cup {x}) \cup {k}
        BY <1>1, <3>1 DEF AtStake
      <3>3. Cardinality(AtStake') <= Cardinality(AtStake) + 2
        BY <1>3, <3>2, Grows
      <3> QED
        BY <1>1, <1>4, <2>1, <3>3 DEF LossPaidFor, Pending
    <2>2. CASE ~open
      <3>1. AtStake' \subseteq AtStake
        BY <1>0, <1>1, <2>2, LoadedAfter DEF AtStake
      <3>2. Cardinality(AtStake') <= Cardinality(AtStake)
        BY <1>3, <3>1, Grows
      <3> QED
        BY <1>1, <1>4, <2>2, <3>2 DEF LossPaidFor, Pending
    <2> QED
      BY <2>1, <2>2
  <1>6. MirrorFromFile'
    <2> SUFFICES ASSUME NEW j \in seen'
                 PROVE  \E a \in 1 .. Len(lines') :
                          \E b \in 1 .. Len(lines'[a]) : lines'[a][b] = j
      BY DEF MirrorFromFile
    <2>1. j \in Keys
      BY <1>2 DEF TypeOK
    <2>2. \/ j = k
          \/ \E a \in 1 .. Len(lines) : \E b \in 1 .. Len(lines[a]) : lines[a][b] = j
      BY <1>1 DEF MirrorFromFile
    <2>3. \E a \in 1 .. Len(Appended(k)) :
            \E b \in 1 .. Len(Appended(k)[a]) : Appended(k)[a][b] = j
      <3>1. TypeOK /\ (open => Len(lines) > 0) /\ k \in Keys \cup {Torn}
        BY <1>0 DEF TypeOK
      <3> HIDE DEF k
      <3> QED
        BY <2>1, <2>2, <3>1, PiecesKept
    <2> QED
      BY <1>1, <2>3
  <1> QED
    BY <1>1, <1>2, <1>5, <1>6

\* record of a key of the mirror: it was at stake already, if it is lost.
LEMMA RecordKnownInv ==
  ASSUME LedgerInv, NEW w \in Workers, Record(w), RecordKnown(w)
  PROVE  LedgerInv'
  <1> USE DEF LedgerInv
  <1>1. /\ key[w] \in seen /\ acked' = acked \cup {key[w]}
        /\ UNCHANGED <<seen, lines, open, tears>>
    BY DEF Record, RecordKnown
  <1>2. TypeOK'
    BY <1>1 DEF TypeOK, Record, Goto, PC
  <1>3. AtStake' = AtStake /\ Pending' = Pending
    BY <1>1 DEF AtStake, Pending, Loaded
  <1>4. LossPaidFor'
    BY <1>1, <1>3 DEF LossPaidFor
  <1>5. MirrorFromFile'
    BY <1>1 DEF MirrorFromFile
  <1> QED
    BY <1>1, <1>2, <1>4, <1>5

\* An append that fails pays for what it spoils now and may spoil later.
LEMMA RecordFailsInv ==
  ASSUME LedgerInv, NEW w \in Workers, RecordFails(w)
  PROVE  LedgerInv'
  <1> USE DEF LedgerInv
  <1>0. /\ tears' = tears + 1 /\ tears < MaxTears
        /\ UNCHANGED <<seen, acked, key, executed, reopens>>
        /\ pc' = [pc EXCEPT ![w] = "idle"] /\ key[w] \in Keys
    BY DEF RecordFails, Goto, TypeOK
  <1>1. CASE UNCHANGED <<lines, open>>
    <2>1. TypeOK'
      BY <1>0, <1>1, LedgerAssumption DEF TypeOK, PC
    <2>2. AtStake' = AtStake /\ Pending' = Pending
      BY <1>0, <1>1 DEF AtStake, Pending, Loaded
    <2>3. AtStake \in SUBSET Keys
      BY DEF AtStake, TypeOK
    <2>4. Cardinality(AtStake) \in Nat /\ tears \in Nat /\ Pending \in Nat
      BY <2>3, KeysCounted, LedgerAssumption DEF TypeOK, Pending
    <2>5. LossPaidFor'
      BY <1>0, <2>2, <2>4 DEF LossPaidFor
    <2>6. MirrorFromFile'
      BY <1>0, <1>1 DEF MirrorFromFile
    <2> QED
      BY <1>1, <2>1, <2>5, <2>6
  <1>2. CASE \E p \in {key[w], Torn} : lines' = Appended(p) /\ open' = TRUE
    <2>1. PICK p \in Keys \cup {Torn} : lines' = Appended(p) /\ open' = TRUE
      BY <1>0, <1>2
    <2>2. TypeOK' /\ Len(lines') > 0
      BY <1>0, <2>1, AppendedShape, LedgerAssumption DEF TypeOK, PC
    <2>3. AtStake \in SUBSET Keys /\ AtStake' \in SUBSET Keys
      BY <2>2 DEF AtStake, TypeOK
    <2>4. Cardinality(AtStake) \in Nat /\ Cardinality(AtStake') \in Nat /\ tears \in Nat
      BY <2>3, KeysCounted, LedgerAssumption DEF TypeOK
    <2>5. LossPaidFor'
      <3>1. CASE open
        <4>1. PICK x : Loaded \ {x} \subseteq Loaded'
          BY <2>1, LoadedAfter
        <4>2. AtStake' \subseteq (AtStake \cup {x}) \cup {x}
          BY <1>0, <4>1 DEF AtStake
        <4>3. Cardinality(AtStake') <= Cardinality(AtStake) + 2
          BY <2>3, <4>2, Grows
        <4> QED
          BY <1>0, <2>1, <2>4, <3>1, <4>3 DEF LossPaidFor, Pending
      <3>2. CASE ~open
        <4>1. AtStake' \subseteq AtStake
          BY <1>0, <2>1, <3>2, LoadedAfter DEF AtStake
        <4>2. Cardinality(AtStake') <= Cardinality(AtStake)
          BY <2>3, <4>1, Grows
        <4> QED
          BY <1>0, <2>1, <2>4, <3>2, <4>2 DEF LossPaidFor, Pending
      <3> QED
        BY <3>1, <3>2
    <2>6. MirrorFromFile'
      <3> SUFFICES ASSUME NEW j \in seen'
                   PROVE  \E a \in 1 .. Len(lines') :
                            \E b \in 1 .. Len(lines'[a]) : lines'[a][b] = j
        BY DEF MirrorFromFile
      <3>1. j \in Keys
        BY <2>2 DEF TypeOK
      <3>2. \E a \in 1 .. Len(lines) : \E b \in 1 .. Len(lines[a]) : lines[a][b] = j
        BY <1>0 DEF MirrorFromFile
      <3> QED
        BY <2>1, <3>1, <3>2, PiecesKept
    <2> QED
      BY <2>2, <2>5, <2>6
  <1> QED
    BY <1>1, <1>2 DEF RecordFails

\* A start takes what the file still has.
LEMMA ReopenInv == ASSUME LedgerInv, Reopen PROVE LedgerInv'
  <1> USE DEF LedgerInv
  <1>1. /\ seen' = Loaded /\ Loaded' = Loaded
        /\ UNCHANGED <<key, lines, open, acked, executed, tears>>
    BY DEF Reopen, Loaded
  <1>2. TypeOK'
    BY <1>1, LedgerAssumption DEF Reopen, TypeOK, PC, Loaded
  <1>3. AtStake \in SUBSET Keys /\ AtStake' \in SUBSET Keys /\ AtStake' \subseteq AtStake
    BY <1>1, <1>2 DEF AtStake, TypeOK
  <1>4. /\ Cardinality(AtStake') <= Cardinality(AtStake)
        /\ Cardinality(AtStake) \in Nat /\ Cardinality(AtStake') \in Nat /\ tears \in Nat
    BY <1>3, Grows, KeysCounted, LedgerAssumption DEF TypeOK
  <1>5. LossPaidFor'
    BY <1>1, <1>4 DEF LossPaidFor, Pending
  <1>6. MirrorFromFile'
    <2> SUFFICES ASSUME NEW j \in Loaded
                 PROVE  \E a \in 1 .. Len(lines) :
                          \E b \in 1 .. Len(lines[a]) : lines[a][b] = j
      BY <1>1 DEF MirrorFromFile
    <2>1. PICK a \in 1 .. Len(lines) : lines[a] = <<j>>
      BY DEF Loaded
    <2>2. 1 \in 1 .. Len(lines[a]) /\ lines[a][1] = j
      BY <2>1
    <2> QED
      BY <2>1, <2>2
  <1> QED
    BY <1>1, <1>2, <1>5, <1>6

\* Every step keeps the invariant.
LEMMA LedgerInvStep == LedgerInv /\ [Next]_vars => LedgerInv'
  <1> SUFFICES ASSUME LedgerInv, [Next]_vars PROVE LedgerInv'
    OBVIOUS
  <1>1. ASSUME NEW w \in Workers,
               Request(w) \/ Contains(w) \/ Act(w) \/ Record(w) \/ RecordFails(w)
        PROVE  LedgerInv'
    BY <1>1, LocalInv, RecordNewInv, RecordKnownInv, RecordFailsInv DEF Record
  <1>2. CASE Reopen
    BY <1>2, ReopenInv
  <1>3. CASE UNCHANGED vars
    BY <1>3 DEF vars, LedgerInv, TypeOK, LossPaidFor, AtStake, Loaded, Pending, MirrorFromFile
  <1> QED
    BY <1>1, <1>2, <1>3 DEF Next

\* The invariant holds in every behaviour of the ledger.
LEMMA LedgerInvariant == Spec => []LedgerInv
  BY InitInv, LedgerInvStep, PTL DEF Spec

-----------------------------------------------------------------------------
(* The properties. *)

\* Each append that fails half-way costs at most two of the keys that record
\* vouched for, whatever threads, restarts and later appends do.
THEOREM LossIsBounded == Spec => []LossBoundedByTears
  <1>1. ASSUME LedgerInv PROVE LossBoundedByTears
    <2>1. /\ acked \ Loaded \in SUBSET Keys /\ AtStake \in SUBSET Keys
          /\ acked \ Loaded \subseteq AtStake
      BY <1>1 DEF LedgerInv, TypeOK, AtStake
    <2>2. /\ Cardinality(acked \ Loaded) <= Cardinality(AtStake)
          /\ Cardinality(acked \ Loaded) \in Nat /\ Cardinality(AtStake) \in Nat
      BY <2>1, Grows, KeysCounted
    <2>3. tears \in Nat /\ Pending \in Nat
      BY <1>1, LedgerAssumption DEF LedgerInv, TypeOK, Pending
    <2> QED
      BY <1>1, <2>2, <2>3 DEF LedgerInv, LossPaidFor, LossBoundedByTears
  <1> QED
    BY <1>1, LedgerInvariant, PTL

\* The mirror never runs ahead of the file.
THEOREM MirrorFollowsFile == Spec => []MirrorFromFile
  <1>1. LedgerInv => MirrorFromFile
    BY DEF LedgerInv
  <1> QED
    BY <1>1, LedgerInvariant, PTL

-----------------------------------------------------------------------------
(* Calls of crdb_retry. *)

ClientTypes ==
  /\ place \in [Clients -> Places]
  /\ outcome \in [Clients -> {"none", "ok", "exhausted", "terminal", "timeout"}]
  /\ server \in [Clients -> {"nothing", "request"} \cup Answers]
  /\ applied \in [Clients -> Nat]

\* The server has something of a client that waits for it, or of one that left.
OneRequest ==
  \A c \in Clients :
    /\ place[c] \in {"idle", "running", "backoff"} => server[c] = "nothing"
    /\ place[c] = "committing" => server[c] # "nothing"
    /\ outcome[c] \in {"ok", "exhausted"} => server[c] = "nothing"
    /\ outcome[c] # "none" => place[c] = "done"

\* What the last request of a client says of its effect.
EffectKnown ==
  \A c \in Clients :
    /\ applied[c] <= 1
    /\ place[c] \in {"idle", "running", "backoff"} => applied[c] = 0
    /\ server[c] \in {"request", "40001"} => applied[c] = 0
    /\ server[c] = "ok" => applied[c] = 1
    /\ outcome[c] = "ok" => applied[c] = 1
    /\ outcome[c] = "exhausted" => applied[c] = 0

CallsInv == ClientTypes /\ OneRequest /\ EffectKnown

-----------------------------------------------------------------------------
(* The invariant of the calls is inductive. *)

\* Before anything was started.
LEMMA CallsInvInit == CrdbInit => CallsInv
  BY DEF CrdbInit, CallsInv, ClientTypes, OneRequest, EffectKnown, Places, Answers

\* An attempt begins, or asks the server to commit: nothing was applied.
LEMMA AttemptInv ==
  ASSUME CallsInv, NEW c \in Clients, Start(c) \/ Wake(c) \/ AskCommit(c)
  PROVE  CallsInv'
  <1>1. CASE Start(c) \/ Wake(c)
    <2>1. /\ place' = [place EXCEPT ![c] = "running"] /\ place[c] \in {"idle", "backoff"}
          /\ UNCHANGED <<outcome, server, applied>>
      BY <1>1 DEF Start, Wake, Begin, MoveTo
    <2> QED
      BY <2>1 DEF CallsInv, ClientTypes, OneRequest, EffectKnown, Places
  <1>2. CASE AskCommit(c)
    <2>1. /\ place' = [place EXCEPT ![c] = "committing"] /\ place[c] = "running"
          /\ server' = [server EXCEPT ![c] = "request"]
          /\ UNCHANGED <<outcome, applied>>
      BY <1>2 DEF AskCommit, MoveTo
    <2> QED
      BY <2>1 DEF CallsInv, ClientTypes, OneRequest, EffectKnown, Places
  <1> QED
    BY <1>1, <1>2

\* An answer: 40001 is known not to have taken effect, and only that is retried.
LEMMA AnsweredInv ==
  ASSUME CallsInv, NEW c \in Clients, Answered(c)
  PROVE  CallsInv'
  <1>1. /\ server' = [server EXCEPT ![c] = "nothing"] /\ UNCHANGED applied
        /\ place[c] = "committing" /\ server[c] \in Answers
    BY DEF Answered
  <1>2. CASE server[c] = "40001"
    <2>1. \/ /\ place' = [place EXCEPT ![c] = "done"]
             /\ outcome' = [outcome EXCEPT ![c] = "exhausted"]
          \/ /\ place' = [place EXCEPT ![c] = "backoff"]
             /\ UNCHANGED outcome
      BY <1>2 DEF Answered, Retryable, FailedAttempt, End, MoveTo
    <2> QED
      BY <1>1, <1>2, <2>1 DEF CallsInv, ClientTypes, OneRequest, EffectKnown, Places, Answers
  <1>3. CASE server[c] # "40001"
    <2>1. /\ place' = [place EXCEPT ![c] = "done"]
          /\ outcome' = [outcome EXCEPT ![c] = IF server[c] = "ok" THEN "ok" ELSE "terminal"]
      BY <1>3 DEF Answered, Retryable, End, MoveTo
    <2> QED
      BY <1>1, <1>3, <2>1 DEF CallsInv, ClientTypes, OneRequest, EffectKnown, Places, Answers
  <1> QED
    BY <1>2, <1>3

\* A future that is dropped leaves the server as it is.
LEMMA TimesOutInv ==
  ASSUME CallsInv, NEW c \in Clients, TimesOut(c)
  PROVE  CallsInv'
  <1>1. /\ place' = [place EXCEPT ![c] = "done"]
        /\ outcome' = [outcome EXCEPT ![c] = "timeout"]
        /\ UNCHANGED <<server, applied>>
    BY DEF TimesOut, End, MoveTo
  <1> QED
    BY <1>1 DEF CallsInv, ClientTypes, OneRequest, EffectKnown, Places

\* The server uses up the one request it has.
LEMMA ServerInv ==
  ASSUME CallsInv, NEW c \in Clients, ServerActs(c)
  PROVE  CallsInv'
  <1>1. UNCHANGED <<place, outcome>> /\ server[c] = "request"
    BY DEF ServerActs
  <1>2. CASE Commit(c) /\ \E a \in {"ok", "other"} : server' = [server EXCEPT ![c] = a]
    BY <1>1, <1>2 DEF Commit, CallsInv, ClientTypes, OneRequest, EffectKnown, Answers
  <1>3. CASE /\ \E a \in {"40001", "other"} : server' = [server EXCEPT ![c] = a]
             /\ UNCHANGED applied
    BY <1>1, <1>3 DEF CallsInv, ClientTypes, OneRequest, EffectKnown, Answers
  <1> QED
    BY <1>2, <1>3 DEF ServerActs

\* Every step keeps the invariant.
LEMMA CallsInvStep == CallsInv /\ [CrdbNext]_crdbVars => CallsInv'
  <1> SUFFICES ASSUME CallsInv, [CrdbNext]_crdbVars PROVE CallsInv'
    OBVIOUS
  <1>1. ASSUME NEW c \in Clients,
               Start(c) \/ Advance(c) \/ TimesOut(c) \/ ServerActs(c)
        PROVE  CallsInv'
    BY <1>1, AttemptInv, AnsweredInv, TimesOutInv, ServerInv DEF Advance
  <1>2. CASE UNCHANGED crdbVars
    BY <1>2 DEF crdbVars, CallsInv, ClientTypes, OneRequest, EffectKnown
  <1> QED
    BY <1>1, <1>2 DEF CrdbNext

-----------------------------------------------------------------------------
\* Whatever answers are lost and wherever futures are dropped, a call takes
\* effect at most once; Ok means that it did, and exhausted that it did not.
THEOREM CallsTakeEffectOnce == CrdbSpec => []EffectMatchesOutcome
  <1>1. CallsInv => EffectMatchesOutcome
    BY DEF CallsInv, EffectKnown, EffectMatchesOutcome
  <1> QED
    BY <1>1, CallsInvInit, CallsInvStep, PTL DEF CrdbSpec

-----------------------------------------------------------------------------
(* The backoff. *)

\* Induction, of a set of numbers.
LEMMA SetInduction ==
  ASSUME NEW S, 0 \in S, \A n \in Nat : n \in S => n + 1 \in S
  PROVE  Nat \subseteq S
  <1> DEFINE less == OpToRel(<, Nat)
             rest == Nat \ S
  <1>1. IsWellFoundedOn(less, Nat)
    BY NatLessThanWellFounded
  <1>2. \A m, n \in Nat : n < m => <<n, m>> \in less
    BY DEF OpToRel
  <1> HIDE DEF less
  <1>3. SUFFICES ASSUME rest # {} PROVE FALSE
    OBVIOUS
  <1>4. PICK m \in rest : \A n \in rest : ~(<<n, m>> \in less)
    BY <1>1, <1>3, WFMin
  <1>5. m \in Nat /\ m # 0 /\ m - 1 \in Nat /\ m - 1 < m
    BY <1>4
  <1>6. m - 1 \notin rest
    BY <1>2, <1>4, <1>5
  <1> QED
    BY <1>4, <1>5, <1>6

\* f lists the powers up to the n-th.
Powers(f, n) == f = [i \in 0 .. n |-> IF i = 0 THEN 1 ELSE 2 * f[i - 1]]

\* The values of such a list.
LEMMA PowersValue ==
  ASSUME NEW n, NEW f, Powers(f, n), NEW i \in 0 .. n
  PROVE  f[i] = IF i = 0 THEN 1 ELSE 2 * f[i - 1]
  <1> DEFINE F == [j \in 0 .. n |-> IF j = 0 THEN 1 ELSE 2 * f[j - 1]]
  <1>1. f[i] = F[i]
    BY Zenon DEF Powers
  <1> QED
    BY <1>1, Zenon

\* There is one for each n.
LEMMA PowersExist == \A n \in Nat : \E f : Powers(f, n)
  <1> DEFINE N == {n \in Nat : \E f : Powers(f, n)}
  <1>1. 0 \in N
    <2> DEFINE f == [i \in 0 .. 0 |-> 1]
    <2>1. Powers(f, 0)
      BY DEF Powers
    <2> QED
      BY <2>1
  <1>2. ASSUME NEW n \in Nat, n \in N PROVE n + 1 \in N
    <2>1. PICK g : Powers(g, n)
      BY <1>2
    <2> DEFINE f == [i \in 0 .. n + 1 |-> IF i <= n THEN g[i] ELSE 2 * g[i - 1]]
    <2>2. \A i \in 0 .. n + 1 : f[i] = IF i = 0 THEN 1 ELSE 2 * f[i - 1]
      <3> TAKE i \in 0 .. n + 1
      <3>1. CASE i <= n
        <4>1. g[i] = IF i = 0 THEN 1 ELSE 2 * g[i - 1]
          BY <2>1, <3>1, PowersValue
        <4>2. f[i] = g[i] /\ (i # 0 => f[i - 1] = g[i - 1])
          BY <3>1
        <4> QED
          BY <4>1, <4>2
      <3>2. CASE i = n + 1
        <4>1. i # 0 /\ ~(i <= n) /\ i - 1 \in 0 .. n + 1 /\ i - 1 <= n
          BY <3>2
        <4>2. f[i - 1] = g[i - 1]
          BY <4>1
        <4> QED
          BY <4>1, <4>2
      <3> QED
        BY <3>1, <3>2
    <2>3. f = [i \in 0 .. n + 1 |-> f[i]]
      OBVIOUS
    <2> HIDE DEF f
    <2>4. Powers(f, n + 1)
      BY <2>2, <2>3, Zenon DEF Powers
    <2> QED
      BY <2>4
  <1> HIDE DEF N
  <1>3. Nat \subseteq N
    BY <1>1, <1>2, SetInduction
  <1> QED
    BY <1>3 DEF N

\* Two of them agree as far as both go.
LEMMA PowersAgree ==
  ASSUME NEW n \in Nat, NEW f, Powers(f, n), NEW g, Powers(g, n + 1)
  PROVE  f[n] = g[n]
  <1> DEFINE N == {i \in Nat : i <= n => f[i] = g[i]}
  <1>1. 0 \in N
    BY DEF Powers
  <1>2. ASSUME NEW i \in Nat, i \in N PROVE i + 1 \in N
    <2> SUFFICES ASSUME i + 1 <= n PROVE f[i + 1] = g[i + 1]
      OBVIOUS
    <2>1. i + 1 \in 0 .. n /\ i + 1 \in 0 .. n + 1 /\ i + 1 # 0 /\ (i + 1) - 1 = i
      OBVIOUS
    <2>2. f[i + 1] = 2 * f[i] /\ g[i + 1] = 2 * g[i]
      BY <2>1, PowersValue
    <2> QED
      BY <1>2, <2>2
  <1> HIDE DEF N
  <1>3. Nat \subseteq N
    BY <1>1, <1>2, SetInduction
  <1> QED
    BY <1>3 DEF N

\* PowerOfTwo is the last of its list.
LEMMA PowerOfTwoIs ==
  ASSUME NEW n \in Nat
  PROVE  \E f : Powers(f, n) /\ PowerOfTwo(n) = f[n]
  <1>1. \E f : Powers(f, n)
    BY PowersExist
  <1> QED
    BY <1>1 DEF PowerOfTwo, Powers

\* The next power is twice the last.
LEMMA PowerOfTwoSteps ==
  PowerOfTwo(0) = 1 /\ \A n \in Nat : PowerOfTwo(n + 1) = 2 * PowerOfTwo(n)
  <1>1. PowerOfTwo(0) = 1
    <2>1. PICK f : Powers(f, 0) /\ PowerOfTwo(0) = f[0]
      BY PowerOfTwoIs
    <2> QED
      BY <2>1 DEF Powers
  <1>2. ASSUME NEW n \in Nat PROVE PowerOfTwo(n + 1) = 2 * PowerOfTwo(n)
    <2>1. PICK f : Powers(f, n) /\ PowerOfTwo(n) = f[n]
      BY PowerOfTwoIs
    <2>2. n + 1 \in Nat /\ n + 1 \in 0 .. n + 1 /\ n + 1 # 0 /\ (n + 1) - 1 = n
      OBVIOUS
    <2>3. PICK g : Powers(g, n + 1) /\ PowerOfTwo(n + 1) = g[n + 1]
      BY <2>2, PowerOfTwoIs
    <2>4. f[n] = g[n]
      BY <2>1, <2>3, PowersAgree
    <2>5. g[n + 1] = 2 * g[n]
      BY <2>2, <2>3, PowersValue
    <2> QED
      BY <2>1, <2>3, <2>4, <2>5
  <1> QED
    BY <1>1, <1>2

\* Powers are positive and grow.
LEMMA PowerOfTwoGrows ==
  /\ \A n \in Nat : PowerOfTwo(n) \in Nat /\ PowerOfTwo(n) >= 1
  /\ \A m, n \in Nat : m <= n => PowerOfTwo(m) <= PowerOfTwo(n)
  <1>1. \A n \in Nat : PowerOfTwo(n) \in Nat /\ PowerOfTwo(n) >= 1
    <2> DEFINE N == {n \in Nat : PowerOfTwo(n) \in Nat /\ PowerOfTwo(n) >= 1}
    <2>1. 0 \in N /\ \A n \in Nat : n \in N => n + 1 \in N
      BY PowerOfTwoSteps
    <2> HIDE DEF N
    <2>2. Nat \subseteq N
      BY <2>1, SetInduction
    <2> QED
      BY <2>2 DEF N
  <1>2. ASSUME NEW m \in Nat PROVE \A n \in Nat : m <= n => PowerOfTwo(m) <= PowerOfTwo(n)
    <2> DEFINE N == {n \in Nat : m <= n => PowerOfTwo(m) <= PowerOfTwo(n)}
    <2>1. 0 \in N
      BY <1>1
    <2>2. ASSUME NEW n \in Nat, n \in N PROVE n + 1 \in N
      <3>1. m <= n + 1 => m <= n \/ m = n + 1
        OBVIOUS
      <3>2. PowerOfTwo(n + 1) = 2 * PowerOfTwo(n)
        BY PowerOfTwoSteps
      <3>3. /\ PowerOfTwo(n) \in Nat /\ PowerOfTwo(m) \in Nat /\ PowerOfTwo(n + 1) \in Nat
        BY <1>1
      <3> QED
        BY <2>2, <3>1, <3>2, <3>3
    <2> HIDE DEF N
    <2>3. Nat \subseteq N
      BY <2>1, <2>2, SetInduction
    <2> QED
      BY <2>3 DEF N
  <1> QED
    BY <1>1, <1>2

\* A word holds the numbers below a power of two.
LEMMA WordSize ==
  /\ Largest \in Nat /\ Largest >= 1 /\ Bits \in Nat /\ Bits >= 1
  /\ PowerOfTwo(Bits) = Largest + 1
  <1>1. Bits \in Nat /\ Bits >= 1
    BY PolicyAssumption
  <1>2. PowerOfTwo(Bits) \in Nat /\ PowerOfTwo(1) <= PowerOfTwo(Bits)
    BY <1>1, PowerOfTwoGrows
  <1>3. PowerOfTwo(1) = 2
    <2>1. 0 \in Nat /\ 0 + 1 = 1
      OBVIOUS
    <2> QED
      BY <2>1, PowerOfTwoSteps
  <1> QED
    BY <1>1, <1>2, <1>3 DEF Largest

\* What dividing by the units of a millisecond leaves.
LEMMA Division ==
  ASSUME NEW a \in Nat, NEW b \in Nat, b >= 1
  PROVE  /\ a \div b \in Nat /\ (a \div b) * b <= a /\ a = (a \div b) * b + (a % b)
         /\ a % b \in Nat /\ a % b < b /\ a % b <= a /\ (a < b => a % b = a)
  <1>1. /\ a \div b \in Int /\ a % b \in 0 .. b - 1
        /\ a = b * (a \div b) + (a % b)
    OBVIOUS
  <1>2. PICK q \in Int, r \in 0 .. b - 1 : q = a \div b /\ r = a % b /\ a = b * q + r
    BY <1>1
  <1>3. q >= 0
    <2>1. q <= -1 => b * q <= -b
      BY <1>2
    <2> QED
      BY <1>2, <2>1
  <1>4. q * b = b * q /\ b * q >= 0
    BY <1>2, <1>3
  <1>5. a < b => q = 0
    <2>1. q >= 1 => b * q >= b
      BY <1>2
    <2> QED
      BY <1>2, <1>3, <2>1
  <1>6. a < b => r = a
    BY <1>2, <1>5
  <1> QED
    BY <1>2, <1>3, <1>4, <1>6

\* as_millis() as u64 never exceeds the duration, and loses less than a
\* millisecond of one that the word holds.
LEMMA MillisOfDuration ==
  ASSUME NEW d \in Nat
  PROVE  /\ AsMillis(d) \in Nat /\ AsMillis(d) <= Largest
         /\ AsMillis(d) * PerMilli <= d
         /\ d % PerMilli \in Nat /\ d % PerMilli < PerMilli
         /\ Fits(d) => d = AsMillis(d) * PerMilli + (d % PerMilli)
  <1>0. PerMilli \in Nat /\ PerMilli >= 1
    BY PolicyAssumption
  <1>1. PICK q \in Nat, r \in Nat :
          /\ q = d \div PerMilli /\ r = d % PerMilli /\ r < PerMilli
          /\ q * PerMilli <= d /\ d = q * PerMilli + r
    BY <1>0, Division
  <1>2. PICK w \in Nat : w = PowerOfTwo(Bits) /\ w >= 1 /\ w = Largest + 1
    BY WordSize
  <1>3. AsMillis(d) = q % w
    BY <1>1, <1>2 DEF AsMillis
  <1>4. PICK m \in Nat : m = q % w /\ m < w /\ m <= q /\ (q < w => m = q)
    BY <1>2, Division
  <1>5. m * PerMilli <= q * PerMilli
    BY <1>0, <1>4
  <1>6. m * PerMilli \in Nat /\ q * PerMilli \in Nat
    BY <1>0
  <1>7. Fits(d) => m = q
    BY <1>1, <1>2, <1>4, WordSize DEF Fits
  <1>8. AsMillis(d) = m /\ m <= Largest /\ m * PerMilli <= d
    <2>1. AsMillis(d) = m /\ m <= Largest
      BY <1>2, <1>3, <1>4, WordSize
    <2>2. \A x, y \in Nat : x <= y /\ y <= d => x <= d
      OBVIOUS
    <2>3. m * PerMilli <= d
      BY <1>1, <1>5, <1>6, <2>2
    <2> QED
      BY <2>1, <2>3
  <1>9. Fits(d) => d = m * PerMilli + r
    BY <1>1, <1>7
  <1> QED
    BY <1>1, <1>8, <1>9

PolicyType == policy \in [base_delay : Nat, max_delay : Nat]

\* In milliseconds, the saturating arithmetic gives what the exact one does,
\* after the cap.
LEMMA CeilingIsExact ==
  ASSUME NEW i \in Nat, PolicyType
  PROVE  /\ CappedCeiling(i) \in Nat
         /\ CappedCeiling(i) = Lesser(AsMillis(policy.base_delay) * PowerOfTwo(i),
                                      AsMillis(policy.max_delay))
  <1>0. PICK base \in Nat, max \in Nat :
          base = AsMillis(policy.base_delay) /\ max = AsMillis(policy.max_delay) /\ max <= Largest
    BY MillisOfDuration DEF PolicyType
  <1> DEFINE p == PowerOfTwo(i)
             exact == base * p
  <1>1. p \in Nat /\ p >= 1
    BY PowerOfTwoGrows
  <1> HIDE DEF p
  <1>2. \A a, b \in Nat : a * b \in Nat /\ (a >= 1 => a * b >= b)
    OBVIOUS
  <1>3. exact \in Nat /\ (base >= 1 => exact >= p)
    BY <1>0, <1>1, <1>2
  <1>4. CASE i < Bits
    <2>1. CappedCeiling(i) = Lesser(Saturated(exact), max)
      BY <1>0, <1>4 DEF CappedCeiling, p
    <2> HIDE DEF exact
    <2>2. Lesser(Saturated(exact), max) = Lesser(exact, max) /\ Lesser(exact, max) \in Nat
      BY <1>0, <1>3, WordSize DEF Lesser, Saturated
    <2> QED
      BY <1>0, <2>1, <2>2 DEF exact, p
  <1>5. CASE ~(i < Bits)
    <2>1. CappedCeiling(i) = Lesser(Saturated(base * Largest), max)
      BY <1>0, <1>5 DEF CappedCeiling
    <2>2. p >= Largest + 1
      BY <1>5, WordSize, PowerOfTwoGrows DEF p
    <2>3. CASE base = 0
      <3>1. base * Largest = 0 /\ exact = 0
        BY <1>1, <2>3, WordSize
      <3>2. CappedCeiling(i) = 0 /\ Lesser(exact, max) = 0
        BY <1>0, <2>1, <3>1, WordSize DEF Lesser, Saturated
      <3> QED
        BY <1>0, <3>1, <3>2 DEF p
    <2>4. CASE base >= 1
      <3>1. base * Largest \in Nat /\ base * Largest >= Largest /\ exact >= Largest + 1
        BY <1>0, <1>1, <1>2, <1>3, <2>2, <2>4, WordSize
      <3> HIDE DEF exact
      <3>2. CappedCeiling(i) = max
        BY <1>0, <2>1, <3>1, WordSize DEF Lesser, Saturated
      <3>3. Lesser(exact, max) = max
        BY <1>0, <1>3, <3>1, WordSize DEF Lesser
      <3> QED
        BY <1>0, <3>2, <3>3 DEF exact, p
    <2>5. base = 0 \/ base >= 1
      BY <1>0
    <2> QED
      BY <2>3, <2>4, <2>5
  <1> QED
    BY <1>4, <1>5

\* The ceiling against the one the policy asks for: b and m are the delays d
\* and e in units of P, rounded down, r is what d loses, and f is the factor.
LEMMA RoundedDown ==
  ASSUME NEW b \in Nat, NEW m \in Nat, NEW d \in Nat, NEW e \in Nat, NEW r \in Nat,
         NEW f \in Nat, f >= 1, NEW P \in Nat, P >= 1,
         b * P <= d, m * P <= e
  PROVE  /\ Lesser(b * f, m) * P <= Lesser(d * f, e)
         /\ d = b * P + r /\ e < m * P + P =>
              Lesser(d * f, e) < (Lesser(b * f, m) + 1) * P + r * f
  <1>1. /\ b * f \in Nat /\ d * f \in Nat /\ b * P \in Nat /\ m * P \in Nat
        /\ (b * f) * P \in Nat /\ r * f \in Nat
    OBVIOUS
  <1>2. (b * f) * P = (b * P) * f /\ (b * P) * f <= d * f
    BY <1>1
  <1>3. CASE b * f < m
    <2>1. Lesser(b * f, m) = b * f
      BY <1>3 DEF Lesser
    <2>2. (b * f) * P <= m * P
      BY <1>1, <1>3
    <2>3. (b * f) * P <= d * f /\ (b * f) * P <= e
      BY <1>1, <1>2, <2>2
    <2>4. ASSUME d = b * P + r PROVE d * f < (b * f + 1) * P + r * f
      <3>1. d * f = (b * P) * f + r * f
        BY <1>1, <2>4
      <3>2. (b * f + 1) * P = (b * f) * P + P
        BY <1>1
      <3> QED
        BY <1>1, <1>2, <3>1, <3>2
    <2>5. (b * f + 1) * P + r * f \in Nat
      BY <1>1
    <2> QED
      BY <1>1, <2>1, <2>3, <2>4, <2>5 DEF Lesser
  <1>4. CASE ~(b * f < m)
    <2>1. Lesser(b * f, m) = m
      BY <1>4 DEF Lesser
    <2>2. m * P <= (b * f) * P
      BY <1>1, <1>4
    <2>3. m * P <= d * f /\ m * P <= e
      BY <1>1, <1>2, <2>2
    <2>4. (m + 1) * P = m * P + P
      OBVIOUS
    <2> QED
      BY <1>1, <2>1, <2>3, <2>4 DEF Lesser
  <1> QED
    BY <1>3, <1>4

\* A sleep is within the ceiling of the attempt that failed.
SleepsCapped ==
  /\ PolicyType
  /\ place \in [Clients -> Places]
  /\ attempt \in [Clients -> Nat]
  /\ delay \in [Clients -> Nat]
  /\ \A c \in Clients : place[c] = "backoff" =>
       attempt[c] >= 1 /\ delay[c] <= CappedCeiling(attempt[c] - 1)

\* Nobody sleeps yet.
LEMMA SleepsCappedInit == CrdbInit => SleepsCapped
  <1> SUFFICES ASSUME CrdbInit PROVE SleepsCapped
    OBVIOUS
  <1>1. PolicyType
    BY PolicyAssumption DEF CrdbInit, PolicyType
  <1>2. /\ place \in [Clients -> Places] /\ attempt \in [Clients -> Nat]
        /\ delay \in [Clients -> Nat] /\ \A c \in Clients : place[c] = "idle"
    BY DEF CrdbInit, Places
  <1> QED
    BY <1>1, <1>2 DEF SleepsCapped

\* A ceiling depends on the policy only.
LEMMA CeilingStays == ASSUME policy' = policy, NEW i PROVE CappedCeiling(i)' = CappedCeiling(i)
  BY DEF CappedCeiling, AsMillis, Lesser, Saturated, Largest

\* A step that starts no sleep of c.
LEMMA NoNewSleep ==
  ASSUME SleepsCapped, NEW c \in Clients, NEW where \in Places \ {"backoff"},
         policy' = policy, place' = [place EXCEPT ![c] = where], attempt' = attempt,
         delay' = delay \/ delay' = [delay EXCEPT ![c] = 0]
  PROVE  SleepsCapped'
  <1>1. /\ PolicyType' /\ place' \in [Clients -> Places] /\ attempt' \in [Clients -> Nat]
        /\ delay' \in [Clients -> Nat]
    BY DEF SleepsCapped, PolicyType
  <1>2. ASSUME NEW e \in Clients, place'[e] = "backoff"
        PROVE  attempt'[e] >= 1 /\ delay'[e] <= CappedCeiling(attempt'[e] - 1)
    BY <1>2 DEF SleepsCapped
  <1> QED
    BY <1>1, <1>2, CeilingStays DEF SleepsCapped

\* A failed attempt.
LEMMA FailedAttemptSleeps ==
  ASSUME SleepsCapped, NEW c \in Clients, FailedAttempt(c), policy' = policy
  PROVE  SleepsCapped'
  <1> DEFINE n == attempt[c]
  <1>0. n \in Nat
    BY DEF SleepsCapped
  <1>1. n + 1 \in Nat /\ n + 1 >= 1 /\ (n + 1) - 1 = n
    BY <1>0
  <1>2. attempt' = [attempt EXCEPT ![c] = n + 1]
    BY DEF FailedAttempt
  <1>3. CASE End(c, "exhausted") /\ UNCHANGED delay
    <2>1. /\ place' = [place EXCEPT ![c] = "done"] /\ "done" \in Places /\ delay' = delay
      BY <1>3 DEF End, MoveTo, Places
    <2>2. /\ PolicyType' /\ place' \in [Clients -> Places] /\ attempt' \in [Clients -> Nat]
          /\ delay' \in [Clients -> Nat]
      BY <1>1, <1>2, <2>1 DEF SleepsCapped, PolicyType
    <2>3. ASSUME NEW e \in Clients, place'[e] = "backoff"
          PROVE  attempt'[e] >= 1 /\ delay'[e] <= CappedCeiling(attempt'[e] - 1)
      <3>1. e # c /\ place[e] = "backoff" /\ attempt'[e] = attempt[e] /\ delay'[e] = delay[e]
        BY <1>2, <2>1, <2>3 DEF SleepsCapped
      <3> QED
        BY <3>1 DEF SleepsCapped
    <2> QED
      BY <2>2, <2>3, CeilingStays DEF SleepsCapped
  <1>4. ASSUME NEW d \in JitteredDelays(n), delay' = [delay EXCEPT ![c] = d], MoveTo(c, "backoff")
        PROVE  SleepsCapped'
    <2>1. d \in Nat /\ d <= CappedCeiling(n)
      BY <1>0, CeilingIsExact DEF JitteredDelays, SleepsCapped
    <2>2. /\ place' = [place EXCEPT ![c] = "backoff"] /\ "backoff" \in Places
      BY <1>4 DEF MoveTo, Places
    <2>3. \A e \in Clients : place'[e] = "backoff" =>
            attempt'[e] >= 1 /\ delay'[e] <= CappedCeiling(attempt'[e] - 1)
      <3> SUFFICES ASSUME NEW e \in Clients, place'[e] = "backoff"
                   PROVE  attempt'[e] >= 1 /\ delay'[e] <= CappedCeiling(attempt'[e] - 1)
        OBVIOUS
      <3>1. CASE e = c
        <4>1. attempt'[e] = n + 1 /\ delay'[e] = d
          BY <1>2, <1>4, <3>1 DEF SleepsCapped
        <4> QED
          BY <1>1, <2>1, <4>1
      <3>2. CASE e # c
        <4>1. attempt'[e] = attempt[e] /\ delay'[e] = delay[e] /\ place[e] = "backoff"
          BY <1>2, <1>4, <2>2, <3>2 DEF SleepsCapped
        <4> QED
          BY <4>1 DEF SleepsCapped
      <3> QED
        BY <3>1, <3>2
    <2>4. /\ place' \in [Clients -> Places] /\ attempt' \in [Clients -> Nat]
          /\ delay' \in [Clients -> Nat] /\ PolicyType'
      BY <1>1, <1>2, <1>4, <2>1, <2>2 DEF SleepsCapped, PolicyType
    <2> QED
      BY <2>3, <2>4, CeilingStays DEF SleepsCapped
  <1> QED
    BY <1>3, <1>4 DEF FailedAttempt

\* Every step keeps the sleeps within their ceilings.
LEMMA SleepsCappedStep == SleepsCapped /\ [CrdbNext]_crdbVars => SleepsCapped'
  <1> SUFFICES ASSUME SleepsCapped, [CrdbNext]_crdbVars PROVE SleepsCapped'
    OBVIOUS
  <1>1. ASSUME NEW c \in Clients, Start(c) \/ AskCommit(c) \/ Wake(c) \/ TimesOut(c)
        PROVE  SleepsCapped'
    <2>1. \E where \in Places \ {"backoff"} : place' = [place EXCEPT ![c] = where]
      BY <1>1 DEF Start, AskCommit, Wake, TimesOut, Begin, End, MoveTo, Places
    <2>2. policy' = policy /\ attempt' = attempt /\ (delay' = delay \/ delay' = [delay EXCEPT ![c] = 0])
      BY <1>1 DEF Start, AskCommit, Wake, TimesOut
    <2> QED
      BY <2>1, <2>2, NoNewSleep
  <1>2. ASSUME NEW c \in Clients, Answered(c) PROVE SleepsCapped'
    <2>0. policy' = policy
      BY <1>2 DEF Answered
    <2>1. CASE FailedAttempt(c)
      BY <2>0, <2>1, FailedAttemptSleeps
    <2>2. CASE /\ \E how : End(c, how)
               /\ UNCHANGED <<attempt, delay>>
      <3>1. "done" \in Places \ {"backoff"} /\ place' = [place EXCEPT ![c] = "done"]
        BY <2>2 DEF End, MoveTo, Places
      <3> QED
        BY <2>0, <2>2, <3>1, NoNewSleep
    <2> QED
      BY <1>2, <2>1, <2>2 DEF Answered
  <1>3. CASE UNCHANGED <<policy, place, attempt, delay>>
    BY <1>3, CeilingStays DEF SleepsCapped, PolicyType
  <1> QED
    BY <1>1, <1>2, <1>3 DEF CrdbNext, Advance, ServerActs, crdbVars

\* For every policy, fractions of a millisecond and delays the word cannot hold
\* included, every budget and every width of the word: no sleep is longer than
\* the capped exponential of the policy, and where the word holds the delays the
\* ceiling falls short of it by less than a millisecond and the fraction that
\* base_delay loses, times 2^i.
THEOREM BackoffIsExact == CrdbSpec => []BackoffIsCappedExponential
  <1>1. SleepsCapped => BackoffIsCappedExponential
    <2> SUFFICES ASSUME SleepsCapped, NEW c \in Clients, place[c] = "backoff"
                 PROVE  /\ delay[c] * PerMilli <= PolicyCeiling(attempt[c] - 1)
                        /\ Fits(policy.base_delay) /\ Fits(policy.max_delay) =>
                             PolicyCeiling(attempt[c] - 1) <
                               (CappedCeiling(attempt[c] - 1) + 1) * PerMilli
                                 + (policy.base_delay % PerMilli) * PowerOfTwo(attempt[c] - 1)
      BY DEF BackoffIsCappedExponential
    <2>1. /\ attempt[c] \in Nat /\ attempt[c] >= 1 /\ delay[c] \in Nat
          /\ delay[c] <= CappedCeiling(attempt[c] - 1) /\ PolicyType
      BY DEF SleepsCapped
    <2>2. PICK i \in Nat : i = attempt[c] - 1
      BY <2>1
    <2>3. PICK d \in Nat, e \in Nat : d = policy.base_delay /\ e = policy.max_delay
      BY <2>1 DEF PolicyType
    <2>4. PICK b \in Nat, m \in Nat, r \in Nat :
            /\ b = AsMillis(d) /\ m = AsMillis(e) /\ r = d % PerMilli
            /\ b * PerMilli <= d /\ m * PerMilli <= e
            /\ Fits(d) => d = b * PerMilli + r
            /\ Fits(e) => e < m * PerMilli + PerMilli
      <3>1. /\ AsMillis(d) \in Nat /\ d % PerMilli \in Nat /\ AsMillis(d) * PerMilli <= d
            /\ Fits(d) => d = AsMillis(d) * PerMilli + (d % PerMilli)
        BY MillisOfDuration
      <3>2. PICK m \in Nat, s \in Nat :
              /\ m = AsMillis(e) /\ s < PerMilli /\ m * PerMilli <= e
              /\ Fits(e) => e = m * PerMilli + s
        BY MillisOfDuration
      <3>3. PerMilli \in Nat /\ m * PerMilli \in Nat
        BY PolicyAssumption
      <3>4. Fits(e) => e < m * PerMilli + PerMilli
        BY <3>2, <3>3
      <3> QED
        BY <3>1, <3>2, <3>4
    <2>5. PICK f \in Nat : f = PowerOfTwo(i) /\ f >= 1
      BY PowerOfTwoGrows
    <2>6. PerMilli \in Nat /\ PerMilli >= 1
      BY PolicyAssumption
    <2>7. PICK C \in Nat : C = CappedCeiling(i) /\ C = Lesser(b * f, m)
      BY <2>1, <2>3, <2>4, <2>5, CeilingIsExact
    <2>8. PolicyCeiling(i) = Lesser(d * f, e) /\ Lesser(d * f, e) \in Nat
      BY <2>3, <2>5 DEF PolicyCeiling, Lesser
    <2>9. /\ C * PerMilli <= Lesser(d * f, e)
          /\ Fits(d) /\ Fits(e) => Lesser(d * f, e) < (C + 1) * PerMilli + r * f
      BY <2>4, <2>5, <2>6, <2>7, RoundedDown
    <2>10. delay[c] * PerMilli <= C * PerMilli
      BY <2>1, <2>2, <2>6, <2>7
    <2>11. delay[c] * PerMilli \in Nat /\ C * PerMilli \in Nat
      BY <2>1, <2>6
    <2> QED
      BY <2>2, <2>3, <2>4, <2>5, <2>7, <2>8, <2>9, <2>10, <2>11
  <1> QED
    BY <1>1, SleepsCappedInit, SleepsCappedStep, PTL DEF CrdbSpec
=============================================================================
