-------------------------- MODULE AuditLedgerProofs --------------------------
(***************************************************************************)
(* Proofs about the signed ledger, for any ledger objects, contents,       *)
(* appends, failed appends and edits.                                      *)
(*                                                                         *)
(* A line is accepted for its signature and for that of the line before    *)
(* it.  All signatures there are to be found in a file are those of        *)
(* records that append wrote, the start of the chain, and ones that verify *)
(* nowhere; each record was written behind a signature of that kind too,   *)
(* and a signature tells the content and the signature before it.  From    *)
(* this follows where an accepted line comes from (ChainInv).  As long as  *)
(* nobody edits, the file is what the appends wrote and an object's        *)
(* _last_sig is the file's, unless an append failed or another object's    *)
(* came between (FileInv).                                                 *)
(***************************************************************************)
EXTENDS AuditLedger, SequenceTheorems, WellFoundedInduction, TLAPS

Sig == Seq(Events \cup {Forged})

Rec == [event : Events, prev_sig : Sig, sig : Sig]

Piece == Rec \cup {Torn}

Entry == [record : Rec, by : Ledgers, after : Nat, returned : BOOLEAN]

AuditTypes ==
  /\ up \in [Ledgers -> BOOLEAN]
  /\ last \in [Ledgers -> Sig]
  /\ lines \in Seq(Seq(Piece))
  /\ open \in BOOLEAN
  /\ issued \in Seq(Entry)
  /\ latest \in [Ledgers -> Nat]
  /\ appends \in Nat /\ edits \in Nat /\ tears \in Nat
  /\ open => Len(lines) > 0
  /\ \A i \in 1 .. Len(lines) : Len(lines[i]) > 0

\* What is in a line that parses was signed by a ledger, or verifies nowhere.
LinesSigned ==
  \A i \in 1 .. Len(lines) : Whole(i) => lines[i][1].sig \in Signatures

\* The signatures of the records before the w-th, and those of no record.
Known(w) ==
  {Genesis, <<Forged>>} \cup {issued[v].record.sig : v \in 1 .. w - 1}

\* The w-th record was signed, and behind what there was when it was written.
EntrySigned(w) ==
  LET x == issued[w] IN
  /\ x.record.sig = Append(x.record.prev_sig, x.record.event)
  /\ x.record.prev_sig \in Known(w)
  /\ x.after # 0 => x.after < w /\ issued[x.after].record.sig = x.record.prev_sig

\* What ledger object l resumes behind.
HeadSigned(l) ==
  /\ last[l] \in Signatures
  /\ ~up[l] => latest[l] = 0
  /\ latest[l] # 0 =>
       latest[l] <= Len(issued) /\ issued[latest[l]].record.sig = last[l]

ChainInv ==
  /\ AuditTypes
  /\ LinesSigned
  /\ \A w \in 1 .. Len(issued) : EntrySigned(w)
  /\ \A l \in Ledgers : HeadSigned(l)

\* A record chained to another than the one before it in the file.
Explained(k, l) == ~issued[k].returned \/ issued[k].by # l

FileIsIssued ==
  /\ Len(lines) = Len(issued)
  /\ \A i \in 1 .. Len(lines) : lines[i][1] = issued[i].record

Follows(k) ==
  \/ issued[k].record.prev_sig = IF k = 1 THEN Genesis ELSE issued[k - 1].record.sig
  \/ k > 1 /\ Explained(k - 1, issued[k].by)

InStep(l) ==
  \/ last[l] = IF issued = <<>> THEN Genesis ELSE issued[Len(issued)].record.sig
  \/ issued # <<>> /\ Explained(Len(issued), l)

FileInv ==
  /\ ChainInv
  /\ Len(issued) <= appends + tears
  /\ edits = 0 /\ Parses =>
       /\ FileIsIssued
       /\ \A k \in 1 .. Len(issued) : Follows(k)
       /\ \A l \in Ledgers : up[l] => InStep(l)

-----------------------------------------------------------------------------
(* Numbers and signatures. *)

\* A set of numbers has a least one.
LEMMA LeastNumber ==
  ASSUME NEW S, S \subseteq Nat, S # {}
  PROVE  \E m \in S : \A n \in S : m <= n
  <1> DEFINE less == OpToRel(<, Nat)
  <1>1. IsWellFoundedOn(less, Nat)
    BY NatLessThanWellFounded
  <1>2. \A m, n \in Nat : n < m => <<n, m>> \in less
    BY DEF OpToRel
  <1> HIDE DEF less
  <1>3. PICK m \in S : \A n \in S : ~(<<n, m>> \in less)
    BY <1>1, WFMin
  <1>4. ASSUME NEW n \in S PROVE m <= n
    <2>1. m \in Nat /\ n \in Nat
      OBVIOUS
    <2>2. ~(n < m)
      BY <1>2, <1>3, <2>1, Zenon
    <2> QED
      BY <2>1, <2>2
  <1> QED
    BY <1>4

\* A signature made by a ledger tells the content and the signature before it,
\* and is neither the start of the chain nor a forged one.
LEMMA Signed ==
  ASSUME NEW e \in Events, NEW p \in Sig
  PROVE  /\ Append(p, e) \in Sig
         /\ Append(p, e) # Genesis /\ Append(p, e) # <<Forged>>
         /\ \A f \in Events : \A q \in Sig : Append(p, e) = Append(q, f) => p = q /\ e = f
  <1> DEFINE E == Events \cup {Forged}
  <1>1. e \in E /\ p \in Seq(E)
    BY DEF Sig
  <1>2. /\ Append(p, e) \in Seq(E) /\ Len(Append(p, e)) = Len(p) + 1
        /\ Append(p, e)[Len(p) + 1] = e /\ Len(p) \in Nat
    BY <1>1, AppendProperties
  <1>3. Append(p, e) # Genesis
    BY <1>2 DEF Genesis
  <1>4. Append(p, e) # <<Forged>>
    <2> SUFFICES ASSUME Append(p, e) = <<Forged>> PROVE FALSE
      OBVIOUS
    <2>1. Len(p) + 1 = 1
      BY <1>2
    <2>2. <<Forged>>[1] = e
      BY <1>2, <2>1
    <2> QED
      BY <2>2, AuditAssumption
  <1>5. \A f \in Events : \A q \in Sig : Append(p, e) = Append(q, f) => p = q /\ e = f
    <2>1. \A f \in E : \A q \in Seq(E) : Append(p, e) = Append(q, f) <=> p = q /\ e = f
      BY <1>1, AppendInjective
    <2> QED
      BY <2>1 DEF Sig
  <1> QED
    BY <1>2, <1>3, <1>4, <1>5 DEF Sig

\* What a ledger object writes is a record.
LEMMA RecordType ==
  ASSUME AuditTypes, NEW l \in Ledgers, NEW e \in Events
  PROVE  /\ Record(e, last[l]) \in Rec
         /\ Record(e, last[l]).event = e
         /\ Record(e, last[l]).prev_sig = last[l]
         /\ Record(e, last[l]).sig = Append(last[l], e)
  <1>1. last[l] \in Sig
    BY DEF AuditTypes
  <1>2. Record(e, last[l]) \in Rec
    BY <1>1, Signed DEF Rec, Record, Sign
  <1> QED
    BY <1>2 DEF Record, Sign

\* Its entry is added to those there are.
LEMMA IssuedType ==
  ASSUME AuditTypes, NEW l \in Ledgers, NEW e \in Events, NEW b \in BOOLEAN
  PROVE  /\ Issued(l, e, b) \in Seq(Entry)
         /\ Len(Issued(l, e, b)) = Len(issued) + 1
         /\ \A w \in 1 .. Len(issued) : Issued(l, e, b)[w] = issued[w]
         /\ Issued(l, e, b)[Len(issued) + 1] =
              [record |-> Record(e, last[l]), by |-> l, after |-> latest[l], returned |-> b]
  <1> DEFINE x == [record |-> Record(e, last[l]), by |-> l, after |-> latest[l], returned |-> b]
  <1>1. latest[l] \in Nat /\ issued \in Seq(Entry) /\ Record(e, last[l]) \in Rec
    BY RecordType DEF AuditTypes
  <1>2. x \in Entry
    BY <1>1 DEF Entry
  <1>3. Issued(l, e, b) = Append(issued, x)
    BY DEF Issued
  <1> HIDE DEF x
  <1>4. /\ Append(issued, x) \in Seq(Entry) /\ Len(Append(issued, x)) = Len(issued) + 1
        /\ \A w \in 1 .. Len(issued) : Append(issued, x)[w] = issued[w]
        /\ Append(issued, x)[Len(issued) + 1] = x
    BY <1>1, <1>2, AppendProperties
  <1> QED
    BY <1>3, <1>4 DEF x

-----------------------------------------------------------------------------
(* The file. *)

\* A line that parses is a record.
LEMMA WholeRecord ==
  ASSUME AuditTypes, NEW i \in 1 .. Len(lines), Whole(i)
  PROVE  lines[i][1] \in Rec /\ Records[i] = lines[i][1]
  <1>1. lines[i] \in Seq(Piece)
    BY DEF AuditTypes
  <1>2. Len(lines[i]) = 1 /\ lines[i][1] # Torn
    BY DEF Whole
  <1>3. lines[i][1] \in Piece
    BY <1>1, <1>2
  <1> QED
    BY <1>2, <1>3 DEF Records, Piece

\* The file after an append: the lines that parse are old ones or the new one,
\* and if all do, then the last line was ended and the record is a line of its
\* own.
LEMMA AppendedFile ==
  ASSUME AuditTypes, NEW p \in Piece, lines' = Appended(p)
  PROVE  /\ lines' \in Seq(Seq(Piece)) /\ Len(lines') > 0
         /\ \A i \in 1 .. Len(lines') : Len(lines'[i]) > 0
         /\ \A i \in 1 .. Len(lines') :
              \/ i \in 1 .. Len(lines) /\ lines'[i] = lines[i]
              \/ lines'[i] = <<p>>
              \/ ~Whole(i)'
         /\ Parses' => /\ Parses /\ p # Torn
                       /\ Len(lines') = Len(lines) + 1
                       /\ \A i \in 1 .. Len(lines) : lines'[i] = lines[i]
                       /\ lines'[Len(lines) + 1] = <<p>>
  <1> DEFINE n == Len(lines)
  <1>0. /\ lines \in Seq(Seq(Piece)) /\ n \in Nat /\ open \in BOOLEAN /\ (open => n > 0)
        /\ \A i \in 1 .. n : Len(lines[i]) > 0
    BY DEF AuditTypes
  <1>1. CASE open
    <2>1. n \in 1 .. n /\ lines[n] \in Seq(Piece)
      BY <1>0, <1>1
    <2>2. /\ Append(lines[n], p) \in Seq(Piece) /\ Len(lines[n]) \in Nat
          /\ Len(Append(lines[n], p)) = Len(lines[n]) + 1
      BY <2>1, AppendProperties
    <2>3. lines' = [lines EXCEPT ![n] = Append(lines[n], p)]
      BY <1>1 DEF Appended
    <2>4. lines' \in Seq(Seq(Piece)) /\ Len(lines') = n
      BY <1>0, <2>1, <2>2, <2>3
    <2>5. /\ \A i \in 1 .. n : i # n => lines'[i] = lines[i]
          /\ lines'[n] = Append(lines[n], p)
      BY <1>0, <2>1, <2>3
    <2>6. Len(lines'[n]) # 1
      BY <1>0, <2>1, <2>2, <2>5
    <2>7. ~Parses' /\ \A i \in 1 .. n : i = n => ~Whole(i)'
      BY <2>1, <2>4, <2>6 DEF Parses, Whole
    <2>8. \A i \in 1 .. n : Len(lines'[i]) > 0
      BY <1>0, <2>1, <2>2, <2>5
    <2> QED
      BY <1>0, <2>1, <2>4, <2>5, <2>7, <2>8
  <1>2. CASE ~open
    <2>1. lines' = Append(lines, <<p>>)
      BY <1>2 DEF Appended
    <2>2. <<p>> \in Seq(Piece) /\ Len(<<p>>) = 1 /\ <<p>>[1] = p
      OBVIOUS
    <2>3. /\ lines' \in Seq(Seq(Piece)) /\ Len(lines') = n + 1
          /\ \A i \in 1 .. n : lines'[i] = lines[i]
          /\ lines'[n + 1] = <<p>>
      BY <1>0, <2>1, <2>2, AppendProperties
    <2>4. \A i \in 1 .. n + 1 : i \in 1 .. n \/ i = n + 1
      BY <1>0
    <2>5. \A i \in 1 .. n + 1 : Len(lines'[i]) > 0
      <3>1. Len(lines'[n + 1]) > 0
        BY <2>2, <2>3
      <3>2. \A i \in 1 .. n : Len(lines'[i]) > 0
        BY <1>0, <2>3
      <3> QED
        BY <2>4, <3>1, <3>2
    <2>6. Parses' => Parses /\ p # Torn
      <3>1. n + 1 \in 1 .. n + 1 /\ \A i \in 1 .. n : i \in 1 .. n + 1
        BY <1>0
      <3> QED
        BY <2>2, <2>3, <3>1 DEF Parses, Whole
    <2> QED
      BY <1>0, <2>3, <2>4, <2>5, <2>6
  <1> QED
    BY <1>0, <1>1, <1>2

\* Edits put whole lines together: each is one that was there, or a record with
\* a signature there was to take.
LEMMA TamperedFile ==
  ASSUME AuditTypes, LinesSigned, NEW i \in 1 .. Len(lines), Tamper(i)
  PROVE  /\ lines' \in Seq(Seq(Piece)) /\ open' \in BOOLEAN
         /\ open' => Len(lines') > 0
         /\ \A k \in 1 .. Len(lines') :
              \/ \E j \in 1 .. Len(lines) : lines'[k] = lines[j]
              \/ \E r \in Rec : r.sig \in Signatures /\ lines'[k] = <<r>>
         /\ edits' = edits + 1
         /\ UNCHANGED <<up, last, issued, latest, appends, tears>>
  <1> DEFINE n == Len(lines)
             Taken(line) ==
               \/ \E j \in 1 .. n : line = lines[j]
               \/ \E r \in Rec : r.sig \in Signatures /\ line = <<r>>
  <1>0. /\ lines \in Seq(Seq(Piece)) /\ n \in Nat /\ open \in BOOLEAN /\ (open => n > 0)
        /\ \A k \in 1 .. n : lines[k] \in Seq(Piece)
    BY DEF AuditTypes
  <1>1. \A s \in Signatures : s \in Sig
    <2>1. Genesis \in Sig /\ <<Forged>> \in Sig
      BY DEF Genesis, Sig
    <2>2. \A w \in 1 .. Len(issued) : issued[w] \in Entry
      BY DEF AuditTypes
    <2>3. \A w \in 1 .. Len(issued) : issued[w].record.sig \in Sig
      BY <2>2 DEF Entry, Rec
    <2> QED
      BY <2>1, <2>3 DEF Signatures
  <1>2. \A r \in Rec : <<r>> \in Seq(Piece)
    BY DEF Piece
  <1>3. ASSUME NEW r \in Rec, r.sig \in Signatures, Edit([lines EXCEPT ![i] = <<r>>]), open' = open
        PROVE  /\ lines' \in Seq(Seq(Piece)) /\ Len(lines') = n
               /\ \A k \in 1 .. n : Taken(lines'[k])
    <2>1. lines' = [lines EXCEPT ![i] = <<r>>] /\ <<r>> \in Seq(Piece)
      BY <1>2, <1>3 DEF Edit
    <2>2. lines' \in Seq(Seq(Piece)) /\ Len(lines') = n
      BY <1>0, <2>1
    <2>3. \A k \in 1 .. n : lines'[k] = IF k = i THEN <<r>> ELSE lines[k]
      BY <1>0, <2>1
    <2> QED
      BY <1>3, <2>2, <2>3
  <1>4. ASSUME NEW e \in Events, EditEvent(i, e)
        PROVE  /\ lines' \in Seq(Seq(Piece)) /\ Len(lines') = n
               /\ \A k \in 1 .. n : Taken(lines'[k])
    <2> DEFINE r == [lines[i][1] EXCEPT !.event = e]
    <2>1. Edit([lines EXCEPT ![i] = <<r>>]) /\ open' = open /\ Whole(i)
      BY <1>4 DEF EditEvent
    <2>2. lines[i][1] \in Rec /\ lines[i][1].sig \in Signatures
      BY <2>1, WholeRecord DEF LinesSigned
    <2>3. r \in Rec /\ r.sig \in Signatures
      BY <2>2 DEF Rec
    <2> QED
      BY <1>3, <2>1, <2>3
  <1>5. ASSUME NEW s \in Signatures, EditSig(i, s)
        PROVE  /\ lines' \in Seq(Seq(Piece)) /\ Len(lines') = n
               /\ \A k \in 1 .. n : Taken(lines'[k])
    <2> DEFINE r == [lines[i][1] EXCEPT !.sig = s]
    <2>1. Edit([lines EXCEPT ![i] = <<r>>]) /\ open' = open /\ Whole(i)
      BY <1>5 DEF EditSig
    <2>2. lines[i][1] \in Rec /\ s \in Sig
      BY <1>1, <2>1, WholeRecord
    <2>3. r \in Rec /\ r.sig = s
      BY <2>2 DEF Rec
    <2> QED
      BY <1>3, <2>1, <2>3
  <1>6. ASSUME NEW s \in Signatures, EditPrevSig(i, s)
        PROVE  /\ lines' \in Seq(Seq(Piece)) /\ Len(lines') = n
               /\ \A k \in 1 .. n : Taken(lines'[k])
    <2> DEFINE r == [lines[i][1] EXCEPT !.prev_sig = s]
    <2>1. Edit([lines EXCEPT ![i] = <<r>>]) /\ open' = open /\ Whole(i)
      BY <1>6 DEF EditPrevSig
    <2>2. lines[i][1] \in Rec /\ lines[i][1].sig \in Signatures /\ s \in Sig
      BY <1>1, <2>1, WholeRecord DEF LinesSigned
    <2>3. r \in Rec /\ r.sig \in Signatures
      BY <2>2 DEF Rec
    <2> QED
      BY <1>3, <2>1, <2>3
  <1>7. ASSUME Remove(i)
        PROVE  /\ lines' \in Seq(Seq(Piece)) /\ Len(lines') = n - 1
               /\ \A k \in 1 .. n - 1 : Taken(lines'[k])
    <2>1. lines' = [k \in 1 .. n - 1 |-> IF k < i THEN lines[k] ELSE lines[k + 1]]
      BY <1>7 DEF Remove, Edit
    <2>2. \A k \in 1 .. n - 1 : \E j \in 1 .. n : lines'[k] = lines[j]
      BY <1>0, <2>1
    <2>3. \A k \in 1 .. n - 1 : lines'[k] \in Seq(Piece)
      BY <1>0, <2>2
    <2>4. lines' \in Seq(Seq(Piece)) /\ Len(lines') = n - 1
      BY <1>0, <2>1, <2>3
    <2> QED
      BY <2>2, <2>4
  <1>8. ASSUME NEW j \in 1 .. n, Insert(i, j)
        PROVE  /\ lines' \in Seq(Seq(Piece)) /\ Len(lines') = n + 1
               /\ \A k \in 1 .. n + 1 : Taken(lines'[k])
    <2>1. lines' = [k \in 1 .. n + 1 |->
                      IF k < i THEN lines[k] ELSE IF k = i THEN lines[j] ELSE lines[k - 1]]
      BY <1>8 DEF Insert, Edit
    <2>2. ASSUME NEW k \in 1 .. n + 1 PROVE \E h \in 1 .. n : lines'[k] = lines[h]
      <3>1. CASE k < i
        BY <1>0, <2>1, <3>1
      <3>2. CASE k = i
        BY <1>0, <2>1, <3>2
      <3>3. CASE k > i
        <4>1. k - 1 \in 1 .. n /\ lines'[k] = lines[k - 1]
          BY <1>0, <2>1, <3>3
        <4> QED
          BY <4>1
      <3> QED
        BY <3>1, <3>2, <3>3
    <2>3. \A k \in 1 .. n + 1 : lines'[k] \in Seq(Piece)
      BY <1>0, <2>2
    <2>4. lines' \in Seq(Seq(Piece)) /\ Len(lines') = n + 1
      BY <1>0, <2>1, <2>3
    <2> QED
      BY <2>2, <2>4
  <1>9. ASSUME NEW j \in 1 .. n, Swap(i, j)
        PROVE  /\ lines' \in Seq(Seq(Piece)) /\ Len(lines') = n
               /\ \A k \in 1 .. n : Taken(lines'[k])
    <2>1. lines' = [lines EXCEPT ![i] = lines[j], ![j] = lines[i]]
      BY <1>9 DEF Swap, Edit
    <2>2. lines' \in Seq(Seq(Piece)) /\ Len(lines') = n
      BY <1>0, <2>1
    <2>3. \A k \in 1 .. n :
            lines'[k] = IF k = j THEN lines[i] ELSE IF k = i THEN lines[j] ELSE lines[k]
      BY <1>0, <2>1
    <2> QED
      BY <2>2, <2>3
  <1>10. /\ edits' = edits + 1 /\ UNCHANGED <<up, last, issued, latest, appends, tears>>
         /\ open' = open \/ (Remove(i) /\ open' = (open /\ i < n))
    BY DEF Tamper, EditEvent, EditSig, EditPrevSig, Remove, Insert, Swap, Edit
  <1>11. /\ lines' \in Seq(Seq(Piece))
         /\ \A k \in 1 .. Len(lines') : Taken(lines'[k])
         /\ Len(lines') >= n \/ (Remove(i) /\ Len(lines') = n - 1)
    <2> HIDE DEF Taken
    <2>1. CASE Remove(i)
      BY <1>7, <2>1
    <2>2. ASSUME NEW j \in 1 .. n, Insert(i, j) \/ Swap(i, j)
          PROVE  /\ lines' \in Seq(Seq(Piece))
                 /\ \A k \in 1 .. Len(lines') : Taken(lines'[k])
                 /\ Len(lines') >= n
      BY <1>0, <1>8, <1>9, <2>2
    <2>3. ASSUME \/ \E e \in Events : EditEvent(i, e)
                 \/ \E s \in Signatures : EditSig(i, s) \/ EditPrevSig(i, s)
          PROVE  /\ lines' \in Seq(Seq(Piece))
                 /\ \A k \in 1 .. Len(lines') : Taken(lines'[k])
                 /\ Len(lines') >= n
      BY <1>0, <1>4, <1>5, <1>6, <2>3
    <2> QED
      BY <2>1, <2>2, <2>3 DEF Tamper
  <1>12. open' \in BOOLEAN /\ (open' => Len(lines') > 0)
    <2>1. CASE Remove(i)
      <3>1. Len(lines') = n - 1 /\ open' = (open /\ i < n)
        BY <1>7, <2>1 DEF Remove
      <3>2. i \in 1 .. n /\ (i < n => n - 1 > 0)
        BY <1>0
      <3> QED
        BY <1>0, <3>1, <3>2
    <2>2. CASE ~Remove(i)
      BY <1>0, <1>10, <1>11, <2>2
    <2> QED
      BY <2>1, <2>2
  <1> QED
    BY <1>10, <1>11, <1>12

-----------------------------------------------------------------------------
(* Where signatures come from. *)

\* One more record reached the file: it is signed behind what its object took
\* for the end of the chain.
LEMMA IssuedSigned ==
  ASSUME ChainInv, NEW l \in Ledgers, NEW e \in Events, NEW b \in BOOLEAN,
         issued' = Issued(l, e, b)
  PROVE  /\ issued' \in Seq(Entry) /\ Len(issued') = Len(issued) + 1
         /\ \A w \in 1 .. Len(issued) : issued'[w] = issued[w]
         /\ Signatures \subseteq Signatures'
         /\ Append(last[l], e) \in Signatures'
         /\ \A w \in 1 .. Len(issued') : EntrySigned(w)'
  <1> DEFINE n == Len(issued)
             x == issued'[n + 1]
  <1>0. AuditTypes /\ n \in Nat
    BY DEF ChainInv, AuditTypes
  <1>1. /\ issued' \in Seq(Entry) /\ Len(issued') = n + 1
        /\ \A w \in 1 .. n : issued'[w] = issued[w]
        /\ x = [record |-> Record(e, last[l]), by |-> l, after |-> latest[l], returned |-> b]
        /\ x.record.prev_sig = last[l] /\ x.record.event = e
        /\ x.record.sig = Append(last[l], e) /\ x.after = latest[l]
    <2>1. /\ Len(issued') = n + 1 /\ issued' \in Seq(Entry)
          /\ \A w \in 1 .. n : issued'[w] = issued[w]
          /\ x = [record |-> Record(e, last[l]), by |-> l, after |-> latest[l], returned |-> b]
      BY <1>0, IssuedType
    <2> HIDE DEF x
    <2>2. x.record = Record(e, last[l]) /\ x.after = latest[l]
      BY <2>1
    <2> QED
      BY <1>0, <2>1, <2>2, RecordType
  <1>2. Signatures \subseteq Signatures' /\ Append(last[l], e) \in Signatures'
    <2>1. \A w \in 1 .. n : w \in 1 .. n + 1 /\ issued'[w].record.sig = issued[w].record.sig
      BY <1>0, <1>1
    <2>2. n + 1 \in 1 .. n + 1
      BY <1>0
    <2> QED
      BY <1>1, <2>1, <2>2 DEF Signatures
  <1>3. ASSUME NEW w \in 1 .. n PROVE EntrySigned(w)'
    <2>1. EntrySigned(w) /\ issued'[w] = issued[w]
      BY <1>1 DEF ChainInv
    <2>2. issued[w].after \in Nat
      <3>1. issued[w] \in Entry
        BY <1>0 DEF AuditTypes
      <3> QED
        BY <3>1 DEF Entry
    <2>3. \A v \in 1 .. w - 1 : issued'[v] = issued[v]
      BY <1>0, <1>1
    <2>4. Known(w)' = Known(w)
      BY <2>3 DEF Known
    <2>5. issued[w].after # 0 => issued[w].after \in 1 .. w - 1
      BY <1>0, <2>1, <2>2 DEF EntrySigned
    <2> QED
      BY <2>1, <2>3, <2>4, <2>5 DEF EntrySigned
  <1>4. ASSUME NEW w, w = n + 1 PROVE EntrySigned(w)'
    <2>1. HeadSigned(l) /\ latest[l] \in Nat
      BY <1>0 DEF ChainInv, AuditTypes
    <2>2. w - 1 = n
      BY <1>0, <1>4
    <2>3. Known(w)' = Signatures
      <3>1. \A v \in 1 .. n : issued'[v].record.sig = issued[v].record.sig
        BY <1>1
      <3> QED
        BY <2>2, <3>1 DEF Known, Signatures
    <2>4. latest[l] # 0 => latest[l] \in 1 .. n
      BY <1>0, <2>1 DEF HeadSigned
    <2>5. latest[l] # 0 =>
            latest[l] < w /\ issued'[latest[l]].record.sig = last[l]
      BY <1>0, <1>1, <1>4, <2>1, <2>4 DEF HeadSigned
    <2>6. last[l] \in Signatures
      BY <2>1 DEF HeadSigned
    <2> QED
      BY <1>1, <1>4, <2>3, <2>5, <2>6 DEF EntrySigned
  <1>5. \A w \in 1 .. n + 1 : w \in 1 .. n \/ w = n + 1
    BY <1>0
  <1> QED
    BY <1>1, <1>2, <1>3, <1>4, <1>5

\* Another object's end of the chain, when a record is added.
LEMMA HeadKept ==
  ASSUME ChainInv, NEW l \in Ledgers, NEW e \in Events, NEW b \in BOOLEAN,
         issued' = Issued(l, e, b), NEW m \in Ledgers,
         up'[m] = up[m], last'[m] = last[m], latest'[m] = latest[m]
  PROVE  HeadSigned(m)'
  <1>1. /\ HeadSigned(m) /\ latest[m] \in Nat /\ Len(issued) \in Nat
    BY DEF ChainInv, AuditTypes
  <1>2. /\ Len(issued') = Len(issued) + 1
        /\ \A w \in 1 .. Len(issued) : issued'[w] = issued[w]
        /\ Signatures \subseteq Signatures'
    BY IssuedSigned
  <1>3. latest[m] # 0 => latest[m] \in 1 .. Len(issued)
    BY <1>1 DEF HeadSigned
  <1> QED
    BY <1>1, <1>2, <1>3 DEF HeadSigned

\* The lines after an append are signed.
LEMMA AppendedSigned ==
  ASSUME ChainInv, NEW p \in Piece, lines' = Appended(p),
         Signatures \subseteq Signatures', p # Torn => p.sig \in Signatures'
  PROVE  LinesSigned'
  <1> SUFFICES ASSUME NEW i \in 1 .. Len(lines'), Whole(i)'
               PROVE  lines'[i][1].sig \in Signatures'
    BY DEF LinesSigned
  <1>1. \/ i \in 1 .. Len(lines) /\ lines'[i] = lines[i]
        \/ lines'[i] = <<p>>
    BY AppendedFile DEF ChainInv
  <1>2. CASE i \in 1 .. Len(lines) /\ lines'[i] = lines[i]
    BY <1>2 DEF ChainInv, LinesSigned, Whole
  <1>3. CASE lines'[i] = <<p>>
    BY <1>3 DEF Whole
  <1> QED
    BY <1>1, <1>2, <1>3

\* Ledger objects come and go.
LEMMA OpenCloseChain ==
  ASSUME ChainInv, NEW l \in Ledgers, Open(l) \/ Close(l)
  PROVE  ChainInv'
  <1>0. /\ UNCHANGED <<lines, open, issued, appends, edits, tears>> /\ AuditTypes
        /\ Signatures' = Signatures
    BY DEF Open, Close, fileVars, ChainInv, Signatures
  <1>1. /\ LinesSigned'
        /\ \A w \in 1 .. Len(issued') : EntrySigned(w)'
    BY <1>0 DEF ChainInv, LinesSigned, Whole, EntrySigned, Known
  <1>2. CASE Open(l)
    <2>1. /\ ~up[l] /\ Parses /\ latest' = latest
          /\ up' = [up EXCEPT ![l] = TRUE] /\ last' = [last EXCEPT ![l] = LastSig]
      BY <1>2 DEF Open
    <2>2. LastSig \in Signatures /\ LastSig \in Sig
      <3>1. CASE lines = <<>>
        BY <3>1 DEF LastSig, Signatures, Genesis, Sig
      <3>2. CASE lines # <<>>
        <4>1. Len(lines) \in 1 .. Len(lines)
          BY <1>0, <3>2 DEF AuditTypes
        <4>2. Whole(Len(lines))
          BY <2>1, <4>1 DEF Parses
        <4>3. /\ Records[Len(lines)] \in Rec
              /\ Records[Len(lines)].sig \in Signatures
          BY <1>0, <4>1, <4>2, WholeRecord DEF ChainInv, LinesSigned
        <4> QED
          BY <3>2, <4>3 DEF LastSig, Rec
      <3> QED
        BY <3>1, <3>2
    <2>3. AuditTypes'
      BY <1>0, <2>1, <2>2 DEF AuditTypes
    <2>4. HeadSigned(l)'
      <3>1. latest[l] = 0 /\ last'[l] = LastSig /\ up'[l]
        BY <1>0, <2>1 DEF ChainInv, HeadSigned, AuditTypes
      <3> QED
        BY <1>0, <2>1, <2>2, <3>1 DEF HeadSigned
    <2>5. ASSUME NEW m \in Ledgers, m # l PROVE HeadSigned(m)'
      <3>1. HeadSigned(m) /\ last'[m] = last[m] /\ up'[m] = up[m]
        BY <1>0, <2>1, <2>5 DEF ChainInv, AuditTypes
      <3> QED
        BY <1>0, <2>1, <3>1 DEF HeadSigned
    <2> QED
      BY <1>1, <2>3, <2>4, <2>5 DEF ChainInv
  <1>3. CASE Close(l)
    <2>1. /\ up' = [up EXCEPT ![l] = FALSE] /\ last' = [last EXCEPT ![l] = Genesis]
          /\ latest' = [latest EXCEPT ![l] = 0]
      BY <1>3 DEF Close
    <2>2. Genesis \in Signatures /\ Genesis \in Sig
      BY DEF Genesis, Signatures, Sig
    <2>3. AuditTypes'
      BY <1>0, <2>1, <2>2 DEF AuditTypes
    <2>4. HeadSigned(l)'
      <3>1. latest'[l] = 0 /\ last'[l] = Genesis
        BY <1>0, <2>1 DEF AuditTypes
      <3> QED
        BY <1>0, <2>2, <3>1 DEF HeadSigned
    <2>5. ASSUME NEW m \in Ledgers, m # l PROVE HeadSigned(m)'
      <3>1. HeadSigned(m) /\ last'[m] = last[m] /\ up'[m] = up[m] /\ latest'[m] = latest[m]
        BY <1>0, <2>1, <2>5 DEF ChainInv, AuditTypes
      <3> QED
        BY <1>0, <3>1 DEF HeadSigned
    <2> QED
      BY <1>1, <2>3, <2>4, <2>5 DEF ChainInv
  <1> QED
    BY <1>2, <1>3

\* An append that returns.
LEMMA AppendChain ==
  ASSUME ChainInv, NEW l \in Ledgers, NEW e \in Events, AppendRecord(l, e)
  PROVE  ChainInv'
  <1> DEFINE r == Record(e, last[l])
  <1>0. AuditTypes
    BY DEF ChainInv
  <1>1. r \in Rec /\ r.sig = Append(last[l], e) /\ r \in Piece
    BY <1>0, RecordType DEF Piece
  <1>2. /\ lines' = Appended(r) /\ open' = FALSE /\ up[l]
        /\ last' = [last EXCEPT ![l] = r.sig]
        /\ issued' = Issued(l, e, TRUE)
        /\ latest' = [latest EXCEPT ![l] = Len(issued) + 1]
        /\ appends' = appends + 1 /\ UNCHANGED <<up, edits, tears>>
    BY <1>1 DEF AppendRecord, Sign
  <1>3. /\ issued' \in Seq(Entry) /\ Len(issued') = Len(issued) + 1
        /\ Signatures \subseteq Signatures' /\ r.sig \in Signatures'
        /\ \A w \in 1 .. Len(issued') : EntrySigned(w)'
    BY <1>1, <1>2, IssuedSigned
  <1>4. issued'[Len(issued) + 1].record = r
    <2>1. issued'[Len(issued) + 1] =
            [record |-> r, by |-> l, after |-> latest[l], returned |-> TRUE]
      BY <1>0, <1>2, IssuedType
    <2> QED
      BY <2>1
  <1> HIDE DEF r
  <1>5. AuditTypes'
    <2>1. lines' \in Seq(Seq(Piece)) /\ \A i \in 1 .. Len(lines') : Len(lines'[i]) > 0
      BY <1>0, <1>1, <1>2, AppendedFile
    <2>2. last' \in [Ledgers -> Sig]
      BY <1>0, <1>1, <1>2 DEF AuditTypes, Rec
    <2>3. latest' \in [Ledgers -> Nat] /\ appends' \in Nat
      BY <1>0, <1>2 DEF AuditTypes
    <2> QED
      BY <1>0, <1>2, <1>3, <2>1, <2>2, <2>3 DEF AuditTypes
  <1>6. LinesSigned'
    BY <1>1, <1>2, <1>3, AppendedSigned
  <1>7. HeadSigned(l)'
    <2>1. last'[l] = r.sig /\ latest'[l] = Len(issued) + 1 /\ up'[l]
      BY <1>0, <1>2 DEF AuditTypes
    <2>2. Len(issued) + 1 <= Len(issued')
      BY <1>0, <1>3 DEF AuditTypes
    <2> QED
      BY <1>3, <1>4, <2>1, <2>2 DEF HeadSigned
  <1>8. ASSUME NEW m \in Ledgers, m # l PROVE HeadSigned(m)'
    <2>1. last'[m] = last[m] /\ up'[m] = up[m] /\ latest'[m] = latest[m]
      BY <1>0, <1>2, <1>8 DEF AuditTypes
    <2> QED
      BY <1>2, <2>1, HeadKept
  <1> QED
    BY <1>3, <1>5, <1>6, <1>7, <1>8 DEF ChainInv

\* An append that does not return.
LEMMA FailChain ==
  ASSUME ChainInv, NEW l \in Ledgers, NEW e \in Events, AppendFails(l, e)
  PROVE  ChainInv'
  <1> DEFINE r == Record(e, last[l])
  <1>0. /\ AuditTypes /\ tears' = tears + 1
        /\ UNCHANGED <<up, last, latest, appends, edits>>
    BY DEF ChainInv, AppendFails
  <1>1. r \in Rec /\ r.sig = Append(last[l], e) /\ r \in Piece
    BY <1>0, RecordType DEF Piece
  <1>2. CASE UNCHANGED <<lines, open, issued>>
    <2>1. AuditTypes'
      BY <1>0, <1>2 DEF AuditTypes
    <2> QED
      BY <1>0, <1>2, <2>1
      DEF ChainInv, LinesSigned, Whole, Signatures, EntrySigned, Known, HeadSigned
  <1>3. CASE lines' = Appended(Torn) /\ open' = TRUE /\ issued' = issued
    <2>1. Torn \in Piece
      BY DEF Piece
    <2>2. /\ lines' \in Seq(Seq(Piece)) /\ Len(lines') > 0
          /\ \A i \in 1 .. Len(lines') : Len(lines'[i]) > 0
      BY <1>0, <1>3, <2>1, AppendedFile
    <2>3. AuditTypes'
      BY <1>0, <1>3, <2>2 DEF AuditTypes
    <2>4. LinesSigned'
      <3>1. Signatures' = Signatures
        BY <1>3 DEF Signatures
      <3> QED
        BY <1>3, <2>1, <3>1, AppendedSigned
    <2>5. \A w \in 1 .. Len(issued') : EntrySigned(w)'
      BY <1>3 DEF ChainInv, EntrySigned, Known
    <2>6. \A m \in Ledgers : HeadSigned(m)'
      BY <1>0, <1>3 DEF ChainInv, Signatures, HeadSigned
    <2> QED
      BY <2>3, <2>4, <2>5, <2>6 DEF ChainInv
  <1>4. CASE lines' = Appended(r) /\ open' \in BOOLEAN /\ issued' = Issued(l, e, FALSE)
    <2>1. /\ issued' \in Seq(Entry) /\ Signatures \subseteq Signatures'
          /\ r.sig \in Signatures' /\ \A w \in 1 .. Len(issued') : EntrySigned(w)'
      BY <1>1, <1>4, IssuedSigned
    <2> HIDE DEF r
    <2>2. /\ lines' \in Seq(Seq(Piece)) /\ Len(lines') > 0
          /\ \A i \in 1 .. Len(lines') : Len(lines'[i]) > 0
      BY <1>0, <1>1, <1>4, AppendedFile
    <2>3. AuditTypes'
      <3>1. tears' \in Nat
        BY <1>0 DEF AuditTypes
      <3> QED
        BY <1>0, <1>4, <2>1, <2>2, <3>1 DEF AuditTypes
    <2>4. LinesSigned'
      BY <1>1, <1>4, <2>1, AppendedSigned
    <2>5. \A m \in Ledgers : HeadSigned(m)'
      BY <1>0, <1>4, HeadKept
    <2> QED
      BY <2>1, <2>3, <2>4, <2>5 DEF ChainInv
  <1> QED
    BY <1>2, <1>3, <1>4 DEF AppendFails, fileVars

\* Someone else edits the file.
LEMMA TamperChain ==
  ASSUME ChainInv, NEW i \in 1 .. Len(lines), Tamper(i)
  PROVE  ChainInv'
  <1>1. /\ lines' \in Seq(Seq(Piece)) /\ open' \in BOOLEAN /\ (open' => Len(lines') > 0)
        /\ \A k \in 1 .. Len(lines') :
             \/ \E j \in 1 .. Len(lines) : lines'[k] = lines[j]
             \/ \E r \in Rec : r.sig \in Signatures /\ lines'[k] = <<r>>
        /\ edits' = edits + 1 /\ UNCHANGED <<up, last, issued, latest, appends, tears>>
    BY TamperedFile DEF ChainInv
  <1>2. Signatures' = Signatures
    BY <1>1 DEF Signatures
  <1>3. ASSUME NEW k \in 1 .. Len(lines')
        PROVE  /\ Len(lines'[k]) > 0
               /\ Whole(k)' => lines'[k][1].sig \in Signatures
    <2>1. CASE \E j \in 1 .. Len(lines) : lines'[k] = lines[j]
      BY <2>1 DEF ChainInv, AuditTypes, LinesSigned, Whole
    <2>2. CASE \E r \in Rec : r.sig \in Signatures /\ lines'[k] = <<r>>
      BY <2>2
    <2> QED
      BY <1>1, <2>1, <2>2
  <1>4. AuditTypes'
    BY <1>1, <1>3 DEF ChainInv, AuditTypes
  <1>5. LinesSigned'
    BY <1>2, <1>3 DEF LinesSigned
  <1> QED
    BY <1>1, <1>2, <1>4, <1>5 DEF ChainInv, EntrySigned, Known, HeadSigned

\* Nothing is written, and no ledger object is up.
LEMMA ChainInvInit == Init => ChainInv
  <1> SUFFICES ASSUME Init PROVE ChainInv
    OBVIOUS
  <1>1. /\ Len(lines) = 0 /\ Len(issued) = 0 /\ Genesis \in Sig /\ Genesis \in Signatures
        /\ lines \in Seq(Seq(Piece)) /\ issued \in Seq(Entry)
    BY DEF Init, Genesis, Sig, Signatures
  <1>2. 1 .. Len(lines) = {} /\ 1 .. Len(issued) = {}
    BY <1>1
  <1>3. \A l \in Ledgers : HeadSigned(l)
    BY <1>1 DEF Init, HeadSigned
  <1>4. AuditTypes
    BY <1>1, <1>2 DEF Init, AuditTypes
  <1> QED
    BY <1>2, <1>3, <1>4 DEF ChainInv, LinesSigned

\* Every step keeps to the signatures there are.
LEMMA ChainInvStep == ChainInv /\ [Next]_vars => ChainInv'
  <1> SUFFICES ASSUME ChainInv, [Next]_vars PROVE ChainInv'
    OBVIOUS
  <1>1. ASSUME NEW l \in Ledgers, Open(l) \/ Close(l) PROVE ChainInv'
    BY <1>1, OpenCloseChain
  <1>2. ASSUME NEW l \in Ledgers, NEW e \in Events, AppendRecord(l, e) PROVE ChainInv'
    BY <1>2, AppendChain
  <1>3. ASSUME NEW l \in Ledgers, NEW e \in Events, AppendFails(l, e) PROVE ChainInv'
    BY <1>3, FailChain
  <1>4. ASSUME NEW i \in 1 .. Len(lines), Tamper(i) PROVE ChainInv'
    BY <1>4, TamperChain
  <1>5. CASE UNCHANGED vars
    <2>0. UNCHANGED <<up, last, lines, open, issued, latest, appends, edits, tears>>
      BY <1>5 DEF vars, fileVars
    <2>1. AuditTypes'
      BY <2>0 DEF ChainInv, AuditTypes
    <2>2. LinesSigned'
      BY <2>0 DEF ChainInv, LinesSigned, Whole, Signatures
    <2>3. \A w \in 1 .. Len(issued') : EntrySigned(w)'
      BY <2>0 DEF ChainInv, EntrySigned, Known
    <2>4. \A l \in Ledgers : HeadSigned(l)'
      BY <2>0 DEF ChainInv, HeadSigned, Signatures
    <2> QED
      BY <2>1, <2>2, <2>3, <2>4 DEF ChainInv
  <1> QED
    BY <1>1, <1>2, <1>3, <1>4, <1>5 DEF Next

-----------------------------------------------------------------------------
(* What verify_ledger accepts. *)

\* It reports the first broken line, so those before it are not.
LEMMA VerifyFirst ==
  ASSUME AuditTypes
  PROVE  /\ Verify \in Nat /\ Accepted \in 0 .. Len(lines)
         /\ Verify # 0 => Verify \in 1 .. Len(lines) /\ Broken(Verify)
         /\ \A i \in 1 .. Accepted : i \in 1 .. Len(lines) /\ ~Broken(i)
  <1> DEFINE bad == {i \in 1 .. Len(lines) : Broken(i)}
  <1>0. Len(lines) \in Nat
    BY DEF AuditTypes
  <1>1. Verify = IF bad = {} THEN 0 ELSE CHOOSE i \in bad : \A j \in bad : i <= j
    BY DEF Verify
  <1>2. /\ \A i \in bad : i \in 1 .. Len(lines) /\ Broken(i)
        /\ \A i \in 1 .. Len(lines) : i \notin bad => ~Broken(i)
        /\ bad \subseteq Nat /\ 0 \notin bad
    OBVIOUS
  <1> HIDE DEF bad
  <1>3. bad # {} => Verify \in bad /\ \A j \in bad : Verify <= j
    BY <1>1, <1>2, LeastNumber
  <1>4. CASE bad = {}
    <2>1. Verify = 0 /\ Accepted = Len(lines)
      BY <1>1, <1>4 DEF Accepted
    <2> QED
      BY <1>0, <1>2, <1>4, <2>1
  <1>5. CASE bad # {}
    <2>1. Verify \in bad /\ Verify \in 1 .. Len(lines) /\ Verify # 0 /\ Accepted = Verify - 1
      BY <1>2, <1>3, <1>5 DEF Accepted
    <2>2. ASSUME NEW i \in 1 .. Verify - 1 PROVE i \in 1 .. Len(lines) /\ i \notin bad
      BY <1>0, <1>2, <1>3, <2>1
    <2> QED
      BY <1>0, <1>2, <2>1, <2>2
  <1> QED
    BY <1>4, <1>5

\* A record of the file that carries its own signature was written by append;
\* an entry with that signature has that record.
LEMMA AcceptedSignature ==
  ASSUME ChainInv, NEW r \in Rec, r.sig = Sign(r.event, r.prev_sig)
  PROVE  /\ r.sig # Genesis /\ r.sig # <<Forged>>
         /\ \A w \in 1 .. Len(issued) : issued[w].record.sig = r.sig => issued[w].record = r
  <1>1. r.event \in Events /\ r.prev_sig \in Sig /\ r.sig = Append(r.prev_sig, r.event)
    BY DEF Rec, Sign
  <1>2. ASSUME NEW w \in 1 .. Len(issued), issued[w].record.sig = r.sig
        PROVE  issued[w].record = r
    <2> DEFINE q == issued[w].record
    <2>0. issued[w] \in Entry
      BY DEF ChainInv, AuditTypes
    <2>1. q \in Rec /\ q.sig = Append(q.prev_sig, q.event)
      BY <2>0 DEF ChainInv, EntrySigned, Entry
    <2>2. q.event \in Events /\ q.prev_sig \in Sig
      BY <2>1 DEF Rec
    <2> HIDE DEF q
    <2>3. q.event = r.event /\ q.prev_sig = r.prev_sig
      <3>1. Append(r.prev_sig, r.event) = Append(q.prev_sig, q.event)
        BY <1>1, <1>2, <2>1 DEF q
      <3>2. \A f \in Events : \A p \in Sig :
              Append(r.prev_sig, r.event) = Append(p, f) => r.prev_sig = p /\ r.event = f
        BY <1>1, Signed
      <3> QED
        BY <2>2, <3>1, <3>2
    <2>4. q = r
      <3>1. q.sig = r.sig
        BY <1>2 DEF q
      <3> QED
        BY <2>1, <2>3, <3>1 DEF Rec
    <2> QED
      BY <2>4 DEF q
  <1>3. r.sig # Genesis /\ r.sig # <<Forged>>
    BY <1>1, Signed
  <1> QED
    BY <1>2, <1>3

\* The lines accepted are records in the places they were written for.
LEMMA AcceptedIsRight == ChainInv => AcceptedWasAppended
  <1> SUFFICES ASSUME ChainInv, Parses, NEW i \in 1 .. Accepted
               PROVE  /\ \E w \in 1 .. Len(issued) : issued[w].record = Records[i]
                      /\ \A w \in 1 .. Len(issued) : issued[w].record = Records[i] =>
                           /\ i > 1 => \E v \in 1 .. w - 1 : issued[v].record = Records[i - 1]
                           /\ issued[w].after # 0 =>
                                i > 1 /\ issued[issued[w].after].record = Records[i - 1]
    BY DEF AcceptedWasAppended
  <1>0. AuditTypes /\ Len(lines) \in Nat /\ Len(issued) \in Nat
    BY DEF ChainInv, AuditTypes
  <1>1. /\ Accepted \in 0 .. Len(lines)
        /\ \A k \in 1 .. Accepted : k \in 1 .. Len(lines) /\ ~Broken(k)
    BY <1>0, VerifyFirst
  <1>2. ASSUME NEW k \in 1 .. Accepted
        PROVE  /\ Records[k] \in Rec /\ Records[k].sig \in Signatures
               /\ Records[k].sig = Sign(Records[k].event, Records[k].prev_sig)
               /\ Records[k].prev_sig = IF k = 1 THEN Genesis ELSE Records[k - 1].sig
    <2>1. k \in 1 .. Len(lines) /\ ~Broken(k) /\ Whole(k)
      BY <1>1 DEF Parses
    <2>2. Records[k] \in Rec /\ Records[k].sig \in Signatures
      BY <1>0, <2>1, WholeRecord DEF ChainInv, LinesSigned
    <2> QED
      BY <2>1, <2>2 DEF Broken
  <1>3. \E w \in 1 .. Len(issued) : issued[w].record = Records[i]
    <2>1. Records[i].sig # Genesis /\ Records[i].sig # <<Forged>>
      BY <1>2, AcceptedSignature
    <2>2. PICK w \in 1 .. Len(issued) : issued[w].record.sig = Records[i].sig
      BY <1>2, <2>1 DEF Signatures
    <2> QED
      BY <1>2, <2>2, AcceptedSignature
  <1>4. ASSUME NEW w \in 1 .. Len(issued), issued[w].record = Records[i]
        PROVE  /\ i > 1 => \E v \in 1 .. w - 1 : issued[v].record = Records[i - 1]
               /\ issued[w].after # 0 =>
                    i > 1 /\ issued[issued[w].after].record = Records[i - 1]
    <2> DEFINE a == issued[w].after
    <2>1. /\ issued[w].record.prev_sig \in Known(w)
          /\ a # 0 => a < w /\ issued[a].record.sig = issued[w].record.prev_sig
      BY DEF ChainInv, EntrySigned
    <2>2. a \in Nat
      <3>1. issued[w] \in Entry
        BY <1>0 DEF AuditTypes
      <3> QED
        BY <3>1 DEF Entry
    <2>3. a # 0 => a \in 1 .. Len(issued)
      BY <1>0, <2>1, <2>2
    <2> HIDE DEF a
    <2>4. CASE i = 1
      <3>1. issued[w].record.prev_sig = Genesis
        BY <1>2, <1>4, <2>4
      <3>2. ASSUME a # 0 PROVE FALSE
        <4> DEFINE q == issued[a].record
        <4>0. issued[a] \in Entry
          BY <1>0, <2>3, <3>2 DEF AuditTypes
        <4>1. q \in Rec /\ q.sig = Append(q.prev_sig, q.event)
          BY <2>3, <3>2, <4>0 DEF ChainInv, EntrySigned, Entry
        <4>2. q.event \in Events /\ q.prev_sig \in Sig
          BY <4>1 DEF Rec
        <4>3. q.sig # Genesis
          BY <4>1, <4>2, Signed
        <4> QED
          BY <2>1, <3>1, <3>2, <4>3
      <3> QED
        BY <2>4, <3>2 DEF a
    <2>5. CASE i # 1
      <3>1. i - 1 \in 1 .. Accepted /\ i > 1
        BY <1>1, <2>5
      <3>2. /\ Records[i - 1] \in Rec
            /\ Records[i - 1].sig = Sign(Records[i - 1].event, Records[i - 1].prev_sig)
        BY <1>2, <3>1
      <3>3. issued[w].record.prev_sig = Records[i - 1].sig
        BY <1>2, <1>4, <2>5
      <3>4. /\ Records[i - 1].sig # Genesis /\ Records[i - 1].sig # <<Forged>>
            /\ \A v \in 1 .. Len(issued) :
                 issued[v].record.sig = Records[i - 1].sig => issued[v].record = Records[i - 1]
        BY <3>2, AcceptedSignature
      <3>5. PICK v \in 1 .. w - 1 : issued[v].record.sig = Records[i - 1].sig
        BY <2>1, <3>3, <3>4 DEF Known
      <3>6. v \in 1 .. Len(issued)
        BY <1>0
      <3>7. issued[v].record = Records[i - 1]
        BY <3>4, <3>5, <3>6
      <3>8. a # 0 => issued[a].record = Records[i - 1]
        BY <2>1, <2>3, <3>3, <3>4
      <3> QED
        BY <3>1, <3>7, <3>8 DEF a
    <2> QED
      BY <2>4, <2>5
  <1> QED
    BY <1>3, <1>4

\* However many ledger objects append, fail and restart, and whatever is edited,
\* forged, removed, copied, moved and put back: what verify_ledger accepts is
\* what append wrote, where it wrote it.
THEOREM AcceptedWereAppended == Spec => []AcceptedWasAppended
  BY ChainInvInit, ChainInvStep, AcceptedIsRight, PTL DEF Spec

-----------------------------------------------------------------------------
(* What is in a file that nobody edited. *)

\* A record more, in the file as among those that reached it.
LEMMA IssuedFile ==
  ASSUME FileInv, NEW l \in Ledgers, NEW e \in Events, NEW b \in BOOLEAN, up[l],
         lines' = Appended(Record(e, last[l])), issued' = Issued(l, e, b),
         edits = 0, Parses'
  PROVE  /\ FileIsIssued'
         /\ \A k \in 1 .. Len(issued') : Follows(k)'
         /\ issued' # <<>> /\ Len(issued') = Len(issued) + 1
         /\ issued'[Len(issued) + 1].record.sig = Append(last[l], e)
         /\ issued'[Len(issued) + 1].by = l /\ issued'[Len(issued) + 1].returned = b
  <1> DEFINE n == Len(issued)
             r == Record(e, last[l])
             x == issued'[n + 1]
  <1>0. AuditTypes /\ n \in Nat /\ Len(lines) \in Nat
    BY DEF FileInv, ChainInv, AuditTypes
  <1>1. /\ r \in Rec /\ r \in Piece /\ r.sig = Append(last[l], e) /\ r.prev_sig = last[l]
        /\ issued' \in Seq(Entry) /\ Len(issued') = n + 1
        /\ \A w \in 1 .. n : issued'[w] = issued[w]
        /\ x = [record |-> r, by |-> l, after |-> latest[l], returned |-> b]
    <2>1. r \in Rec /\ r.sig = Append(last[l], e) /\ r.prev_sig = last[l]
      BY <1>0, RecordType
    <2> DEFINE I == Issued(l, e, b)
    <2>2. /\ I \in Seq(Entry) /\ Len(I) = n + 1 /\ \A w \in 1 .. n : I[w] = issued[w]
          /\ I[n + 1] = [record |-> r, by |-> l, after |-> latest[l], returned |-> b]
      BY <1>0, IssuedType
    <2>3. r \in Piece
      BY <2>1 DEF Piece
    <2>4. issued' = I
      OBVIOUS
    <2> HIDE DEF r, I
    <2> QED
      BY <2>1, <2>2, <2>3, <2>4
  <1>2. x.record = r /\ x.by = l /\ x.returned = b
    BY <1>1
  <1> HIDE DEF r, x
  <1>3. /\ Parses /\ Len(lines') = Len(lines) + 1
        /\ \A i \in 1 .. Len(lines) : lines'[i] = lines[i]
        /\ lines'[Len(lines) + 1] = <<r>>
    BY <1>0, <1>1, AppendedFile DEF r
  <1>4. FileIsIssued /\ (\A k \in 1 .. n : Follows(k)) /\ InStep(l)
    BY <1>3 DEF FileInv
  <1>5. FileIsIssued'
    <2>1. Len(lines) = n /\ \A i \in 1 .. n : lines'[i][1] = issued'[i].record
      BY <1>1, <1>3, <1>4 DEF FileIsIssued
    <2>2. lines'[n + 1][1] = issued'[n + 1].record
      BY <1>2, <1>3, <2>1 DEF x
    <2>3. \A i \in 1 .. n + 1 : i \in 1 .. n \/ i = n + 1
      BY <1>0
    <2> QED
      BY <1>1, <1>3, <2>1, <2>2, <2>3 DEF FileIsIssued
  <1>6. ASSUME NEW k \in 1 .. n PROVE Follows(k)'
    <2>1. Follows(k) /\ issued'[k] = issued[k]
      BY <1>1, <1>4
    <2>2. k # 1 => issued'[k - 1] = issued[k - 1]
      BY <1>0, <1>1
    <2>3. k > 1 => k # 1
      BY <1>0
    <2> QED
      BY <2>1, <2>2, <2>3 DEF Follows, Explained
  <1>7. ASSUME NEW k, k = n + 1 PROVE Follows(k)'
    <2>1. issued'[k].record.prev_sig = last[l] /\ issued'[k].by = l
      BY <1>1, <1>2, <1>7 DEF x
    <2>2. CASE n = 0
      <3>1. issued = <<>> /\ k = 1
        BY <1>0, <1>7, <2>2 DEF AuditTypes
      <3>2. last[l] = Genesis
        BY <1>4, <3>1 DEF InStep
      <3> QED
        BY <2>1, <3>1, <3>2 DEF Follows
    <2>3. CASE n # 0
      <3>1. issued # <<>> /\ k # 1 /\ k > 1 /\ k - 1 = n /\ issued'[n] = issued[n]
        BY <1>0, <1>1, <1>7, <2>3
      <3>2. last[l] = issued[n].record.sig \/ Explained(n, l)
        BY <1>4, <3>1 DEF InStep
      <3>3. issued'[k - 1].record.sig = issued[n].record.sig
        BY <3>1
      <3>4. Explained(n, l) => ~issued'[k - 1].returned \/ issued'[k - 1].by # l
        BY <3>1 DEF Explained
      <3> QED
        BY <2>1, <3>1, <3>2, <3>3, <3>4 DEF Follows, Explained
    <2> QED
      BY <2>2, <2>3
  <1>8. \A k \in 1 .. n + 1 : k \in 1 .. n \/ k = n + 1
    BY <1>0
  <1>9. issued' # <<>>
    BY <1>0, <1>1
  <1> QED
    BY <1>1, <1>2, <1>5, <1>6, <1>7, <1>8, <1>9 DEF x

\* Nothing is written.
LEMMA FileInvInit == Init => FileInv
  <1> SUFFICES ASSUME Init PROVE FileInv
    OBVIOUS
  <1>1. Len(lines) = 0 /\ Len(issued) = 0 /\ appends + tears = 0
    BY DEF Init
  <1>2. 1 .. Len(lines) = {} /\ 1 .. Len(issued) = {}
    BY <1>1
  <1> QED
    BY <1>1, <1>2, ChainInvInit DEF Init, FileInv, FileIsIssued

\* A step without an edit keeps the file to what the appends wrote.
LEMMA FileInvStep == FileInv /\ [Next]_vars => FileInv'
  <1> SUFFICES ASSUME FileInv, [Next]_vars
               PROVE  /\ Len(issued') <= appends' + tears'
                      /\ edits' = 0 /\ Parses' =>
                           /\ FileIsIssued'
                           /\ \A k \in 1 .. Len(issued') : Follows(k)'
                           /\ \A l \in Ledgers : up'[l] => InStep(l)'
    BY ChainInvStep DEF FileInv
  <1> DEFINE Goal == /\ Len(issued') <= appends' + tears'
                     /\ edits' = 0 /\ Parses' =>
                          /\ FileIsIssued'
                          /\ \A k \in 1 .. Len(issued') : Follows(k)'
                          /\ \A l \in Ledgers : up'[l] => InStep(l)'
  <1>0. /\ AuditTypes /\ Len(issued) \in Nat /\ appends \in Nat /\ tears \in Nat /\ edits \in Nat
        /\ Len(issued) <= appends + tears
    BY DEF FileInv, ChainInv, AuditTypes
  <1>1. ASSUME UNCHANGED <<lines, issued, edits, appends>>, tears' \in {tears, tears + 1},
               \A l \in Ledgers : \/ up'[l] = up[l] /\ last'[l] = last[l]
                                  \/ up'[l] /\ FileIsIssued => InStep(l)'
        PROVE  Goal
    <2>1. Parses' = Parses
      BY <1>1 DEF Parses, Whole
    <2>2. Len(issued') <= appends' + tears'
      BY <1>0, <1>1
    <2>3. ASSUME edits = 0, Parses
          PROVE  /\ FileIsIssued'
                 /\ \A k \in 1 .. Len(issued') : Follows(k)'
                 /\ \A l \in Ledgers : up'[l] => InStep(l)'
      <3>1. /\ FileIsIssued /\ (\A k \in 1 .. Len(issued) : Follows(k))
            /\ \A l \in Ledgers : up[l] => InStep(l)
        BY <2>3 DEF FileInv
      <3>2. FileIsIssued' /\ \A k \in 1 .. Len(issued') : Follows(k)'
        BY <1>1, <3>1 DEF FileIsIssued, Follows, Explained
      <3>3. ASSUME NEW l \in Ledgers, up'[l] PROVE InStep(l)'
        <4>1. CASE up'[l] = up[l] /\ last'[l] = last[l]
          BY <1>1, <3>1, <3>3, <4>1 DEF InStep, Explained
        <4> QED
          BY <1>1, <3>1, <3>3, <4>1
      <3> QED
        BY <3>2, <3>3
    <2> QED
      BY <1>1, <2>1, <2>2, <2>3
  <1>2. ASSUME NEW l \in Ledgers, Open(l) PROVE Goal
    <2>1. /\ UNCHANGED <<lines, issued, edits, appends, tears>> /\ Parses
          /\ up' = [up EXCEPT ![l] = TRUE] /\ last' = [last EXCEPT ![l] = LastSig]
      BY <1>2 DEF Open, fileVars
    <2>2. ASSUME FileIsIssued PROVE InStep(l)'
      <3>1. last'[l] = LastSig
        BY <1>0, <2>1 DEF AuditTypes
      <3>2. CASE issued = <<>>
        <4>1. lines = <<>>
          BY <1>0, <2>2, <3>2 DEF FileIsIssued, AuditTypes
        <4> QED
          BY <2>1, <3>1, <3>2, <4>1 DEF InStep, LastSig
      <3>3. CASE issued # <<>>
        <4>1. Len(lines) = Len(issued) /\ Len(lines) \in 1 .. Len(lines)
          BY <1>0, <2>2, <3>3 DEF FileIsIssued, AuditTypes
        <4>2. lines # <<>> /\ Records[Len(lines)] = issued[Len(issued)].record
          BY <2>2, <4>1 DEF FileIsIssued, Records
        <4> QED
          BY <2>1, <3>1, <3>3, <4>2 DEF InStep, LastSig
      <3> QED
        BY <3>2, <3>3
    <2>3. \A m \in Ledgers : m # l => up'[m] = up[m] /\ last'[m] = last[m]
      BY <1>0, <2>1 DEF AuditTypes
    <2> HIDE DEF Goal
    <2> QED
      BY <1>1, <2>1, <2>2, <2>3
  <1>3. ASSUME NEW l \in Ledgers, Close(l) PROVE Goal
    <2>1. /\ UNCHANGED <<lines, issued, edits, appends, tears>>
          /\ up' = [up EXCEPT ![l] = FALSE] /\ last' = [last EXCEPT ![l] = Genesis]
      BY <1>3 DEF Close, fileVars
    <2>2. ~up'[l] /\ \A m \in Ledgers : m # l => up'[m] = up[m] /\ last'[m] = last[m]
      BY <1>0, <2>1 DEF AuditTypes
    <2>3. \A m \in Ledgers : \/ up'[m] = up[m] /\ last'[m] = last[m]
                             \/ up'[m] /\ FileIsIssued => InStep(m)'
      BY <2>2
    <2> HIDE DEF Goal
    <2> QED
      BY <1>1, <2>1, <2>3
  <1>4. ASSUME NEW l \in Ledgers, NEW e \in Events, NEW b \in BOOLEAN, up[l],
               lines' = Appended(Record(e, last[l])), issued' = Issued(l, e, b),
               UNCHANGED <<up, edits>>, appends' + tears' = appends + tears + 1,
               b => last' = [last EXCEPT ![l] = Append(last[l], e)]
        PROVE  Goal
    <2>1. Len(issued') = Len(issued) + 1
      <3>1. Len(Issued(l, e, b)) = Len(issued) + 1
        BY <1>0, IssuedType
      <3> QED
        BY <1>4, <3>1
    <2>2. Len(issued') <= appends' + tears'
      BY <1>0, <1>4, <2>1
    <2>3. ASSUME edits = 0, Parses'
          PROVE  /\ FileIsIssued'
                 /\ \A k \in 1 .. Len(issued') : Follows(k)'
                 /\ \A m \in Ledgers : InStep(m)'
      <3>1. /\ FileIsIssued' /\ (\A k \in 1 .. Len(issued') : Follows(k)')
            /\ issued' # <<>> /\ Len(issued') = Len(issued) + 1
            /\ issued'[Len(issued) + 1].record.sig = Append(last[l], e)
            /\ issued'[Len(issued) + 1].by = l /\ issued'[Len(issued) + 1].returned = b
        BY <1>4, <2>3, IssuedFile
      <3>2. ASSUME NEW m \in Ledgers PROVE InStep(m)'
        <4>1. CASE m = l /\ b
          <5>1. last'[m] = Append(last[l], e)
            BY <1>0, <1>4, <4>1 DEF AuditTypes
          <5> QED
            BY <3>1, <5>1 DEF InStep
        <4>2. CASE m # l \/ ~b
          BY <3>1, <4>2 DEF InStep, Explained
        <4> QED
          BY <4>1, <4>2
      <3> QED
        BY <3>1, <3>2
    <2> QED
      BY <1>4, <2>2, <2>3
  <1>5. ASSUME NEW l \in Ledgers, NEW e \in Events, AppendRecord(l, e) PROVE Goal
    <2>1. /\ up[l] /\ lines' = Appended(Record(e, last[l])) /\ issued' = Issued(l, e, TRUE)
          /\ UNCHANGED <<up, edits>> /\ appends' + tears' = appends + tears + 1
          /\ last' = [last EXCEPT ![l] = Append(last[l], e)]
      BY <1>0, <1>5 DEF AppendRecord, Sign
    <2> HIDE DEF Goal
    <2> QED
      BY <1>4, <2>1
  <1>6. ASSUME NEW l \in Ledgers, NEW e \in Events, AppendFails(l, e) PROVE Goal
    <2>0. up[l] /\ tears' = tears + 1 /\ UNCHANGED <<up, last, latest, appends, edits>>
      BY <1>6 DEF AppendFails
    <2>1. CASE UNCHANGED <<lines, issued>>
      <3> HIDE DEF Goal
      <3>1. \A m \in Ledgers : up'[m] = up[m] /\ last'[m] = last[m]
        BY <2>0
      <3> QED
        BY <1>1, <2>0, <2>1, <3>1
    <2>2. CASE lines' = Appended(Torn) /\ issued' = issued
      <3>1. ~Parses'
        BY <1>0, <2>2, AppendedFile DEF Piece
      <3> QED
        BY <1>0, <2>0, <2>2, <3>1
    <2>3. CASE lines' = Appended(Record(e, last[l])) /\ issued' = Issued(l, e, FALSE)
      <3>1. appends' + tears' = appends + tears + 1
        BY <1>0, <2>0
      <3> HIDE DEF Goal
      <3> QED
        BY <1>4, <2>0, <2>3, <3>1
    <2> QED
      BY <1>6, <2>1, <2>2, <2>3 DEF AppendFails, fileVars
  <1>7. ASSUME NEW i \in 1 .. Len(lines), Tamper(i) PROVE Goal
    <2>1. edits' = edits + 1 /\ UNCHANGED <<issued, appends, tears>>
      BY <1>7, TamperedFile DEF FileInv, ChainInv
    <2> QED
      BY <1>0, <2>1
  <1>8. ASSUME UNCHANGED vars PROVE Goal
    <2>1. UNCHANGED <<lines, issued, edits, appends, tears, up, last>>
      BY <1>8 DEF vars, fileVars
    <2>2. \A m \in Ledgers : up'[m] = up[m] /\ last'[m] = last[m]
      BY <2>1
    <2> HIDE DEF Goal
    <2> QED
      BY <1>1, <2>1, <2>2
  <1> HIDE DEF Goal
  <1>9. ASSUME Next PROVE Goal
    BY <1>2, <1>3, <1>5, <1>6, <1>7, <1>9 DEF Next
  <1>10. Goal
    BY <1>8, <1>9
  <1> QED
    BY <1>10 DEF Goal

\* The file holds the records that reached it, one for each append at most.
LEMMA KeptIsRight == FileInv => AppendsKept
  <1> SUFFICES ASSUME FileInv, edits = 0, Parses
               PROVE  /\ Records = [i \in 1 .. Len(issued) |-> issued[i].record]
                      /\ Len(lines) <= appends + tears
    BY DEF AppendsKept
  <1>1. FileIsIssued /\ Len(issued) <= appends + tears
    BY DEF FileInv
  <1> QED
    BY <1>1 DEF FileIsIssued, Records

\* A line that is reported does not follow what its object appended last.
LEMMA AlarmIsExplained == FileInv => AlarmsExplained
  <1> SUFFICES ASSUME FileInv, edits = 0, Parses, Verify # 0
               PROVE  /\ Verify > 1
                      /\ \/ ~issued[Verify - 1].returned
                         \/ issued[Verify - 1].by # issued[Verify].by
    BY DEF AlarmsExplained
  <1> DEFINE k == Verify
  <1>1. k \in 1 .. Len(lines) /\ Broken(k)
    BY VerifyFirst DEF FileInv, ChainInv
  <1> HIDE DEF k
  <1>2. FileIsIssued /\ k \in 1 .. Len(issued) /\ Len(issued) \in Nat
    BY <1>1 DEF FileInv, FileIsIssued, ChainInv, AuditTypes
  <1>3. Follows(k)
    BY <1>2 DEF FileInv
  <1>4. Records[k] = issued[k].record
    BY <1>1, <1>2 DEF FileIsIssued, Records
  <1>5. issued[k].record.sig = Sign(issued[k].record.event, issued[k].record.prev_sig)
    BY <1>2 DEF FileInv, ChainInv, EntrySigned, Sign
  <1>6. issued[k].record.prev_sig # IF k = 1 THEN Genesis ELSE Records[k - 1].sig
    BY <1>1, <1>4, <1>5 DEF Broken
  <1>7. k # 1 => Records[k - 1] = issued[k - 1].record
    <2>1. k # 1 => k - 1 \in 1 .. Len(lines)
      BY <1>1, <1>2
    <2> QED
      BY <1>2, <2>1 DEF FileIsIssued, Records
  <1>8. k > 1 /\ Explained(k - 1, issued[k].by)
    BY <1>3, <1>6, <1>7 DEF Follows
  <1> QED
    BY <1>8 DEF Explained, k

\* While nobody edits the file and it parses, the records append returned for
\* are in it, in order, with at most one more for each append that failed.
THEOREM AppendsAreKept == Spec => []AppendsKept
  BY FileInvInit, FileInvStep, KeptIsRight, PTL DEF Spec

\* While nobody edits the file, verify_ledger reports a line of it only behind a
\* failed append or another object's.
THEOREM AlarmsAreExplained == Spec => []AlarmsExplained
  BY FileInvInit, FileInvStep, AlarmIsExplained, PTL DEF Spec
=============================================================================
