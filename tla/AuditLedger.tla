----------------------------- MODULE AuditLedger -----------------------------
(***************************************************************************)
(* The signed, hash-chained JSONL ledger that the repository has in three  *)
(* languages: python/src/cubiczan_resilience/audit_ledger.py,              *)
(* rust/src/audit.rs and typescript/src/auditLedger.ts do the same here.   *)
(* Ledger objects append to one file, the file is edited behind their      *)
(* back, appends fail half-way, and verify_ledger re-walks the chain.      *)
(*                                                                         *)
(* HMAC-SHA256 is taken to be injective and not to be forged: a signature  *)
(* is written as the history it stands for, the previous signature (a      *)
(* sequence of events) with the event added, and whoever edits the file    *)
(* has the signatures the ledgers made, and others that no record has,     *)
(* which are all <<Forged>>.  An event stands for all the signed content   *)
(* of a record.  A line is the sequence of the pieces written to it, as in *)
(* module KeyLedger; it parses when it is exactly one whole record.        *)
(***************************************************************************)
EXTENDS Naturals, Sequences, FiniteSets

CONSTANTS
  Ledgers,     \* AuditLedger objects on the file
  Events,      \* contents of records
  Forged,      \* what is in a signature that no ledger made
  Torn,        \* part of a record
  MaxAppends,  \* bound: appends that return
  MaxFaults    \* bound: appends that fail, and edits of the file by someone else

ASSUME AuditAssumption ==
  /\ Forged \notin Events
  /\ MaxAppends \in Nat /\ MaxFaults \in Nat

VARIABLES
  up,        \* up[l], whether l was constructed
  last,      \* last[l], its _last_sig
  lines,     \* the file
  open,      \* whether the last line lacks its newline
  issued,    \* history: the records that reached the file whole, each with the
             \* object that wrote it, whether its append returned, and the place
             \* here of what the object had appended before it (0 for nothing)
  latest,    \* history: latest[l], the place of the last record l appended
  appends, edits, tears

fileVars == <<lines, open>>
vars == <<up, last, fileVars, issued, latest, appends, edits, tears>>

Genesis == <<>>

Sign(event, prev) == Append(prev, event)

Record(event, prev) ==
  [event |-> event, prev_sig |-> prev, sig |-> Sign(event, prev)]

Init ==
  /\ up = [l \in Ledgers |-> FALSE]
  /\ last = [l \in Ledgers |-> Genesis]
  /\ lines = <<>>
  /\ open = FALSE
  /\ issued = <<>>
  /\ latest = [l \in Ledgers |-> 0]
  /\ appends = 0
  /\ edits = 0
  /\ tears = 0

-----------------------------------------------------------------------------
(* Reading the file. *)

Whole(i) == Len(lines[i]) = 1 /\ lines[i][1] # Torn

\* _parse_lines raises on the first line that is not one JSON value.
Parses == \A i \in 1 .. Len(lines) : Whole(i)

Records == [i \in 1 .. Len(lines) |-> lines[i][1]]

\* The last signature in the file, which is taken as it stands.
LastSig == IF lines = <<>> THEN Genesis ELSE Records[Len(lines)].sig

\* Slip: only each record's own signature is recomputed.
Broken_SigOnly(i) == Records[i].sig # Sign(Records[i].event, Records[i].prev_sig)

\* The two tests of verify_ledger on line i.
Broken(i) ==
  \/ Records[i].prev_sig # IF i = 1 THEN Genesis ELSE Records[i - 1].sig
  \/ Records[i].sig # Sign(Records[i].event, Records[i].prev_sig)

\* What verify_ledger reports of a file that parses: the first broken line
\* (counted from 1), or 0 when the chain is intact.
Verify ==
  LET bad == {i \in 1 .. Len(lines) : Broken(i)}
  IN  IF bad = {} THEN 0 ELSE CHOOSE i \in bad : \A j \in bad : i <= j

-----------------------------------------------------------------------------
(* The ledger objects. *)

\* The constructor resumes the chain; it raises when the file does not parse.
Open(l) ==
  /\ ~up[l]
  /\ Parses
  /\ up' = [up EXCEPT ![l] = TRUE]
  /\ last' = [last EXCEPT ![l] = LastSig]
  /\ UNCHANGED <<fileVars, issued, latest, appends, edits, tears>>

\* Slip: the file is opened for writing instead of appending.
Appended_Truncates(piece) == <<<<piece>>>>

\* The file after one more piece was appended to it.
Appended(piece) ==
  IF open THEN [lines EXCEPT ![Len(lines)] = Append(@, piece)]
          ELSE Append(lines, <<piece>>)

Issued(l, event, returned) ==
  Append(issued, [record |-> Record(event, last[l]), by |-> l, after |-> latest[l],
                  returned |-> returned])

\* Slip: _last_sig is not moved on.
AppendRecord_KeepsLastSig(l, event) ==
  /\ up[l]
  /\ appends < MaxAppends
  /\ appends' = appends + 1
  /\ lines' = Appended(Record(event, last[l]))
  /\ open' = FALSE
  /\ issued' = Issued(l, event, TRUE)
  /\ latest' = [latest EXCEPT ![l] = Len(issued) + 1]
  /\ UNCHANGED <<up, last, edits, tears>>

AppendRecord(l, event) ==
  /\ up[l]
  /\ appends < MaxAppends
  /\ appends' = appends + 1
  /\ lines' = Appended(Record(event, last[l]))
  /\ open' = FALSE
  /\ last' = [last EXCEPT ![l] = Sign(event, last[l])]
  /\ issued' = Issued(l, event, TRUE)
  /\ latest' = [latest EXCEPT ![l] = Len(issued) + 1]
  /\ UNCHANGED <<up, edits, tears>>

\* append raises or is interrupted before _last_sig moves on: nothing, part of
\* the line, all but its newline, or the whole line is in the file.
AppendFails(l, event) ==
  /\ up[l]
  /\ edits + tears < MaxFaults
  /\ tears' = tears + 1
  /\ \/ UNCHANGED <<fileVars, issued>>
     \/ /\ lines' = Appended(Torn)
        /\ open' = TRUE
        /\ UNCHANGED issued
     \/ /\ lines' = Appended(Record(event, last[l]))
        /\ open' \in BOOLEAN
        /\ issued' = Issued(l, event, FALSE)
  /\ UNCHANGED <<up, last, latest, appends, edits>>

\* The process that holds l ends or dies.
Close(l) ==
  /\ up[l]
  /\ up' = [up EXCEPT ![l] = FALSE]
  /\ last' = [last EXCEPT ![l] = Genesis]
  /\ latest' = [latest EXCEPT ![l] = 0]
  /\ UNCHANGED <<fileVars, issued, appends, edits, tears>>

-----------------------------------------------------------------------------
(* Someone else edits the file. *)

Edit(file) ==
  /\ edits + tears < MaxFaults
  /\ edits' = edits + 1
  /\ lines' = file
  /\ UNCHANGED <<up, last, issued, latest, appends, tears>>

\* The signatures there are to put into a line.
Signatures ==
  {Genesis, <<Forged>>} \cup {issued[w].record.sig : w \in 1 .. Len(issued)}

EditEvent(i, event) ==
  /\ Whole(i) /\ lines[i][1].event # event
  /\ Edit([lines EXCEPT ![i] = <<[lines[i][1] EXCEPT !.event = event]>>])
  /\ UNCHANGED open

EditSig(i, sig) ==
  /\ Whole(i) /\ lines[i][1].sig # sig
  /\ Edit([lines EXCEPT ![i] = <<[lines[i][1] EXCEPT !.sig = sig]>>])
  /\ UNCHANGED open

EditPrevSig(i, sig) ==
  /\ Whole(i) /\ lines[i][1].prev_sig # sig
  /\ Edit([lines EXCEPT ![i] = <<[lines[i][1] EXCEPT !.prev_sig = sig]>>])
  /\ UNCHANGED open

Remove(i) ==
  /\ Edit([k \in 1 .. Len(lines) - 1 |-> IF k < i THEN lines[k] ELSE lines[k + 1]])
  /\ open' = (open /\ i < Len(lines))

\* A copy of line j is inserted before line i.
Insert(i, j) ==
  /\ Edit([k \in 1 .. Len(lines) + 1 |->
             IF k < i THEN lines[k] ELSE IF k = i THEN lines[j] ELSE lines[k - 1]])
  /\ UNCHANGED open

Swap(i, j) ==
  /\ i < j
  /\ Edit([lines EXCEPT ![i] = lines[j], ![j] = lines[i]])
  /\ UNCHANGED open

Tamper(i) ==
  \/ \E e \in Events : EditEvent(i, e)
  \/ \E s \in Signatures : EditSig(i, s) \/ EditPrevSig(i, s)
  \/ Remove(i)
  \/ \E j \in 1 .. Len(lines) : Insert(i, j) \/ Swap(i, j)

Next ==
  \/ \E l \in Ledgers :
       \/ Open(l) \/ Close(l)
       \/ \E e \in Events : AppendRecord(l, e) \/ AppendFails(l, e)
  \/ \E i \in 1 .. Len(lines) : Tamper(i)

Spec == Init /\ [][Next]_vars

-----------------------------------------------------------------------------
(* Properties *)

\* How many lines verify_ledger takes before it reports one.
Accepted == LET k == Verify IN IF k = 0 THEN Len(lines) ELSE k - 1

\* verify_ledger knows the file only, yet the lines it accepts are records that
\* append wrote, each unchanged and behind the line it was chained to: one that
\* was written before it, and the very one its object had appended last.  So no
\* line that was edited, invented, moved or taken from another place is
\* accepted, and nothing was deleted between two that are, whatever was edited,
\* by restarts or failed appends signed over, and put back.
AcceptedWasAppended ==
  Parses =>
    LET file == Records IN
    \A i \in 1 .. Accepted :
      /\ \E w \in 1 .. Len(issued) : issued[w].record = file[i]
      /\ \A w \in 1 .. Len(issued) : issued[w].record = file[i] =>
           /\ i > 1 => \E v \in 1 .. w - 1 : issued[v].record = file[i - 1]
           /\ issued[w].after # 0 =>
                i > 1 /\ issued[issued[w].after].record = file[i - 1]

\* While nobody edits the file, and as long as it parses, it holds every record
\* append returned for, in order, and beside them at most one for each append
\* that failed.
AppendsKept ==
  edits = 0 /\ Parses =>
    /\ Records = [i \in 1 .. Len(issued) |-> issued[i].record]
    /\ Len(lines) <= appends + tears

\* A file nobody edited is reported at most for what the ledgers did to it: the
\* line before was written by an append that did not return, or by another
\* object than the line reported.
AlarmsExplained ==
  edits = 0 /\ Parses /\ Verify # 0 =>
    /\ Verify > 1
    /\ \/ ~issued[Verify - 1].returned
       \/ issued[Verify - 1].by # issued[Verify].by

-----------------------------------------------------------------------------
(* What the documentation says, and the code does not do. *)

\* verify "re-walks the file and reports the first tampered line"; it raises.
VerifyReports == Parses

\* A line is reported as tampered only if someone tampered with the file.
NoFalseAlarm == edits = 0 /\ Parses => Verify = 0
=============================================================================
