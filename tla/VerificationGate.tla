--------------------------- MODULE VerificationGate ---------------------------
(***************************************************************************)
(* build_gate and VerificationGate                                         *)
(* (python/src/cubiczan_resilience/verification_gate.py), and a report     *)
(* whose checks add to a list of violations the gate is built from, as     *)
(* often as the report is rendered; the gate also leaves as a dict, which  *)
(* its receiver may change and build a gate from again.                    *)
(*                                                                         *)
(* A violation is "gap", a sentence, or "blank", which strip() leaves      *)
(* nothing of.                                                             *)
(***************************************************************************)
EXTENDS Integers, Sequences, Filtered

CONSTANT MaxFound   \* bound: entries of the list

ASSUME GateAssumption == MaxFound \in Nat

VARIABLES
  found,     \* the list the checks append to
  gate,      \* the report's gate, or NoGate
  dict,      \* what to_dict returned, as its receiver left it, or NoGate
  received   \* the gate its receiver built from it, or NoGate

gateVars == <<found, gate, dict, received>>

PENALTY_PER_VIOLATION == 12
CONFIDENCE_FLOOR == 50

Gate == [status : {"CLEAR", "REQUIRES_HUMAN_VERIFICATION"},
         confidence : 0 .. 100,
         violations : Seq({"gap"})]

NoGate == [status |-> "none", confidence |-> 0, violations |-> <<>>]

Hint == {"None", "floor"}

-----------------------------------------------------------------------------
(* build_gate *)

Cleaned(violations) == Kept(violations, {"gap"})

Confidence(n, h) ==
  LET scored == 100 - PENALTY_PER_VIOLATION * n
  IN  IF h = "floor" \/ scored < CONFIDENCE_FLOOR THEN CONFIDENCE_FLOOR ELSE scored

\* Slip: the hint is obeyed before the list is looked at.
BuildGate_HintFirst(violations, h) ==
  LET cleaned == Cleaned(violations) IN
  IF cleaned = <<>> /\ h = "None"
    THEN [status |-> "CLEAR", confidence |-> 100, violations |-> <<>>]
    ELSE [status |-> "REQUIRES_HUMAN_VERIFICATION",
          confidence |-> Confidence(Len(cleaned), h), violations |-> cleaned]

BuildGate(violations, h) ==
  LET cleaned == Cleaned(violations) IN
  IF cleaned = <<>>
    THEN [status |-> "CLEAR", confidence |-> 100, violations |-> <<>>]
    ELSE [status |-> "REQUIRES_HUMAN_VERIFICATION",
          confidence |-> Confidence(Len(cleaned), h), violations |-> cleaned]

-----------------------------------------------------------------------------
GateInit ==
  /\ found = <<>>
  /\ gate = NoGate
  /\ dict = NoGate
  /\ received = NoGate

\* A check of the report adds an entry.
Report(v) ==
  /\ Len(found) < MaxFound
  /\ found' = Append(found, v)
  /\ UNCHANGED <<gate, dict, received>>

\* The report is rendered with a gate of its own; an unknown hint raises.
Build(h) ==
  /\ h \in Hint
  /\ gate' = BuildGate(found, h)
  /\ UNCHANGED <<found, dict, received>>

\* to_dict copies.
ToDict ==
  /\ gate # NoGate
  /\ dict' = gate
  /\ UNCHANGED <<found, gate, received>>

\* The receiver appends to the copy, or builds a gate from it.
ReceiverAdds(v) ==
  /\ dict # NoGate
  /\ Len(dict.violations) < MaxFound
  /\ dict' = [dict EXCEPT !.violations = Append(@, v)]
  /\ UNCHANGED <<found, gate, received>>

ReceiverBuilds ==
  /\ dict # NoGate
  /\ received' = BuildGate(dict.violations, "None")
  /\ UNCHANGED <<found, gate, dict>>

GateNext ==
  \/ \E v \in {"gap", "blank"} : Report(v) \/ ReceiverAdds(v)
  \/ \E h \in Hint : Build(h)
  \/ ToDict
  \/ ReceiverBuilds

GateSpec == GateInit /\ [][GateNext]_gateVars

-----------------------------------------------------------------------------
(* Properties *)

\* Whatever list a gate was built from and by whom: it is CLEAR exactly when it
\* names no violation and is fully confident, names no blank, and is never less
\* confident than the floor.
GateConsistent ==
  \A g \in {gate, received} \ {NoGate} :
    /\ g \in Gate
    /\ g.confidence >= CONFIDENCE_FLOOR
    /\ (g.status = "CLEAR") = (g.violations = <<>>)
    /\ (g.status = "CLEAR") = (g.confidence = 100)
=============================================================================
