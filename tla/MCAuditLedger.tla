---------------------------- MODULE MCAuditLedger ----------------------------
(* Instances of AuditLedger for TLC. *)
EXTENDS AuditLedger, TLC

\* Contents are interchangeable, and so are ledger objects.
AuditSymmetry == Permutations(Events) \cup Permutations(Ledgers)
=============================================================================
