----------------------------- MODULE MCKeyLedger -----------------------------
(* Instances of KeyLedger for TLC. *)
EXTENDS KeyLedger, TLC

\* Threads are interchangeable, and so are keys.
LedgerSymmetry == Permutations(Workers) \cup Permutations(Keys)
=============================================================================
