----------------------------- MODULE MCResilient -----------------------------
(* Instances of Resilient for TLC. *)
EXTENDS Resilient, TLC

\* Callers of the same kind are interchangeable; used without liveness only.
CallerSymmetry == Permutations(AsyncCallers)
=============================================================================
