---------------------------- MODULE MCOnchainSend ----------------------------
(* Instances of OnchainSend for TLC. *)
EXTENDS OnchainSend, TLC

\* Runs are interchangeable, and so are jobs; used without liveness only.
ClientSymmetry == Permutations(Clients) \cup Permutations(Jobs)
=============================================================================
