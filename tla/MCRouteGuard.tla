---------------------------- MODULE MCRouteGuard ----------------------------
(* Instances of RouteGuard for TLC. *)
EXTENDS RouteGuard, TLC

\* Clients are interchangeable.
GuardSymmetry == Permutations(Clients)
=============================================================================
