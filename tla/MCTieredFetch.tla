---------------------------- MODULE MCTieredFetch ----------------------------
(* Instances of TieredFetch, with SafeFetch, for TLC. *)
EXTENDS TieredFetch
=============================================================================
