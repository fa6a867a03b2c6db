---------------------------- MODULE MCScopePipeline ----------------------------
(* Instances of ScopePipeline for TLC. *)
EXTENDS ScopePipeline

CONSTANTS good, fine, bad

\* Two entities that are accepted, and one that is not, between them.
MCRequests == {<<good, bad, fine>>}
=============================================================================
