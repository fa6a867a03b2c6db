----------------------------- MODULE MCForgeApp -----------------------------
(* Instances of ForgeApp, with ForgeResolver, for TLC. *)
EXTENDS ForgeApp
=============================================================================
