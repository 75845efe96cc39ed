----------------------------- MODULE MCBlocking -----------------------------
(***************************************************************************)
(* Instances of DRAMCacheBlocking.                                         *)
(***************************************************************************)
EXTENDS DRAMCacheBlocking
=============================================================================
