------------------------------- MODULE MCPort -------------------------------
(***************************************************************************)
(* Instances of DRAMCachePort.                                             *)
(***************************************************************************)
EXTENDS DRAMCachePort
=============================================================================
