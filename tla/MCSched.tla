------------------------------ MODULE MCSched ------------------------------
(***************************************************************************)
(* DRAMCacheSched on small buffers.                                        *)
(***************************************************************************)
EXTENDS DRAMCacheSched
=============================================================================
