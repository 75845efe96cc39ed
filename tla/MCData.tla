------------------------------- MODULE MCData -------------------------------
(***************************************************************************)
(* Instances of DRAMCacheData: two blocks that share the only set.         *)
(***************************************************************************)
EXTENDS DRAMCacheData, TLC

\* Packets are interchangeable.
PacketSymmetry == Permutations(Packets)
=============================================================================
