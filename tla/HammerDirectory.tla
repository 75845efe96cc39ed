--------------------------- MODULE HammerDirectory ---------------------------
(***************************************************************************)
(* The transition tables of the VI_hammer directory (VI_hammer-dir.sm), in *)
(* the form of HammerCache's: one row per (state, event) that has a        *)
(* transition.  "wake" is k_wakeUpDependents, which puts every request and *)
(* DMA request the directory has stalled back into its queue.              *)
(*                                                                         *)
(* Probe filter and full-bit directory are off, as in the repository's     *)
(* scripts, so Pf_Replacement and the states O_R, S_R and NO_R are left    *)
(* out, and NX, NO and S differ only in what they record about the owner.  *)
(***************************************************************************)
EXTENDS HammerCache

\* Some cache owns the block.
NotOwner == {"NX", "NO", "S"}

\* The directory owns the block: memory is up to date.
DirOwner == {"O", "E"}

\* A transaction is in progress and requests wait for its end.
Blocked == {"NO_B_X", "O_B", "NO_DR_B_W", "NO_DW_B_W", "NO_B_W", "NO_DR_B_D",
            "NO_DR_B", "O_DR_B", "O_B_W", "O_DR_B_W", "NO_DW_W", "NO_B_S_W",
            "NO_W", "O_W", "WB", "WB_E_W", "WB_O_W", "NO_F_W"}

DirStates == NotOwner \cup DirOwner \cup Blocked \cup {"NO_B", "NO_B_S", "NO_F"}

(***************************************************************************)
(* Requests.  "fetch" reads memory, whose answer will be DATA ("fetchX":   *)
(* DATA_EXCLUSIVE), and forwards the request to every other cache;         *)
(* "forward" only forwards it; "merge" adds a GETS to the ones the new     *)
(* owner will answer together.                                             *)
(***************************************************************************)
DirRequests == UNION {
  Rows({"E"}, {"GETX", "GETS"}, "NO_B_W", {"fetchX"}),
  Rows({"E"}, {"GETF"}, "NO_F_W", {"fetchX"}),
  Rows({"O"}, {"GETX"}, "NO_B_W", {"fetch"}),
  Rows({"O"}, {"GETF"}, "NO_F_W", {"fetch"}),
  Rows({"O"}, {"GETS"}, "O_B_W", {"fetch"}),
  Rows(NotOwner, {"GETX", "GETS"}, "NO_B", {"forward"}),
  Rows(NotOwner, {"GETF"}, "NO_F", {"forward"}),
  Rows(NotOwner, {"PUT"}, "WB", {"WB_ACK"}),
  Rows(DirOwner, {"PUT"}, Same, {"WB_NACK"}),
  Rows(Blocked \cup {"NO_F"}, {"GETS", "GETX", "GETF", "PUT"}, Same, {"stall"}),
  Rows({"NO_B"}, {"GETX", "GETF"}, "NO_B_X", {"stall"}),
  Rows({"NO_B"}, {"PUT"}, Same, {"stall"}),
  Rows({"NO_B_S"}, {"GETX", "GETF", "PUT"}, Same, {"stall"}),
  Rows({"NO_B", "NO_B_S"}, {"GETS"}, "NO_B_S", {"merge"}),
  Rows({"NO_F"}, {"PUTF"}, "WB", {"WB_ACK"})}

\* DMA requests, forwarded to every cache as GETS or GETX.  The states with
\* the memory read still to come end in _W.  NO_F has no row.
DirDmaRequests == UNION {
  Rows({"E"}, {"DMA_READ"}, "NO_DR_B_W", {"GETS"}),
  Rows({"O"}, {"DMA_READ"}, "O_DR_B_W", {"GETS"}),
  Rows(NotOwner, {"DMA_READ"}, "NO_DR_B_D", {"GETS"}),
  Rows(NotOwner \cup DirOwner, {"DMA_WRITE"}, "NO_DW_B_W", {"GETX"}),
  Rows(Blocked \cup {"NO_B", "NO_B_S"}, {"DMA_READ", "DMA_WRITE"},
       Same, {"stall"})}

\* Mutant: a clean write-back wakes nobody.
WriteBackUnblocksQuiet == UNION {
  Rows({"WB"}, {"WB_DIRTY"}, "WB_O_W", {"memory"}),
  Rows({"WB"}, {"WB_EXCLUSIVE_DIRTY"}, "WB_E_W", {"memory"}),
  Rows({"WB"}, {"WB_CLEAN"}, "O", {"wake"}),
  Rows({"WB"}, {"WB_EXCLUSIVE_CLEAN"}, "E", {}),
  Rows({"WB"}, {"UNBLOCK"}, "NX", {"wake"})}

\* Mutant: the answer of a cache that has lost the block is forgotten.
WriteBackUnblocksPresent == UNION {
  Rows({"WB"}, {"WB_DIRTY"}, "WB_O_W", {"memory"}),
  Rows({"WB"}, {"WB_EXCLUSIVE_DIRTY"}, "WB_E_W", {"memory"}),
  Rows({"WB"}, {"WB_CLEAN"}, "O", {"wake"}),
  Rows({"WB"}, {"WB_EXCLUSIVE_CLEAN"}, "E", {"wake"})}

\* The second half of a write-back: the data, or word that the block has gone
\* to another cache meanwhile.
WriteBackUnblocks == UNION {
  Rows({"WB"}, {"WB_DIRTY"}, "WB_O_W", {"memory"}),
  Rows({"WB"}, {"WB_EXCLUSIVE_DIRTY"}, "WB_E_W", {"memory"}),
  Rows({"WB"}, {"WB_CLEAN"}, "O", {"wake"}),
  Rows({"WB"}, {"WB_EXCLUSIVE_CLEAN"}, "E", {"wake"}),
  Rows({"WB"}, {"UNBLOCK"}, "NX", {"wake"})}

\* Messages of the unblock network: the end of a request or of a write-back.
DirUnblocks == WriteBackUnblocks \cup UNION {
  Rows({"NO_B", "NO_B_X"}, {"UNBLOCKS"}, "NX", {"wake"}),
  Rows({"NO_B", "NO_B_X"}, {"UNBLOCKM"}, "NO", {"wake"}),
  Rows({"NO_B_S"}, {"UNBLOCKS", "UNBLOCKM"}, "NO_B_S_W", {"forwardMerged"}),
  Rows({"NO_B_S_W"}, {"UNBLOCKS"}, Same, {"count"}),
  Rows({"O_B"}, {"UNBLOCKS"}, "O", {"wake"}),
  Rows({"O_B"}, {"UNBLOCKM"}, "NO", {"wake"}),
  Rows({"NO_B_W"}, {"UNBLOCKS", "UNBLOCKM"}, "NO_W", {}),
  Rows({"O_B_W"}, {"UNBLOCKS"}, "O_W", {}),
  Rows({"NO_F"}, {"UNBLOCKM"}, Same, {})}

\* Answers of memory.  Only states with a memory access under way have a row.
DirMemory == UNION {
  Rows({"NO_B_W"}, {"Memory_Data"}, "NO_B", {"send"}),
  Rows({"NO_F_W"}, {"Memory_Data"}, "NO_F", {"send"}),
  Rows({"O_B_W"}, {"Memory_Data"}, "O_B", {"send"}),
  Rows({"NO_DR_B_W"}, {"Memory_Data"}, "NO_DR_B", {"record"}),
  Rows({"O_DR_B_W"}, {"Memory_Data"}, "O_DR_B", {"record", "send"}),
  Rows({"NO_W"}, {"Memory_Data"}, "NO", {"wake"}),
  Rows({"O_W"}, {"Memory_Data"}, "O", {"wake"}),
  Rows({"NO_DW_W"}, {"Memory_Ack"}, "E", {"ack", "wake"}),
  Rows({"WB_E_W"}, {"Memory_Ack"}, "E", {"wake"}),
  Rows({"WB_O_W"}, {"Memory_Ack"}, "O", {"wake"})}

\* Answers of the caches to a DMA request; "check" looks whether all have come.
DirResponses == UNION {
  Rows({"NO_DR_B", "O_DR_B", "NO_DR_B_D", "NO_DW_B_W"}, {"ACK"}, Same, {"check"}),
  Rows({"NO_DR_B_W", "O_DR_B_W"}, {"ACK", "ACK_SHARED"}, Same, {}),
  Rows({"O_DR_B", "NO_DR_B", "NO_DR_B_D"}, {"ACK_SHARED"}, Same, {"check"}),
  Rows({"NO_DR_B_W", "NO_DR_B", "NO_DR_B_D"}, {"DATA_SHARED"}, Same, {"check"}),
  Rows({"NO_DR_B_W"}, {"DATA", "DATA_EXCLUSIVE"}, Same, {}),
  Rows({"NO_DR_B", "NO_DR_B_D", "NO_DW_B_W"}, {"DATA", "DATA_EXCLUSIVE"},
       Same, {"check"})}

\* The last answer has come.  "send" answers the DMA engine from the TBE,
\* "memory" writes the TBE's data to memory, "dma" the DMA engine's.
DirTriggers == UNION {
  Rows({"NO_DR_B", "NO_DR_B_D"}, {"All_acks"}, "WB_O_W", {"send", "memory", "wake"}),
  Rows({"NO_DR_B", "NO_DR_B_D"}, {"All_acks_owner"}, "S", {"send", "wake"}),
  Rows({"NO_DR_B", "NO_DR_B_D"}, {"All_acks_no_sharers"}, "WB_E_W",
       {"send", "memory", "wake"}),
  Rows({"O_DR_B"}, {"All_acks"}, "WB_O_W", {"memory", "wake"}),
  Rows({"O_DR_B"}, {"All_acks_no_sharers"}, "WB_E_W", {"memory", "wake"}),
  Rows({"NO_DW_B_W"}, {"All_acks_no_sharers"}, "NO_DW_W", {"dma"}),
  Rows({"NO_B_S_W"}, {"All_Unblocks"}, "NX", {"wake"})}

=============================================================================
