----------------------------- MODULE HammerCache -----------------------------
(***************************************************************************)
(* The transition tables of the two coherent caches of the VI_hammer       *)
(* protocol: the private L1+L2 of a CPU (VI_hammer-CPUCache.sm) and the    *)
(* GPU's shared L2 (VI_hammer-GPUL2cache.sm).  A table is a set of rows,   *)
(* one row per (state, event) for which the SLICC file has a transition;   *)
(* an event that meets a state without a row is SLICC's "invalid           *)
(* transition", which stops the simulation.  The module has no variables:  *)
(* VIHammer composes the caches with the directory and the networks.       *)
(*                                                                         *)
(* The L1I and L1D arrays are one L1 here, so Ifetch is Load.  Left out,   *)
(* because nothing sends them in the broadcast configuration the           *)
(* repository's scripts build (no probe filter, no full-bit directory,     *)
(* more than one cache): INV, BLOCK_ACK, NC_DMA_GETS and silent acks.      *)
(***************************************************************************)
EXTENDS Naturals

Base == {"I", "S", "O", "M", "MM"}

\* A base state while the block moves from the L2 array to the L1 array, and
\* after it until the request that asked for the move has been served.
Moving == [I |-> "IT", S |-> "ST", O |-> "OT", M |-> "MT", MM |-> "MMT"]
Ready == [IT |-> "IR", ST |-> "SR", OT |-> "OR", MT |-> "MR", MMT |-> "MMR"]

Transfer == {"IT", "ST", "OT", "MT", "MMT"}
Locked == {"IR", "SR", "OR", "MR", "MMR"}
WriteBackStates == {"OI", "MI", "II"}
FlushStates == {"MI_F", "MM_F", "IM_F", "ISM_F", "SM_F", "OM_F", "MM_WF"}

GPUStates == Base \cup WriteBackStates
               \cup {"IM", "SM", "OM", "ISM", "M_W", "MM_W", "IS", "SS"}

CPUStates == GPUStates \cup Transfer \cup Locked \cup FlushStates

\* AccessPermission Read_Only or Read_Write: the states in which a processor
\* may be given the block's data.
Readable == {"S", "O", "M", "MM", "SR", "OR", "MR", "MMR",
             "SM", "OM", "ISM", "M_W", "MM_W", "SS"}

\* The states in which a Store completes without asking anyone.
Writable == {"M", "MM", "MR", "MMR", "M_W", "MM_W"}

Same == "same"

\* One row for every state of S and event of E.
Rows(S, E, to, does) ==
  {[st |-> s, ev |-> e, to |-> IF to = Same THEN s ELSE to, does |-> does] :
      s \in S, e \in E}

-----------------------------------------------------------------------------
(***************************************************************************)
(* What a row does is a set of effects.  In every table "wake" puts the    *)
(* requests this cache has stalled back into its queue.                    *)
(*                                                                         *)
(* Requests of the processor.  "hit" completes the request; GETS, GETX and *)
(* GETF are sent to the directory; "own" says that the sender owns the     *)
(* block and expects no data (p_decrementNumberOfMessagesByOne).           *)
(***************************************************************************)

GPUMandatory == UNION {
  Rows({"IM", "IS", "OI", "MI", "II"}, {"Load", "Store"}, Same, {"stall"}),
  Rows({"ISM", "SM", "OM", "SS"}, {"Store"}, Same, {"stall"}),
  Rows({"I"}, {"Store"}, "IM", {"GETX"}),
  Rows({"S", "MM", "O", "M", "SS", "M_W", "MM_W", "SM", "OM", "ISM"},
       {"Load"}, Same, {"hit"}),
  Rows({"MM", "MM_W"}, {"Store"}, Same, {"hit"}),
  Rows({"M"}, {"Store"}, "MM", {"hit"}),
  Rows({"M_W"}, {"Store"}, "MM_W", {"hit"}),
  Rows({"O"}, {"Store"}, "OM", {"GETX", "own"}),
  Rows({"S"}, {"Store"}, "SM", {"GETX"}),
  Rows({"I"}, {"Load"}, "IS", {"GETS"})}

CPUMandatory == UNION {
  Rows({"IM", "IM_F", "MM_WF", "SM", "SM_F", "ISM", "ISM_F", "OM", "OM_F",
        "IS", "SS", "OI", "MI", "II", "MI_F", "MM_F"} \cup Transfer,
       {"Store"}, Same, {"stall"}),
  Rows({"IM", "IM_F", "MM_WF", "SM", "SM_F", "ISM", "ISM_F", "OM", "OM_F",
        "IS", "SS", "OI", "MI", "II", "M_W", "MM_W", "MM_F", "MI_F"},
       {"Flush_line"}, Same, {"stall"}),
  Rows({"IM", "IS", "OI", "MI", "II", "MI_F", "MM_F", "OM_F", "IM_F", "ISM_F",
        "SM_F", "MM_WF"} \cup Transfer, {"Load"}, Same, {"stall"}),
  Rows({"I", "IR"}, {"Load"}, "IS", {"GETS"}),
  Rows({"I", "IR"}, {"Store"}, "IM", {"GETX"}),
  Rows({"I", "IR"}, {"Flush_line"}, "IM_F", {"GETF"}),
  Rows({"S", "SM", "ISM", "O", "OM", "SS", "MM_W", "M_W", "MM", "M"},
       {"Load"}, Same, {"hit"}),
  Rows({"SR"}, {"Load"}, "S", {"hit", "wake"}),
  Rows({"S", "SR"}, {"Store"}, "SM", {"GETX"}),
  Rows({"S", "SR"}, {"Flush_line"}, "SM_F", {"GETF"}),
  Rows({"OR"}, {"Load"}, "O", {"hit", "wake"}),
  Rows({"O", "OR"}, {"Store"}, "OM", {"GETX", "own"}),
  Rows({"O", "OR"}, {"Flush_line"}, "OM_F", {"GETF", "own"}),
  Rows({"MM"}, {"Store"}, "MM", {"hit"}),
  Rows({"MMR"}, {"Load", "Store"}, "MM", {"hit", "wake"}),
  Rows({"MM", "M", "MMR", "MR"}, {"Flush_line"}, "MM_F", {"GETF", "own"}),
  Rows({"M"}, {"Store"}, "MM", {"hit"}),
  Rows({"MR"}, {"Load"}, "M", {"hit", "wake"}),
  Rows({"MR"}, {"Store"}, "MM", {"hit", "wake"}),
  Rows({"MM_W", "M_W"}, {"Store"}, "MM_W", {"hit"})}

\* Mutant: an exclusive clean block is dropped in silence.
StableVictimSilent == UNION {
  Rows({"I", "S", "M"}, {"L2_Replacement"}, "I", {"drop", "wake"}),
  Rows({"O"}, {"L2_Replacement"}, "OI", {"PUT", "wake"}),
  Rows({"MM"}, {"L2_Replacement"}, "MI", {"PUT", "wake"})}

\* A request for another block picks this one as its victim: L2_Replacement
\* (the GPU's Replacement) throws the block out, L1_to_L2 moves it.
StableVictim == UNION {
  Rows({"I", "S"}, {"L2_Replacement"}, "I", {"drop", "wake"}),
  Rows({"O"}, {"L2_Replacement"}, "OI", {"PUT", "wake"}),
  Rows({"M", "MM"}, {"L2_Replacement"}, "MI", {"PUT", "wake"})}

GPUVictim == StableVictim \cup Rows(GPUStates \ Base, {"L2_Replacement"}, Same, {"stall"})

CPUVictim == StableVictim \cup UNION {
  Rows({"IM", "IM_F", "MM_WF", "SM", "SM_F", "ISM", "ISM_F", "OM", "OM_F",
        "IS", "SS", "OI", "MI", "II", "M_W", "MM_W"} \cup Transfer,
       {"L2_Replacement"}, Same, {"stall"}),
  Rows(CPUStates \ Base, {"L1_to_L2"}, Same, {"stall"}),
  Rows(Base, {"L1_to_L2"}, Same, {"move"})}

-----------------------------------------------------------------------------
(***************************************************************************)
(* Messages of the forward network: requests of other caches, which the    *)
(* block's state answers, and the directory's answer to a PUT.  The data   *)
(* messages are sent to the requestor; WB_EXCLUSIVE, WB and UNBLOCK to     *)
(* the directory.  "more" expects one more message: an owner that          *)
(* gave its data away must now be sent data.                               *)
(***************************************************************************)

\* Mutant: a shared copy outlives another cache's GETX.
SharedForwardKept == UNION {
  Rows({"S", "SM"}, {"Other_GETS"}, Same, {"ACK_SHARED"}),
  Rows({"S", "SM"}, {"Other_GETX"}, Same, {"ACK"})}

SharedForward == UNION {
  Rows({"S", "SM"}, {"Other_GETS"}, Same, {"ACK_SHARED"}),
  Rows({"S"}, {"Other_GETX"}, "I", {"ACK"}),
  Rows({"SM"}, {"Other_GETX"}, "IM", {"ACK"})}

GPUForward == SharedForward \cup UNION {
  Rows({"I", "IM", "IS", "II"}, {"Other_GETX", "Other_GETS"}, Same, {"ACK"}),
  Rows({"O"}, {"Other_GETX"}, "I", {"DATA"}),
  Rows({"O", "OM"}, {"Other_GETS", "Merged_GETS"}, Same, {"DATA_SHARED"}),
  Rows({"MM", "M"}, {"Other_GETX"}, "I", {"DATA_EXCLUSIVE"}),
  Rows({"MM"}, {"Other_GETS"}, "I", {"DATA_EXCLUSIVE"}),
  Rows({"M"}, {"Other_GETS"}, "O", {"DATA_SHARED"}),
  Rows({"MM", "M"}, {"Merged_GETS"}, "O", {"DATA_SHARED"}),
  Rows({"OM"}, {"Other_GETX"}, "IM", {"DATA", "more"}),
  Rows({"OI", "MI"}, {"Other_GETX"}, "II", {"DATA"}),
  Rows({"OI", "MI"}, {"Other_GETS", "Merged_GETS"}, "OI", {"DATA_SHARED"}),
  Rows({"MI"}, {"Writeback_Ack"}, "I", {"WB_EXCLUSIVE", "wake"}),
  Rows({"OI"}, {"Writeback_Ack"}, "I", {"WB", "wake"}),
  Rows({"II"}, {"Writeback_Ack"}, "I", {"UNBLOCK", "wake"}),
  Rows({"II"}, {"Writeback_Nack"}, "I", {"wake"})}

\* Mutant: a flush that waits for its block has no answer to other requests.
CPUForwardNoFlush == GPUForward \cup UNION {
  Rows({"MM"}, {"Other_GETS_No_Mig"}, "O", {"DATA_SHARED"}),
  Rows({"MI_F"}, {"Writeback_Ack"}, "I", {"WB_EXCLUSIVE", "wake"})}

\* What a CPU cache adds: the flush states, and a GETS that finds a block the
\* CPU wrote atomically (Other_GETS_No_Mig) leaves the owner its copy.
CPUForward == GPUForward \cup UNION {
  Rows({"IM_F"}, {"Other_GETX", "Other_GETS"}, Same, {"ACK"}),
  Rows({"SM_F"}, {"Other_GETS"}, Same, {"ACK_SHARED"}),
  Rows({"SM_F"}, {"Other_GETX"}, "IM_F", {"ACK"}),
  Rows({"OM_F"}, {"Other_GETX"}, "IM_F", {"DATA", "more"}),
  Rows({"OM_F"}, {"Other_GETS", "Merged_GETS"}, Same, {"DATA_SHARED"}),
  Rows({"MM_F"}, {"Other_GETX", "Other_GETS"}, "IM_F", {"DATA_EXCLUSIVE", "more"}),
  Rows({"MM_F"}, {"Merged_GETS"}, "OM_F", {"DATA_SHARED"}),
  Rows({"MM"}, {"Other_GETS_No_Mig"}, "O", {"DATA_SHARED"}),
  Rows({"MI_F"}, {"Writeback_Ack"}, "I", {"WB_EXCLUSIVE", "wake"})}

-----------------------------------------------------------------------------
(***************************************************************************)
(* Messages of the response network.  "write" stores the data, "verify"    *)
(* stores it after the assertion that it equals the copy at hand; "load"   *)
(* and "store" write it and complete the processor's request; "shared"     *)
(* records that another cache keeps a copy.                                *)
(***************************************************************************)

\* Mutant: the store is performed when the data comes, before the acks.
UpgradeResponseEarly == Rows({"SM"}, {"DATA", "DATA_EXCLUSIVE"}, "ISM", {"store"})

UpgradeResponse == Rows({"SM"}, {"DATA", "DATA_EXCLUSIVE"}, "ISM", {"verify"})

Response == UpgradeResponse \cup UNION {
  Rows({"IS", "SS", "M_W", "MM_W", "IM", "ISM", "SM", "OM"}, {"ACK"},
       Same, {"count"}),
  Rows({"IS", "SS"}, {"ACK_SHARED"}, Same, {"shared"}),
  Rows({"IS"}, {"DATA"}, "SS", {"load", "wake"}),
  Rows({"IS"}, {"DATA_SHARED"}, "SS", {"load", "shared", "wake"}),
  Rows({"IS"}, {"DATA_EXCLUSIVE"}, "M_W", {"load", "wake"}),
  Rows({"IM"}, {"DATA_EXCLUSIVE"}, "MM_W", {"store", "wake"})}

GPUResponse == Response \cup Rows({"IM"}, {"DATA"}, "ISM", {"write", "wake"})

CPUResponse == Response \cup UNION {
  Rows({"IM"}, {"DATA"}, "ISM", {"write"}),
  Rows({"IM_F", "MM_F", "SM_F", "ISM_F", "OM_F", "MM_WF"}, {"ACK"},
       Same, {"count"}),
  Rows({"IM_F"}, {"DATA"}, "ISM_F", {"write"}),
  Rows({"IM_F"}, {"DATA_EXCLUSIVE"}, "MM_WF", {"write"}),
  Rows({"SM_F"}, {"DATA", "DATA_EXCLUSIVE"}, "ISM_F", {"verify"})}

\* The trigger of the last message: the request is complete and the directory
\* is told.  ISM and OM perform their store only now.
GPUAllAcks == UNION {
  Rows({"SS"}, {"All_acks", "All_acks_no_sharers"}, "S", {"UNBLOCKS", "wake"}),
  Rows({"M_W"}, {"All_acks_no_sharers"}, "M", {"UNBLOCKM", "wake"}),
  Rows({"MM_W"}, {"All_acks_no_sharers"}, "MM", {"UNBLOCKM", "wake"}),
  Rows({"ISM"}, {"All_acks_no_sharers"}, "MM", {"store", "UNBLOCKM", "wake"}),
  Rows({"OM"}, {"All_acks", "All_acks_no_sharers"}, "MM", {"store", "UNBLOCKM", "wake"})}

CPUAllAcks == GPUAllAcks \cup UNION {
  Rows({"ISM_F", "MM_WF"}, {"All_acks_no_sharers"}, "MI_F", {"PUTF", "wake"}),
  Rows({"MM_F", "OM_F"}, {"All_acks", "All_acks_no_sharers"}, "MI_F", {"PUTF", "wake"})}

-----------------------------------------------------------------------------
(***************************************************************************)
(* The GPU's L1 (VI_hammer-GPUL1cache.sm), a write-through cache that      *)
(* nobody invalidates.  A row names the request it sends to the L2, or     *)
(* nothing.  A store or an atomic gives up the L1's copy, and a Load in V  *)
(* hits and changes nothing.                                               *)
(***************************************************************************)

GPUL1States == {"I", "V", "IV", "IA", "I_a"}

GPUL1Mandatory == UNION {
  Rows({"I", "V"}, {"Store"}, "IA", {"Store"}),
  Rows({"I", "V"}, {"Atomic"}, "I_a", {"Store"}),
  Rows({"I", "V"}, {"BypassLoad"}, "IA", {"Load"}),
  Rows({"I"}, {"Load"}, "IV", {"Load"}),
  Rows({"V"}, {"Replacement", "Flush_line"}, "I", {}),
  Rows({"V"}, {"FlashInv"}, "I", {})}

\* The L2's answer: Data to a Load, Write_Ack to a Store.
GPUL1Response == UNION {
  Rows({"IV"}, {"Load"}, "V", {}),
  Rows({"IA"}, {"Load", "Store"}, "I", {}),
  Rows({"I_a"}, {"Store"}, "I", {})}

-----------------------------------------------------------------------------
\* A table as a function: the rows of a state and an event.
Index(T) ==
  [s \in {r.st : r \in T} |-> [e \in {r.ev : r \in T} |->
     {r \in T : r.st = s /\ r.ev = e}]]

\* The rows of state s and event e, none where SLICC has no transition.
At(I, s, e) == IF s \in DOMAIN I /\ e \in DOMAIN I[s] THEN I[s][e] ELSE {}

=============================================================================
