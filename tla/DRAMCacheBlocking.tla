------------------------- MODULE DRAMCacheBlocking -------------------------
(***************************************************************************)
(* The limits of the DRAM cache controller: MSHRs, targets of an MSHR and  *)
(* write buffers, the causes for which requests are refused, and the retry *)
(* that clearBlocked sends.                                                *)
(*                                                                         *)
(* The retry is a call: the requester sends the refused request before     *)
(* clearBlocked returns, in the middle of the handler that called it.      *)
(* frame is that handler's stack frame; while it is in use no other event  *)
(* runs.                                                                   *)
(*                                                                         *)
(* Reads that wait for their tag check are a count, and the block of one   *)
(* is chosen at its tag check; tags and data are in DRAMCacheData.  A      *)
(* request refused for want of room in the read or write queue leaves this *)
(* state alone (DRAMCacheSched has its retry).                             *)
(***************************************************************************)
EXTENDS Naturals, Integers, Sequences, FiniteSets

CONSTANTS
  Blocks,          \* blocks of memory
  NoBlock,         \* the block of a free MSHR
  NumMSHRs,        \* mshrs: the limit above which requests are refused
  ReadBufferSize,  \* read_buffer_size, which is also the reserve of MSHRs
  WriteBuffers,    \* write_buffers
  WriteReserve,    \* write_buffer_size + 500
  MaxReads,        \* the requester's limit on reads: number_of_TBEs
  MaxWrites,       \* bound on the writes waiting for their tag check
  NumTarget,       \* tgts_per_mshr
  MaxTargets       \* bound on the targets the requester causes an MSHR to have

PktCount == 2      \* DRAM_PKT_COUNT

ASSUME BlockingAssumption ==
  /\ IsFiniteSet(Blocks) /\ NoBlock \notin Blocks
  /\ NumMSHRs \in Nat \ {0} /\ ReadBufferSize \in Nat \ {0, 1}
  /\ WriteBuffers \in Nat \ {0} /\ WriteReserve \in Nat
  /\ MaxReads \in Nat \ {0} /\ MaxWrites \in Nat \ {0}
  /\ NumTarget \in Nat \ {0, 1} /\ MaxTargets \in Nat \ {0, 1}

VARIABLES
  mshrs,               \* block, number of targets and inService of each MSHR
  freeList,            \* the free MSHRs, last freed first
  noTargetMSHR,        \* the MSHR that ran out of targets, or 0
  pam,                 \* isHit and isPamComplete of each block's pamQueue entry
  reads,               \* reads without a pamQueue entry before their tag check
  writes,              \* writes before their tag check
  wb,                  \* allocated entries of the write buffer
  blocked,             \* the causes for which requests are refused
  cacheMustSendRetry,  \* a request was refused and waits for a retry
  frame                \* the handler that is running

vars == <<mshrs, freeList, noTargetMSHR, pam, reads, writes, wb, blocked,
          cacheMustSendRetry, frame>>

NumEntries == NumMSHRs + ReadBufferSize - 1
MSHRs == 1 .. NumEntries
Causes == {"NoMSHRs", "NoWBBuffers", "NoTargets"}
PamStates == {"none", "unknown", "complete", "hit", "miss"}
FreeMSHR == [blk |-> NoBlock, targets |-> 0, inService |-> "no"]
Idle == [at |-> "idle", then |-> "idle", mshr |-> 0, blk |-> NoBlock,
         wasFull |-> "no", cleared |-> "no"]

Init ==
  /\ mshrs = [m \in MSHRs |-> FreeMSHR]
  /\ freeList = [m \in MSHRs |-> m]
  /\ noTargetMSHR = 0
  /\ pam = [b \in Blocks |-> "none"]
  /\ reads = 0 /\ writes = 0 /\ wb = 0
  /\ blocked = {}
  /\ cacheMustSendRetry = "no"
  /\ frame = Idle

-----------------------------------------------------------------------------
(***************************************************************************)
(* Pieces of the handlers                                                  *)
(***************************************************************************)

\* MSHRQueue::allocated, isFull and findMatch.
allocated == NumEntries - Len(freeList)
isFull == allocated > NumEntries - ReadBufferSize
findMatch(b) == {m \in MSHRs : mshrs[m].blk = b}

\* Where the handler goes on once the retry, if any, has returned, and the
\* fill it still has to make.
Place(f) == IF f.at = "retry" THEN f.then ELSE f.at
Pend(f) == IF Place(f) = "pamFill" THEN 1 ELSE 0

\* Every waiting read, MSHR and fill to come stands for a read the requester
\* keeps a TBE for, and it has MaxReads of them.
Outstanding == allocated + reads + Pend(frame)

\* The reads that made a pamQueue entry and wait for their tag check.
PamReads == {b \in Blocks : pam[b] \in {"unknown", "complete"}}

\* Mutant: the bursts of the new read are not counted.
readQueueFullOld == reads + Cardinality(PamReads) > ReadBufferSize

\* readQueueFull: every read before its tag check has a burst in the queues.
readQueueFull ==
  reads + Cardinality(PamReads) + PktCount > ReadBufferSize

\* Mutant: the MSHR stays on the free list.
allocateMissBufferKeep(b) ==
  /\ mshrs' = [mshrs EXCEPT ![Head(freeList)] =
                 [blk |-> b, targets |-> 1, inService |-> "no"]]
  /\ UNCHANGED freeList
  /\ blocked' = IF allocated + 1 > NumEntries - ReadBufferSize
                THEN blocked \cup {"NoMSHRs"} ELSE blocked

\* allocateMissBuffer: an MSHR with one target, and setBlocked when it was the last.
allocateMissBuffer(b) ==
  /\ mshrs' = [mshrs EXCEPT ![Head(freeList)] =
                 [blk |-> b, targets |-> 1, inService |-> "no"]]
  /\ freeList' = Tail(freeList)
  /\ blocked' = IF allocated + 1 > NumEntries - ReadBufferSize
                THEN blocked \cup {"NoMSHRs"} ELSE blocked

\* allocateTarget, and setBlocked when the MSHR has all its targets.
Coalesce(m) ==
  /\ mshrs' = [mshrs EXCEPT ![m].targets = @ + 1]
  /\ IF mshrs[m].targets + 1 = NumTarget
     THEN noTargetMSHR' = m /\ blocked' = blocked \cup {"NoTargets"}
     ELSE UNCHANGED <<noTargetMSHR, blocked>>

deallocate(m) ==
  /\ mshrs' = [mshrs EXCEPT ![m] = FreeMSHR]
  /\ freeList' = <<m>> \o freeList

\* Mutant: a full write buffer refuses no request.
BlockedWBNever(n) == blocked

\* allocateWriteBuffer, of n entries: the causes after it.
BlockedWB(n) ==
  IF n = 1 /\ wb + 1 >= WriteBuffers THEN blocked \cup {"NoWBBuffers"} ELSE blocked

\* Mutant: the retry is not sent.
clearBlockedNoRetry(bs, c, f) == blocked' = bs \ {c} /\ frame' = f

\* clearBlocked of cause c when the causes are bs, in the handler with frame f:
\* the retry is sent before f continues.
clearBlocked(bs, c, f) ==
  /\ blocked' = bs \ {c}
  /\ frame' = IF bs \ {c} = {} /\ cacheMustSendRetry = "yes"
              THEN [f EXCEPT !.at = "retry", !.then = f.at] ELSE f

\* Mutant: no clearBlocked.
MadeRoomNever(wasFull, bs, f) == blocked' = bs /\ frame' = f

\* The end of a handler that deallocated an MSHR: clearBlocked if that made room.
MadeRoom(wasFull, bs, f) ==
  IF wasFull = "yes" /\ allocated - 1 <= NumEntries - ReadBufferSize
  THEN clearBlocked(bs, "NoMSHRs", f)
  ELSE blocked' = bs /\ frame' = f

Full == IF isFull THEN "yes" ELSE "no"

-----------------------------------------------------------------------------
(***************************************************************************)
(* recvTimingReq, as an event of its own or inside a retry                 *)
(***************************************************************************)

Calls == \/ frame.at = "idle" /\ cacheMustSendRetry = "no"
         \/ frame.at = "retry"

\* The request returns; clearBlocked then forgets the retry and returns too.
Returns ==
  /\ cacheMustSendRetry' = "no"
  /\ frame' = [frame EXCEPT !.at = IF @ = "retry" THEN frame.then ELSE @]

RecvRefused ==
  /\ Calls /\ blocked # {}
  /\ cacheMustSendRetry' = IF frame.at = "retry" THEN "no" ELSE "yes"
  /\ frame' = [frame EXCEPT !.at = IF @ = "retry" THEN frame.then ELSE @]
  /\ UNCHANGED <<mshrs, freeList, noTargetMSHR, pam, reads, writes, wb, blocked>>

RecvCoalesce(m) ==
  /\ Calls /\ blocked = {}
  /\ mshrs[m].targets \in 1 .. MaxTargets - 1
  /\ Coalesce(m)
  /\ Returns
  /\ UNCHANGED <<freeList, pam, reads, writes, wb>>

\* A read the write buffer or the fill queue answers, or the queues refuse.
RecvServed ==
  /\ Calls /\ blocked = {}
  /\ Returns
  /\ UNCHANGED <<mshrs, freeList, noTargetMSHR, pam, reads, writes, wb, blocked>>

RecvBypass(b) ==
  /\ Calls /\ blocked = {}
  /\ Outstanding < MaxReads
  /\ findMatch(b) = {}
  /\ allocateMissBuffer(b)
  /\ Returns
  /\ UNCHANGED <<noTargetMSHR, pam, reads, writes, wb>>

RecvRead ==
  /\ Calls /\ blocked = {}
  /\ Outstanding < MaxReads /\ ~readQueueFull
  /\ reads' = reads + 1
  /\ Returns
  /\ UNCHANGED <<mshrs, freeList, noTargetMSHR, pam, writes, wb, blocked>>

\* A read predicted to miss: the MSHR of its parallel access comes at once.
RecvReadPam(b) ==
  /\ Calls /\ blocked = {}
  /\ Outstanding < MaxReads /\ ~readQueueFull
  /\ findMatch(b) = {} /\ pam[b] = "none"
  /\ allocateMissBuffer(b)
  /\ pam' = [pam EXCEPT ![b] = "unknown"]
  /\ Returns
  /\ UNCHANGED <<noTargetMSHR, reads, writes, wb>>

RecvWrite ==
  /\ Calls /\ blocked = {}
  /\ writes < MaxWrites
  /\ writes' = writes + 1
  /\ Returns
  /\ UNCHANGED <<mshrs, freeList, noTargetMSHR, pam, reads, wb, blocked>>

-----------------------------------------------------------------------------
(***************************************************************************)
(* Tag checks: processRespondEvent and processWriteRespondEvent            *)
(***************************************************************************)

SerialHit ==
  /\ frame.at = "idle" /\ reads > 0
  /\ reads' = reads - 1
  /\ UNCHANGED <<mshrs, freeList, noTargetMSHR, pam, writes, wb, blocked,
                 cacheMustSendRetry, frame>>

\* Mutant: a miss allocates an MSHR without looking for one.
SerialMissAlloc(b) ==
  /\ frame.at = "idle" /\ reads > 0
  /\ reads' = reads - 1
  /\ allocateMissBuffer(b)
  /\ UNCHANGED <<noTargetMSHR, pam, writes, wb, cacheMustSendRetry, frame>>

\* A miss joins the block's MSHR or allocates one.
SerialMiss(b) ==
  /\ frame.at = "idle" /\ reads > 0
  /\ reads' = reads - 1
  /\ \/ /\ findMatch(b) = {}
        /\ allocateMissBuffer(b)
        /\ UNCHANGED noTargetMSHR
     \/ /\ \E m \in findMatch(b) : mshrs[m].targets < MaxTargets /\ Coalesce(m)
        /\ UNCHANGED freeList
  /\ UNCHANGED <<pam, writes, wb, cacheMustSendRetry, frame>>

\* A hit before memory answered: the MSHR is deallocated and, when nothing was
\* sent to memory, the pamQueue entry is erased after clearBlocked.
PamHit(m) ==
  /\ frame.at = "idle" /\ mshrs[m].blk # NoBlock /\ pam[mshrs[m].blk] = "unknown"
  /\ pam' = [pam EXCEPT ![mshrs[m].blk] = "hit"]
  /\ deallocate(m)
  /\ MadeRoom(Full, blocked,
              [Idle EXCEPT !.at = IF mshrs[m].inService = "yes" THEN "idle"
                                                                ELSE "pamErase",
                           !.blk = mshrs[m].blk])
  /\ UNCHANGED <<noTargetMSHR, reads, writes, wb, cacheMustSendRetry>>

PamErase ==
  /\ frame.at = "pamErase"
  /\ pam' = [pam EXCEPT ![frame.blk] = "none"]
  /\ frame' = Idle
  /\ UNCHANGED <<mshrs, freeList, noTargetMSHR, reads, writes, wb, blocked,
                 cacheMustSendRetry>>

\* A miss before memory answered: the read joins the MSHR, whatever its targets.
PamMiss(m) ==
  /\ frame.at = "idle" /\ mshrs[m].blk # NoBlock /\ pam[mshrs[m].blk] = "unknown"
  /\ pam' = [pam EXCEPT ![mshrs[m].blk] = "miss"]
  /\ mshrs' = [mshrs EXCEPT ![m].targets = @ + 1]
  /\ UNCHANGED <<freeList, noTargetMSHR, reads, writes, wb, blocked,
                 cacheMustSendRetry, frame>>

\* A tag check after memory answered; on a miss the fill may evict (n = 1).
PamDone(m, n) ==
  /\ frame.at = "idle" /\ mshrs[m].blk # NoBlock /\ pam[mshrs[m].blk] = "complete"
  /\ pam' = [pam EXCEPT ![mshrs[m].blk] = "none"]
  /\ wb' = wb + n
  /\ deallocate(m)
  /\ MadeRoom(Full, BlockedWB(n), Idle)
  /\ UNCHANGED <<noTargetMSHR, reads, writes, cacheMustSendRetry>>

\* The tag check of a write: one that misses goes to the write buffer (n = 1).
WriteDone(n) ==
  /\ frame.at = "idle" /\ writes > 0
  /\ writes' = writes - 1
  /\ wb' = wb + n
  /\ blocked' = BlockedWB(n)
  /\ UNCHANGED <<mshrs, freeList, noTargetMSHR, pam, reads, cacheMustSendRetry,
                 frame>>

-----------------------------------------------------------------------------
(***************************************************************************)
(* The memory side: sendDeferredPacket and recvTimingResp                  *)
(***************************************************************************)

SendMiss(m) ==
  /\ frame.at = "idle" /\ mshrs[m].targets > 0 /\ mshrs[m].inService = "no"
  /\ mshrs' = [mshrs EXCEPT ![m].inService = "yes"]
  /\ UNCHANGED <<freeList, noTargetMSHR, pam, reads, writes, wb, blocked,
                 cacheMustSendRetry, frame>>

Sent(m, states) ==
  /\ frame.at = "idle"
  /\ mshrs[m].inService = "yes" /\ pam[mshrs[m].blk] \in states

\* The answer of a parallel access before the tag check: its data is kept.
AnswerUnknown(m) ==
  /\ Sent(m, {"unknown"})
  /\ pam' = [pam EXCEPT ![mshrs[m].blk] = "complete"]
  /\ UNCHANGED <<mshrs, freeList, noTargetMSHR, reads, writes, wb, blocked,
                 cacheMustSendRetry, frame>>

\* The answer of a parallel access that hit: its MSHR has gone already.
AnswerOrphan(b) ==
  /\ frame.at = "idle" /\ pam[b] = "hit"
  /\ pam' = [pam EXCEPT ![b] = "none"]
  /\ UNCHANGED <<mshrs, freeList, noTargetMSHR, reads, writes, wb, blocked,
                 cacheMustSendRetry, frame>>

\* Any other answer starts by clearing Blocked_NoTargets, if it is this MSHR's.
Answer(m) ==
  /\ Sent(m, {"none", "miss"})
  /\ LET f == [at |-> IF pam[mshrs[m].blk] = "miss" THEN "pamFree" ELSE "serialFree",
               then |-> "idle", mshr |-> m, blk |-> mshrs[m].blk,
               wasFull |-> Full, cleared |-> IF m = noTargetMSHR THEN "yes" ELSE "no"]
     IN IF m = noTargetMSHR THEN clearBlocked(blocked, "NoTargets", f)
                            ELSE blocked' = blocked /\ frame' = f
  /\ UNCHANGED <<mshrs, freeList, noTargetMSHR, pam, reads, writes, wb,
                 cacheMustSendRetry>>

\* noTargetMSHR is reset after the retry.
ResetNoTarget ==
  noTargetMSHR' = IF frame.cleared = "yes" THEN 0 ELSE noTargetMSHR

\* An ordinary miss: the fill may evict, then the MSHR is deallocated.
SerialFree(n) ==
  /\ frame.at = "serialFree"
  /\ ResetNoTarget
  /\ wb' = wb + n
  /\ deallocate(frame.mshr)
  /\ MadeRoom(frame.wasFull, BlockedWB(n), Idle)
  /\ UNCHANGED <<pam, reads, writes, cacheMustSendRetry>>

\* A parallel access that missed: the MSHR goes first, and the fill comes after
\* the retry that may follow.
PamFree ==
  /\ frame.at = "pamFree"
  /\ ResetNoTarget
  /\ deallocate(frame.mshr)
  /\ MadeRoom(frame.wasFull, blocked, [frame EXCEPT !.at = "pamFill"])
  /\ UNCHANGED <<pam, reads, writes, wb, cacheMustSendRetry>>

PamFill(n) ==
  /\ frame.at = "pamFill"
  /\ wb' = wb + n
  /\ blocked' = BlockedWB(n)
  /\ pam' = [pam EXCEPT ![frame.blk] = "none"]
  /\ frame' = Idle
  /\ UNCHANGED <<mshrs, freeList, noTargetMSHR, reads, writes, cacheMustSendRetry>>

\* A write-back is answered.
AnswerWriteBack ==
  /\ frame.at = "idle" /\ wb > 0
  /\ wb' = wb - 1
  /\ IF wb = WriteBuffers THEN clearBlocked(blocked, "NoWBBuffers", Idle)
                          ELSE UNCHANGED <<blocked, frame>>
  /\ UNCHANGED <<mshrs, freeList, noTargetMSHR, pam, reads, writes,
                 cacheMustSendRetry>>

RecvTimingReq ==
  \/ RecvRefused \/ RecvServed \/ RecvRead \/ RecvWrite
  \/ \E m \in MSHRs : RecvCoalesce(m)
  \/ \E b \in Blocks : RecvBypass(b) \/ RecvReadPam(b)

SerialRespond == SerialHit \/ \E b \in Blocks : SerialMiss(b)

PamRespond(m) == PamHit(m) \/ PamMiss(m) \/ \E n \in {0, 1} : PamDone(m, n)

RecvTimingResp(m) == AnswerUnknown(m) \/ Answer(m)

Continue ==
  PamErase \/ PamFree \/ \E n \in {0, 1} : SerialFree(n) \/ PamFill(n)

Next ==
  \/ RecvTimingReq
  \/ SerialRespond
  \/ \E n \in {0, 1} : WriteDone(n)
  \/ \E m \in MSHRs : PamRespond(m) \/ SendMiss(m) \/ RecvTimingResp(m)
  \/ \E b \in Blocks : AnswerOrphan(b)
  \/ Continue
  \/ AnswerWriteBack

Spec == Init /\ [][Next]_vars

\* A handler runs to its end, the retry's request included; a queued read gets
\* its tag check; a miss is sent and answered.  Write-backs are answered: once
\* requests are refused no miss is left to be favoured.
FairSpec ==
  /\ Spec
  /\ WF_vars(Continue) /\ WF_vars(frame.at = "retry" /\ RecvTimingReq)
  /\ WF_vars(SerialRespond) /\ WF_vars(AnswerWriteBack)
  /\ \A m \in MSHRs : /\ WF_vars(PamRespond(m)) /\ WF_vars(SendMiss(m))
                      /\ WF_vars(RecvTimingResp(m))
  /\ \A b \in Blocks : WF_vars(AnswerOrphan(b))

-----------------------------------------------------------------------------
(***************************************************************************)
(* Properties                                                              *)
(***************************************************************************)

Places == {"idle", "retry", "pamErase", "serialFree", "pamFree", "pamFill"}

TypeOK ==
  /\ mshrs \in [MSHRs -> [blk : Blocks \cup {NoBlock}, targets : Nat,
                          inService : {"no", "yes"}]]
  /\ freeList \in Seq(MSHRs) /\ Len(freeList) <= NumEntries
  /\ noTargetMSHR \in MSHRs \cup {0}
  /\ pam \in [Blocks -> PamStates]
  /\ reads \in Nat /\ writes \in 0 .. MaxWrites /\ wb \in Nat
  /\ blocked \subseteq Causes
  /\ cacheMustSendRetry \in {"no", "yes"}
  /\ frame \in [at : Places, then : Places, mshr : MSHRs \cup {0},
                blk : Blocks \cup {NoBlock}, wasFull : {"no", "yes"},
                cleared : {"no", "yes"}]

\* The assertion !freeList.empty() of MSHRQueue::allocate for the MSHRs: the
\* reserve of read_buffer_size has an entry for every read accepted before the
\* queue was full, and one more for a request that is accepted.
FreeListSuffices ==
  /\ reads <= Len(freeList)
  /\ blocked = {} => reads < Len(freeList)

\* The same assertion for the write buffer: a reserve of one entry for every
\* read the requester can have outstanding, whose fill may evict, and for every
\* write, lasts from the time requests are refused until they are accepted.
WriteBufferSuffices ==
  MaxReads + MaxWrites <= WriteReserve => wb <= WriteBuffers + WriteReserve - 1

\* The free list has no MSHR twice and none in use, so that MSHRQueue::allocate
\* finds "mshr->getNumTargets() == 0" whichever handler deallocated it: the tag
\* check or the answer, and with a retry's request in between.
FreeListExact ==
  /\ \A i, j \in 1 .. Len(freeList) : freeList[i] = freeList[j] => i = j
  /\ \A i \in 1 .. Len(freeList) : mshrs[freeList[i]].blk = NoBlock

\* The findMatch of the handlers is enough for a block to have one MSHR.
OneMSHRPerBlock ==
  \A m1, m2 \in MSHRs :
    mshrs[m1].blk = mshrs[m2].blk /\ mshrs[m1].blk # NoBlock => m1 = m2

\* "cache is blocked due to MSHRs being full" (recvTimingReq): between handlers,
\* a cause is set only while it lasts.
BlockedForCause ==
  frame.at = "idle" =>
    /\ "NoMSHRs" \in blocked => isFull
    /\ "NoWBBuffers" \in blocked => wb >= WriteBuffers
    /\ "NoTargets" \in blocked =>
         \E m \in MSHRs : m = noTargetMSHR /\ mshrs[m].targets >= NumTarget

\* A request that was refused is asked for again.
RetrySent == cacheMustSendRetry = "yes" ~> cacheMustSendRetry = "no"
=============================================================================
