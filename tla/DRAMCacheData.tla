--------------------------- MODULE DRAMCacheData ---------------------------
(***************************************************************************)
(* Tags, data and memory traffic of the DRAM cache controller: what a read *)
(* returns, what an eviction writes back, and how the parallel memory      *)
(* accesses of the MAP-I predictor interleave with the tag check.          *)
(*                                                                         *)
(* The functional contents of a block live in one place, physMem, which    *)
(* both access() of the cache and the main memory controller read and      *)
(* write.  A write is applied to it on arrival; a write-back carries a     *)
(* snapshot that main memory applies when it is sent.  A value is the      *)
(* number of the write that produced it.                                   *)
(*                                                                         *)
(* A DRAM access of the cache completes at any time after the request is   *)
(* queued (DRAMCacheSched has the scheduling), queues have room (the       *)
(* blocking is in DRAMCacheBlocking), and the requester obeys the VI_hammer*)
(* directory's contract: MaxPerBlock requests of a block outstanding, and  *)
(* a write alone.                                                          *)
(*                                                                         *)
(* An assert that fails, or an MSHR taken off the allocated list twice,    *)
(* ends the program: the action is not enabled.                            *)
(***************************************************************************)
EXTENDS Integers, Sequences, FiniteSets

CONSTANTS
  Blocks,          \* block numbers: address / dramCache_block_size
  NumSets,         \* dramCache_num_sets
  Packets,         \* addresses at which a request packet may be allocated
  Requesters,      \* who sends requests: "cpu", "gpu" (contextId 31) or both
  NumMSHRs,        \* entries of the MSHR queue, reserve included
  MaxPerBlock,     \* requests of one block outstanding
  MaxVersion,      \* bound on the writes of a block
  MAPI_PREDICTOR,  \* the build has the MAP-I predictor
  BypassMode       \* "none", "dirtyClean" or "bloom"

ASSUME DataAssumption ==
  /\ Blocks \subseteq Nat /\ NumSets \in Nat \ {0}
  /\ Requesters \subseteq {"cpu", "gpu"}
  /\ 0 \notin Packets /\ IsFiniteSet(Packets) /\ NumMSHRs \in Nat
  /\ MaxPerBlock \in Nat \ {0} /\ MaxVersion \in Nat
  /\ MAPI_PREDICTOR \in BOOLEAN
  /\ BypassMode \in {"none", "dirtyClean", "bloom"}

VARIABLES
  set,          \* the tag directory: tag, valid, dirty, isGPUOwned of each set
  pkts,         \* the request in each packet
  mshrs,        \* the MSHR queue's entries
  freeList,     \* its free entries, last freed first
  writeBuffer,  \* the write buffer, in allocation order
  pamQueue,     \* the parallel memory accesses, by block
  fillQ,        \* blocks with both bursts of a fill queued
  memReads,     \* reads sent to main memory and not answered
  memWriteQ,    \* blocks in main memory's own write queue
  physMem,      \* the backing store
  latest,       \* the last write of each block (history)
  gpuRunning,   \* CudaGPU::running
  stale,        \* blocks for which a read returned an older value (history)
  astray        \* an answer overtook a read of its block, or a read came at an
                \* address that the pamQueue entry of its block holds (history)

tags == <<set, fillQ>>
missQueue == <<mshrs, freeList>>
memory == <<memReads, memWriteQ>>
vars == <<tags, pkts, missQueue, writeBuffer, pamQueue, memory, physMem, latest,
          gpuRunning, stale, astray>>

Contexts == {"cpu", "gpu"}
Sets == 0 .. NumSets - 1
MSHRs == 1 .. NumMSHRs

\* getSetTagFromAddr and regenerateBlkAddr.
SetOf(b) == b % NumSets
TagOf(b) == b \div NumSets
regenerateBlkAddr(s, t) == t * NumSets + s

NoPkt == [cmd |-> "none"]
NoBlock == -1
Free == [blk |-> NoBlock, ctx |-> "cpu", targets |-> <<>>, inService |-> FALSE,
         data |-> 0]
NoPam == [isHit |-> "none"]

Init ==
  /\ set = [s \in Sets |->
              [tag |-> 0, valid |-> FALSE, dirty |-> FALSE, gpu |-> FALSE]]
  /\ pkts = [p \in Packets |-> NoPkt]
  /\ mshrs = [m \in MSHRs |-> Free]
  /\ freeList = [i \in MSHRs |-> i]
  /\ writeBuffer = <<>>
  /\ pamQueue = [b \in Blocks |-> NoPam]
  /\ fillQ = {}
  /\ memReads = <<>> /\ memWriteQ = {}
  /\ physMem = [b \in Blocks |-> 0] /\ latest = [b \in Blocks |-> 0]
  /\ gpuRunning = FALSE
  /\ stale = {} /\ astray = FALSE

-----------------------------------------------------------------------------
(***************************************************************************)
(* Pieces of the handlers                                                  *)
(***************************************************************************)

Hit(b) == set[SetOf(b)].valid /\ set[SetOf(b)].tag = TagOf(b)

\* doCacheLookup: on a hit the line changes owner, and a write makes it dirty.
doCacheLookup(b, ctx, cmd) ==
  set' = IF Hit(b)
         THEN [set EXCEPT ![SetOf(b)].gpu = (ctx = "gpu"),
                          ![SetOf(b)].dirty = @ \/ cmd = "write"]
         ELSE set

\* MSHRQueue::findMatch on the MSHR queue, and on the write buffer.
Allocated(m) == mshrs[m].blk # NoBlock
findMatch(b) == {m \in MSHRs : mshrs[m].blk = b}
InWriteBuffer(b) == \E i \in DOMAIN writeBuffer : writeBuffer[i].blk = b

\* respond() to the reads in ps with the value v of block b.
Respond(ps, b, v) ==
  /\ pkts' = [p \in Packets |-> IF p \in ps THEN NoPkt ELSE pkts[p]]
  /\ stale' = IF v = latest[b] THEN stale ELSE stale \cup {b}

\* The packets waiting in an MSHR; 0 stands for the clone of a parallel access.
Waiting(m) == {mshrs[m].targets[i] : i \in DOMAIN mshrs[m].targets} \ {0}

\* The blocks whose current value is in the backing store, or is the value v
\* of block b.
Current == {c \in Blocks : physMem[c] = latest[c]}
CurrentAt(b, v) == IF v = latest[b] THEN {b} ELSE {}

\* The targets of an MSHR m at the end of a parallel access: the first, its
\* clone, is deleted, the others and p are answered with the current value of
\* the blocks in right.  If the MSHR has been allocated anew meanwhile, the
\* first is a packet and its request is never answered.
RespondTargets(ps, m, right) ==
  LET tgts == mshrs[m].targets
      answered == ps \cup {tgts[i] : i \in 2 .. Len(tgts)}
  IN /\ tgts # <<>>
     /\ pkts' = [p \in Packets |->
                   IF p = tgts[1] THEN [pkts[p] EXCEPT !.at = "deleted"]
                   ELSE IF p \in answered THEN NoPkt ELSE pkts[p]]
     /\ stale' = stale \cup
          ({b \in Blocks : \E p \in answered : pkts[p].blk = b} \ right)

\* The free MSHR must have no targets.
allocateMissBuffer(b, ctx, tgt) ==
  /\ freeList # <<>> /\ mshrs[Head(freeList)].targets = <<>>
  /\ mshrs' = [mshrs EXCEPT ![Head(freeList)] =
                 [blk |-> b, ctx |-> ctx, targets |-> <<tgt>>,
                  inService |-> FALSE, data |-> 0]]
  /\ freeList' = Tail(freeList)

\* A free MSHR takes a target as well.
allocateTarget(m, p) ==
  /\ mshrs' = [mshrs EXCEPT ![m].targets = Append(@, p)]
  /\ UNCHANGED freeList

deallocate(m) ==
  /\ Allocated(m)
  /\ mshrs' = [mshrs EXCEPT ![m] = Free]
  /\ freeList' = <<m>> \o freeList

allocateWriteBuffer(b, v) ==
  writeBuffer' = Append(writeBuffer, [blk |-> b, data |-> v, inService |-> FALSE])

\* An eviction's write-back takes a snapshot of the backing store.
doWriteBack(b) == allocateWriteBuffer(b, physMem[b])

\* addToFillQueue: CPU fills are not inserted in the bypass phase; a dirty line
\* is written back with a snapshot of its data; the fill bursts are dropped when
\* the queue, shared with other sets, is full.
addToFillQueue(b, ctx) ==
  LET old == set[SetOf(b)]
      evict == regenerateBlkAddr(SetOf(b), old.tag)
  IN IF gpuRunning /\ ctx = "cpu" /\ BypassMode # "none"
     THEN UNCHANGED <<tags, writeBuffer>>
     ELSE /\ IF old.valid /\ old.dirty
             THEN doWriteBack(evict)
             ELSE UNCHANGED writeBuffer
          /\ set' = [set EXCEPT ![SetOf(b)] =
                       [tag |-> TagOf(b), valid |-> TRUE, dirty |-> FALSE,
                        gpu |-> (ctx = "gpu")]]
          /\ fillQ' \in {fillQ, fillQ \cup {b}}

-----------------------------------------------------------------------------
(***************************************************************************)
(* recvTimingReq                                                           *)
(***************************************************************************)

Outstanding(b) == {p \in Packets : pkts[p] # NoPkt /\ pkts[p].blk = b}

\* The requester: a free packet, and the directory's one-at-a-time rule.
MayRead(p, b) ==
  /\ pkts[p] = NoPkt
  /\ Cardinality(Outstanding(b)) < MaxPerBlock
  /\ \A q \in Outstanding(b) : pkts[q].cmd = "read"

MayWrite(p, b) ==
  MayRead(p, b) /\ Outstanding(b) = {} /\ latest[b] < MaxVersion

Accept(p, b, ctx, where) ==
  pkts' = [pkts EXCEPT ![p] = [cmd |-> "read", blk |-> b, ctx |-> ctx,
                               at |-> where]]

\* The block has an MSHR: the read is coalesced.
RecvReadCoalesce(p, b, ctx) ==
  /\ MayRead(p, b)
  /\ \E m \in findMatch(b) : allocateTarget(m, p)
  /\ Accept(p, b, ctx, "mshr")
  /\ UNCHANGED <<tags, writeBuffer, pamQueue, memory, physMem, latest,
                 gpuRunning, stale, astray>>

\* The block is in the write buffer: access() and respond() at once.
RecvReadWriteBuffer(p, b) ==
  /\ MayRead(p, b)
  /\ findMatch(b) = {} /\ InWriteBuffer(b)
  /\ Respond({}, b, physMem[b])
  /\ UNCHANGED <<tags, missQueue, writeBuffer, pamQueue, memory, physMem, latest,
                 gpuRunning, astray>>

\* Mutant: the bypass looks at the owner of the line, not at its dirty bit.
BypassedOwner(b, ctx) ==
  ctx = "cpu" /\ gpuRunning /\ BypassMode # "none" /\ ~set[SetOf(b)].gpu

\* The two bypasses of CPU reads while the GPU runs.  The filter may hold more
\* than the dirty blocks.
Bypassed(b, ctx) ==
  /\ ctx = "cpu" /\ gpuRunning
  /\ \/ BypassMode = "dirtyClean" /\ ~set[SetOf(b)].dirty
     \/ BypassMode = "bloom" /\ ~(Hit(b) /\ set[SetOf(b)].dirty)

RecvReadBypass(p, b, ctx) ==
  /\ MayRead(p, b)
  /\ findMatch(b) = {} /\ ~InWriteBuffer(b)
  /\ Bypassed(b, ctx)
  /\ allocateMissBuffer(b, ctx, p)
  /\ Accept(p, b, ctx, "mshr")
  /\ UNCHANGED <<tags, writeBuffer, pamQueue, memory, physMem, latest,
                 gpuRunning, stale, astray>>

\* The read gets past the buffers and the bypass to addToReadQueue.
ToReadQueue(p, b, ctx) ==
  /\ MayRead(p, b)
  /\ findMatch(b) = {} /\ ~InWriteBuffer(b)
  /\ ~(BypassMode = "dirtyClean" /\ Bypassed(b, ctx))

\* Every burst is found in the fill queue: answered at once.
RecvReadFillQueue(p, b, ctx) ==
  /\ ToReadQueue(p, b, ctx)
  /\ b \in fillQ
  /\ Respond({}, b, physMem[b])
  /\ UNCHANGED <<tags, missQueue, writeBuffer, pamQueue, memory, physMem, latest,
                 gpuRunning, astray>>

\* The read is queued for the cache's DRAM; a CPU read predicted to miss also
\* starts a parallel memory access, unless the block has one already.
RecvReadQueue(p, b, ctx) ==
  /\ ToReadQueue(p, b, ctx)
  /\ b \notin fillQ
  /\ Accept(p, b, ctx, "queue")
  /\ \/ UNCHANGED <<missQueue, pamQueue>>
     \/ /\ MAPI_PREDICTOR /\ ctx = "cpu" /\ pamQueue[b] = NoPam
        /\ allocateMissBuffer(b, ctx, 0)
        /\ pamQueue' = [pamQueue EXCEPT ![b] =
                          [isHit |-> "unknown", complete |-> FALSE,
                           mshr |-> Head(freeList), pkt |-> p]]
  /\ astray' = (astray \/ (pamQueue[b] # NoPam /\ pamQueue[b].pkt = p))
  /\ UNCHANGED <<tags, writeBuffer, memory, physMem, latest, gpuRunning, stale>>

\* A write: the backing store is written, the response comes later.
RecvWrite(p, b, ctx) ==
  /\ MayWrite(p, b)
  /\ findMatch(b) = {}
  /\ latest' = [latest EXCEPT ![b] = @ + 1]
  /\ physMem' = [physMem EXCEPT ![b] = latest[b] + 1]
  /\ pkts' = [pkts EXCEPT ![p] = [cmd |-> "write", blk |-> b, ctx |-> ctx,
                                  at |-> "queue", data |-> latest[b] + 1]]
  /\ UNCHANGED <<tags, missQueue, writeBuffer, pamQueue, memory, gpuRunning,
                 stale, astray>>

-----------------------------------------------------------------------------
(***************************************************************************)
(* The DRAM access completes: processWriteRespondEvent, processRespondEvent*)
(***************************************************************************)

\* A write is answered whether it hits or not; one that misses goes to memory.
processWriteRespondEvent(p) ==
  /\ pkts[p].cmd = "write"
  /\ LET b == pkts[p].blk
     IN /\ doCacheLookup(b, pkts[p].ctx, "write")
        /\ IF Hit(b) THEN UNCHANGED writeBuffer
                     ELSE allocateWriteBuffer(b, pkts[p].data)
  /\ pkts' = [pkts EXCEPT ![p] = NoPkt]
  /\ UNCHANGED <<fillQ, missQueue, pamQueue, memory, physMem, latest, gpuRunning,
                 stale, astray>>

\* Mutant: any packet of the block is taken for it.
IsPamPacketAny(p) == pamQueue[pkts[p].blk] # NoPam

\* The packet is the one its block's parallel access was made for.
IsPamPacket(p) ==
  /\ pamQueue[pkts[p].blk] # NoPam
  /\ pamQueue[pkts[p].blk].pkt = p

QueuedRead(p) == pkts[p].cmd = "read" /\ pkts[p].at = "queue"

\* The parallel access is answered: a hit is served from the cache, a miss from
\* the data it brought, which also fills the cache.
RespondPamComplete(p) ==
  LET b == pkts[p].blk
      m == pamQueue[b].mshr
  IN /\ QueuedRead(p) /\ IsPamPacket(p) /\ pamQueue[b].complete
     /\ \/ /\ Hit(b)
           /\ RespondTargets({p}, m, Current)
           /\ doCacheLookup(b, pkts[p].ctx, "read")
           /\ UNCHANGED <<writeBuffer, fillQ>>
        \/ /\ ~Hit(b)
           /\ RespondTargets({p}, m, CurrentAt(b, mshrs[m].data))
           /\ addToFillQueue(mshrs[m].blk, pkts[p].ctx)
     /\ deallocate(m)
     /\ pamQueue' = [pamQueue EXCEPT ![b] = NoPam]
     /\ UNCHANGED <<memory, physMem, latest, gpuRunning, astray>>

\* Mutant: the pamQueue entry always goes with the MSHR.
RespondPamHitErase(p) ==
  LET b == pkts[p].blk
      m == pamQueue[b].mshr
  IN /\ QueuedRead(p) /\ IsPamPacket(p) /\ ~pamQueue[b].complete
     /\ Hit(b)
     /\ RespondTargets({p}, m, Current)
     /\ doCacheLookup(b, pkts[p].ctx, "read")
     /\ deallocate(m)
     /\ pamQueue' = [pamQueue EXCEPT ![b] = NoPam]
     /\ UNCHANGED <<fillQ, writeBuffer, memory, physMem, latest, gpuRunning,
                    astray>>

\* Mutant: the MSHR is not deallocated.
RespondPamHitLeak(p) ==
  LET b == pkts[p].blk
      m == pamQueue[b].mshr
  IN /\ QueuedRead(p) /\ IsPamPacket(p) /\ ~pamQueue[b].complete
     /\ Hit(b)
     /\ RespondTargets({p}, m, Current)
     /\ doCacheLookup(b, pkts[p].ctx, "read")
     /\ pamQueue' = [pamQueue EXCEPT ![b] = NoPam]
     /\ UNCHANGED <<fillQ, missQueue, writeBuffer, memory, physMem, latest,
                    gpuRunning, astray>>

\* The parallel access is not answered and the read hits: the MSHR goes, the
\* pamQueue entry stays for the answer of a request that was sent.
RespondPamHit(p) ==
  LET b == pkts[p].blk
      m == pamQueue[b].mshr
  IN /\ QueuedRead(p) /\ IsPamPacket(p) /\ ~pamQueue[b].complete
     /\ Hit(b)
     /\ RespondTargets({p}, m, Current)
     /\ doCacheLookup(b, pkts[p].ctx, "read")
     /\ deallocate(m)
     /\ pamQueue' = [pamQueue EXCEPT ![b] =
                       IF mshrs[m].inService THEN [@ EXCEPT !.isHit = "hit"]
                                             ELSE NoPam]
     /\ UNCHANGED <<fillQ, writeBuffer, memory, physMem, latest, gpuRunning,
                    astray>>

\* The parallel access is not answered and the read misses: it joins the MSHR.
RespondPamMiss(p) ==
  LET b == pkts[p].blk
  IN /\ QueuedRead(p) /\ IsPamPacket(p) /\ ~pamQueue[b].complete
     /\ ~Hit(b)
     /\ allocateTarget(pamQueue[b].mshr, p)
     /\ pkts' = [pkts EXCEPT ![p].at = "mshr"]
     /\ pamQueue' = [pamQueue EXCEPT ![b].isHit = "miss"]
     /\ UNCHANGED <<tags, writeBuffer, memory, physMem, latest, gpuRunning,
                    stale, astray>>

\* Without a parallel access of its own: a hit is served, a miss joins the
\* block's MSHR or allocates one.
RespondSerial(p) ==
  LET b == pkts[p].blk
  IN /\ QueuedRead(p) /\ ~IsPamPacket(p)
     /\ \/ /\ Hit(b)
           /\ Respond({p}, b, physMem[b])
           /\ UNCHANGED missQueue
        \/ /\ ~Hit(b)
           /\ pkts' = [pkts EXCEPT ![p].at = "mshr"]
           /\ UNCHANGED stale
           /\ IF findMatch(b) # {}
              THEN \E m \in findMatch(b) : allocateTarget(m, p)
              ELSE allocateMissBuffer(b, pkts[p].ctx, p)
     /\ doCacheLookup(b, pkts[p].ctx, "read")
     /\ UNCHANGED <<fillQ, writeBuffer, pamQueue, memory, physMem, latest,
                    gpuRunning, astray>>

\* A fill burst leaves the fill queue.
FillServed(b) ==
  /\ b \in fillQ
  /\ fillQ' = fillQ \ {b}
  /\ UNCHANGED <<set, pkts, missQueue, writeBuffer, pamQueue, memory, physMem,
                 latest, gpuRunning, stale, astray>>

-----------------------------------------------------------------------------
(***************************************************************************)
(* The memory side: getNextMSHR, main memory, recvTimingResp               *)
(***************************************************************************)

Pending(i) == i \in DOMAIN writeBuffer /\ ~writeBuffer[i].inService
PendingMiss(m) == Allocated(m) /\ ~mshrs[m].inService

\* Mutant: no search of the write buffer for an earlier write-back.
SendMissNoConflict(m) ==
  /\ PendingMiss(m)
  /\ mshrs' = [mshrs EXCEPT ![m].inService = TRUE]
  /\ LET b == mshrs[m].blk
     IN memReads' = Append(memReads,
          [blk |-> b, mshr |-> m, ctx |-> mshrs[m].ctx, fast |-> b \in memWriteQ,
           data |-> IF b \in memWriteQ THEN physMem[b] ELSE 0])
  /\ UNCHANGED <<tags, pkts, freeList, writeBuffer, pamQueue, memWriteQ, physMem,
                 latest, gpuRunning, stale, astray>>

\* A miss is sent only when no write-back of its block is pending.  A block in
\* main memory's write queue is read from there, ahead of earlier reads of it.
SendMiss(m) ==
  /\ PendingMiss(m)
  /\ ~\E i \in DOMAIN writeBuffer : Pending(i) /\ writeBuffer[i].blk = mshrs[m].blk
  /\ mshrs' = [mshrs EXCEPT ![m].inService = TRUE]
  /\ LET b == mshrs[m].blk
     IN memReads' = Append(memReads,
          [blk |-> b, mshr |-> m, ctx |-> mshrs[m].ctx, fast |-> b \in memWriteQ,
           data |-> IF b \in memWriteQ THEN physMem[b] ELSE 0])
  /\ UNCHANGED <<tags, pkts, freeList, writeBuffer, pamQueue, memWriteQ, physMem,
                 latest, gpuRunning, stale, astray>>

\* A write-back is accepted by main memory, which applies it at once and keeps
\* it in its write queue.
WriteBack(i) ==
  /\ LET b == writeBuffer[i].blk
     IN /\ physMem' = [physMem EXCEPT ![b] = writeBuffer[i].data]
        /\ memWriteQ' = memWriteQ \cup {b}
  /\ writeBuffer' = [writeBuffer EXCEPT ![i].inService = TRUE]
  /\ UNCHANGED <<tags, pkts, missQueue, pamQueue, memReads, latest, gpuRunning,
                 stale, astray>>

\* Mutant: the youngest write-back first.
SendWriteBackLIFO(i) ==
  /\ Pending(i) /\ \A j \in i + 1 .. Len(writeBuffer) : ~Pending(j)
  /\ WriteBack(i)

\* The oldest pending write-back is sent when no miss is ready (one that is
\* pending need not be), or when the write buffer is full.
SendWriteBack(i) ==
  /\ Pending(i) /\ \A j \in 1 .. i - 1 : ~Pending(j)
  /\ WriteBack(i)

\* The miss m is next and its block has a pending write-back: the oldest goes first.
SendConflicting(m) ==
  /\ PendingMiss(m)
  /\ \E i \in DOMAIN writeBuffer :
       /\ Pending(i) /\ writeBuffer[i].blk = mshrs[m].blk
       /\ \A j \in 1 .. i - 1 : Pending(j) => writeBuffer[j].blk # mshrs[m].blk
       /\ WriteBack(i)

\* Main memory drains a write.
MemWriteDone(b) ==
  /\ b \in memWriteQ
  /\ memWriteQ' = memWriteQ \ {b}
  /\ UNCHANGED <<tags, pkts, missQueue, writeBuffer, pamQueue, memReads, physMem,
                 latest, gpuRunning, stale, astray>>

RemoveAt(s, i) == SubSeq(s, 1, i - 1) \o SubSeq(s, i + 1, Len(s))

\* The reads main memory may answer next: the oldest of each block, and one that
\* its write queue serves before an older one that it does not.
Answerable(i) ==
  \A j \in 1 .. i - 1 : memReads[j].blk = memReads[i].blk
    => memReads[i].fast /\ ~memReads[j].fast

AnswerData(i) ==
  IF memReads[i].fast THEN memReads[i].data ELSE physMem[memReads[i].blk]

Overtakes(i) == \E j \in 1 .. i - 1 : memReads[j].blk = memReads[i].blk

\* recvTimingResp for a block with a pamQueue entry: keep the data for the tag
\* check to come; drop it after a hit; serve the MSHR and fill after a miss.
RecvPamResp(i) ==
  LET b == memReads[i].blk
      pr == pamQueue[b]
  IN /\ i \in DOMAIN memReads /\ Answerable(i)
     /\ pr # NoPam
     /\ memReads' = RemoveAt(memReads, i)
     /\ astray' = (astray \/ Overtakes(i))
     /\ \/ /\ pr.isHit = "unknown" /\ mshrs[pr.mshr].targets # <<>>
           /\ mshrs' = [mshrs EXCEPT ![pr.mshr].data = AnswerData(i)]
           /\ pamQueue' = [pamQueue EXCEPT ![b].complete = TRUE]
           /\ UNCHANGED <<tags, freeList, writeBuffer, pkts, stale>>
        \/ /\ pr.isHit = "hit"
           /\ pamQueue' = [pamQueue EXCEPT ![b] = NoPam]
           /\ UNCHANGED <<tags, missQueue, writeBuffer, pkts, stale>>
        \/ /\ pr.isHit = "miss" /\ memReads[i].mshr = pr.mshr
           /\ RespondTargets({}, pr.mshr, CurrentAt(b, AnswerData(i)))
           /\ deallocate(pr.mshr)
           /\ addToFillQueue(b, memReads[i].ctx)
           /\ pamQueue' = [pamQueue EXCEPT ![b] = NoPam]
     /\ UNCHANGED <<memWriteQ, physMem, latest, gpuRunning>>

\* recvTimingResp for an ordinary miss: fill unless the tag is there already,
\* then access() and respond() for every target.
RecvReadResp(i) ==
  LET b == memReads[i].blk
      m == memReads[i].mshr
  IN /\ i \in DOMAIN memReads /\ Answerable(i)
     /\ pamQueue[b] = NoPam
     /\ m \in findMatch(b) /\ \A p \in Waiting(m) : pkts[p].blk = b
     /\ memReads' = RemoveAt(memReads, i)
     /\ astray' = (astray \/ Overtakes(i))
     /\ IF Hit(b) THEN UNCHANGED <<tags, writeBuffer>>
                  ELSE addToFillQueue(b, memReads[i].ctx)
     /\ Respond(Waiting(m), b, physMem[b])
     /\ deallocate(m)
     /\ UNCHANGED <<pamQueue, memWriteQ, physMem, latest, gpuRunning>>

\* recvTimingResp for a write-back.
RecvWriteResp(i) ==
  /\ i \in DOMAIN writeBuffer /\ writeBuffer[i].inService
  /\ writeBuffer' = RemoveAt(writeBuffer, i)
  /\ UNCHANGED <<tags, pkts, missQueue, pamQueue, memory, physMem, latest,
                 gpuRunning, stale, astray>>

\* A kernel starts or ends.
ToggleGPU ==
  /\ BypassMode # "none"
  /\ gpuRunning' = ~gpuRunning
  /\ UNCHANGED <<tags, pkts, missQueue, writeBuffer, pamQueue, memory, physMem,
                 latest, stale, astray>>

-----------------------------------------------------------------------------
RecvTimingReq(p, b, ctx) ==
  \/ RecvReadCoalesce(p, b, ctx) \/ RecvReadWriteBuffer(p, b)
  \/ RecvReadBypass(p, b, ctx) \/ RecvReadFillQueue(p, b, ctx)
  \/ RecvReadQueue(p, b, ctx) \/ RecvWrite(p, b, ctx)

AccessDone(p) ==
  \/ processWriteRespondEvent(p)
  \/ RespondPamComplete(p) \/ RespondPamHit(p) \/ RespondPamMiss(p)
  \/ RespondSerial(p)

Next ==
  \/ \E p \in Packets, b \in Blocks, ctx \in Requesters : RecvTimingReq(p, b, ctx)
  \/ \E p \in Packets : AccessDone(p)
  \/ \E b \in Blocks : FillServed(b) \/ MemWriteDone(b)
  \/ \E m \in MSHRs : SendMiss(m) \/ SendConflicting(m)
  \/ \E i \in DOMAIN writeBuffer : SendWriteBack(i) \/ RecvWriteResp(i)
  \/ \E i \in DOMAIN memReads : RecvPamResp(i) \/ RecvReadResp(i)
  \/ ToggleGPU

Spec == Init /\ [][Next]_vars

-----------------------------------------------------------------------------
(***************************************************************************)
(* Properties                                                              *)
(***************************************************************************)

Versions == 0 .. MaxVersion
Tags == {TagOf(b) : b \in Blocks} \cup {0}

TypeOK ==
  /\ set \in [Sets -> [tag : Tags, valid : BOOLEAN, dirty : BOOLEAN,
                       gpu : BOOLEAN]]
  /\ \A p \in Packets :
       pkts[p] = NoPkt \/ /\ pkts[p].cmd \in {"read", "write"}
                          /\ pkts[p].blk \in Blocks /\ pkts[p].ctx \in Contexts
                          /\ pkts[p].at \in {"queue", "mshr", "deleted"}
  /\ \A m \in MSHRs :
       Allocated(m) => /\ mshrs[m].blk \in Blocks /\ mshrs[m].ctx \in Contexts
                       /\ mshrs[m].inService \in BOOLEAN
                       /\ Waiting(m) \subseteq Packets
  /\ Len(freeList) <= NumMSHRs /\ \A i \in DOMAIN freeList : freeList[i] \in MSHRs
  /\ \A i \in DOMAIN writeBuffer :
       /\ writeBuffer[i].blk \in Blocks /\ writeBuffer[i].data \in Versions
  /\ \A b \in Blocks :
       pamQueue[b] = NoPam \/ /\ pamQueue[b].isHit \in {"unknown", "hit", "miss"}
                              /\ pamQueue[b].mshr \in MSHRs
                              /\ pamQueue[b].pkt \in Packets
  /\ fillQ \subseteq Blocks /\ memWriteQ \subseteq Blocks
  /\ physMem \in [Blocks -> Versions] /\ latest \in [Blocks -> Versions]
  /\ gpuRunning \in BOOLEAN
  /\ stale \subseteq Blocks /\ astray \in BOOLEAN

\* The last write of a block survives every eviction, write-back and fill: it is
\* in the backing store, or a write of it is still on its way there behind an
\* older write-back.  It rests on getNextMSHR sending the write-backs of a block
\* in order and before its misses.
NoWriteLost ==
  \A b \in Blocks :
    \/ physMem[b] = latest[b]
    \/ \E p \in Outstanding(b) : pkts[p].cmd = "write" /\ ~Hit(b)
    \/ \E i \in DOMAIN writeBuffer :
         /\ Pending(i)
         /\ writeBuffer[i].blk = b /\ writeBuffer[i].data = latest[b]

\* What the cache says it holds is the last write: a hit never finds the backing
\* store overwritten by an older write-back of the block, and no write-back of a
\* cached block waits to do so (doCacheLookup and access against doWriteBack).
HitsCurrent ==
  \A b \in Blocks :
    Hit(b) => /\ physMem[b] = latest[b]
              /\ ~\E i \in DOMAIN writeBuffer : Pending(i) /\ writeBuffer[i].blk = b

\* A read goes around the cache only while main memory has its data: an ordinary
\* miss, bypass or not, never waits for a block whose line is dirty.
NoDirtyMiss ==
  \A m \in MSHRs :
    Allocated(m) /\ mshrs[m].targets[1] # 0
      => ~(Hit(mshrs[m].blk) /\ set[SetOf(mshrs[m].blk)].dirty)

\* A write never meets an MSHR of its block, so the fatal() of recvTimingReq is
\* unreachable under the directory's contract, even though a hit on a parallel
\* access answers the read before memory does.
NoWriteMeetsMiss ==
  \A b \in Blocks : Outstanding(b) = {} => findMatch(b) = {}

\* An answer of main memory finds what recvTimingResp asserts of it: an MSHR
\* with targets, all of its block, and "the mshr in the recieved packet should be
\* same as PAMQueue mshr" when the tag check of a parallel access has missed.
AnswersMatched ==
  \A i \in DOMAIN memReads :
    LET r == memReads[i]
        pr == pamQueue[r.blk]
    IN Answerable(i) =>
         IF pr = NoPam
         THEN r.mshr \in findMatch(r.blk)
         ELSE /\ pr.isHit # "hit" => pr.mshr \in findMatch(r.blk)
              /\ pr.isHit = "miss" => pr.mshr = r.mshr

\* "only the packet that created pamReq packet comes here" (processRespondEvent):
\* the packet that matches a pamQueue entry is not a later one at its address.
PamPacketIsCreator ==
  \A p \in Packets :
    QueuedRead(p) /\ IsPamPacket(p)
      => /\ pamQueue[pkts[p].blk].isHit = "unknown"
         /\ pamQueue[pkts[p].blk].mshr \in findMatch(pkts[p].blk)

\* A parallel access, its MSHR, its answer and its packet stay together whatever
\* order the tag check, the answer and further reads of the block come in, until
\* main memory lets an answer overtake an earlier read of its block or a packet
\* comes at an address that the pamQueue entry of its block still holds
\* (processRespondEvent against recvTimingResp).
PamInStep == ~astray => AnswersMatched /\ PamPacketIsCreator

\* "take responsibility for the consistency here and snoop the write queue for
\* any upcoming reads" (addToWriteQueue): a read returns the last write.
ReadsCurrent == stale = {}

\* A read that gets an older value gets it from recvTimingReq's answer out of the
\* write buffer: neither a tag check, nor the fill queue, nor the answer of a
\* miss ever returns one.
StaleOnlyFromWriteBuffer ==
  [][stale' # stale => \E p \in Packets, b \in Blocks : RecvReadWriteBuffer(p, b)]_vars

=============================================================================
