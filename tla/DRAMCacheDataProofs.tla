------------------------ MODULE DRAMCacheDataProofs -------------------------
(***************************************************************************)
(* What DRAMCacheData's runs check on a small instance, proved for every   *)
(* number of blocks, sets, packets and MSHRs: the types and what a write   *)
(* finds, in every build; the bookkeeping of parallel accesses until an    *)
(* answer or a packet goes astray; and, in a build without the predictor,  *)
(* where nothing does, the data.  No write is lost, what hits is current,  *)
(* and only the write buffer can answer a read with an old value.          *)
(***************************************************************************)
EXTENDS DRAMCacheDataAccessProofs, DRAMCacheDataMemoryProofs, FiniteSetTheorems

-----------------------------------------------------------------------------
(***************************************************************************)
(* Every step keeps the invariant                                          *)
(***************************************************************************)

\* At the start everything is free.
LEMMA InitIInv == Init => IInv
<1> SUFFICES ASSUME Init PROVE IInv
  BY Zenon
<1>1. 0 \in Tags /\ 0 \in Versions /\ NumMSHRs \in Nat
  BY DataAssumption DEF Tags, DataAssumption, Versions
<1>2. LinesOK
  <2> DEFINE l == [tag |-> 0, valid |-> FALSE, dirty |-> FALSE, gpu |-> FALSE]
  <2>1. l \in Line /\ l.valid = FALSE
    BY <1>1, Zenon DEF Line
  <2>2. set = [s \in Sets |-> l]
    BY Zenon DEF Init
  <2> HIDE DEF l
  <2> QED  BY <2>1, <2>2, Zenon DEF LinesOK
<1>3. freeList \in Seq(MSHRs) /\ Len(freeList) = NumMSHRs /\ \A i \in MSHRs : freeList[i] = i
  <2>1. freeList = [i \in 1 .. NumMSHRs |-> i]
    BY Zenon DEF Init, MSHRs
  <2> QED  BY <1>1, <2>1 DEF MSHRs
<1>4. /\ \A p \in Packets : pkts[p] = NoPkt
      /\ \A m \in MSHRs : mshrs[m] = Free
      /\ \A b \in Blocks : pamQueue[b] = NoPam
      /\ memReads = <<>> /\ memWriteQ = {}
  BY Zenon DEF Init
<1>5. Free \in Slot /\ Free.blk = NoBlock /\ Free.targets = <<>>
  BY <1>1 DEF Free, Slot, Contexts
<1>6. Types
  <2>1. /\ pkts \in [Packets -> {NoPkt} \cup ReadPkt \cup WritePkt]
        /\ mshrs \in [MSHRs -> Slot]
        /\ pamQueue \in [Blocks -> {NoPam} \cup PamEntry]
        /\ physMem \in [Blocks -> Versions] /\ latest \in [Blocks -> Versions]
    BY <1>1, <1>5, Zenon DEF Init
  <2>2. writeBuffer \in Seq(WriteBackEntry) /\ memReads \in Seq(MemRead)
    BY DEF Init
  <2> QED  BY <1>2, <2>1, <2>2, Zenon DEF Types, Init
<1>7. \A m \in MSHRs : ~Allocated(m) /\ Waiting(m) = {}
  BY <1>4, <1>5, <1>6, WaitingTargets, Zenon DEF Allocated
<1>8. FreeOnce
  BY <1>3, <1>7, Zenon DEF FreeOnce, MSHRs
<1>9. Base
  BY <1>6, <1>7, <1>8 DEF Base, Held, Owned
<1>10. \A m \in MSHRs : \A b \in Blocks : ~Serves(m, b)
  BY <1>7, BlockNumbers, Zenon DEF Serves, Allocated
<1>11. \A p \in Packets : pkts[p].cmd # "write"
  BY <1>4 DEF NoPkt
<1>12. OneMSHR /\ Alone
  BY <1>10, <1>11, Zenon DEF OneMSHR, Alone
<1>13. Targets
  BY <1>7 DEF Targets
<1>14. Pams
  BY <1>4, Zenon DEF Pams, PamOK
<1>15. Reads
  <2>1. DOMAIN memReads = {}
    BY <1>4
  <2> QED  BY <2>1, <1>10 DEF Reads
<1> QED  BY <1>9, <1>12, <1>13, <1>14, <1>15 DEF IInv

\* A step that changes nothing.
LEMMA StutterBase == Base /\ UNCHANGED vars => Base' /\ UNCHANGED <<pkts, mshrs, pamQueue, memReads>>
<1> SUFFICES ASSUME Base, UNCHANGED vars
             PROVE  Base' /\ UNCHANGED <<pkts, mshrs, pamQueue, memReads>>
  BY Zenon
<1>1. Types' /\ UNCHANGED <<pkts, mshrs, freeList, pamQueue, memReads>>
  BY Zenon DEF Base, Types, LinesOK, vars, tags, missQueue, memory
<1>2. \A n \in MSHRs : mshrs'[n].blk = mshrs[n].blk /\ Waiting(n)' = Waiting(n)
  BY <1>1, Zenon DEF Waiting
<1> QED  BY <1>1, <1>2, BaseSame, Zenon

\* recvTimingReq.
LEMMA RequestBase ==
  ASSUME Base, NEW p \in Packets, NEW b \in Blocks, NEW ctx \in Contexts,
         RecvTimingReq(p, b, ctx)
  PROVE  Base'
<1>1. CASE RecvReadCoalesce(p, b, ctx) \/ RecvReadBypass(p, b, ctx)
  BY <1>1, Joining, BaseJoin, Zenon
<1>2. CASE RecvReadWriteBuffer(p, b) \/ RecvReadFillQueue(p, b, ctx)
  BY <1>2, BaseAtOnce, Zenon
<1>3. CASE RecvReadQueue(p, b, ctx)
  BY <1>3, BaseQueue, Zenon
<1>4. CASE RecvWrite(p, b, ctx)
  BY <1>4, BaseRecvWrite, Zenon
<1> QED  BY <1>1, <1>2, <1>3, <1>4, Zenon DEF RecvTimingReq

LEMMA RequestIInv ==
  ASSUME IInv, Base', ~astray', NEW p \in Packets, NEW b \in Blocks, NEW ctx \in Contexts,
         RecvTimingReq(p, b, ctx)
  PROVE  IInv'
<1>1. CASE RecvReadCoalesce(p, b, ctx) \/ RecvReadBypass(p, b, ctx)
  BY <1>1, Joining, IInvJoin, Zenon
<1>2. CASE RecvReadWriteBuffer(p, b) \/ RecvReadFillQueue(p, b, ctx)
  <2>1. UNCHANGED <<pkts, mshrs, pamQueue, memReads, astray>>
    BY <1>2, BaseAtOnce, Zenon DEF IInv
  <2> QED  BY <2>1, SameStructure, Zenon
<1>3. CASE RecvReadQueue(p, b, ctx)
  BY <1>3, IInvQueue, Zenon
<1>4. CASE RecvWrite(p, b, ctx)
  BY <1>4, IInvRecvWrite, Zenon
<1> QED  BY <1>1, <1>2, <1>3, <1>4, Zenon DEF RecvTimingReq

\* A DRAM access of the cache completes.
LEMMA AccessBase ==
  ASSUME Base, NEW p \in Packets, AccessDone(p)
  PROVE  Base'
<1>1. CASE processWriteRespondEvent(p)
  BY <1>1, BaseWriteRespond, Zenon
<1>2. CASE RespondPamComplete(p)
  BY <1>2, BasePamComplete, Zenon
<1>3. CASE RespondPamHit(p)
  BY <1>3, BasePamHit, Zenon
<1>4. CASE RespondPamMiss(p)
  BY <1>4, BasePamMiss, Zenon
<1>5. CASE RespondSerial(p)
  BY <1>5, BaseSerial, Zenon
<1> QED  BY <1>1, <1>2, <1>3, <1>4, <1>5, Zenon DEF AccessDone

LEMMA AccessIInv ==
  ASSUME IInv, Base', NEW p \in Packets, AccessDone(p)
  PROVE  IInv'
<1>1. CASE processWriteRespondEvent(p)
  BY <1>1, IInvWriteRespond, Zenon
<1>2. CASE RespondPamComplete(p)
  BY <1>2, IInvPamComplete, Zenon
<1>3. CASE RespondPamHit(p)
  BY <1>3, IInvPamHit, Zenon
<1>4. CASE RespondPamMiss(p)
  BY <1>4, IInvPamMiss, Zenon
<1>5. CASE RespondSerial(p)
  BY <1>5, IInvSerial, Zenon
<1> QED  BY <1>1, <1>2, <1>3, <1>4, <1>5, Zenon DEF AccessDone

\* The requesters are contexts, and what a step of Next is.
LEMMA Steps ==
  ASSUME [Next]_vars
  PROVE  \/ \E p \in Packets, b \in Blocks, ctx \in Contexts : RecvTimingReq(p, b, ctx)
         \/ \E p \in Packets : AccessDone(p)
         \/ (\E b \in Blocks : FillServed(b) \/ MemWriteDone(b)) \/ ToggleGPU
         \/ \E m \in MSHRs : SendMiss(m)
         \/ \E m \in MSHRs : SendConflicting(m)
         \/ \E i \in DOMAIN writeBuffer : SendWriteBack(i)
         \/ \E i \in DOMAIN writeBuffer : RecvWriteResp(i)
         \/ \E i \in DOMAIN memReads : RecvPamResp(i)
         \/ \E i \in DOMAIN memReads : RecvReadResp(i)
         \/ UNCHANGED vars
<1>1. \A ctx \in Requesters : ctx \in Contexts
  BY DataAssumption, Zenon DEF DataAssumption, Contexts
<1> QED  BY <1>1, Zenon DEF Next

\* Every step keeps the base.
LEMMA NextBase == Base /\ [Next]_vars => Base'
<1> SUFFICES ASSUME Base, [Next]_vars PROVE Base'
  BY Zenon
<1>1. ASSUME NEW p \in Packets, NEW b \in Blocks, NEW ctx \in Contexts,
             RecvTimingReq(p, b, ctx)
      PROVE  Base'
  BY <1>1, RequestBase, Zenon
<1>2. ASSUME NEW p \in Packets, AccessDone(p)
      PROVE  Base'
  BY <1>2, AccessBase, Zenon
<1>3. CASE (\E b \in Blocks : FillServed(b) \/ MemWriteDone(b)) \/ ToggleGPU
  BY <1>3, BaseAside, Zenon
<1>4. ASSUME NEW m \in MSHRs, SendMiss(m)
      PROVE  Base'
  BY <1>4, BaseSendMiss, Zenon
<1>5. ASSUME NEW i \in DOMAIN writeBuffer, WriteBack(i) \/ RecvWriteResp(i)
      PROVE  Base'
  BY <1>5, BaseWriteBack, Zenon
<1>6. ASSUME NEW i \in DOMAIN memReads, RecvPamResp(i)
      PROVE  Base'
  BY <1>6, BasePamResp, Zenon
<1>7. ASSUME NEW i \in DOMAIN memReads, RecvReadResp(i)
      PROVE  Base'
  BY <1>7, BaseReadResp, Zenon
<1>8. CASE UNCHANGED vars
  BY <1>8, StutterBase, Zenon
<1>9. ASSUME NEW m \in MSHRs, SendConflicting(m)
      PROVE  Base'
  BY <1>5, <1>9, Zenon DEF SendConflicting
<1>10. ASSUME NEW i \in DOMAIN writeBuffer, SendWriteBack(i)
       PROVE  Base'
  BY <1>5, <1>10, Zenon DEF SendWriteBack
<1> QED  BY <1>1, <1>2, <1>3, <1>4, <1>5, <1>6, <1>7, <1>8, <1>9, <1>10, Steps, Zenon

\* Every step keeps IInv, unless it lets a packet or an answer go astray.
LEMMA NextIInv == IInv /\ Base' /\ ~astray' /\ [Next]_vars => IInv'
<1> SUFFICES ASSUME IInv, Base', ~astray', [Next]_vars PROVE IInv'
  BY Zenon
<1>0. Base
  BY Zenon DEF IInv
<1>1. ASSUME NEW p \in Packets, NEW b \in Blocks, NEW ctx \in Contexts,
             RecvTimingReq(p, b, ctx)
      PROVE  IInv'
  BY <1>1, RequestIInv, Zenon
<1>2. ASSUME NEW p \in Packets, AccessDone(p)
      PROVE  IInv'
  BY <1>2, AccessIInv, Zenon
<1>3. CASE (\E b \in Blocks : FillServed(b) \/ MemWriteDone(b)) \/ ToggleGPU
  <2>1. UNCHANGED <<pkts, mshrs, pamQueue, memReads, astray>>
    BY <1>0, <1>3, BaseAside, Zenon
  <2> QED  BY <2>1, SameStructure, Zenon
<1>4. ASSUME NEW m \in MSHRs, SendMiss(m)
      PROVE  IInv'
  BY <1>4, IInvSendMiss, Zenon
<1>5. ASSUME NEW i \in DOMAIN writeBuffer, WriteBack(i) \/ RecvWriteResp(i)
      PROVE  IInv'
  <2>1. UNCHANGED <<pkts, mshrs, pamQueue, memReads, astray>>
    BY <1>0, <1>5, BaseWriteBack, Zenon
  <2> QED  BY <2>1, SameStructure, Zenon
<1>6. ASSUME NEW i \in DOMAIN memReads, RecvPamResp(i)
      PROVE  IInv'
  BY <1>6, IInvPamResp, Zenon
<1>7. ASSUME NEW i \in DOMAIN memReads, RecvReadResp(i)
      PROVE  IInv'
  BY <1>7, IInvReadResp, Zenon
<1>8. CASE UNCHANGED vars
  BY <1>0, <1>8, StutterBase, SameStructure, Zenon
<1>9. ASSUME NEW m \in MSHRs, SendConflicting(m)
      PROVE  IInv'
  BY <1>5, <1>9, Zenon DEF SendConflicting
<1>10. ASSUME NEW i \in DOMAIN writeBuffer, SendWriteBack(i)
       PROVE  IInv'
  BY <1>5, <1>10, Zenon DEF SendWriteBack
<1> QED  BY <1>1, <1>2, <1>3, <1>4, <1>5, <1>6, <1>7, <1>8, <1>9, <1>10, Steps, Zenon

\* The steps that may set astray: the others leave it.
LEMMA GoesAstray ==
  ASSUME [Next]_vars
  PROVE  \/ UNCHANGED astray
         \/ \E p \in Packets, b \in Blocks, ctx \in Contexts :
              /\ RecvReadQueue(p, b, ctx)
              /\ astray' = (astray \/ (pamQueue[b] # NoPam /\ pamQueue[b].pkt = p))
         \/ \E i \in DOMAIN memReads :
              /\ RecvPamResp(i) \/ RecvReadResp(i)
              /\ astray' = (astray \/ Overtakes(i))
<1>1. ASSUME NEW p \in Packets, NEW b \in Blocks, NEW ctx \in Contexts,
             RecvTimingReq(p, b, ctx), ~RecvReadQueue(p, b, ctx)
      PROVE  UNCHANGED astray
  BY <1>1, Zenon DEF RecvTimingReq, RecvReadCoalesce, RecvReadWriteBuffer, RecvReadBypass,
       RecvReadFillQueue, RecvWrite
<1>2. ASSUME NEW p \in Packets, AccessDone(p)
      PROVE  UNCHANGED astray
  BY <1>2, Zenon DEF AccessDone, processWriteRespondEvent, RespondPamComplete,
       RespondPamHit, RespondPamMiss, RespondSerial
<1>3. CASE (\E b \in Blocks : FillServed(b) \/ MemWriteDone(b)) \/ ToggleGPU
  BY <1>3, Zenon DEF FillServed, MemWriteDone, ToggleGPU
<1>4. ASSUME NEW m \in MSHRs, SendMiss(m) \/ SendConflicting(m)
      PROVE  UNCHANGED astray
  BY <1>4, Zenon DEF SendMiss, SendConflicting, WriteBack
<1>5. ASSUME NEW i \in DOMAIN writeBuffer, SendWriteBack(i) \/ RecvWriteResp(i)
      PROVE  UNCHANGED astray
  BY <1>5, Zenon DEF SendWriteBack, WriteBack, RecvWriteResp
<1>6. ASSUME NEW p \in Packets, NEW b \in Blocks, NEW ctx \in Contexts,
             RecvReadQueue(p, b, ctx)
      PROVE  astray' = (astray \/ (pamQueue[b] # NoPam /\ pamQueue[b].pkt = p))
  BY <1>6, Zenon DEF RecvReadQueue
<1>7. ASSUME NEW i \in DOMAIN memReads, RecvPamResp(i) \/ RecvReadResp(i)
      PROVE  astray' = (astray \/ Overtakes(i))
  BY <1>7, Zenon DEF RecvPamResp, RecvReadResp
<1>8. CASE UNCHANGED vars
  BY <1>8, Zenon DEF vars
<1> QED  BY <1>1, <1>2, <1>3, <1>4, <1>5, <1>6, <1>7, <1>8, Steps, Zenon

\* What has gone astray stays so.
LEMMA StaysAstray == astray /\ [Next]_vars => astray'
BY GoesAstray

\* The bookkeeping of packets and MSHRs is in every reachable state what Base says,
\* in every build and whatever the order of the answers; that of parallel accesses
\* and reads at main memory is what IInv says until a packet or an answer goes
\* astray.
THEOREM DataBookkeeping == Spec => [](Base /\ (~astray => IInv))
<1> DEFINE Inv == Base /\ (~astray => IInv)
<1>1. Init => Inv
  BY InitIInv, Zenon DEF IInv
<1>2. Inv /\ [Next]_vars => Inv'
  BY NextBase, NextIInv, StaysAstray, Zenon
<1> QED  BY <1>1, <1>2, PTL DEF Spec

-----------------------------------------------------------------------------
(***************************************************************************)
(* Misses and parallel accesses                                            *)
(***************************************************************************)

\* A block without requests has no MSHR.
LEMMA MeetsNoMiss == Base => NoWriteMeetsMiss
<1> SUFFICES ASSUME Base, NEW b \in Blocks, Outstanding(b) = {}, NEW m \in findMatch(b)
             PROVE  FALSE
  BY Zenon DEF NoWriteMeetsMiss
<1>1. m \in MSHRs /\ Serves(m, b)
  BY Zenon DEF findMatch, Serves
<1>2. PICK p \in Packets : pkts[p].cmd = "read" /\ pkts[p].blk = b
  BY <1>1, MissHasRead, Zenon
<1>3. p \in Outstanding(b)
  BY <1>2 DEF Outstanding, NoPkt
<1> QED  BY <1>3, Zenon

\* The fatal() of recvTimingReq, a write that finds an MSHR of its block, is
\* unreachable for a requester that keeps the directory's contract, in every build,
\* also when a packet's address is used again or an answer overtakes another.
THEOREM DataNoWriteMeetsMiss == Spec => []NoWriteMeetsMiss
BY DataBookkeeping, MeetsNoMiss, PTL

\* A read at main memory is its MSHR's, or that of an access that hit.
LEMMA Matched == IInv => AnswersMatched
<1> SUFFICES ASSUME IInv, NEW i \in DOMAIN memReads
             PROVE  LET r == memReads[i]
                        pr == pamQueue[r.blk]
                    IN IF pr = NoPam
                       THEN r.mshr \in findMatch(r.blk)
                       ELSE /\ pr.isHit # "hit" => pr.mshr \in findMatch(r.blk)
                            /\ pr.isHit = "miss" => pr.mshr = r.mshr
  BY Zenon DEF AnswersMatched
<1>0. Types /\ Reads /\ Pams /\ OneMSHR
  BY Zenon DEF IInv, Base
<1> PICK b \in Blocks : b = memReads[i].blk
  BY <1>0, ReadTypes, Zenon
<1> PICK m \in MSHRs : m = memReads[i].mshr
  BY <1>0, ReadTypes, Zenon
<1>1. pamQueue[b].isHit # "hit" => Serves(m, b)
  BY <1>0, Zenon DEF Reads, Live
<1>2. CASE pamQueue[b] = NoPam
  <2>1. Serves(m, b)
    BY <1>1, <1>2 DEF NoPam
  <2> QED  BY <1>2, <2>1, FindMatch, Zenon
<1>3. CASE pamQueue[b] # NoPam /\ pamQueue[b].isHit # "hit"
  <2>1. pamQueue[b] \in PamEntry /\ PamOK(b)
    BY <1>0, <1>3, Kinds, Zenon DEF KindsOK, Pams
  <2>2. pamQueue[b].isHit \in {"unknown", "miss"} /\ pamQueue[b].mshr \in MSHRs
    BY <1>3, <2>1, Zenon DEF PamEntry
  <2>3. Serves(pamQueue[b].mshr, b)
    BY <1>3, <2>1, <2>2, Zenon DEF PamOK, PamUnknown, PamMiss
  <2>4. pamQueue[b].mshr = m
    BY <1>0, <1>1, <1>3, <2>2, <2>3, Zenon DEF OneMSHR
  <2>5. pamQueue[b].mshr \in findMatch(b)
    BY <2>2, <2>3, FindMatch, Zenon
  <2> QED  BY <1>3, <2>4, <2>5, Zenon
<1>4. CASE pamQueue[b] # NoPam /\ pamQueue[b].isHit = "hit"
  BY <1>4
<1> QED  BY <1>2, <1>3, <1>4, Zenon

\* A queued read that the pamQueue names has not had its tag check.
LEMMA Creator == IInv => PamPacketIsCreator
<1> SUFFICES ASSUME IInv, NEW p \in Packets, QueuedRead(p), IsPamPacket(p)
             PROVE  /\ pamQueue[pkts[p].blk].isHit = "unknown"
                    /\ pamQueue[pkts[p].blk].mshr \in findMatch(pkts[p].blk)
  BY Zenon DEF PamPacketIsCreator
<1> PICK b \in Blocks : b = pkts[p].blk
  BY QueuedTypes, Zenon DEF IInv, Base
<1> QED  BY PamPacket, FindMatch, Zenon

\* As long as main memory answers the reads of a block in order and no packet
\* comes at an address its block's pamQueue entry still holds, recvTimingResp finds
\* for every answer the MSHR of its block, and processRespondEvent finds in the
\* pamQueue only the packet that made the entry: no other race breaks them.
THEOREM DataPamInStep == Spec => []PamInStep
<1>1. Base /\ (~astray => IInv) => PamInStep
  BY Matched, Creator, Zenon DEF PamInStep
<1> QED  BY <1>1, DataBookkeeping, PTL

-----------------------------------------------------------------------------
(***************************************************************************)
(* Type correctness                                                        *)
(***************************************************************************)

\* A sequence of distinct MSHRs is no longer than their number.
LEMMA DistinctMSHRs ==
  ASSUME NEW s \in Seq(MSHRs), \A i, j \in 1 .. Len(s) : s[i] = s[j] => i = j
  PROVE  Len(s) <= NumMSHRs
<1>1. NumMSHRs \in Nat /\ Len(s) \in Nat /\ s \in [1 .. Len(s) -> MSHRs]
  BY DataAssumption DEF DataAssumption
<1>2. IsFiniteSet(MSHRs) /\ Cardinality(MSHRs) = NumMSHRs
  BY <1>1, FS_Interval DEF MSHRs
<1>3. IsFiniteSet(1 .. Len(s)) /\ Cardinality(1 .. Len(s)) = Len(s)
  BY <1>1, FS_Interval
<1>4. ~(Len(s) > NumMSHRs)
  BY <1>1, <1>2, <1>3, FS_PigeonHole
<1> QED  BY <1>1, <1>4

\* The base implies the type invariant.
LEMMA TypesTypeOK == Base => TypeOK
<1> SUFFICES ASSUME Base PROVE TypeOK
  BY Zenon
<1>0. Types /\ FreeOnce /\ KindsOK
  BY Kinds, Zenon DEF Base
<1>1. set \in [Sets -> [tag : Tags, valid : BOOLEAN, dirty : BOOLEAN, gpu : BOOLEAN]]
  BY <1>0, Zenon DEF Types, LinesOK, Line
<1>2. \A p \in Packets :
        pkts[p] = NoPkt \/ /\ pkts[p].cmd \in {"read", "write"}
                           /\ pkts[p].blk \in Blocks /\ pkts[p].ctx \in Contexts
                           /\ pkts[p].at \in {"queue", "mshr", "deleted"}
  BY <1>0, Zenon DEF KindsOK, ReadPkt, WritePkt
<1>3. \A m \in MSHRs :
        Allocated(m) => /\ mshrs[m].blk \in Blocks /\ mshrs[m].ctx \in Contexts
                        /\ mshrs[m].inService \in BOOLEAN
                        /\ Waiting(m) \subseteq Packets
  BY <1>0, WaitingTargets, Zenon DEF KindsOK, Slot
<1>4. Len(freeList) <= NumMSHRs /\ \A i \in DOMAIN freeList : freeList[i] \in MSHRs
  BY <1>0, DistinctMSHRs DEF FreeOnce
<1>5. \A i \in DOMAIN writeBuffer :
        writeBuffer[i].blk \in Blocks /\ writeBuffer[i].data \in Versions
  BY <1>0, ReadTypes, Zenon
<1>6. \A b \in Blocks :
        pamQueue[b] = NoPam \/ /\ pamQueue[b].isHit \in {"unknown", "hit", "miss"}
                               /\ pamQueue[b].mshr \in MSHRs
                               /\ pamQueue[b].pkt \in Packets
  BY <1>0 DEF KindsOK, PamEntry
<1> QED  BY <1>0, <1>1, <1>2, <1>3, <1>4, <1>5, <1>6 DEF TypeOK, Types

\* The lines, packets, MSHRs, write-backs and parallel accesses stay well formed in
\* every build, and the free list never gets an MSHR twice.
THEOREM DataTypeOK == Spec => []TypeOK
BY DataBookkeeping, TypesTypeOK, PTL

-----------------------------------------------------------------------------
(***************************************************************************)
(* The data, without the predictor                                         *)
(***************************************************************************)

\* At the start the backing store has everything.
LEMMA InitDataInv == Init => DataInv
<1> SUFFICES ASSUME Init PROVE DataInv
  BY Zenon
<1>1. IInv
  BY InitIInv, Zenon
<1>2. /\ \A p \in Packets : pkts[p] = NoPkt
      /\ \A m \in MSHRs : mshrs[m] = Free
      /\ writeBuffer = <<>>
      /\ \A b \in Blocks : physMem[b] = latest[b]
  BY Zenon DEF Init
<1>3. WriteData
  <2>1. NoPkt.cmd # "write"
    BY Zenon DEF NoPkt
  <2> QED  BY <1>2, <2>1 DEF WriteData
<1>4. ASSUME NEW b \in Blocks
      PROVE  BlockOK(b)
  <2>1. ~Queued(b)
    BY <1>2 DEF Queued
  <2>2. \A m \in MSHRs : ~Serves(m, b)
    <3>1. \A m \in MSHRs : mshrs[m].blk = NoBlock
      BY <1>2 DEF Free
    <3> QED  BY <3>1, BlockNumbers, Zenon DEF Serves
  <2> QED  BY <1>2, <2>1, <2>2 DEF BlockOK
<1> QED  BY <1>3, <1>4 DEF DataInv

\* Steps that touch neither lines, requests, MSHRs nor values.
LEMMA DataStutter ==
  ASSUME DataInv, UNCHANGED <<set, pkts, missQueue, writeBuffer, physMem, latest>>
  PROVE  DataInv'
<1>1. \A n, c : (Serves(n, c)' <=> Serves(n, c)) /\ (Sent(n)' <=> Sent(n))
  BY Zenon DEF Serves, Sent, missQueue
<1> QED  BY <1>1, DataSame

\* Without the predictor no access finds a pamQueue entry.
LEMMA DataAccess ==
  ASSUME ~MAPI_PREDICTOR, IInv, DataInv, NEW p \in Packets, AccessDone(p)
  PROVE  DataInv' /\ (processWriteRespondEvent(p) \/ RespondSerial(p))
<1>1. ASSUME QueuedRead(p)
      PROVE  ~IsPamPacket(p)
  <2>1. pkts[p].blk \in Blocks
    BY <1>1, QueuedTypes, Zenon DEF IInv, Base
  <2> QED  BY <2>1, NoParallel, Zenon DEF IsPamPacket
<1>2. processWriteRespondEvent(p) \/ RespondSerial(p)
  BY <1>1, Zenon DEF AccessDone, RespondPamComplete, RespondPamHit, RespondPamMiss
<1> QED  BY <1>2, DataWriteRespond, DataSerial

\* Every step keeps DataInv.
LEMMA NextDataInv ==
  ASSUME ~MAPI_PREDICTOR
  PROVE  IInv /\ DataInv /\ [Next]_vars => DataInv'
<1> SUFFICES ASSUME IInv, DataInv, [Next]_vars PROVE DataInv'
  BY Zenon
<1>1. ASSUME NEW p \in Packets, NEW b \in Blocks, NEW ctx \in Contexts,
             RecvTimingReq(p, b, ctx)
      PROVE  DataInv'
  <2>1. CASE RecvWrite(p, b, ctx)
    BY <2>1, DataRecvWrite
  <2>2. CASE ~RecvWrite(p, b, ctx)
    BY <1>1, <2>2, DataRequest DEF RecvTimingReq
  <2> QED  BY <2>1, <2>2
<1>2. ASSUME NEW p \in Packets, AccessDone(p)
      PROVE  DataInv'
  BY <1>2, DataAccess
<1>3. ASSUME NEW b \in Blocks, FillServed(b) \/ MemWriteDone(b)
      PROVE  DataInv'
  BY <1>3, DataStutter, Zenon DEF FillServed, MemWriteDone, tags
<1>4. ASSUME NEW m \in MSHRs, SendMiss(m) \/ SendConflicting(m)
      PROVE  DataInv'
  <2>1. CASE SendMiss(m)
    BY <2>1, DataSendMiss
  <2>2. CASE SendConflicting(m)
    <3>1. PICK i \in DOMAIN writeBuffer :
            /\ Pending(i) /\ writeBuffer[i].blk = mshrs[m].blk
            /\ \A j \in 1 .. i - 1 : Pending(j) => writeBuffer[j].blk # mshrs[m].blk
            /\ WriteBack(i)
      BY <2>2, Zenon DEF SendConflicting
    <3> QED  BY <3>1, DataSendWriteBack
  <2> QED  BY <1>4, <2>1, <2>2
<1>5. ASSUME NEW i \in DOMAIN writeBuffer, SendWriteBack(i) \/ RecvWriteResp(i)
      PROVE  DataInv'
  BY <1>5, DataSendWriteBack, DataWriteResp
<1>6. ASSUME NEW i \in DOMAIN memReads, RecvPamResp(i) \/ RecvReadResp(i)
      PROVE  DataInv'
  <2>1. memReads[i].blk \in Blocks
    BY ReadTypes, Zenon DEF IInv, Base
  <2>2. RecvReadResp(i)
    BY <1>6, <2>1, NoParallel DEF RecvPamResp
  <2> QED  BY <2>2, DataReadResp
<1>7. CASE ToggleGPU
  BY <1>7, DataStutter DEF ToggleGPU, tags
<1>8. CASE UNCHANGED vars
  BY <1>8, DataStutter DEF vars, tags
<1> QED  BY <1>1, <1>2, <1>3, <1>4, <1>5, <1>6, <1>7, <1>8, Steps, Zenon

\* Without the predictor no packet and no answer goes astray: no read of a block
\* is at main memory twice.
LEMMA NextInOrder ==
  ASSUME ~MAPI_PREDICTOR
  PROVE  IInv /\ ~astray /\ [Next]_vars => ~astray'
<1> SUFFICES ASSUME IInv, ~astray, [Next]_vars, astray' PROVE FALSE
  BY Zenon
<1>1. ASSUME NEW p \in Packets, NEW b \in Blocks, NEW ctx \in Contexts,
             astray' = (astray \/ (pamQueue[b] # NoPam /\ pamQueue[b].pkt = p))
      PROVE  FALSE
  <2>1. pamQueue[b] = NoPam
    BY NoParallel, Zenon
  <2> QED  BY <1>1, <2>1
<1>2. ASSUME NEW i \in DOMAIN memReads, astray' = (astray \/ Overtakes(i))
      PROVE  FALSE
  <2>1. PICK j \in 1 .. i - 1 : memReads[j].blk = memReads[i].blk
    BY <1>2 DEF Overtakes
  <2>2. memReads \in Seq(MemRead) /\ Reads
    BY Zenon DEF IInv, Base, Types
  <2>3. j \in DOMAIN memReads /\ j < i
    BY <2>2
  <2>4. pamQueue[memReads[j].blk].isHit = "hit"
    BY <2>1, <2>2, <2>3, Zenon DEF Reads
  <2>5. memReads[j].blk \in Blocks
    BY <2>3, ReadTypes, Zenon DEF IInv, Base
  <2>6. pamQueue[memReads[j].blk] = NoPam
    BY <2>5, NoParallel, Zenon
  <2> QED  BY <2>4, <2>6 DEF NoPam
<1> QED  BY <1>1, <1>2, GoesAstray

\* In a build without the predictor the lines, the write buffer and the backing
\* store are in every reachable state what DataInv says.
THEOREM DataValues ==
  ASSUME ~MAPI_PREDICTOR
  PROVE  Spec => [](IInv /\ DataInv)
<1> DEFINE Inv == IInv /\ ~astray /\ DataInv
<1>1. Init => Inv
  BY InitIInv, InitDataInv DEF Init
<1>2. Inv /\ [Next]_vars => Inv'
  <2>1. IInv => Base
    BY Zenon DEF IInv
  <2>2. IInv /\ DataInv /\ [Next]_vars => DataInv'
    BY NextDataInv, Zenon
  <2>3. IInv /\ ~astray /\ [Next]_vars => ~astray'
    BY NextInOrder, Zenon
  <2> QED  BY <2>1, <2>2, <2>3, NextBase, NextIInv, Zenon
<1> QED  BY <1>1, <1>2, PTL DEF Spec

\* A block's last write is in the backing store or on its way there.
LEMMA NotLost == IInv /\ DataInv => NoWriteLost
<1> SUFFICES ASSUME IInv, DataInv, NEW b \in Blocks
             PROVE  \/ physMem[b] = latest[b]
                    \/ \E p \in Outstanding(b) : pkts[p].cmd = "write" /\ ~Hit(b)
                    \/ \E i \in DOMAIN writeBuffer :
                         /\ Pending(i)
                         /\ writeBuffer[i].blk = b /\ writeBuffer[i].data = latest[b]
  BY Zenon DEF NoWriteLost
<1>1. BlockOK(b)
  BY Zenon DEF DataInv
<1>2. CASE Hit(b)
  BY <1>1, <1>2 DEF BlockOK
<1>3. CASE ~Hit(b) /\ Writing(b)
  BY <1>3, WritingOutstanding
<1>4. CASE ~Writing(b) /\ Queued(b)
  BY <1>1, <1>4 DEF BlockOK, LastQueued, ToSend
<1>5. CASE ~Writing(b) /\ ~Queued(b)
  BY <1>1, <1>5 DEF BlockOK
<1> QED  BY <1>2, <1>3, <1>4, <1>5

\* No write is lost: what getNextMSHR, doWriteBack and addToFillQueue do with a
\* block's write-backs never leaves an older value as the last one.
THEOREM DataNoWriteLost ==
  ASSUME ~MAPI_PREDICTOR
  PROVE  Spec => []NoWriteLost
BY DataValues, NotLost, PTL

\* A line's block is current, with no write-back to overwrite it.
LEMMA HitCurrent == DataInv => HitsCurrent
BY Zenon DEF DataInv, BlockOK, HitsCurrent, Queued, ToSend

\* A block the cache says it holds has its last write in the backing store, and
\* no write-back of it waits in the write buffer.
THEOREM DataHitsCurrent ==
  ASSUME ~MAPI_PREDICTOR
  PROVE  Spec => []HitsCurrent
BY DataValues, HitCurrent, PTL

\* An MSHR's block has no dirty line.
LEMMA MissClean == IInv /\ DataInv => NoDirtyMiss
<1> SUFFICES ASSUME IInv, DataInv, NEW m \in MSHRs, Allocated(m)
             PROVE  ~Dirty(mshrs[m].blk)
  BY Zenon DEF NoDirtyMiss, Dirty
<1>1. mshrs[m].blk \in Blocks /\ Serves(m, mshrs[m].blk)
  BY Kinds, Zenon DEF IInv, Base, KindsOK, Serves
<1> QED  BY <1>1, Zenon DEF DataInv, BlockOK

\* A miss, of a bypassing read or an ordinary one, never waits for main memory
\* to give a block that the cache holds dirty.
THEOREM DataNoDirtyMiss ==
  ASSUME ~MAPI_PREDICTOR
  PROVE  Spec => []NoDirtyMiss
BY DataValues, MissClean, PTL

\* What the fill queue or the cache's DRAM returns is current.
LEMMA StaleRequest ==
  ASSUME ~MAPI_PREDICTOR, IInv, DataInv, NEW p \in Packets, NEW b \in Blocks,
         NEW ctx \in Contexts, RecvTimingReq(p, b, ctx), ~RecvReadWriteBuffer(p, b)
  PROVE  UNCHANGED stale
<1>1. CASE RecvReadFillQueue(p, b, ctx)
  <2>1. /\ ~InWriteBuffer(b) /\ Respond({}, b, physMem[b])
        /\ \A q \in Outstanding(b) : pkts[q].cmd = "read"
    BY <1>1, Zenon DEF RecvReadFillQueue, ToReadQueue, MayRead
  <2>2. ~Queued(b)
    BY <2>1, Zenon DEF Queued, ToSend, InWriteBuffer
  <2>3. ~Writing(b)
    BY <2>1, WritingOutstanding, Zenon
  <2>4. physMem[b] = latest[b]
    BY <2>2, <2>3 DEF DataInv, BlockOK
  <2> QED  BY <2>1, <2>4 DEF Respond
<1>2. CASE ~RecvReadFillQueue(p, b, ctx)
  BY <1>2, Zenon
     DEF RecvTimingReq, RecvReadCoalesce, RecvReadBypass, RecvReadQueue, RecvWrite
<1> QED  BY <1>1, <1>2, Zenon

\* What a tag check returns is current.
LEMMA StaleAccess ==
  ASSUME ~MAPI_PREDICTOR, IInv, DataInv, NEW p \in Packets, AccessDone(p)
  PROVE  UNCHANGED stale
<1>1. CASE processWriteRespondEvent(p)
  BY <1>1, Zenon DEF processWriteRespondEvent
<1>2. CASE RespondSerial(p)
  <2>1. QueuedRead(p)
    BY <1>2, Zenon DEF RespondSerial
  <2> PICK b \in Blocks : b = pkts[p].blk
    BY <2>1, QueuedTypes, Zenon DEF IInv, Base
  <2>2. CASE Hit(b)
    <3>1. physMem[b] = latest[b]
      BY <2>2, Zenon DEF DataInv, BlockOK
    <3> QED  BY <1>2, <2>2, <3>1 DEF RespondSerial, Respond
  <2>3. CASE ~Hit(b)
    BY <1>2, <2>3, Zenon DEF RespondSerial
  <2> QED  BY <2>2, <2>3, Zenon
<1> QED  BY <1>1, <1>2, DataAccess

\* A step that answers a read with an older value.
LEMMA StaleStep ==
  ASSUME ~MAPI_PREDICTOR, IInv, DataInv, [Next]_vars, stale' # stale
  PROVE  \E p \in Packets, b \in Blocks : RecvReadWriteBuffer(p, b)
<1>1. ASSUME NEW p \in Packets, NEW b \in Blocks, NEW ctx \in Contexts,
             RecvTimingReq(p, b, ctx)
      PROVE  RecvReadWriteBuffer(p, b)
  BY <1>1, StaleRequest, Zenon
<1>2. ASSUME NEW p \in Packets, AccessDone(p)
      PROVE  FALSE
  BY <1>2, StaleAccess, Zenon
<1>3. ASSUME NEW b \in Blocks, FillServed(b) \/ MemWriteDone(b)
      PROVE  FALSE
  BY <1>3, Zenon DEF FillServed, MemWriteDone
<1>4. ASSUME NEW m \in MSHRs, SendMiss(m) \/ SendConflicting(m)
      PROVE  FALSE
  BY <1>4, Zenon DEF SendMiss, SendConflicting, WriteBack
<1>5. ASSUME NEW i \in DOMAIN writeBuffer, SendWriteBack(i) \/ RecvWriteResp(i)
      PROVE  FALSE
  BY <1>5, Zenon DEF SendWriteBack, WriteBack, RecvWriteResp
<1>6. ASSUME NEW i \in DOMAIN memReads, RecvPamResp(i) \/ RecvReadResp(i)
      PROVE  FALSE
  <2>1. memReads[i].blk \in Blocks
    BY ReadTypes, Zenon DEF IInv, Base
  <2>2. RecvReadResp(i)
    BY <1>6, <2>1, NoParallel, Zenon DEF RecvPamResp
  <2> QED  BY <2>2, DataReadResp, Zenon
<1>7. CASE ToggleGPU
  BY <1>7, Zenon DEF ToggleGPU
<1>8. CASE UNCHANGED vars
  BY <1>8, Zenon DEF vars
<1> QED  BY <1>1, <1>2, <1>3, <1>4, <1>5, <1>6, <1>7, <1>8, Steps, Zenon

\* The one way a read gets an older value is the answer of recvTimingReq out of
\* the write buffer, the case that run data_stale_read exhibits.
THEOREM DataStaleOnlyFromWriteBuffer ==
  ASSUME ~MAPI_PREDICTOR
  PROVE  Spec => StaleOnlyFromWriteBuffer
<1>1. IInv /\ DataInv /\ [Next]_vars =>
        [stale' # stale => \E p \in Packets, b \in Blocks : RecvReadWriteBuffer(p, b)]_vars
  BY StaleStep, Zenon
<1> QED  BY <1>1, DataValues, PTL DEF Spec, StaleOnlyFromWriteBuffer

=============================================================================
