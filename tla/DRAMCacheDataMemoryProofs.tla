--------------------- MODULE DRAMCacheDataMemoryProofs ----------------------
(***************************************************************************)
(* What is sent to main memory and what it answers keep the invariants of  *)
(* DRAMCacheDataInvariant.                                                 *)
(***************************************************************************)
EXTENDS DRAMCacheDataInvariant

-----------------------------------------------------------------------------
(***************************************************************************)
(* Requests to main memory                                                 *)
(***************************************************************************)

\* The steps that concern the fill queue, main memory's writes and kernels only.
LEMMA BaseAside ==
  ASSUME Base, (\E b \in Blocks : FillServed(b) \/ MemWriteDone(b)) \/ ToggleGPU
  PROVE  Base' /\ UNCHANGED <<pkts, mshrs, pamQueue, memReads, astray>>
<1>1. /\ UNCHANGED <<set, pkts, missQueue, writeBuffer, pamQueue, memReads, physMem,
                     latest, stale, astray>>
      /\ fillQ' \subseteq fillQ /\ memWriteQ' \subseteq memWriteQ
      /\ gpuRunning' = gpuRunning \/ gpuRunning' = ~gpuRunning
  BY Zenon DEF FillServed, MemWriteDone, ToggleGPU, tags, memory
<1>2. gpuRunning' \in BOOLEAN
  BY <1>1, Zenon DEF Base, Types
<1>3. Types'
  BY <1>1, <1>2, Zenon DEF Base, Types, LinesOK, missQueue
<1>4. \A n \in MSHRs : mshrs'[n].blk = mshrs[n].blk /\ Waiting(n)' = Waiting(n)
  BY <1>1, Zenon DEF Waiting, missQueue
<1> QED  BY <1>1, <1>3, <1>4, BaseSame, Zenon DEF missQueue

\* A write-back that is sent: its entry is in service and nothing else changes.
LEMMA WriteBackSent ==
  ASSUME Types, NEW i \in DOMAIN writeBuffer, WriteBack(i)
  PROVE  /\ writeBuffer' \in Seq(WriteBackEntry)
         /\ DOMAIN writeBuffer' = DOMAIN writeBuffer
         /\ \A j \in DOMAIN writeBuffer : j # i => writeBuffer'[j] = writeBuffer[j]
         /\ writeBuffer'[i].inService = TRUE
         /\ physMem' = [physMem EXCEPT ![writeBuffer[i].blk] = writeBuffer[i].data]
         /\ physMem' \in [Blocks -> Versions] /\ memWriteQ' \in SUBSET Blocks
<1>1. writeBuffer[i] \in WriteBackEntry /\ writeBuffer \in Seq(WriteBackEntry)
  BY ReadTypes, Zenon DEF Types
<1> DEFINE e == [writeBuffer[i] EXCEPT !.inService = TRUE]
<1>2. e \in WriteBackEntry /\ e.inService = TRUE
  BY <1>1, Zenon DEF WriteBackEntry
<1>3. writeBuffer' = [writeBuffer EXCEPT ![i] = e]
  BY Zenon DEF WriteBack
<1> HIDE DEF e
<1>4. DOMAIN writeBuffer = 1 .. Len(writeBuffer)
  BY <1>1
<1>5. /\ writeBuffer' \in Seq(WriteBackEntry)
      /\ DOMAIN writeBuffer' = DOMAIN writeBuffer
      /\ \A j \in DOMAIN writeBuffer : j # i => writeBuffer'[j] = writeBuffer[j]
      /\ writeBuffer'[i] = e
  BY <1>1, <1>2, <1>3, <1>4
<1>6. /\ physMem' = [physMem EXCEPT ![writeBuffer[i].blk] = writeBuffer[i].data]
      /\ memWriteQ' = memWriteQ \cup {writeBuffer[i].blk}
  BY Zenon DEF WriteBack
<1>7. writeBuffer[i].blk \in Blocks /\ writeBuffer[i].data \in Versions
  BY <1>1, Zenon DEF WriteBackEntry
<1>8. physMem' \in [Blocks -> Versions] /\ memWriteQ' \in SUBSET Blocks
  BY <1>6, <1>7, Zenon DEF Types
<1> QED  BY <1>2, <1>5, <1>6, <1>8, Zenon

\* A write-back is sent, or answered.
LEMMA BaseWriteBack ==
  ASSUME Base, NEW i \in DOMAIN writeBuffer, WriteBack(i) \/ RecvWriteResp(i)
  PROVE  Base' /\ UNCHANGED <<pkts, mshrs, pamQueue, memReads, astray>>
<1>1. UNCHANGED <<tags, pkts, missQueue, pamQueue, memReads, latest, gpuRunning, stale,
                  astray>>
  BY Zenon DEF WriteBack, RecvWriteResp, memory
<1>2. /\ writeBuffer' \in Seq(WriteBackEntry)
      /\ physMem' \in [Blocks -> Versions] /\ memWriteQ' \in SUBSET Blocks
  <2>1. CASE WriteBack(i)
    BY <2>1, WriteBackSent, Zenon DEF Base
  <2>2. CASE RecvWriteResp(i)
    <3>1. writeBuffer \in Seq(WriteBackEntry)
      BY Zenon DEF Base, Types
    <3>2. writeBuffer' \in Seq(WriteBackEntry)
      BY <2>2, <3>1, RemoveAtProperties DEF RecvWriteResp
    <3> QED  BY <2>2, <3>2, Zenon DEF RecvWriteResp, memory, Base, Types
  <2> QED  BY <2>1, <2>2, Zenon
<1>3. Types'
  BY <1>1, <1>2, Zenon DEF Base, Types, LinesOK, missQueue, tags
<1>4. \A n \in MSHRs : mshrs'[n].blk = mshrs[n].blk /\ Waiting(n)' = Waiting(n)
  BY <1>1, Zenon DEF Waiting, missQueue
<1> QED  BY <1>1, <1>3, <1>4, BaseSame, Zenon DEF missQueue

\* The read of the entry m of block b goes to main memory.
LEMMA MissSent ==
  ASSUME Types, NEW m \in MSHRs, SendMiss(m)
  PROVE  /\ mshrs' \in [MSHRs -> Slot]
         /\ \A n \in MSHRs : mshrs'[n].blk = mshrs[n].blk /\ (Cloned(n) => Cloned(n)')
         /\ ~Sent(m) /\ Sent(m)' /\ \A n \in MSHRs : n # m => (Sent(n)' <=> Sent(n))
         /\ \A n \in MSHRs : Waiting(n)' = Waiting(n)
         /\ \A n \in MSHRs : \A c \in Blocks : Serves(n, c)' <=> Serves(n, c)
         /\ \E b \in Blocks : \E r \in MemRead :
              /\ Serves(m, b) /\ r.blk = b /\ r.mshr = m
              /\ memReads' = Append(memReads, r)
<1>1. mshrs[m] \in Slot /\ mshrs[m].blk \in Blocks /\ ~Sent(m)
  BY Kinds, Zenon DEF SendMiss, PendingMiss, KindsOK, Sent
<1> DEFINE e == [mshrs[m] EXCEPT !.inService = TRUE]
<1>2. /\ e \in Slot /\ e.blk = mshrs[m].blk /\ e.targets = mshrs[m].targets
      /\ e.inService = TRUE
  BY <1>1, Zenon DEF Slot
<1>3. mshrs' = [mshrs EXCEPT ![m] = e]
  BY Zenon DEF SendMiss
<1> HIDE DEF e
<1>4. /\ mshrs' \in [MSHRs -> Slot] /\ mshrs'[m] = e
      /\ \A n \in MSHRs : n # m => mshrs'[n] = mshrs[n]
  BY <1>2, <1>3, Zenon DEF Types
<1>5. \A n \in MSHRs : /\ mshrs'[n].blk = mshrs[n].blk
                       /\ mshrs'[n].targets = mshrs[n].targets
  BY <1>2, <1>4, Zenon
<1>6. \A n \in MSHRs : \A c \in Blocks : Serves(n, c)' <=> Serves(n, c)
  BY <1>5, Zenon DEF Serves
<1>7. \A n \in MSHRs : Waiting(n)' = Waiting(n) /\ (Cloned(n) => Cloned(n)')
  BY <1>5, Zenon DEF Waiting, Cloned
<1>8. Sent(m)' /\ \A n \in MSHRs : n # m => (Sent(n)' <=> Sent(n))
  BY <1>2, <1>4, Zenon DEF Sent
<1> DEFINE b == mshrs[m].blk
           f == (b \in memWriteQ)
           v == IF f THEN physMem[b] ELSE 0
           r == [blk |-> b, mshr |-> m, ctx |-> mshrs[m].ctx, fast |-> f, data |-> v]
<1>9. b \in Blocks /\ mshrs[m].ctx \in Contexts /\ f \in BOOLEAN /\ Serves(m, b)
  BY <1>1 DEF Slot, Serves
<1>10. v \in Versions
  <2>1. 0 \in Versions
    BY DataAssumption DEF DataAssumption, Versions
  <2>2. physMem[b] \in Versions
    BY <1>9, Zenon DEF Types
  <2> QED  BY <2>1, <2>2, Zenon
<1>11. memReads' = Append(memReads, r)
  BY Zenon DEF SendMiss
<1> HIDE DEF v, f, b
<1>12. r \in MemRead /\ r.blk = b /\ r.mshr = m
  BY <1>9, <1>10, Zenon DEF MemRead
<1> HIDE DEF r
<1>13. \E c \in Blocks : \E x \in MemRead :
         /\ Serves(m, c) /\ x.blk = c /\ x.mshr = m
         /\ memReads' = Append(memReads, x)
  BY <1>9, <1>11, <1>12, Zenon
<1> QED  BY <1>1, <1>4, <1>5, <1>6, <1>7, <1>8, <1>13, Zenon

\* Sending a miss keeps the base.
LEMMA BaseSendMiss ==
  ASSUME Base, NEW m \in MSHRs, SendMiss(m)
  PROVE  Base'
<1>1. Types
  BY Zenon DEF Base
<1>2. /\ mshrs' \in [MSHRs -> Slot]
      /\ \A n \in MSHRs : mshrs'[n].blk = mshrs[n].blk /\ Waiting(n)' = Waiting(n)
  BY <1>1, MissSent, Zenon
<1>3. \E r \in MemRead : memReads' = Append(memReads, r)
  BY <1>1, MissSent, Zenon
<1>4. memReads' \in Seq(MemRead)
  <2>1. memReads \in Seq(MemRead)
    BY <1>1, Zenon DEF Types
  <2> QED  BY <1>3, <2>1
<1>5. UNCHANGED <<tags, pkts, freeList, writeBuffer, pamQueue, memWriteQ, physMem, latest,
                  gpuRunning, stale, astray>>
  BY Zenon DEF SendMiss
<1>6. Types'
  BY <1>1, <1>2, <1>4, <1>5, Zenon DEF Types, LinesOK, tags
<1> QED  BY <1>2, <1>5, <1>6, BaseSame, Zenon

\* A miss is sent.
LEMMA IInvSendMiss ==
  ASSUME IInv, Base', NEW m \in MSHRs, SendMiss(m)
  PROVE  IInv'
<1> USE DEF IInv
<1>0. Types /\ Types'
  BY Zenon DEF Base
<1>1. /\ ~Sent(m) /\ Sent(m)' /\ \A n \in MSHRs : n # m => (Sent(n)' <=> Sent(n))
      /\ \A n \in MSHRs : Waiting(n)' = Waiting(n) /\ (Cloned(n) => Cloned(n)')
      /\ \A n \in MSHRs : \A c \in Blocks : Serves(n, c)' <=> Serves(n, c)
  BY <1>0, MissSent, Zenon
<1>2. PICK b \in Blocks : \E r \in MemRead :
        /\ Serves(m, b) /\ r.blk = b /\ r.mshr = m
        /\ memReads' = Append(memReads, r)
  BY <1>0, MissSent, Zenon
<1>3. PICK r \in MemRead :
        /\ Serves(m, b) /\ r.blk = b /\ r.mshr = m
        /\ memReads' = Append(memReads, r)
  BY <1>2, Zenon
<1> PICK L \in Nat : L = Len(memReads)
  BY <1>0 DEF Types
<1>4. /\ memReads \in Seq(MemRead) /\ L \in Nat /\ DOMAIN memReads = 1 .. L
      /\ memReads' \in Seq(MemRead) /\ DOMAIN memReads' = 1 .. L + 1
      /\ \A i \in 1 .. L : memReads'[i] = memReads[i]
      /\ memReads'[L + 1] = r
  BY <1>0, <1>3 DEF Types
<1>5. UNCHANGED <<pkts, pamQueue>>
  BY Zenon DEF SendMiss
<1>7. OneMSHR'
  BY <1>1, OneKept, Zenon
<1>8. Targets'
  BY <1>1, <1>5, TargetsKept, Zenon
<1>9. Alone'
  BY <1>0, <1>5, AloneKept, Zenon
<1>10. AtMemory(b)' /\ \A c \in Blocks : c # b => (AtMemory(c)' <=> AtMemory(c))
  <2>1. \A i \in 1 .. L + 1 : i = L + 1 \/ i \in 1 .. L
    BY <1>4
  <2>2. \A i \in 1 .. L : i \in 1 .. L + 1
    BY <1>4
  <2>3. L + 1 \in 1 .. L + 1
    BY <1>4
  <2> QED  BY <1>3, <1>4, <2>1, <2>2, <2>3, Zenon DEF AtMemory, ReadOf
<1>11. \A n \in MSHRs : \A c \in Blocks : Serves(n, c) /\ (n = m \/ c = b) => n = m /\ c = b
  BY <1>3, Zenon DEF OneMSHR, Serves
<1>12. Pams'
  <2> SUFFICES ASSUME NEW c \in Blocks, pamQueue[c] # NoPam PROVE PamOK(c)'
    BY <1>5, Zenon DEF Pams, PamOK
  <2>1. PamOK(c)
    BY Zenon DEF Pams
  <2>2. CASE c # b
    <3>1. \A n \in MSHRs : Serves(n, c) => Serves(n, c)' /\ Stays(n)
      BY <2>2, <1>1, <1>11, Zenon DEF Stays
    <3> QED  BY <2>1, <2>2, <3>1, <1>5, <1>10, PamKept, Zenon
  <2>3. CASE c = b
    <3>1. pamQueue[b].complete => pamQueue[b].isHit = "unknown"
      <4>1. pamQueue[b].isHit \in {"unknown", "hit", "miss"}
        BY <1>0, <2>3, Kinds, Zenon DEF KindsOK, PamEntry
      <4> QED  BY <2>1, <2>3, <4>1, Zenon DEF PamOK, PamHit, PamMiss
    <3>2. ~pamQueue[b].complete
      <4>1. pamQueue[b].complete =>
              Serves(pamQueue[b].mshr, b) /\ Sent(pamQueue[b].mshr)
        BY <2>1, <2>3, <3>1, Zenon DEF PamOK, PamUnknown
      <4> QED  BY <4>1, <1>1, <1>11, Zenon DEF Serves
    <3>3. MAPI_PREDICTOR
      BY <2>1, Zenon DEF PamOK
    <3>4. pamQueue[b].isHit = "unknown" => PamUnknown(b)'
      <4> SUFFICES ASSUME pamQueue[b].isHit = "unknown" PROVE PamUnknown(b)'
        BY Zenon
      <4>1. PamUnknown(b) /\ Serves(pamQueue[b].mshr, b) /\ Cloned(pamQueue[b].mshr)
        BY <2>1, <2>3, Zenon DEF PamOK, PamUnknown
      <4>2. PICK n \in MSHRs : n = pamQueue[b].mshr
        BY <4>1, Zenon DEF Serves
      <4>3. Serves(n, b)' /\ Cloned(n)'
        BY <4>1, <4>2, <1>1, Zenon
      <4> QED  BY <4>1, <4>2, <4>3, <1>5, <1>10, <3>2, Zenon
                  DEF PamUnknown, QueuedRead, Serves, Cloned
    <3>5. pamQueue[b].isHit = "miss" => PamMiss(b)'
      <4> SUFFICES ASSUME pamQueue[b].isHit = "miss" PROVE PamMiss(b)'
        BY Zenon
      <4>1. PamMiss(b) /\ Serves(pamQueue[b].mshr, b) /\ Cloned(pamQueue[b].mshr)
        BY <2>1, <2>3, Zenon DEF PamOK, PamMiss
      <4>2. PICK n \in MSHRs : n = pamQueue[b].mshr
        BY <4>1, Zenon DEF Serves
      <4>3. Serves(n, b)' /\ Cloned(n)'
        BY <4>1, <4>2, <1>1, Zenon
      <4> QED  BY <4>1, <4>2, <4>3, <1>5, Zenon DEF PamMiss, InMSHR, Serves, Cloned
    <3>6. pamQueue[b].isHit = "hit" => PamHit(b)'
      BY <2>1, <2>3, <1>5, <1>10, Zenon DEF PamOK, PamHit, QueuedRead
    <3> QED  BY <2>3, <3>2, <3>3, <3>4, <3>5, <3>6, <1>5, Zenon DEF PamOK
  <2> QED  BY <2>2, <2>3, Zenon
<1>13. Reads'
  <2>0. OnlyHit(b)
    BY <1>1, <1>3, Zenon DEF Reads
  <2>1. \A i \in 1 .. L : /\ memReads[i].blk \in Blocks /\ memReads[i].mshr \in MSHRs
                          /\ i \in DOMAIN memReads
    BY <1>0, <1>4, ReadTypes, Zenon
  <2>2. \A i \in 1 .. L + 1 : i \in Nat /\ (i = L + 1 \/ i \in 1 .. L)
    BY <1>4
  <2>3. \A i \in 1 .. L : Live(i) => Live(i)'
    <3> SUFFICES ASSUME NEW i \in 1 .. L, Live(i) PROVE Live(i)'
      BY Zenon
    <3>1. PICK n \in MSHRs : n = memReads[i].mshr
      BY <2>1, Zenon
    <3>2. PICK c \in Blocks : c = memReads[i].blk
      BY <2>1, Zenon
    <3>3. Serves(n, c) /\ Sent(n)
      BY <3>1, <3>2, Zenon DEF Live
    <3>4. Serves(n, c)' /\ Sent(n)'
      BY <3>3, <1>1, Zenon
    <3> QED  BY <3>1, <3>2, <3>4, <1>4, Zenon DEF Live, Serves, Sent
  <2>4. Live(L + 1)'
    <3>1. Serves(m, b)' /\ Sent(m)'
      BY <1>1, <1>3, Zenon
    <3> QED  BY <3>1, <1>3, <1>4, Zenon DEF Live, Serves, Sent
  <2>5. \A i \in DOMAIN memReads' : pamQueue'[memReads'[i].blk].isHit # "hit" => Live(i)'
    BY <1>4, <1>5, <2>1, <2>2, <2>3, <2>4, Zenon DEF Reads
  <2>6. ASSUME NEW i \in 1 .. L + 1, NEW j \in 1 .. L + 1, i < j,
               memReads'[i].blk = memReads'[j].blk
        PROVE  pamQueue'[memReads'[i].blk].isHit = "hit" /\ Live(j)'
    <3>1. i \in 1 .. L
      BY <2>6, <1>4
    <3>2. CASE j \in 1 .. L
      BY <2>1, <2>3, <2>6, <3>1, <3>2, <1>4, <1>5 DEF Reads
    <3>3. CASE j = L + 1
      <4>1. memReads[i].blk = b /\ ReadOf(b, i)
        BY <2>1, <2>6, <3>1, <3>3, <1>3, <1>4, Zenon DEF ReadOf
      <4>2. pamQueue[b].isHit = "hit"
        BY <4>1, <2>0, <2>1, <3>1, Zenon DEF OnlyHit
      <4> QED  BY <4>1, <4>2, <2>4, <3>1, <3>3, <1>4, <1>5, Zenon
    <3> QED  BY <2>2, <3>2, <3>3, Zenon
  <2>7. ASSUME NEW i \in 1 .. L + 1, NEW j \in 1 .. L + 1, NEW k \in 1 .. L + 1,
               i < j, j < k, memReads'[i].blk = memReads'[j].blk,
               memReads'[j].blk = memReads'[k].blk
        PROVE  FALSE
    <3>1. i \in 1 .. L /\ j \in 1 .. L /\ i # j
      BY <2>7, <1>4
    <3>2. CASE k \in 1 .. L
      BY <2>1, <2>7, <3>1, <3>2, <1>4 DEF Reads
    <3>3. CASE k = L + 1
      <4>1. ReadOf(b, i) /\ ReadOf(b, j)
        BY <2>1, <2>7, <3>1, <3>3, <1>3, <1>4, Zenon DEF ReadOf
      <4> QED  BY <4>1, <2>0, <2>1, <3>1, Zenon DEF OnlyHit
    <3> QED  BY <2>2, <3>2, <3>3, Zenon
  <2>8. ASSUME NEW n \in MSHRs, NEW c \in Blocks, Serves(n, c)', ~Sent(n)'
        PROVE  OnlyHit(c)'
    <3>1. Serves(n, c) /\ n # m
      BY <2>8, <1>1, Zenon
    <3>2. c # b /\ ~Sent(n)
      BY <3>1, <2>8, <1>1, <1>11, Zenon
    <3>3. OnlyHit(c)
      BY <3>1, <3>2, Zenon DEF Reads
    <3> SUFFICES ASSUME NEW i \in 1 .. L + 1, NEW j \in 1 .. L + 1,
                        memReads'[i].blk = c, memReads'[j].blk = c
                 PROVE  i = j /\ pamQueue'[c].isHit = "hit"
      BY <1>4, Zenon DEF OnlyHit, ReadOf
    <3>4. i \in 1 .. L /\ j \in 1 .. L
      BY <2>2, <3>2, <1>3, <1>4, Zenon
    <3>5. ReadOf(c, i) /\ ReadOf(c, j)
      BY <2>1, <3>4, <1>4, Zenon DEF ReadOf
    <3> QED  BY <2>1, <3>3, <3>4, <3>5, <1>5, Zenon DEF OnlyHit
  <2> QED  BY <1>4, <2>5, <2>6, <2>7, <2>8, Zenon DEF Reads
<1> QED  BY <1>7, <1>8, <1>9, <1>12, <1>13, Zenon

-----------------------------------------------------------------------------
(***************************************************************************)
(* Answers of main memory                                                  *)
(***************************************************************************)

\* A read that main memory answers, and what is left there.
LEMMA Answered ==
  ASSUME Types, NEW i \in DOMAIN memReads, memReads' = RemoveAt(memReads, i)
  PROVE  /\ memReads[i].blk \in Blocks /\ memReads[i].mshr \in MSHRs
         /\ memReads[i].ctx \in Contexts /\ AnswerData(i) \in Versions
         /\ memReads' \in Seq(MemRead)
<1>1. memReads[i] \in MemRead
  BY ReadTypes, Zenon
<1>2. AnswerData(i) \in Versions
  BY <1>1, Zenon DEF AnswerData, MemRead, Types
<1>3. memReads' \in Seq(MemRead)
  <2>1. memReads \in Seq(MemRead) /\ i \in 1 .. Len(memReads)
    BY DEF Types
  <2> QED  BY <2>1, RemoveAtProperties, Zenon
<1> QED  BY <1>1, <1>2, <1>3, Zenon DEF MemRead

\* Main memory answers the read of an entry and the entry goes.
LEMMA IInvAnswered ==
  ASSUME IInv, Base', NEW i \in DOMAIN memReads, NEW b \in Blocks, memReads[i].blk = b,
         pamQueue[b].isHit # "hit", NEW m \in MSHRs, Serves(m, b),
         \A q \in Packets : pkts'[q] = IF q \in Waiting(m) THEN NoPkt ELSE pkts[q],
         deallocate(m), memReads' = RemoveAt(memReads, i),
         pamQueue'[b] = NoPam, \A c \in Blocks : c # b => pamQueue'[c] = pamQueue[c]
  PROVE  IInv'
<1>1. /\ Types /\ FreeOnce /\ Held /\ Types' /\ Base
      /\ OneMSHR /\ Targets /\ Alone /\ Pams /\ Reads
  BY Zenon DEF IInv, Base
<1>2. /\ \A n \in MSHRs : \A c \in Blocks : Serves(n, c)' <=> n # m /\ Serves(n, c)
      /\ \A n \in MSHRs : n # m => mshrs'[n] = mshrs[n]
      /\ Waiting(m)' = {}
      /\ \A n \in MSHRs : n # m => Waiting(n)' = Waiting(n)
  BY <1>1, Deallocates, Zenon
<1>3. OneMSHR'
  BY <1>1, <1>2, OneKept, Zenon
<1>4. \A q \in Packets : q \in Waiting(m) => pkts[q] # NoPkt /\ pkts[q].blk = b
  <2>1. \A q \in Waiting(m) : pkts[q] # NoPkt /\ Serves(m, pkts[q].blk)
    BY <1>1, HeldPackets, Zenon DEF Targets
  <2> QED  BY <2>1 DEF Serves
<1>5. Targets'
  <2>1. ASSUME NEW n \in MSHRs, NEW q \in Waiting(n)'
        PROVE  n # m /\ q \in Waiting(n) /\ pkts'[q].blk = pkts[q].blk
    <3>1. n # m
      BY <1>2, <2>1
    <3>2. q \in Waiting(n)
      BY <1>2, <2>1, <3>1
    <3>3. q \in Packets /\ (q \in Waiting(m) => m = n)
      BY <1>1, <3>2, HeldPackets, Zenon
    <3> QED  BY <3>1, <3>2, <3>3, Zenon
  <2>2. \A n \in MSHRs : \A c \in Blocks : Waiting(n)' # {} /\ Serves(n, c) => Serves(n, c)'
    BY <1>2, Zenon
  <2> QED  BY <1>1, <2>1, <2>2, TargetsKept, Zenon
<1>6. Alone'
  BY <1>1, AloneKept, Zenon
<1>7. /\ \A n \in MSHRs : \A c \in Blocks : c # b =>
           /\ Serves(n, c)' <=> Serves(n, c)
           /\ Serves(n, c) => (Sent(n)' <=> Sent(n)) /\ Stays(n)
      /\ \A n \in MSHRs : ~Serves(n, b)'
  <2>1. \A n \in MSHRs : \A c \in Blocks : c # b /\ Serves(n, c) => n # m
    BY Zenon DEF Serves
  <2> QED  BY <2>1, <1>1, <1>2, Zenon DEF Sent, OneMSHR, Stays, Cloned
<1>8. \A k \in DOMAIN memReads : memReads[k].blk = b => k = i
  <2> SUFFICES ASSUME NEW k \in DOMAIN memReads, memReads[k].blk = b, k # i
               PROVE  FALSE
    BY Zenon
  <2>1. k \in Nat /\ i \in Nat
    BY <1>1, ReadTypes, Zenon
  <2>2. i < k \/ k < i
    BY <2>1
  <2> QED  BY <1>1, <2>2 DEF Reads
<1>9. /\ Reads'
      /\ \A c \in Blocks : c # b => (AtMemory(c)' <=> AtMemory(c))
  <2>1. pamQueue'[b].isHit # "hit"
    BY DEF NoPam
  <2>2. /\ \A n \in MSHRs : Serves(n, b)' => Serves(n, b) /\ (Sent(n)' <=> Sent(n))
        /\ \A k \in DOMAIN memReads : k # i /\ memReads[k].blk = b =>
             \E n \in MSHRs : n = memReads[k].mshr /\ Serves(n, b)' /\ Sent(n)'
    BY <1>7, <1>8, Zenon
  <2>3. Removes(i, b)
    BY <1>7, <2>1, <2>2, Zenon DEF Removes
  <2> QED  BY <1>1, <2>3, ReadsRemoved, Zenon
<1>10. Pams'
  <2>1. \A c \in Blocks : c # b => PamOK(c)'
    BY <1>1, <1>4, <1>7, <1>9, OtherPams, Zenon
  <2>2. PamOK(b)'
    BY Zenon DEF PamOK
  <2> QED  BY <2>1, <2>2, Zenon DEF Pams
<1> QED  BY <1>3, <1>5, <1>6, <1>9, <1>10, Zenon DEF IInv

\* What the answer of an ordinary miss does.
ReadAnswerOf(i, b, m, ctx) ==
  /\ memReads[i].blk = b /\ m = memReads[i].mshr /\ Serves(m, b)
  /\ pamQueue[b] = NoPam /\ memReads' = RemoveAt(memReads, i)
  /\ UNCHANGED <<tags, writeBuffer>> \/ addToFillQueue(b, ctx)
  /\ Respond(Waiting(m), b, physMem[b]) /\ deallocate(m)
  /\ UNCHANGED <<pamQueue, memWriteQ, physMem, latest, gpuRunning>>
  /\ astray' \in BOOLEAN

LEMMA ReadAnswers ==
  ASSUME Base, NEW i \in DOMAIN memReads, RecvReadResp(i)
  PROVE  \E b \in Blocks : \E m \in MSHRs : \E ctx \in Contexts : ReadAnswerOf(i, b, m, ctx)
<1>0. Types /\ memReads' = RemoveAt(memReads, i) /\ astray' = (astray \/ Overtakes(i))
  BY Zenon DEF Base, RecvReadResp
<1> DEFINE b == memReads[i].blk
           m == memReads[i].mshr
           ctx == memReads[i].ctx
<1>1. b \in Blocks /\ m \in MSHRs /\ ctx \in Contexts
  BY <1>0, Answered, Zenon
<1>2. /\ pamQueue[b] = NoPam /\ m \in findMatch(b)
      /\ UNCHANGED <<tags, writeBuffer>> \/ addToFillQueue(b, ctx)
      /\ Respond(Waiting(m), b, physMem[b]) /\ deallocate(m)
      /\ UNCHANGED <<pamQueue, memWriteQ, physMem, latest, gpuRunning>>
  BY Zenon DEF RecvReadResp
<1>3. astray' \in BOOLEAN
  BY <1>0
<1>4. Serves(m, b)
  BY <1>1, <1>2, FindMatch, Zenon
<1> QED  BY <1>0, <1>1, <1>2, <1>3, <1>4, Zenon DEF ReadAnswerOf

\* Main memory answers an ordinary miss.
LEMMA BaseReadResp ==
  ASSUME Base, NEW i \in DOMAIN memReads, RecvReadResp(i)
  PROVE  Base'
<1> PICK b \in Blocks, m \in MSHRs, ctx \in Contexts : ReadAnswerOf(i, b, m, ctx)
  BY ReadAnswers
<1> USE DEF ReadAnswerOf
<1>1. Types /\ FreeOnce /\ Held
  BY Zenon DEF Base
<1>2. /\ pkts' \in [Packets -> {NoPkt} \cup ReadPkt \cup WritePkt]
      /\ \A q \in Packets : pkts'[q] = IF q \in Waiting(m) THEN NoPkt ELSE pkts[q]
      /\ stale' \in SUBSET Blocks
  BY <1>1, Responds, Zenon
<1>3. LinesOK' /\ fillQ' \in SUBSET Blocks /\ writeBuffer' \in Seq(WriteBackEntry)
  <2>1. CASE UNCHANGED <<tags, writeBuffer>>
    BY <1>1, <2>1, Zenon DEF Types, LinesOK, tags
  <2>2. CASE addToFillQueue(b, ctx)
    BY <1>1, <2>2, Fill, Zenon
  <2> QED  BY <2>1, <2>2, Zenon
<1>4. mshrs' \in [MSHRs -> Slot] /\ memReads' \in Seq(MemRead)
  BY <1>1, Deallocates, Answered, Zenon
<1>5. Types'
  BY <1>1, <1>2, <1>3, <1>4, Zenon DEF Types
<1>6. /\ deallocate(m) /\ \A c \in Blocks : KeepsPam(c)
      /\ \A q \in Packets : q \notin Waiting(m) => pkts'[q] = pkts[q]
  BY <1>2, Zenon DEF KeepsPam
<1> HIDE DEF ReadAnswerOf
<1> QED  BY <1>5, <1>6, BaseCleared, Zenon

LEMMA IInvReadResp ==
  ASSUME IInv, Base', NEW i \in DOMAIN memReads, RecvReadResp(i)
  PROVE  IInv'
<1>0. Types /\ Base
  BY Zenon DEF IInv, Base
<1> PICK b \in Blocks, m \in MSHRs, ctx \in Contexts : ReadAnswerOf(i, b, m, ctx)
  BY <1>0, ReadAnswers
<1>1. /\ Serves(m, b) /\ memReads[i].blk = b
      /\ deallocate(m) /\ memReads' = RemoveAt(memReads, i)
      /\ pamQueue[b] = NoPam /\ pamQueue' = pamQueue
  BY Zenon DEF ReadAnswerOf
<1>2. \A q \in Packets : pkts'[q] = IF q \in Waiting(m) THEN NoPkt ELSE pkts[q]
  BY <1>0, Responds, Zenon DEF ReadAnswerOf
<1>3. pamQueue[b].isHit # "hit"
  BY <1>1 DEF NoPam
<1> QED  BY <1>1, <1>2, <1>3, IInvAnswered, Zenon

\* What the answer to a read of a block with a parallel access m does: before the
\* tag check, after a hit, and after a miss.
PamAnswerOf(i, b, m) ==
  /\ memReads[i].blk = b /\ pamQueue[b] \in PamEntry /\ m = pamQueue[b].mshr
  /\ memReads' = RemoveAt(memReads, i) /\ UNCHANGED <<memWriteQ, physMem, latest, gpuRunning>>
  /\ astray' = (astray \/ Overtakes(i))

AnswerUnknown(i, b, m) ==
  /\ pamQueue[b].isHit = "unknown"
  /\ mshrs' = [mshrs EXCEPT ![m].data = AnswerData(i)]
  /\ pamQueue' = [pamQueue EXCEPT ![b].complete = TRUE]
  /\ UNCHANGED <<tags, freeList, writeBuffer, pkts, stale>>

AnswerHit(b) ==
  /\ pamQueue[b].isHit = "hit" /\ pamQueue' = [pamQueue EXCEPT ![b] = NoPam]
  /\ UNCHANGED <<tags, missQueue, writeBuffer, pkts, stale>>

AnswerMiss(i, b, m, ctx) ==
  /\ pamQueue[b].isHit = "miss" /\ pamQueue' = [pamQueue EXCEPT ![b] = NoPam]
  /\ RespondTargets({}, m, CurrentAt(b, AnswerData(i))) /\ deallocate(m)
  /\ addToFillQueue(b, ctx)

LEMMA PamAnswers ==
  ASSUME Types, NEW i \in DOMAIN memReads, RecvPamResp(i)
  PROVE  \E b \in Blocks : \E m \in MSHRs : \E ctx \in Contexts :
           /\ PamAnswerOf(i, b, m)
           /\ AnswerUnknown(i, b, m) \/ AnswerHit(b) \/ AnswerMiss(i, b, m, ctx)
<1> DEFINE b == memReads[i].blk
           m == pamQueue[b].mshr
           ctx == memReads[i].ctx
<1>1. /\ pamQueue[b] # NoPam /\ memReads' = RemoveAt(memReads, i)
      /\ UNCHANGED <<memWriteQ, physMem, latest, gpuRunning>>
      /\ astray' = (astray \/ Overtakes(i))
  BY Zenon DEF RecvPamResp
<1>2. b \in Blocks /\ ctx \in Contexts
  BY <1>1, Answered, Zenon
<1>3. pamQueue[b] \in PamEntry /\ m \in MSHRs
  BY <1>1, <1>2, Kinds, Zenon DEF KindsOK, PamEntry
<1>4. AnswerUnknown(i, b, m) \/ AnswerHit(b) \/ AnswerMiss(i, b, m, ctx)
  BY Zenon DEF RecvPamResp, AnswerUnknown, AnswerHit, AnswerMiss
<1>5. PamAnswerOf(i, b, m)
  BY <1>1, <1>3, Zenon DEF PamAnswerOf
<1> HIDE DEF b, m, ctx
<1> QED  BY <1>2, <1>3, <1>4, <1>5, Zenon

\* The answer before the tag check is kept in the MSHR.
LEMMA UnknownAnswered ==
  ASSUME Types, NEW i \in DOMAIN memReads, NEW b \in Blocks, NEW m \in MSHRs,
         PamAnswerOf(i, b, m), AnswerUnknown(i, b, m)
  PROVE  /\ mshrs' \in [MSHRs -> Slot]
         /\ \A n \in MSHRs : /\ mshrs'[n].blk = mshrs[n].blk /\ Waiting(n)' = Waiting(n)
                             /\ (Sent(n)' <=> Sent(n)) /\ Stays(n)
         /\ \A n \in MSHRs : \A c \in Blocks : Serves(n, c)' <=> Serves(n, c)
         /\ pamQueue' \in [Blocks -> {NoPam} \cup PamEntry]
         /\ pamQueue'[b].isHit = "unknown" /\ pamQueue'[b].complete
         /\ pamQueue'[b].mshr = m /\ pamQueue'[b].pkt = pamQueue[b].pkt
         /\ \A c \in Blocks : c # b => pamQueue'[c] = pamQueue[c]
<1> DEFINE v == AnswerData(i)
           e == [pamQueue[b] EXCEPT !.complete = TRUE]
           x == [mshrs[m] EXCEPT !.data = v]
<1>1. v \in Versions
  BY Answered, Zenon DEF PamAnswerOf
<1>2. mshrs' = [mshrs EXCEPT ![m] = x] /\ pamQueue' = [pamQueue EXCEPT ![b] = e]
  BY Zenon DEF AnswerUnknown
<1> HIDE DEF v
<1>3. /\ x \in Slot /\ x.blk = mshrs[m].blk /\ x.targets = mshrs[m].targets
      /\ x.inService = mshrs[m].inService
  BY <1>1, Kinds, Zenon DEF KindsOK, Slot
<1>4. /\ e \in PamEntry /\ e.isHit = "unknown" /\ e.complete = TRUE
      /\ e.mshr = m /\ e.pkt = pamQueue[b].pkt
  BY Zenon DEF PamAnswerOf, AnswerUnknown, PamEntry
<1> HIDE DEF e, x
<1>5. /\ mshrs' \in [MSHRs -> Slot] /\ mshrs'[m] = x
      /\ \A n \in MSHRs : n # m => mshrs'[n] = mshrs[n]
  BY <1>2, <1>3, Zenon DEF Types
<1>6. /\ pamQueue' \in [Blocks -> {NoPam} \cup PamEntry] /\ pamQueue'[b] = e
      /\ \A c \in Blocks : c # b => pamQueue'[c] = pamQueue[c]
  BY <1>2, <1>4, Zenon DEF Types
<1>7. \A n \in MSHRs : /\ mshrs'[n].blk = mshrs[n].blk
                       /\ mshrs'[n].targets = mshrs[n].targets
                       /\ mshrs'[n].inService = mshrs[n].inService
  BY <1>3, <1>5, Zenon
<1>8. \A n \in MSHRs : /\ Waiting(n)' = Waiting(n)
                       /\ (Sent(n)' <=> Sent(n)) /\ Stays(n)
  BY <1>7, Zenon DEF Waiting, Sent, Stays, Cloned
<1>9. \A n \in MSHRs : \A c \in Blocks : Serves(n, c)' <=> Serves(n, c)
  BY <1>7, Zenon DEF Serves
<1> QED  BY <1>4, <1>5, <1>6, <1>7, <1>8, <1>9, Zenon

\* Main memory answers a read of a block with a parallel access.
LEMMA BasePamResp ==
  ASSUME Base, NEW i \in DOMAIN memReads, RecvPamResp(i)
  PROVE  Base'
<1>1. Types /\ FreeOnce /\ Held
  BY Zenon DEF Base
<1> PICK b \in Blocks, m \in MSHRs, ctx \in Contexts :
      /\ PamAnswerOf(i, b, m)
      /\ AnswerUnknown(i, b, m) \/ AnswerHit(b) \/ AnswerMiss(i, b, m, ctx)
  BY <1>1, PamAnswers
<1>2. /\ memReads' \in Seq(MemRead) /\ UNCHANGED <<memWriteQ, physMem, latest, gpuRunning>>
      /\ m = pamQueue[b].mshr
  BY <1>1, Answered, Zenon DEF PamAnswerOf
<1>3. astray' \in BOOLEAN
  BY DEF PamAnswerOf
<1>4. CASE AnswerUnknown(i, b, m)
  <2>1. UNCHANGED <<tags, freeList, writeBuffer, pkts, stale>>
    BY <1>4, Zenon DEF AnswerUnknown
  <2>2. /\ mshrs' \in [MSHRs -> Slot] /\ pamQueue' \in [Blocks -> {NoPam} \cup PamEntry]
        /\ \A n \in MSHRs : mshrs'[n].blk = mshrs[n].blk /\ Waiting(n)' = Waiting(n)
        /\ \A c \in Blocks : KeepsPam(c)
    <3>1. /\ mshrs' \in [MSHRs -> Slot] /\ pamQueue' \in [Blocks -> {NoPam} \cup PamEntry]
          /\ \A n \in MSHRs : mshrs'[n].blk = mshrs[n].blk /\ Waiting(n)' = Waiting(n)
          /\ pamQueue'[b].isHit = "unknown" /\ pamQueue'[b].mshr = m
          /\ pamQueue'[b].pkt = pamQueue[b].pkt
          /\ \A c \in Blocks : c # b => pamQueue'[c] = pamQueue[c]
      BY <1>1, <1>4, UnknownAnswered, Zenon
    <3> QED  BY <1>2, <3>1, Zenon DEF KeepsPam
  <2>3. Types'
    BY <1>1, <1>2, <1>3, <2>1, <2>2, Zenon DEF Types, LinesOK, tags
  <2>4. FreeOnce'
    BY <1>1, <2>1, <2>2, SameServes, Zenon
  <2> QED  BY <2>1, <2>2, <2>3, <2>4, BaseKept, Zenon
<1>5. CASE AnswerHit(b)
  <2>1. UNCHANGED <<tags, missQueue, writeBuffer, pkts, stale>>
    BY <1>5, Zenon DEF AnswerHit
  <2>2. /\ pamQueue' \in [Blocks -> {NoPam} \cup PamEntry]
        /\ \A c \in Blocks : c # b => pamQueue'[c] = pamQueue[c]
    BY <1>1, <1>5, Zenon DEF AnswerHit, Types
  <2>3. Types'
    BY <1>1, <1>2, <1>3, <2>1, <2>2, Zenon DEF Types, LinesOK, tags, missQueue
  <2>4. \A n \in MSHRs : mshrs'[n].blk = mshrs[n].blk /\ Waiting(n)' = Waiting(n)
    BY <2>1, Zenon DEF Waiting, missQueue
  <2>5. FreeOnce'
    BY <1>1, <2>1, <2>4, SameServes, Zenon DEF missQueue
  <2>6. \A c \in Blocks : KeepsPam(c)
    <3>1. pamQueue[b].isHit # "unknown"
      BY <1>5 DEF AnswerHit
    <3> QED  BY <2>2, <3>1, Zenon DEF KeepsPam
  <2> QED  BY <2>1, <2>3, <2>4, <2>5, <2>6, BaseKept, Zenon
<1>6. CASE AnswerMiss(i, b, m, ctx)
  <2>1. /\ deallocate(m) /\ addToFillQueue(b, ctx)
        /\ RespondTargets({}, m, CurrentAt(b, AnswerData(i)))
        /\ pamQueue' = [pamQueue EXCEPT ![b] = NoPam]
    BY <1>6, Zenon DEF AnswerMiss
  <2>2. /\ pkts' \in [Packets -> {NoPkt} \cup ReadPkt \cup WritePkt]
        /\ \A q \in Packets : q \notin Waiting(m) => pkts'[q] = pkts[q]
        /\ stale' \in SUBSET Blocks
    BY <1>1, <2>1, RespondsTargets
  <2>3. LinesOK' /\ fillQ' \in SUBSET Blocks /\ writeBuffer' \in Seq(WriteBackEntry)
    BY <1>1, <2>1, Fill, Zenon
  <2>4. mshrs' \in [MSHRs -> Slot]
    BY <1>1, <2>1, Deallocates, Zenon
  <2>5. /\ pamQueue' \in [Blocks -> {NoPam} \cup PamEntry]
        /\ \A c \in Blocks : c # b => pamQueue'[c] = pamQueue[c]
    BY <1>1, <2>1, Zenon DEF Types
  <2>6. Types'
    BY <1>1, <1>2, <1>3, <2>2, <2>3, <2>4, <2>5, Zenon DEF Types
  <2>7. \A c \in Blocks : KeepsPam(c) \/ pamQueue[c].mshr = m
    BY <1>2, <2>5, Zenon DEF KeepsPam
  <2> QED  BY <2>1, <2>2, <2>6, <2>7, BaseCleared, Zenon
<1> QED  BY <1>4, <1>5, <1>6, Zenon

\* The order of the answers matters here: the older read is the one that hit.
LEMMA IInvPamResp ==
  ASSUME IInv, Base', ~astray', NEW i \in DOMAIN memReads, RecvPamResp(i)
  PROVE  IInv'
<1>1. /\ Types /\ FreeOnce /\ Held /\ Types' /\ Base
      /\ OneMSHR /\ Targets /\ Alone /\ Pams /\ Reads
  BY Zenon DEF IInv, Base
<1> PICK b \in Blocks, m \in MSHRs, ctx \in Contexts :
      /\ PamAnswerOf(i, b, m)
      /\ AnswerUnknown(i, b, m) \/ AnswerHit(b) \/ AnswerMiss(i, b, m, ctx)
  BY <1>1, PamAnswers
<1>2. /\ memReads[i].blk = b /\ m = pamQueue[b].mshr
      /\ memReads' = RemoveAt(memReads, i) /\ pamQueue[b] \in PamEntry
  BY Zenon DEF PamAnswerOf
<1>3. PamOK(b) /\ pamQueue[b] # NoPam /\ MAPI_PREDICTOR
  <2>1. pamQueue[b] # NoPam
    BY <1>2 DEF PamEntry, NoPam
  <2> QED  BY <1>1, <2>1, Zenon DEF Pams, PamOK
<1>4. \A k \in DOMAIN memReads : k < i => memReads[k].blk # b
  <2>1. ~Overtakes(i)
    BY DEF PamAnswerOf
  <2>2. DOMAIN memReads = 1 .. Len(memReads) /\ Len(memReads) \in Nat
    BY <1>1 DEF Types
  <2>3. \A k \in DOMAIN memReads : k < i => k \in 1 .. i - 1
    BY <2>2
  <2> QED  BY <1>2, <2>1, <2>3, Zenon DEF Overtakes
<1>5. CASE AnswerUnknown(i, b, m)
  <2>1. UNCHANGED pkts /\ pamQueue[b].isHit = "unknown"
    BY <1>5, Zenon DEF AnswerUnknown
  <2>2. /\ \A n \in MSHRs : /\ Waiting(n)' = Waiting(n)
                            /\ (Sent(n)' <=> Sent(n)) /\ Stays(n)
        /\ \A n \in MSHRs : \A c \in Blocks : Serves(n, c)' <=> Serves(n, c)
        /\ pamQueue'[b].isHit = "unknown" /\ pamQueue'[b].complete
        /\ pamQueue'[b].mshr = m /\ pamQueue'[b].pkt = pamQueue[b].pkt
        /\ \A c \in Blocks : c # b => pamQueue'[c] = pamQueue[c]
    BY <1>1, <1>5, UnknownAnswered, Zenon
  <2>3. PamUnknown(b) /\ Serves(m, b) /\ Cloned(m)
    <3>1. PamUnknown(b)
      BY <1>3, <2>1, Zenon DEF PamOK
    <3> QED  BY <3>1, <1>2, Zenon DEF PamUnknown
  <2>4. OneMSHR'
    BY <1>1, <2>2, OneKept, Zenon
  <2>5. Targets'
    BY <1>1, <2>1, <2>2, TargetsKept, Zenon
  <2>6. Alone'
    BY <1>1, <2>1, AloneKept, Zenon
  <2>7. \A k \in DOMAIN memReads : memReads[k].blk = b => k = i
    <3> SUFFICES ASSUME NEW k \in DOMAIN memReads, memReads[k].blk = b, k # i
                 PROVE  FALSE
      BY Zenon
    <3>1. k \in Nat /\ i \in Nat
      BY <1>1, ReadTypes, Zenon
    <3>2. i < k \/ k < i
      BY <3>1
    <3>3. pamQueue[b].isHit # "hit"
      BY <2>1
    <3> QED  BY <1>1, <1>2, <3>2, <3>3, Zenon DEF Reads
  <2>8. /\ Reads'
        /\ \A c \in Blocks : c # b => (AtMemory(c)' <=> AtMemory(c))
        /\ ~AtMemory(b)'
    <3>1. pamQueue'[b].isHit # "hit"
      BY <2>2
    <3>2. \A k \in DOMAIN memReads : k # i /\ memReads[k].blk = b =>
            \E n \in MSHRs : n = memReads[k].mshr /\ Serves(n, b)' /\ Sent(n)'
      BY <2>7, Zenon
    <3>3. Removes(i, b)
      BY <1>2, <2>2, <3>1, <3>2, Zenon DEF Removes
    <3> QED  BY <1>1, <1>2, <2>7, <3>3, ReadsRemoved, Zenon
  <2>9. Pams'
    <3>1. \A c \in Blocks : c # b => PamOK(c)'
      BY <1>1, <2>1, <2>2, <2>8, OtherPams, Zenon
    <3>2. Sent(m)
      <4>1. pamQueue[b].isHit # "hit"
        BY <2>1
      <4>2. Live(i)
        BY <1>1, <1>2, <4>1, Zenon DEF Reads
      <4>3. memReads[i].mshr \in MSHRs
        BY <1>1, ReadTypes, Zenon
      <4> QED  BY <1>1, <1>2, <4>2, <4>3, <2>3, Zenon DEF Live, OneMSHR
    <3>3. Serves(m, b)' /\ Sent(m)' /\ Cloned(m)'
      BY <3>2, <2>2, <2>3, Zenon DEF Stays
    <3>4. PamUnknown(b)'
      BY <3>3, <2>1, <2>2, <2>3, Zenon DEF PamUnknown, QueuedRead, Serves, Sent, Cloned
    <3>5. PamOK(b)'
      <4>1. pamQueue'[b].isHit # "hit" /\ pamQueue'[b].isHit # "miss"
        BY <2>2
      <4> QED  BY <3>4, <4>1, <1>3, <2>2, <2>8, Zenon DEF PamOK
    <3> QED  BY <3>1, <3>5, Zenon DEF Pams
  <2> QED  BY <2>4, <2>5, <2>6, <2>8, <2>9, Zenon DEF IInv
<1>6. CASE AnswerHit(b)
  <2>1. UNCHANGED pkts /\ UNCHANGED mshrs
    BY <1>6, Zenon DEF AnswerHit, missQueue
  <2>2. /\ pamQueue'[b] = NoPam
        /\ \A c \in Blocks : c # b => pamQueue'[c] = pamQueue[c]
    BY <1>1, <1>6, Zenon DEF AnswerHit, Types
  <2>3. /\ \A n : Waiting(n)' = Waiting(n) /\ Stays(n)
        /\ \A n, c : (Serves(n, c)' <=> Serves(n, c)) /\ (Sent(n)' <=> Sent(n))
    BY <2>1, Zenon DEF Waiting, Serves, Sent, Stays, Cloned
  <2>4. OneMSHR' /\ Alone'
    BY <1>1, <2>1, <2>3, Zenon DEF OneMSHR, Alone
  <2>5. Targets'
    BY <1>1, <2>1, <2>3, TargetsKept, Zenon
  <2>6. \A k \in DOMAIN memReads : k # i /\ memReads[k].blk = b =>
          \E n \in MSHRs : n = memReads[k].mshr /\ Serves(n, b)' /\ Sent(n)'
    <3> SUFFICES ASSUME NEW k \in DOMAIN memReads, k # i, memReads[k].blk = b
                 PROVE  \E n \in MSHRs : n = memReads[k].mshr /\ Serves(n, b)' /\ Sent(n)'
      BY Zenon
    <3>1. k \in Nat /\ i \in Nat /\ memReads[k].mshr \in MSHRs
      BY <1>1, ReadTypes, Zenon
    <3>2. i < k
      BY <3>1, <1>4
    <3>3. Serves(memReads[k].mshr, b) /\ Sent(memReads[k].mshr)
      BY <1>1, <1>2, <3>2, Zenon DEF Reads, Live
    <3> QED  BY <3>1, <3>3, <2>3, Zenon
  <2>7. /\ Reads'
        /\ \A c \in Blocks : c # b => (AtMemory(c)' <=> AtMemory(c))
    <3>1. pamQueue'[b].isHit # "hit"
      BY <2>2 DEF NoPam
    <3>2. Removes(i, b)
      BY <1>2, <2>2, <2>3, <2>6, <3>1, Zenon DEF Removes
    <3> QED  BY <1>1, <1>2, <3>2, ReadsRemoved, Zenon
  <2>8. Pams'
    <3>1. \A c \in Blocks : c # b => PamOK(c)'
      BY <1>1, <2>1, <2>2, <2>3, <2>7, OtherPams, Zenon
    <3>2. PamOK(b)'
      BY <2>2, Zenon DEF PamOK
    <3> QED  BY <3>1, <3>2, Zenon DEF Pams
  <2> QED  BY <2>4, <2>5, <2>7, <2>8, Zenon DEF IInv
<1>7. CASE AnswerMiss(i, b, m, ctx)
  <2>1. /\ deallocate(m) /\ RespondTargets({}, m, CurrentAt(b, AnswerData(i)))
        /\ pamQueue' = [pamQueue EXCEPT ![b] = NoPam] /\ pamQueue[b].isHit = "miss"
    BY <1>7, Zenon DEF AnswerMiss
  <2>2. Serves(m, b) /\ Cloned(m)
    BY <1>2, <1>3, <2>1, Zenon DEF PamOK, PamMiss
  <2>3. /\ pamQueue'[b] = NoPam
        /\ \A c \in Blocks : c # b => pamQueue'[c] = pamQueue[c]
    BY <1>1, <2>1, Zenon DEF Types
  <2>4. \A q \in Packets : pkts'[q] = IF q \in Waiting(m) THEN NoPkt ELSE pkts[q]
    <3>1. \A q \in Packets :
            pkts'[q] = IF q \in {} \cup Waiting(m) THEN NoPkt ELSE pkts[q]
      BY <1>1, <2>1, <2>2, RespondsTargets
    <3> QED  BY <3>1, Zenon
  <2>5. pamQueue[b].isHit # "hit"
    BY <2>1
  <2> QED  BY <1>2, <2>1, <2>2, <2>3, <2>4, <2>5, IInvAnswered, Zenon
<1> QED  BY <1>5, <1>6, <1>7, Zenon

-----------------------------------------------------------------------------
(***************************************************************************)
(* The data                                                                *)
(***************************************************************************)

\* A miss is sent, with no write-back of its block to come.
LEMMA DataSendMiss ==
  ASSUME IInv, DataInv, NEW m \in MSHRs, SendMiss(m)
  PROVE  DataInv'
<1>1. UNCHANGED <<tags, pkts, writeBuffer, physMem, latest>>
  BY Zenon DEF SendMiss
<1>2. /\ \A n \in MSHRs : n # m => (Sent(n)' <=> Sent(n))
      /\ \A n \in MSHRs : \A c \in Blocks : Serves(n, c)' <=> Serves(n, c)
  BY MissSent, Zenon DEF IInv, Base
<1>3. /\ \A c : (Hit(c)' <=> Hit(c)) /\ (Dirty(c)' <=> Dirty(c))
      /\ \A c : (Queued(c)' <=> Queued(c)) /\ (LastQueued(c) => LastQueued(c)')
      /\ WriteData' /\ \A c : Writing(c)' <=> Writing(c)
  BY <1>1, SameTags, SameBuffer, SameWrites, Zenon DEF tags, DataInv
<1>4. ASSUME NEW c \in Blocks
      PROVE  BlockOK(c)'
  <2>1. BlockOK(c) /\ physMem'[c] = physMem[c] /\ latest'[c] = latest[c]
    BY <1>1, Zenon DEF DataInv
  <2>2. CASE ~Serves(m, c)
    <3>1. \A n \in MSHRs : Serves(n, c)' => Serves(n, c) /\ (Sent(n)' => Sent(n))
      BY <2>2, <1>2, Zenon
    <3> QED  BY <1>3, <2>1, <3>1, BlockKept, Zenon
  <2>3. CASE Serves(m, c)
    <3>1. ~Queued(c)
      BY <2>3, Zenon DEF Queued, ToSend, SendMiss, Serves
    <3>2. \A n \in MSHRs : Serves(n, c)' => ~Dirty(c)
      BY <1>2, <2>1, Zenon DEF BlockOK
    <3> QED  BY <1>3, <2>1, <3>1, <3>2, Zenon DEF BlockOK
  <2> QED  BY <2>2, <2>3, Zenon
<1> QED  BY <1>3, <1>4, Zenon DEF DataInv

\* The oldest write-back of its block is sent.
LEMMA DataWriteBack ==
  ASSUME IInv, DataInv, NEW i \in DOMAIN writeBuffer, Pending(i), WriteBack(i),
         \A j \in DOMAIN writeBuffer : j < i => ~ToSend(writeBuffer[i].blk, j)
  PROVE  DataInv'
<1>1. UNCHANGED <<tags, pkts, missQueue, latest>>
  BY Zenon DEF WriteBack
<1> PICK b \in Blocks : b = writeBuffer[i].blk
  BY ReadTypes, Zenon DEF IInv, Base
<1>2. /\ DOMAIN writeBuffer' = DOMAIN writeBuffer
      /\ \A j \in DOMAIN writeBuffer : j # i => writeBuffer'[j] = writeBuffer[j]
      /\ writeBuffer'[i].inService = TRUE
      /\ physMem' = [physMem EXCEPT ![b] = writeBuffer[i].data]
  BY WriteBackSent, Zenon DEF IInv, Base
<1>3. physMem'[b] = writeBuffer[i].data /\ \A c \in Blocks : c # b => physMem'[c] = physMem[c]
  BY <1>2, Zenon DEF IInv, Base, Types
<1>4. /\ ToSend(b, i) /\ \A c : ~ToSend(c, i)' /\ (ToSend(c, i) => c = b)
      /\ \A c : \A j \in DOMAIN writeBuffer : j # i => (ToSend(c, j)' <=> ToSend(c, j))
  BY <1>2, Zenon DEF ToSend, Pending
<1>5. /\ \A c : (Hit(c)' <=> Hit(c)) /\ (Dirty(c)' <=> Dirty(c))
      /\ WriteData' /\ \A c : Writing(c)' <=> Writing(c)
      /\ \A n, c : (Serves(n, c)' <=> Serves(n, c)) /\ (Sent(n)' <=> Sent(n))
  <2>1. \A n, c : (Serves(n, c)' <=> Serves(n, c)) /\ (Sent(n)' <=> Sent(n))
    BY <1>1, Zenon DEF Serves, Sent, missQueue
  <2> QED  BY <1>1, <2>1, SameTags, SameWrites, Zenon DEF tags, DataInv
<1>6. \A j \in DOMAIN writeBuffer : j \in Nat
  BY ReadTypes, Zenon DEF IInv, Base
<1>7. BlockOK(b)'
  <2>1. BlockOK(b) /\ Queued(b) /\ ~Hit(b)
    BY <1>4, Zenon DEF DataInv, BlockOK, Queued
  <2>2. \A m \in MSHRs : Serves(m, b) => ~Dirty(b) /\ ~Sent(m)
    BY <2>1, Zenon DEF BlockOK
  <2>3. ASSUME ~Writing(b)
        PROVE  IF Queued(b)' THEN LastQueued(b)' ELSE physMem'[b] = latest'[b]
    <3>1. PICK k \in DOMAIN writeBuffer :
            /\ ToSend(b, k) /\ writeBuffer[k].data = latest[b]
            /\ \A j \in DOMAIN writeBuffer : j > k => ~ToSend(b, j)
      BY <2>1, <2>3, Zenon DEF BlockOK, LastQueued
    <3>2. CASE k = i
      <4>1. \A j \in DOMAIN writeBuffer : j # i => ~ToSend(b, j)
        BY <3>1, <3>2, <1>6
      <4>2. ~Queued(b)'
        BY <4>1, <1>2, <1>4, Zenon DEF Queued
      <4> QED  BY <4>2, <3>1, <3>2, <1>1, <1>3, Zenon
    <3>3. CASE k # i
      <4>1. ToSend(b, k)' /\ writeBuffer'[k].data = latest'[b] /\ k \in DOMAIN writeBuffer'
        BY <3>1, <3>3, <1>1, <1>2, <1>4, Zenon
      <4>2. \A j \in DOMAIN writeBuffer' : j > k => ~ToSend(b, j)'
        BY <3>1, <1>2, <1>4, Zenon
      <4>3. LastQueued(b)' /\ Queued(b)'
        BY <4>1, <4>2, Zenon DEF LastQueued, Queued
      <4> QED  BY <4>3, Zenon
    <3> QED  BY <3>2, <3>3, Zenon
  <2>4. ~Hit(b)' /\ (Writing(b)' <=> Writing(b))
    BY <2>1, <1>5, Zenon
  <2>5. \A m \in MSHRs : Serves(m, b)' => ~Dirty(b)' /\ ~Sent(m)'
    BY <2>2, <1>5, Zenon
  <2> QED  BY <2>3, <2>4, <2>5, Zenon DEF BlockOK
<1>8. ASSUME NEW c \in Blocks, c # b
      PROVE  BlockOK(c)'
  <2>1. \A j \in DOMAIN writeBuffer : ToSend(c, j)' <=> ToSend(c, j)
    BY <1>4, <1>8, Zenon
  <2>2. Queued(c)' <=> Queued(c)
    BY <2>1, <1>2, Zenon DEF Queued
  <2>3. LastQueued(c) => LastQueued(c)'
    <3> SUFFICES ASSUME LastQueued(c) PROVE LastQueued(c)'
      BY Zenon
    <3>1. PICK k \in DOMAIN writeBuffer :
            /\ ToSend(c, k) /\ writeBuffer[k].data = latest[c]
            /\ \A j \in DOMAIN writeBuffer : j > k => ~ToSend(c, j)
      BY Zenon DEF LastQueued
    <3>2. k # i
      BY <3>1, <1>4, <1>8, Zenon
    <3>3. ToSend(c, k)' /\ writeBuffer'[k].data = latest'[c] /\ k \in DOMAIN writeBuffer'
      BY <3>1, <3>2, <2>1, <1>1, <1>2, Zenon
    <3>4. \A j \in DOMAIN writeBuffer' : j > k => ~ToSend(c, j)'
      BY <3>1, <2>1, <1>2, Zenon
    <3> QED  BY <3>3, <3>4, Zenon DEF LastQueued
  <2>4. BlockOK(c) /\ physMem'[c] = physMem[c] /\ latest'[c] = latest[c]
    BY <1>1, <1>3, <1>8, Zenon DEF DataInv
  <2> QED  BY <1>5, <2>2, <2>3, <2>4, BlockKept, Zenon
<1> QED  BY <1>5, <1>7, <1>8, Zenon DEF DataInv

\* A write-back that was sent leaves the buffer; the others keep their order.
LEMMA DataWriteResp ==
  ASSUME IInv, DataInv, NEW i \in DOMAIN writeBuffer, RecvWriteResp(i)
  PROVE  DataInv'
<1>1. /\ writeBuffer[i].inService /\ writeBuffer' = RemoveAt(writeBuffer, i)
      /\ UNCHANGED <<tags, pkts, missQueue, physMem, latest>>
  BY Zenon DEF RecvWriteResp
<1>2. writeBuffer \in Seq(WriteBackEntry) /\ \A j \in DOMAIN writeBuffer : j \in Nat
  BY ReadTypes, Zenon DEF IInv, Base, Types
<1>3. PICK f \in [DOMAIN writeBuffer' -> DOMAIN writeBuffer \ {i}] :
        /\ \A j \in DOMAIN writeBuffer' : writeBuffer'[j] = writeBuffer[f[j]]
        /\ \A j, k \in DOMAIN writeBuffer' : j < k => f[j] < f[k]
        /\ \A k \in DOMAIN writeBuffer \ {i} : \E j \in DOMAIN writeBuffer' : f[j] = k
  BY <1>1, <1>2, RemoveAtMap
<1>4. \A j \in DOMAIN writeBuffer' : f[j] \in DOMAIN writeBuffer /\ f[j] # i
  BY <1>3, Zenon
<1>5. /\ \A c : ~ToSend(c, i)
      /\ \A c : \A j \in DOMAIN writeBuffer' : ToSend(c, j)' <=> ToSend(c, f[j])
  BY <1>1, <1>3, <1>4, Zenon DEF ToSend, Pending
<1>6. \A c : Queued(c)' <=> Queued(c)
  BY <1>3, <1>4, <1>5 DEF Queued
<1>7. ASSUME NEW c \in Blocks, LastQueued(c)
      PROVE  LastQueued(c)'
  <2>1. PICK k \in DOMAIN writeBuffer :
          /\ ToSend(c, k) /\ writeBuffer[k].data = latest[c]
          /\ \A j \in DOMAIN writeBuffer : j > k => ~ToSend(c, j)
    BY <1>7, Zenon DEF LastQueued
  <2>2. PICK l \in DOMAIN writeBuffer' : f[l] = k
    BY <1>3, <1>5, <2>1, Zenon
  <2>3. ToSend(c, l)' /\ writeBuffer'[l].data = latest'[c]
    BY <1>1, <1>3, <1>5, <2>1, <2>2, Zenon
  <2>4. \A j \in DOMAIN writeBuffer' : j > l => ~ToSend(c, j)'
    <3> SUFFICES ASSUME NEW j \in DOMAIN writeBuffer', j > l
                 PROVE  ~ToSend(c, j)'
      BY Zenon
    <3>1. j \in Nat /\ l \in Nat
      <4>1. writeBuffer' \in Seq(WriteBackEntry)
        BY <1>1, <1>2, RemoveAtProperties
      <4> QED  BY <4>1
    <3>2. f[l] < f[j]
      BY <1>3, <3>1, Zenon
    <3>3. f[j] > k /\ f[j] \in DOMAIN writeBuffer
      BY <1>2, <1>4, <2>2, <3>2, Zenon
    <3> QED  BY <1>5, <2>1, <3>3, Zenon
  <2> QED  BY <2>3, <2>4, Zenon DEF LastQueued
<1>8. /\ \A c : (Hit(c)' <=> Hit(c)) /\ (Dirty(c)' <=> Dirty(c))
      /\ WriteData' /\ \A c : Writing(c)' <=> Writing(c)
      /\ \A n, c : (Serves(n, c)' <=> Serves(n, c)) /\ (Sent(n)' <=> Sent(n))
  <2>1. \A n, c : (Serves(n, c)' <=> Serves(n, c)) /\ (Sent(n)' <=> Sent(n))
    BY <1>1, Zenon DEF Serves, Sent, missQueue
  <2> QED  BY <1>1, <2>1, SameTags, SameWrites, Zenon DEF tags, DataInv
<1>9. ASSUME NEW c \in Blocks
      PROVE  BlockOK(c)'
  <2>1. BlockOK(c) /\ physMem'[c] = physMem[c] /\ latest'[c] = latest[c]
    BY <1>1, Zenon DEF DataInv
  <2> QED  BY <1>6, <1>7, <1>8, <2>1, BlockKept, Zenon
<1> QED  BY <1>8, <1>9, Zenon DEF DataInv

\* The answer of a miss fills the cache, and may evict a block.
LEMMA DataReadResp ==
  ASSUME ~MAPI_PREDICTOR, IInv, DataInv, NEW i \in DOMAIN memReads, RecvReadResp(i)
  PROVE  DataInv' /\ UNCHANGED stale
<1>0. memReads[i] \in MemRead
  BY ReadTypes, Zenon DEF IInv, Base
<1> PICK b \in Blocks : b = memReads[i].blk
  BY <1>0, Zenon DEF MemRead
<1> PICK ctx \in Contexts : ctx = memReads[i].ctx
  BY <1>0, Zenon DEF MemRead
<1> PICK m \in MSHRs : m = memReads[i].mshr
  BY <1>0, Zenon DEF MemRead
<1>1. /\ IF Hit(b) THEN UNCHANGED <<tags, writeBuffer>> ELSE addToFillQueue(b, ctx)
      /\ Respond(Waiting(m), b, physMem[b]) /\ UNCHANGED <<physMem, latest>>
  BY Zenon DEF RecvReadResp
<1>2. deallocate(m)
  BY Zenon DEF RecvReadResp
<1>3. Serves(m, b) /\ Sent(m)
  <2>1. pamQueue[b].isHit # "hit"
    BY NoParallel DEF NoPam
  <2> QED  BY <2>1, Zenon DEF IInv, Reads, Live, Serves
<1>4. physMem[b] = latest[b] /\ ~Queued(b) /\ ~Dirty(b) /\ ~Writing(b)
  BY <1>3, ServedCurrent, Zenon
<1>5. UNCHANGED stale
  BY <1>1, <1>4, Zenon DEF Respond
<1>6. /\ \A n \in MSHRs : \A c \in Blocks : Serves(n, c)' =>
           n # m /\ Serves(n, c) /\ (Sent(n)' => Sent(n))
      /\ \A n \in MSHRs : ~Serves(n, b)'
  <2>1. /\ \A n \in MSHRs : \A c \in Blocks : Serves(n, c)' <=> n # m /\ Serves(n, c)
        /\ \A n \in MSHRs : n # m => mshrs'[n] = mshrs[n]
    BY <1>2, <1>3, Deallocates, Zenon DEF IInv, Base
  <2> QED  BY <1>3, <2>1, Zenon DEF Sent, IInv, OneMSHR
<1>7. \A q \in Packets : \/ pkts'[q] = pkts[q]
                         \/ pkts'[q].cmd # "write" /\ pkts[q].cmd # "write"
  <2>1. \A q \in Packets : pkts'[q] = IF q \in Waiting(m) THEN NoPkt ELSE pkts[q]
    BY <1>1, Zenon DEF Respond
  <2>2. \A q \in Waiting(m) : pkts[q].cmd = "read"
    BY HeldPackets, Zenon DEF IInv, Base
  <2> QED  BY <2>1, <2>2 DEF NoPkt
<1>8. CASE UNCHANGED <<set, writeBuffer>>
  BY <1>1, <1>5, <1>6, <1>7, <1>8, DataSame, Zenon
<1>9. CASE Inserts(b) /\ ~Hit(b)
  <2>1. WriteData' /\ \A c : Writing(c)' <=> Writing(c)
    BY <1>1, <1>7, SameWrites, Zenon DEF DataInv
  <2>2. /\ \A c \in Blocks : Hit(c)' <=> c = b \/ (Hit(c) /\ SetOf(c) # SetOf(b))
        /\ \A c \in Blocks : c # b /\ Dirty(c)' => Dirty(c)
        /\ Hit(b)' /\ ~Dirty(b)'
    BY <1>9, Zenon DEF Inserts
  <2>3. ASSUME \A c \in Blocks : (Queued(c)' <=> Queued(c)) /\ (LastQueued(c) => LastQueued(c)'),
               NEW c \in Blocks, c # b
        PROVE  BlockOK(c)'
    <3>1. BlockOK(c) /\ physMem'[c] = physMem[c] /\ latest'[c] = latest[c]
      BY <1>1, Zenon DEF DataInv
    <3>2. (Hit(c)' => Hit(c)) /\ (Dirty(c)' => Dirty(c)) /\ (Writing(c)' <=> Writing(c))
      BY <2>1, <2>2, <2>3, Zenon
    <3> QED  BY <1>6, <2>3, <3>1, <3>2, BlockKept, Zenon
  <2>4. ASSUME ~Queued(b)'
        PROVE  BlockOK(b)'
    BY <1>1, <1>4, <1>6, <2>1, <2>2, <2>4, Zenon DEF BlockOK
  <2>5. CASE writeBuffer' = writeBuffer
    <3>1. \A c \in Blocks : (Queued(c)' <=> Queued(c)) /\ (LastQueued(c) => LastQueued(c)')
      BY <2>5, <1>1, SameBuffer, Zenon
    <3> QED  BY <1>4, <1>5, <2>1, <2>3, <2>4, <3>1, Zenon DEF DataInv
  <2>6. ASSUME NEW e \in Blocks, Dirty(e), SetOf(e) = SetOf(b),
               writeBuffer' = Append(writeBuffer, [blk |-> e, data |-> physMem[e],
                                                   inService |-> FALSE])
        PROVE  DataInv'
    <3>1. e # b /\ Hit(e)
      BY <1>9, <2>6, Zenon DEF Dirty
    <3>2. BlockOK(e) /\ physMem[e] = latest[e] /\ \A n \in MSHRs : ~Serves(n, e)
      BY <2>6, <3>1, Zenon DEF DataInv, BlockOK
    <3>3. Queued(e)' /\ LastQueued(e)'
      BY <1>1, <2>6, <3>2, Appended, Zenon DEF IInv, Base
    <3>4. \A c \in Blocks : c # e =>
            (Queued(c)' <=> Queued(c)) /\ (LastQueued(c) => LastQueued(c)')
      BY <1>1, <2>6, Appended, Zenon DEF IInv, Base
    <3>5. BlockOK(e)'
      <4>1. ~Hit(e)' /\ \A n \in MSHRs : ~Serves(n, e)'
        BY <1>6, <2>2, <2>6, <3>1, <3>2, Zenon
      <4> QED  BY <3>3, <4>1, Zenon DEF BlockOK
    <3>6. BlockOK(b)'
      BY <1>4, <2>4, <3>1, <3>4, Zenon
    <3>7. ASSUME NEW c \in Blocks, c # b, c # e
          PROVE  BlockOK(c)'
      <4>1. BlockOK(c) /\ physMem'[c] = physMem[c] /\ latest'[c] = latest[c]
        BY <1>1, Zenon DEF DataInv
      <4>2. (Hit(c)' => Hit(c)) /\ (Dirty(c)' => Dirty(c)) /\ (Writing(c)' <=> Writing(c))
        BY <2>1, <2>2, <3>7, Zenon
      <4> QED  BY <1>6, <3>4, <3>7, <4>1, <4>2, BlockKept, Zenon
    <3> QED  BY <2>1, <3>5, <3>6, <3>7, Zenon DEF DataInv
  <2> QED  BY <1>5, <1>9, <2>5, <2>6, Zenon DEF Inserts
<1> QED
  <2>1. CASE Hit(b)
    BY <2>1, <1>1, <1>8, Zenon DEF tags
  <2>2. CASE ~Hit(b)
    <3>1. Inserts(b) \/ UNCHANGED <<set, writeBuffer>>
      BY <2>2, <1>1, Fill, Zenon DEF IInv, Base
    <3> QED  BY <2>2, <3>1, <1>8, <1>9, Zenon
  <2> QED  BY <2>1, <2>2, Zenon

\* The oldest write-back of all, or the oldest of the block of a miss.
LEMMA DataSendWriteBack ==
  ASSUME IInv, DataInv, NEW i \in DOMAIN writeBuffer,
         SendWriteBack(i) \/
         \E m \in MSHRs :
           /\ Pending(i) /\ writeBuffer[i].blk = mshrs[m].blk
           /\ \A j \in 1 .. i - 1 : Pending(j) => writeBuffer[j].blk # mshrs[m].blk
           /\ WriteBack(i)
  PROVE  DataInv'
<1>1. \A j \in DOMAIN writeBuffer : j < i => j \in 1 .. i - 1
  <2>1. DOMAIN writeBuffer = 1 .. Len(writeBuffer) /\ Len(writeBuffer) \in Nat
    BY DEF IInv, Base, Types
  <2> QED  BY <2>1
<1>2. /\ Pending(i) /\ WriteBack(i)
      /\ \A j \in DOMAIN writeBuffer : j < i => ~ToSend(writeBuffer[i].blk, j)
  BY <1>1, Zenon DEF SendWriteBack, ToSend
<1> QED  BY <1>2, DataWriteBack, Zenon

=============================================================================
