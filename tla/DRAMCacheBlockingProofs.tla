---------------------- MODULE DRAMCacheBlockingProofs ----------------------
(***************************************************************************)
(* The reserves of DRAMCacheBlocking suffice, for every number of MSHRs,   *)
(* write buffers, targets and blocks.                                      *)
(***************************************************************************)
EXTENDS DRAMCacheBlocking, FiniteSetTheorems, TLAPS

MSHRsType ==
  /\ mshrs \in [MSHRs -> [blk : Blocks \cup {NoBlock}, targets : Nat,
                          inService : {"no", "yes"}]]
  /\ freeList \in Seq(MSHRs)
  /\ \A m \in MSHRs : mshrs[m].blk = NoBlock
       => mshrs[m].targets = 0 /\ mshrs[m].inService = "no"

RestType ==
  /\ noTargetMSHR \in MSHRs \cup {0}
  /\ pam \in [Blocks -> PamStates]
  /\ reads \in Nat /\ writes \in 0 .. MaxWrites /\ wb \in Nat
  /\ blocked \subseteq Causes
  /\ cacheMustSendRetry \in {"no", "yes"}

\* A handler waits for one retry at a time.
Frames ==
  [at : Places, then : Places \ {"retry"}, mshr : MSHRs \cup {0},
   blk : Blocks \cup {NoBlock}, wasFull : {"no", "yes"}, cleared : {"no", "yes"}]

\* A handler that is going to deallocate an MSHR finds it allocated.
FrameOK ==
  Place(frame) \in {"serialFree", "pamFree"}
    => frame.mshr \in MSHRs /\ mshrs[frame.mshr].blk # NoBlock

\* The causes in force, with isFull in terms of the free list.
Flags ==
  /\ Len(freeList) < ReadBufferSize => "NoMSHRs" \in blocked
  /\ wb >= WriteBuffers => "NoWBBuffers" \in blocked

\* Every waiting read has an MSHR in reserve; the requester keeps to its limit;
\* and a write, an allocated MSHR, a read and a fill to come each put at most one
\* entry into the write buffer.  (NumEntries - Len(freeList) are allocated.)
Counts ==
  /\ reads <= Len(freeList) /\ reads < ReadBufferSize
  /\ reads + Pend(frame) + NumEntries <= MaxReads + Len(freeList)
  /\ wb + writes + reads + Pend(frame) + NumEntries
       < WriteBuffers + MaxWrites + MaxReads + Len(freeList)

IInv ==
  /\ MSHRsType /\ RestType /\ frame \in Frames
  /\ FreeListExact /\ FrameOK /\ Flags /\ Counts

-----------------------------------------------------------------------------
(***************************************************************************)
(* The free list                                                           *)
(***************************************************************************)

\* An exact free list is no longer than the MSHRs are many.
LEMMA Pigeons ==
  ASSUME NEW s \in Seq(MSHRs),
         \A i, j \in 1 .. Len(s) : s[i] = s[j] => i = j
  PROVE  Len(s) <= NumEntries
<1>1. NumEntries \in Nat
  BY BlockingAssumption DEF BlockingAssumption, NumEntries
<1>2. s \in [1 .. Len(s) -> MSHRs] /\ Len(s) \in Nat
  OBVIOUS
<1>3. IsFiniteSet(MSHRs) /\ Cardinality(MSHRs) = NumEntries
  BY <1>1, FS_Interval DEF MSHRs
<1>4. IsFiniteSet(1 .. Len(s)) /\ Cardinality(1 .. Len(s)) = Len(s)
  <2>1. Len(s) \in Int /\ 1 \in Int
    BY <1>2
  <2>2. IsFiniteSet(1 .. Len(s))
        /\ Cardinality(1 .. Len(s)) = IF 1 > Len(s) THEN 0 ELSE Len(s) - 1 + 1
    BY <2>1, FS_Interval, Zenon
  <2> QED  BY <1>2, <2>2
<1>5. SUFFICES ASSUME NumEntries < Len(s) PROVE FALSE
  BY <1>1, <1>2
<1>6. \E x, y \in 1 .. Len(s) : x # y /\ s[x] = s[y]
  BY <1>2, <1>3, <1>4, <1>5, FS_PigeonHole
<1> QED  BY <1>6, Zenon

\* allocateMissBuffer takes an MSHR off the free list and leaves it exact.
LEMMA Allocates ==
  ASSUME MSHRsType, FreeListExact, Len(freeList) > 0, NEW b \in Blocks,
         allocateMissBuffer(b)
  PROVE  /\ MSHRsType' /\ FreeListExact' /\ Len(freeList') = Len(freeList) - 1
         /\ \A m \in MSHRs : mshrs[m].blk # NoBlock => mshrs'[m].blk # NoBlock
<1>1. freeList \in Seq(MSHRs) /\ freeList # <<>>
  BY DEF MSHRsType
<1>2. /\ Head(freeList) = freeList[1] /\ Head(freeList) \in MSHRs
      /\ Len(freeList) \in Nat /\ 1 \in 1 .. Len(freeList)
  BY <1>1
<1>3. /\ freeList' \in Seq(MSHRs) /\ Len(freeList') = Len(freeList) - 1
      /\ \A i \in 1 .. Len(freeList') : /\ freeList'[i] = freeList[i + 1]
                                        /\ i + 1 \in 1 .. Len(freeList)
                                        /\ freeList[i + 1] \in MSHRs
  BY <1>1, <1>2 DEF allocateMissBuffer
<1>4. mshrs' = [mshrs EXCEPT ![Head(freeList)] =
                  [blk |-> b, targets |-> 1, inService |-> "no"]]
  BY Zenon DEF allocateMissBuffer
<1>5. /\ \A i \in 1 .. Len(freeList) : mshrs[freeList[i]].blk = NoBlock
      /\ \A i, j \in 1 .. Len(freeList) : freeList[i] = freeList[j] => i = j
  BY Zenon DEF FreeListExact
<1>6. \A i \in 1 .. Len(freeList') : mshrs'[freeList'[i]].blk = NoBlock
  <2> SUFFICES ASSUME NEW i \in 1 .. Len(freeList')
               PROVE  mshrs'[freeList'[i]].blk = NoBlock
    BY Zenon
  <2>1. freeList'[i] = freeList[i + 1] /\ i + 1 \in 1 .. Len(freeList)
        /\ freeList[i + 1] \in MSHRs /\ i + 1 # 1
    BY <1>2, <1>3
  <2>2. freeList[i + 1] # Head(freeList)
    BY <2>1, <1>2, <1>5, Zenon
  <2>3. mshrs'[freeList[i + 1]] = mshrs[freeList[i + 1]]
    BY <2>1, <2>2, <1>4, Zenon DEF MSHRsType
  <2> QED  BY <2>1, <2>3, <1>5, Zenon
<1>7. \A i, j \in 1 .. Len(freeList') : freeList'[i] = freeList'[j] => i = j
  <2> SUFFICES ASSUME NEW i \in 1 .. Len(freeList'), NEW j \in 1 .. Len(freeList'),
                      freeList'[i] = freeList'[j]
               PROVE  i = j
    BY Zenon
  <2>1. /\ freeList[i + 1] = freeList[j + 1]
        /\ i + 1 \in 1 .. Len(freeList) /\ j + 1 \in 1 .. Len(freeList)
    BY <1>3, Zenon
  <2>2. i + 1 = j + 1
    BY <2>1, <1>5, Zenon
  <2> QED  BY <2>2
<1>8. FreeListExact'
  BY <1>6, <1>7, Zenon DEF FreeListExact
<1>9. \A m \in MSHRs : mshrs[m].blk # NoBlock => mshrs'[m].blk # NoBlock
  BY <1>2, <1>4, BlockingAssumption, Zenon DEF MSHRsType, BlockingAssumption
<1>10. MSHRsType'
  BY <1>2, <1>3, <1>4, BlockingAssumption, Zenon DEF BlockingAssumption, MSHRsType
<1> QED  BY <1>3, <1>8, <1>9, <1>10, Zenon

\* deallocate puts an allocated MSHR on the free list and leaves it exact.
LEMMA Deallocates ==
  ASSUME MSHRsType, FreeListExact, NEW m \in MSHRs, mshrs[m].blk # NoBlock,
         deallocate(m)
  PROVE  MSHRsType' /\ FreeListExact' /\ Len(freeList') = Len(freeList) + 1
<1>1. /\ freeList \in Seq(MSHRs) /\ Len(freeList) \in Nat
      /\ \A i \in 1 .. Len(freeList) : /\ freeList[i] \in MSHRs /\ freeList[i] # m
                                       /\ mshrs[freeList[i]].blk = NoBlock
      /\ \A i, j \in 1 .. Len(freeList) : freeList[i] = freeList[j] => i = j
  BY DEF MSHRsType, FreeListExact
<1>2. /\ freeList' \in Seq(MSHRs) /\ Len(freeList') = Len(freeList) + 1
      /\ freeList'[1] = m
      /\ \A i \in 2 .. Len(freeList') : /\ freeList'[i] = freeList[i - 1]
                                        /\ i - 1 \in 1 .. Len(freeList)
  BY <1>1 DEF deallocate
<1>3. mshrs' = [mshrs EXCEPT ![m] = FreeMSHR]
  BY Zenon DEF deallocate
<1>4. \A i \in 1 .. Len(freeList') : mshrs'[freeList'[i]].blk = NoBlock
  <2> SUFFICES ASSUME NEW i \in 1 .. Len(freeList')
               PROVE  mshrs'[freeList'[i]].blk = NoBlock
    BY Zenon
  <2>1. CASE i = 1
    BY <2>1, <1>2, <1>3, Zenon DEF MSHRsType, FreeMSHR
  <2>2. CASE i \in 2 .. Len(freeList')
    <3>1. freeList'[i] = freeList[i - 1] /\ i - 1 \in 1 .. Len(freeList)
      BY <2>2, <1>2, Zenon
    <3>2. mshrs'[freeList[i - 1]] = mshrs[freeList[i - 1]]
      BY <3>1, <1>1, <1>3, Zenon DEF MSHRsType
    <3> QED  BY <3>1, <3>2, <1>1, Zenon
  <2> QED  BY <2>1, <2>2, <1>1, <1>2
<1>5. \A i, j \in 1 .. Len(freeList') : freeList'[i] = freeList'[j] => i = j
  <2> SUFFICES ASSUME NEW i \in 1 .. Len(freeList'), NEW j \in 1 .. Len(freeList'),
                      freeList'[i] = freeList'[j]
               PROVE  i = j
    BY Zenon
  <2>1. CASE i \in 2 .. Len(freeList') /\ j \in 2 .. Len(freeList')
    <3>1. /\ freeList[i - 1] = freeList[j - 1]
          /\ i - 1 \in 1 .. Len(freeList) /\ j - 1 \in 1 .. Len(freeList)
      BY <2>1, <1>2, Zenon
    <3>2. i - 1 = j - 1
      BY <3>1, <1>1, Zenon
    <3>3. i \in Int /\ j \in Int
      BY <2>1
    <3> QED  BY <3>2, <3>3
  <2>2. \A k \in 2 .. Len(freeList') : freeList'[k] # m
    BY <1>1, <1>2
  <2>3. CASE i = 1 /\ j \in 2 .. Len(freeList')
    BY <2>2, <2>3, <1>2, Zenon
  <2>4. CASE j = 1 /\ i \in 2 .. Len(freeList')
    BY <2>2, <2>4, <1>2, Zenon
  <2>5. \/ i = 1 /\ j = 1
        \/ i = 1 /\ j \in 2 .. Len(freeList')
        \/ j = 1 /\ i \in 2 .. Len(freeList')
        \/ i \in 2 .. Len(freeList') /\ j \in 2 .. Len(freeList')
    <3>1. i = 1 \/ i \in 2 .. Len(freeList')
      BY <1>1, <1>2
    <3>2. j = 1 \/ j \in 2 .. Len(freeList')
      BY <1>1, <1>2
    <3> QED  BY <3>1, <3>2, Zenon
  <2> QED  BY <2>1, <2>3, <2>4, <2>5, Zenon
<1>6. FreeListExact'
  BY <1>4, <1>5, Zenon DEF FreeListExact
<1>7. MSHRsType'
  BY <1>2, <1>3, Zenon DEF MSHRsType, FreeMSHR
<1> QED  BY <1>2, <1>6, <1>7, Zenon

\* A step that keeps the free list and the blocks of the MSHRs keeps it exact.
LEMMA SameFree ==
  ASSUME MSHRsType, FreeListExact, UNCHANGED freeList,
         \A m \in MSHRs : mshrs'[m].blk = mshrs[m].blk
  PROVE  FreeListExact'
BY DEF MSHRsType, FreeListExact

-----------------------------------------------------------------------------
(***************************************************************************)
(* Requests, retries and causes                                            *)
(***************************************************************************)

\* isFull in terms of the free list.
LEMMA FullIff ==
  ASSUME MSHRsType
  PROVE  /\ Len(freeList) \in Nat
         /\ isFull <=> Len(freeList) < ReadBufferSize
         /\ allocated + 1 > NumEntries - ReadBufferSize
              <=> Len(freeList) - 1 < ReadBufferSize
         /\ allocated - 1 <= NumEntries - ReadBufferSize
              <=> Len(freeList) + 1 >= ReadBufferSize
BY BlockingAssumption
   DEF MSHRsType, isFull, allocated, NumEntries, BlockingAssumption

\* While requests are accepted there is room for one more read.
LEMMA Room ==
  ASSUME IInv, blocked = {}
  PROVE  reads < Len(freeList) /\ wb < WriteBuffers
BY BlockingAssumption
   DEF IInv, MSHRsType, RestType, Flags, Counts, BlockingAssumption

\* A read that is accepted leaves fewer than ReadBufferSize waiting.
LEMMA QueueRoom ==
  ASSUME RestType, ~readQueueFull
  PROVE  reads + 2 <= ReadBufferSize
<1>1. Cardinality(PamReads) \in Nat
  BY BlockingAssumption, FS_Subset, FS_CardinalityType, Zenon
     DEF PamReads, BlockingAssumption
<1> QED  BY <1>1, BlockingAssumption
         DEF readQueueFull, RestType, PktCount, BlockingAssumption

\* A request that returns leaves the handler it interrupted where it was.
LEMMA Returning ==
  ASSUME frame \in Frames,
         frame' = [frame EXCEPT !.at = IF @ = "retry" THEN frame.then ELSE @]
  PROVE  frame' \in Frames /\ Place(frame') = Place(frame) /\ frame'.mshr = frame.mshr
<1>1. CASE frame.at = "retry"
  BY <1>1, Zenon DEF Frames, Place, Places
<1>2. CASE frame.at # "retry"
  BY <1>2, Zenon DEF Frames, Place, Places
<1> QED  BY <1>1, <1>2, Zenon

\* clearBlocked, with or without a retry, leaves its caller where it was.
LEMMA Clearing ==
  ASSUME NEW bs \in SUBSET Causes, NEW c, NEW f \in Frames, f.at # "retry",
         clearBlocked(bs, c, f)
  PROVE  /\ frame' \in Frames /\ Place(frame') = f.at /\ frame'.mshr = f.mshr
         /\ blocked' = bs \ {c}
<1>1. CASE frame' = f
  BY <1>1, Zenon DEF Place, clearBlocked
<1>2. CASE frame' = [f EXCEPT !.at = "retry", !.then = f.at]
  BY <1>2, Zenon DEF Frames, Place, Places, clearBlocked
<1> QED  BY <1>1, <1>2, Zenon DEF clearBlocked

\* The same for the end of a handler that made room; it keeps the cause
\* NoMSHRs unless there is room.
LEMMA MakingRoom ==
  ASSUME MSHRsType, NEW bs \in SUBSET Causes, NEW w, NEW f \in Frames,
         f.at # "retry", MadeRoom(w, bs, f)
  PROVE  /\ frame' \in Frames /\ Place(frame') = f.at /\ frame'.mshr = f.mshr
         /\ blocked' \subseteq Causes
         /\ \A c \in bs : c # "NoMSHRs" \/ Len(freeList) + 1 < ReadBufferSize
                            => c \in blocked'
<1>1. CASE blocked' = bs /\ frame' = f
  BY <1>1, Zenon DEF Place
<1>2. CASE /\ clearBlocked(bs, "NoMSHRs", f)
           /\ allocated - 1 <= NumEntries - ReadBufferSize
  <2>1. Len(freeList) + 1 >= ReadBufferSize /\ Len(freeList) \in Nat
    BY <1>2, FullIff, Zenon
  <2>2. ~ (Len(freeList) + 1 < ReadBufferSize)
    BY <2>1, BlockingAssumption DEF BlockingAssumption
  <2>3. /\ frame' \in Frames /\ Place(frame') = f.at /\ frame'.mshr = f.mshr
        /\ blocked' = bs \ {"NoMSHRs"}
    BY <1>2, Clearing, Zenon DEF Causes
  <2> QED  BY <2>2, <2>3, Zenon
<1> QED  BY <1>1, <1>2, Zenon DEF MadeRoom

\* allocateWriteBuffer keeps the causes there are, and refuses requests when
\* the write buffer is full.
LEMMA BlockingWB ==
  ASSUME RestType, Flags, NEW n \in {0, 1}
  PROVE  /\ BlockedWB(n) \in SUBSET Causes /\ blocked \subseteq BlockedWB(n)
         /\ wb + n >= WriteBuffers => "NoWBBuffers" \in BlockedWB(n)
BY BlockingAssumption DEF BlockingAssumption, RestType, Flags, BlockedWB, Causes

\* allocateMissBuffer keeps the causes there are, and refuses requests when
\* the MSHRs are full.
LEMMA BlockingMSHR ==
  ASSUME MSHRsType, RestType, NEW b \in Blocks, allocateMissBuffer(b)
  PROVE  /\ blocked' \subseteq Causes /\ blocked \subseteq blocked'
         /\ Len(freeList) - 1 < ReadBufferSize => "NoMSHRs" \in blocked'
BY FullIff, Zenon DEF allocateMissBuffer, RestType, Causes

-----------------------------------------------------------------------------
(***************************************************************************)
(* Every action keeps the invariant                                        *)
(***************************************************************************)

\* A refused request changes no count.
LEMMA RecvRefusedInv ==
  ASSUME IInv, RecvRefused
  PROVE  IInv'
<1>0. /\ MSHRsType /\ RestType /\ frame \in Frames
      /\ FreeListExact /\ FrameOK /\ Flags /\ Counts
  BY Zenon DEF IInv
<1>1. MSHRsType'
  BY <1>0, Zenon DEF RecvRefused, MSHRsType
<1>2. FreeListExact'
  BY <1>0, SameFree, Zenon DEF RecvRefused, MSHRsType
<1>3. frame' \in Frames /\ Place(frame') = Place(frame) /\ frame'.mshr = frame.mshr
  BY <1>0, Returning, Zenon DEF RecvRefused
<1>4. RestType'
  BY <1>0, <1>3, BlockingAssumption, Zenon
     DEF BlockingAssumption, RecvRefused, RestType, Causes, PamStates
<1>5. FrameOK'
  BY <1>0, <1>3, Zenon DEF RecvRefused, MSHRsType, FrameOK
<1>6. Flags'
  BY <1>0, <1>3, Zenon DEF RecvRefused, RestType, Flags
<1>7. Counts'
  BY <1>0, <1>3, BlockingAssumption, Zenon
     DEF BlockingAssumption, RecvRefused, MSHRsType, RestType, Counts, Pend
<1> QED  BY <1>1, <1>2, <1>3, <1>4, <1>5, <1>6, <1>7, Zenon DEF IInv

\* A coalesced read changes the targets of an MSHR in use.
LEMMA RecvCoalesceInv ==
  ASSUME IInv, NEW m \in MSHRs, RecvCoalesce(m)
  PROVE  IInv'
<1>0. /\ MSHRsType /\ RestType /\ frame \in Frames
      /\ FreeListExact /\ FrameOK /\ Flags /\ Counts
  BY Zenon DEF IInv
<1>1. MSHRsType'
  BY <1>0 DEF RecvCoalesce, Coalesce, MSHRsType
<1>2. FreeListExact'
  BY <1>0, SameFree, Zenon DEF RecvCoalesce, Coalesce, MSHRsType
<1>3. frame' \in Frames /\ Place(frame') = Place(frame) /\ frame'.mshr = frame.mshr
  BY <1>0, Returning, Zenon DEF RecvCoalesce, Returns
<1>4. RestType'
  BY <1>0, <1>3, BlockingAssumption, Zenon
     DEF BlockingAssumption, RecvCoalesce, Coalesce, Returns, RestType,
         Causes, PamStates
<1>5. FrameOK'
  BY <1>0, <1>3, Zenon DEF RecvCoalesce, Coalesce, MSHRsType, FrameOK
<1>6. Flags'
  BY <1>0, <1>3, Zenon DEF RecvCoalesce, Coalesce, Returns, RestType, Flags
<1>7. Counts'
  BY <1>0, <1>3, BlockingAssumption, Zenon
     DEF BlockingAssumption, RecvCoalesce, MSHRsType, RestType, Counts, Pend
<1> QED  BY <1>1, <1>2, <1>3, <1>4, <1>5, <1>6, <1>7, Zenon DEF IInv

\* A read answered at once changes no count.
LEMMA RecvServedInv ==
  ASSUME IInv, RecvServed
  PROVE  IInv'
<1>0. /\ MSHRsType /\ RestType /\ frame \in Frames
      /\ FreeListExact /\ FrameOK /\ Flags /\ Counts
  BY Zenon DEF IInv
<1>1. MSHRsType'
  BY <1>0, Zenon DEF RecvServed, MSHRsType
<1>2. FreeListExact'
  BY <1>0, SameFree, Zenon DEF RecvServed, MSHRsType
<1>3. frame' \in Frames /\ Place(frame') = Place(frame) /\ frame'.mshr = frame.mshr
  BY <1>0, Returning, Zenon DEF RecvServed, Returns
<1>4. RestType'
  BY <1>0, <1>3, BlockingAssumption, Zenon
     DEF BlockingAssumption, RecvServed, Returns, RestType, Causes,
         PamStates
<1>5. FrameOK'
  BY <1>0, <1>3, Zenon DEF RecvServed, MSHRsType, FrameOK
<1>6. Flags'
  BY <1>0, <1>3, Zenon DEF RecvServed, Returns, RestType, Flags
<1>7. Counts'
  BY <1>0, <1>3, BlockingAssumption, Zenon
     DEF BlockingAssumption, RecvServed, MSHRsType, RestType, Counts, Pend
<1> QED  BY <1>1, <1>2, <1>3, <1>4, <1>5, <1>6, <1>7, Zenon DEF IInv

\* A bypass takes an MSHR while requests are accepted.
LEMMA RecvBypassInv ==
  ASSUME IInv, NEW b \in Blocks, RecvBypass(b)
  PROVE  IInv'
<1>0. /\ MSHRsType /\ RestType /\ frame \in Frames
      /\ FreeListExact /\ FrameOK /\ Flags /\ Counts
  BY Zenon DEF IInv
<1>a. Len(freeList) > 0 /\ allocateMissBuffer(b)
  BY <1>0, Room DEF RecvBypass, MSHRsType, RestType
<1>b. /\ MSHRsType' /\ FreeListExact' /\ Len(freeList') = Len(freeList) - 1
      /\ \A m \in MSHRs : mshrs[m].blk # NoBlock => mshrs'[m].blk # NoBlock
  BY <1>0, <1>a, Allocates, Zenon
<1>c. /\ blocked' \subseteq Causes /\ blocked \subseteq blocked'
      /\ Len(freeList) - 1 < ReadBufferSize => "NoMSHRs" \in blocked'
  BY <1>0, <1>a, BlockingMSHR, Zenon
<1>3. frame' \in Frames /\ Place(frame') = Place(frame) /\ frame'.mshr = frame.mshr
  BY <1>0, Returning, Zenon DEF RecvBypass, Returns
<1>4. RestType'
  BY <1>0, <1>c, Zenon DEF RecvBypass, Returns, RestType, PamStates
<1>5. FrameOK'
  BY <1>0, <1>b, <1>3, Zenon DEF FrameOK
<1>6. Flags'
  BY <1>0, <1>b, <1>c, Zenon DEF RecvBypass, Flags
<1>7. Counts'
  <2>1. /\ Outstanding < MaxReads /\ UNCHANGED <<reads, writes, wb>>
        /\ blocked = {} /\ reads < Len(freeList) /\ wb < WriteBuffers
    BY Room, Zenon DEF RecvBypass
  <2>2. Pend(frame') = Pend(frame) /\ Pend(frame) \in {0, 1}
    BY <1>3, Zenon DEF Pend
  <2>3. /\ Len(freeList) \in Nat /\ reads \in Nat /\ wb \in Nat
        /\ writes \in Nat /\ writes <= MaxWrites /\ NumEntries \in Nat
        /\ WriteBuffers \in Nat /\ MaxWrites \in Nat /\ MaxReads \in Nat
    BY <1>0, BlockingAssumption
       DEF BlockingAssumption, MSHRsType, RestType, NumEntries
  <2>4. NumEntries - Len(freeList) + reads + Pend(frame) < MaxReads
    BY <2>1, Zenon DEF Outstanding, allocated
  <2>5. reads < ReadBufferSize
    BY <1>0, Zenon DEF Counts
  <2>6. reads' = reads /\ writes' = writes /\ wb' = wb
    BY <2>1, Zenon
  <2>7. Len(freeList') = Len(freeList) - 1
    BY <1>b, Zenon
  <2> QED  BY <2>1, <2>2, <2>3, <2>4, <2>5, <2>6, <2>7 DEF Counts
<1> QED  BY <1>b, <1>3, <1>4, <1>5, <1>6, <1>7, Zenon DEF IInv

\* A queued read finds room in the read queue.
LEMMA RecvReadInv ==
  ASSUME IInv, RecvRead
  PROVE  IInv'
<1>0. /\ MSHRsType /\ RestType /\ frame \in Frames
      /\ FreeListExact /\ FrameOK /\ Flags /\ Counts
  BY Zenon DEF IInv
<1>1. MSHRsType'
  BY <1>0, Zenon DEF RecvRead, MSHRsType
<1>2. FreeListExact'
  BY <1>0, SameFree, Zenon DEF RecvRead, MSHRsType
<1>3. frame' \in Frames /\ Place(frame') = Place(frame) /\ frame'.mshr = frame.mshr
  BY <1>0, Returning, Zenon DEF RecvRead, Returns
<1>4. RestType'
  BY <1>0 DEF RecvRead, Returns, RestType
<1>5. FrameOK'
  BY <1>0, <1>3, Zenon DEF RecvRead, MSHRsType, FrameOK
<1>6. Flags'
  BY <1>0, <1>3, Zenon DEF RecvRead, Returns, RestType, Flags
<1>7. Counts'
  BY <1>0, <1>3, BlockingAssumption, Room, QueueRoom
     DEF BlockingAssumption, RecvRead, MSHRsType, RestType, Counts, Pend,
         Outstanding, allocated, NumEntries
<1> QED  BY <1>1, <1>2, <1>3, <1>4, <1>5, <1>6, <1>7, Zenon DEF IInv

\* A parallel access takes an MSHR while requests are accepted.
LEMMA RecvReadPamInv ==
  ASSUME IInv, NEW b \in Blocks, RecvReadPam(b)
  PROVE  IInv'
<1>0. /\ MSHRsType /\ RestType /\ frame \in Frames
      /\ FreeListExact /\ FrameOK /\ Flags /\ Counts
  BY Zenon DEF IInv
<1>a. Len(freeList) > 0 /\ allocateMissBuffer(b)
  BY <1>0, Room DEF RecvReadPam, MSHRsType, RestType
<1>b. /\ MSHRsType' /\ FreeListExact' /\ Len(freeList') = Len(freeList) - 1
      /\ \A m \in MSHRs : mshrs[m].blk # NoBlock => mshrs'[m].blk # NoBlock
  BY <1>0, <1>a, Allocates, Zenon
<1>c. /\ blocked' \subseteq Causes /\ blocked \subseteq blocked'
      /\ Len(freeList) - 1 < ReadBufferSize => "NoMSHRs" \in blocked'
  BY <1>0, <1>a, BlockingMSHR, Zenon
<1>3. frame' \in Frames /\ Place(frame') = Place(frame) /\ frame'.mshr = frame.mshr
  BY <1>0, Returning, Zenon DEF RecvReadPam, Returns
<1>4. RestType'
  BY <1>0, <1>c, Zenon DEF RecvReadPam, Returns, RestType, PamStates
<1>5. FrameOK'
  BY <1>0, <1>b, <1>3, Zenon DEF FrameOK
<1>6. Flags'
  BY <1>0, <1>b, <1>c, Zenon DEF RecvReadPam, Flags
<1>7. Counts'
  <2>1. /\ Outstanding < MaxReads /\ UNCHANGED <<reads, writes, wb>>
        /\ blocked = {} /\ reads < Len(freeList) /\ wb < WriteBuffers
    BY Room, Zenon DEF RecvReadPam
  <2>2. Pend(frame') = Pend(frame) /\ Pend(frame) \in {0, 1}
    BY <1>3, Zenon DEF Pend
  <2>3. /\ Len(freeList) \in Nat /\ reads \in Nat /\ wb \in Nat
        /\ writes \in Nat /\ writes <= MaxWrites /\ NumEntries \in Nat
        /\ WriteBuffers \in Nat /\ MaxWrites \in Nat /\ MaxReads \in Nat
    BY <1>0, BlockingAssumption
       DEF BlockingAssumption, MSHRsType, RestType, NumEntries
  <2>4. NumEntries - Len(freeList) + reads + Pend(frame) < MaxReads
    BY <2>1, Zenon DEF Outstanding, allocated
  <2>5. reads < ReadBufferSize
    BY <1>0, Zenon DEF Counts
  <2>6. reads' = reads /\ writes' = writes /\ wb' = wb
    BY <2>1, Zenon
  <2>7. Len(freeList') = Len(freeList) - 1
    BY <1>b, Zenon
  <2> QED  BY <2>1, <2>2, <2>3, <2>4, <2>5, <2>6, <2>7 DEF Counts
<1> QED  BY <1>b, <1>3, <1>4, <1>5, <1>6, <1>7, Zenon DEF IInv

\* A queued write is one of MaxWrites.
LEMMA RecvWriteInv ==
  ASSUME IInv, RecvWrite
  PROVE  IInv'
<1>0. /\ MSHRsType /\ RestType /\ frame \in Frames
      /\ FreeListExact /\ FrameOK /\ Flags /\ Counts
  BY Zenon DEF IInv
<1>1. MSHRsType'
  BY <1>0, Zenon DEF RecvWrite, MSHRsType
<1>2. FreeListExact'
  BY <1>0, SameFree, Zenon DEF RecvWrite, MSHRsType
<1>3. frame' \in Frames /\ Place(frame') = Place(frame) /\ frame'.mshr = frame.mshr
  BY <1>0, Returning, Zenon DEF RecvWrite, Returns
<1>4. RestType'
  BY <1>0, <1>3, BlockingAssumption, Room
     DEF BlockingAssumption, RecvWrite, Returns, RestType, Causes, PamStates
<1>5. FrameOK'
  BY <1>0, <1>3, Zenon DEF RecvWrite, MSHRsType, FrameOK
<1>6. Flags'
  BY <1>0, <1>3, Zenon DEF RecvWrite, Returns, RestType, Flags
<1>7. Counts'
  BY <1>0, <1>3, BlockingAssumption, Room
     DEF BlockingAssumption, RecvWrite, MSHRsType, RestType, Counts, Pend,
         NumEntries
<1> QED  BY <1>1, <1>2, <1>3, <1>4, <1>5, <1>6, <1>7, Zenon DEF IInv

\* A read that hits gives its reserved MSHR up.
LEMMA SerialHitInv ==
  ASSUME IInv, SerialHit
  PROVE  IInv'
<1>0. /\ MSHRsType /\ RestType /\ frame \in Frames
      /\ FreeListExact /\ FrameOK /\ Flags /\ Counts
  BY Zenon DEF IInv
<1>1. MSHRsType'
  BY <1>0, Zenon DEF SerialHit, MSHRsType
<1>2. FreeListExact'
  BY <1>0, SameFree, Zenon DEF SerialHit, MSHRsType
<1>3. frame' \in Frames /\ Place(frame') = Place(frame) /\ frame'.mshr = frame.mshr
  BY <1>0, Zenon DEF SerialHit
<1>4. RestType'
  BY <1>0, <1>3, BlockingAssumption
     DEF BlockingAssumption, SerialHit, RestType, Causes, PamStates
<1>5. FrameOK'
  BY <1>0, <1>3, Zenon DEF SerialHit, MSHRsType, FrameOK
<1>6. Flags'
  BY <1>0, <1>3, Zenon DEF SerialHit, RestType, Flags
<1>7. Counts'
  BY <1>0, <1>3, BlockingAssumption
     DEF BlockingAssumption, SerialHit, MSHRsType, RestType, Counts, Pend,
         NumEntries
<1> QED  BY <1>1, <1>2, <1>3, <1>4, <1>5, <1>6, <1>7, Zenon DEF IInv

\* A read that misses uses the MSHR in reserve for it, or joins one.
LEMMA SerialMissInv ==
  ASSUME IInv, NEW b \in Blocks, SerialMiss(b)
  PROVE  IInv'
<1>0. /\ MSHRsType /\ RestType /\ frame \in Frames
      /\ FreeListExact /\ FrameOK /\ Flags /\ Counts
  BY Zenon DEF IInv
<1>3. frame' = frame /\ reads' = reads - 1 /\ reads > 0 /\ UNCHANGED <<writes, wb>>
  BY Zenon DEF SerialMiss
<1>8. CASE allocateMissBuffer(b) /\ UNCHANGED noTargetMSHR
  <2>a. Len(freeList) > 0
    BY <1>0, <1>3 DEF MSHRsType, RestType, Counts
  <2>b. /\ MSHRsType' /\ FreeListExact' /\ Len(freeList') = Len(freeList) - 1
        /\ \A m \in MSHRs : mshrs[m].blk # NoBlock => mshrs'[m].blk # NoBlock
    BY <1>0, <1>8, <2>a, Allocates, Zenon
  <2>c. /\ blocked' \subseteq Causes /\ blocked \subseteq blocked'
        /\ Len(freeList) - 1 < ReadBufferSize => "NoMSHRs" \in blocked'
    BY <1>0, <1>8, BlockingMSHR, Zenon
  <2>1. RestType'
    BY <1>0, <1>8, <2>c DEF SerialMiss, RestType
  <2>2. FrameOK'
    BY <1>0, <1>3, <2>b, Zenon DEF FrameOK
  <2>3. Flags'
    BY <1>0, <1>3, <2>b, <2>c, Zenon DEF Flags
  <2>4. Counts'
    BY <1>0, <1>3, <2>b, BlockingAssumption
       DEF BlockingAssumption, MSHRsType, RestType, Counts, Pend, NumEntries
  <2> QED  BY <1>0, <1>3, <2>b, <2>1, <2>2, <2>3, <2>4, Zenon DEF IInv
<1>9. CASE (\E m \in findMatch(b) : mshrs[m].targets < MaxTargets /\ Coalesce(m))
           /\ UNCHANGED freeList
  <2>0. PICK m \in MSHRs : Coalesce(m) /\ mshrs[m].blk # NoBlock
    BY <1>9, BlockingAssumption, Zenon DEF BlockingAssumption, findMatch
  <2>1. MSHRsType'
    <3>1. mshrs' = [mshrs EXCEPT ![m].targets = @ + 1] /\ UNCHANGED freeList
      BY <1>9, <2>0, Zenon DEF Coalesce
    <3> QED  BY <1>0, <2>0, <3>1 DEF MSHRsType
  <2>2. FreeListExact'
    BY <1>0, <1>9, <2>0, SameFree DEF Coalesce, MSHRsType
  <2>3. RestType'
    BY <1>0, <2>0 DEF SerialMiss, Coalesce, RestType, Causes
  <2>4. FrameOK'
    BY <1>0, <1>3, <2>0, Zenon DEF Coalesce, MSHRsType, FrameOK
  <2>5. Flags'
    BY <1>0, <1>3, <1>9, <2>0, Zenon DEF Coalesce, RestType, Flags
  <2>6. Counts'
    <3>1. Len(freeList') = Len(freeList) /\ Len(freeList) \in Nat
          /\ Pend(frame') = Pend(frame)
      BY <1>0, <1>3, <1>9 DEF MSHRsType
    <3>2. Pend(frame) \in Nat
      BY Zenon DEF Pend
    <3> QED  BY <1>0, <1>3, <3>1, <3>2, BlockingAssumption
             DEF BlockingAssumption, RestType, Counts, NumEntries
  <2> QED  BY <1>0, <1>3, <2>1, <2>2, <2>3, <2>4, <2>5, <2>6, Zenon DEF IInv
<1> QED  BY <1>8, <1>9, Zenon DEF SerialMiss

\* A hit frees the MSHR of its parallel access.
LEMMA PamHitInv ==
  ASSUME IInv, NEW m \in MSHRs, PamHit(m)
  PROVE  IInv'
<1>0. /\ MSHRsType /\ RestType /\ frame \in Frames
      /\ FreeListExact /\ FrameOK /\ Flags /\ Counts
  BY Zenon DEF IInv
<1>a. m \in MSHRs /\ mshrs[m].blk # NoBlock /\ deallocate(m)
  BY <1>0, Zenon DEF PamHit
<1>b. MSHRsType' /\ FreeListExact' /\ Len(freeList') = Len(freeList) + 1
  BY <1>0, <1>a, Deallocates, Zenon
<1>c. /\ blocked \in SUBSET Causes /\ blocked \subseteq blocked
      /\ wb >= WriteBuffers => "NoWBBuffers" \in blocked
  BY <1>0, Zenon DEF RestType, Flags
<1>d. PICK f \in Frames : f.at \in {"idle", "pamErase"} /\ MadeRoom(Full, blocked, f)
  BY <1>0, Zenon DEF PamHit, MSHRsType, Idle, Frames, Places
<1>3. /\ frame' \in Frames /\ Place(frame') \in {"idle", "pamErase"}
      /\ blocked' \subseteq Causes
      /\ \A c \in blocked : c # "NoMSHRs" \/ Len(freeList) + 1 < ReadBufferSize
                         => c \in blocked'
  BY <1>0, <1>c, <1>d, MakingRoom, Zenon
<1>4. RestType'
  BY <1>0, <1>3, Zenon DEF PamHit, RestType, PamStates
<1>5. FrameOK'
  BY <1>3, Zenon DEF FrameOK
<1>e. UNCHANGED <<reads, writes>> /\ wb' = wb /\ Len(freeList) \in Nat
  BY <1>0 DEF PamHit, MSHRsType
<1>6. Flags'
  BY <1>b, <1>c, <1>e, <1>3, <1>0, BlockingAssumption
     DEF BlockingAssumption, RestType, Flags
<1>f. Pend(frame') = 0 /\ Pend(frame) \in {0, 1}
  BY <1>3, Zenon DEF Pend
<1>7. Counts'
  BY <1>0, <1>b, <1>e, <1>f, BlockingAssumption
     DEF BlockingAssumption, RestType, Counts, NumEntries
<1> QED  BY <1>b, <1>3, <1>4, <1>5, <1>6, <1>7, Zenon DEF IInv

\* Erasing a pamQueue entry changes no count.
LEMMA PamEraseInv ==
  ASSUME IInv, PamErase
  PROVE  IInv'
<1>0. /\ MSHRsType /\ RestType /\ frame \in Frames
      /\ FreeListExact /\ FrameOK /\ Flags /\ Counts
  BY Zenon DEF IInv
<1>1. MSHRsType'
  BY <1>0, Zenon DEF PamErase, MSHRsType
<1>2. FreeListExact'
  BY <1>0, SameFree, Zenon DEF PamErase, MSHRsType
<1>3. frame' = Idle /\ Idle \in Frames /\ Place(Idle) = "idle"
  BY Zenon DEF PamErase, Idle, Frames, Places, Place
<1>4. RestType'
  BY <1>0, <1>3, BlockingAssumption, Zenon
     DEF BlockingAssumption, PamErase, RestType, Causes, PamStates
<1>5. FrameOK'
  BY <1>0, <1>3, Zenon DEF PamErase, MSHRsType, FrameOK
<1>6. Flags'
  BY <1>0, <1>3, Zenon DEF PamErase, RestType, Flags
<1>7. Counts'
  BY <1>0, <1>3, BlockingAssumption
     DEF BlockingAssumption, PamErase, MSHRsType, RestType, Counts, Pend,
         NumEntries
<1> QED  BY <1>1, <1>2, <1>3, <1>4, <1>5, <1>6, <1>7, Zenon DEF IInv

\* A miss joins the MSHR of its parallel access.
LEMMA PamMissInv ==
  ASSUME IInv, NEW m \in MSHRs, PamMiss(m)
  PROVE  IInv'
<1>0. /\ MSHRsType /\ RestType /\ frame \in Frames
      /\ FreeListExact /\ FrameOK /\ Flags /\ Counts
  BY Zenon DEF IInv
<1>1. MSHRsType'
  BY <1>0 DEF PamMiss, MSHRsType
<1>2. FreeListExact'
  BY <1>0, SameFree, Zenon DEF PamMiss, MSHRsType
<1>3. frame' \in Frames /\ Place(frame') = Place(frame) /\ frame'.mshr = frame.mshr
  BY <1>0, Zenon DEF PamMiss
<1>4. RestType'
  BY <1>0, <1>3, BlockingAssumption, Zenon
     DEF BlockingAssumption, PamMiss, RestType, Causes, PamStates
<1>5. FrameOK'
  BY <1>0, <1>3, Zenon DEF PamMiss, MSHRsType, FrameOK
<1>6. Flags'
  BY <1>0, <1>3, Zenon DEF PamMiss, RestType, Flags
<1>7. Counts'
  BY <1>0, <1>3, BlockingAssumption, Zenon
     DEF BlockingAssumption, PamMiss, MSHRsType, RestType, Counts, Pend
<1> QED  BY <1>1, <1>2, <1>3, <1>4, <1>5, <1>6, <1>7, Zenon DEF IInv

\* A tag check after the answer trades the MSHR for an eviction.
LEMMA PamDoneInv ==
  ASSUME IInv, NEW m \in MSHRs, NEW n \in {0, 1}, PamDone(m, n)
  PROVE  IInv'
<1>0. /\ MSHRsType /\ RestType /\ frame \in Frames
      /\ FreeListExact /\ FrameOK /\ Flags /\ Counts
  BY Zenon DEF IInv
<1>a. m \in MSHRs /\ mshrs[m].blk # NoBlock /\ deallocate(m)
  BY <1>0, Zenon DEF PamDone
<1>b. MSHRsType' /\ FreeListExact' /\ Len(freeList') = Len(freeList) + 1
  BY <1>0, <1>a, Deallocates, Zenon
<1>c. /\ BlockedWB(n) \in SUBSET Causes /\ blocked \subseteq BlockedWB(n)
      /\ wb + n >= WriteBuffers => "NoWBBuffers" \in BlockedWB(n)
  BY <1>0, BlockingWB, Zenon
<1>d. PICK f \in Frames : f.at \in {"idle"} /\ MadeRoom(Full, BlockedWB(n), f)
  BY Zenon DEF PamDone, Idle, Frames, Places
<1>3. /\ frame' \in Frames /\ Place(frame') \in {"idle"}
      /\ blocked' \subseteq Causes
      /\ \A c \in BlockedWB(n) : c # "NoMSHRs" \/ Len(freeList) + 1 < ReadBufferSize
                         => c \in blocked'
  BY <1>0, <1>c, <1>d, MakingRoom, Zenon
<1>n. wb + n \in Nat
  BY <1>0 DEF RestType
<1>4. RestType'
  BY <1>0, <1>3, <1>n, Zenon DEF PamDone, RestType, PamStates
<1>5. FrameOK'
  BY <1>3, Zenon DEF FrameOK
<1>e. UNCHANGED <<reads, writes>> /\ wb' = wb + n /\ Len(freeList) \in Nat
  BY <1>0 DEF PamDone, MSHRsType
<1>6. Flags'
  BY <1>b, <1>c, <1>e, <1>3, <1>0, BlockingAssumption
     DEF BlockingAssumption, RestType, Flags
<1>f. Pend(frame') = 0 /\ Pend(frame) \in {0, 1}
  BY <1>3, Zenon DEF Pend
<1>7. Counts'
  BY <1>0, <1>b, <1>e, <1>f, BlockingAssumption
     DEF BlockingAssumption, RestType, Counts, NumEntries
<1> QED  BY <1>b, <1>3, <1>4, <1>5, <1>6, <1>7, Zenon DEF IInv

\* A write that misses trades its place for a write buffer.
LEMMA WriteDoneInv ==
  ASSUME IInv, NEW n \in {0, 1}, WriteDone(n)
  PROVE  IInv'
<1>0. /\ MSHRsType /\ RestType /\ frame \in Frames
      /\ FreeListExact /\ FrameOK /\ Flags /\ Counts
  BY Zenon DEF IInv
<1>1. MSHRsType'
  BY <1>0, Zenon DEF WriteDone, MSHRsType
<1>2. FreeListExact'
  BY <1>0, SameFree, Zenon DEF WriteDone, MSHRsType
<1>3. frame' \in Frames /\ Place(frame') = Place(frame) /\ frame'.mshr = frame.mshr
  BY <1>0, Zenon DEF WriteDone
<1>4. RestType'
  BY <1>0, <1>3, BlockingAssumption, BlockingWB
     DEF BlockingAssumption, WriteDone, BlockedWB, RestType, Causes,
         PamStates
<1>5. FrameOK'
  BY <1>0, <1>3, Zenon DEF WriteDone, MSHRsType, FrameOK
<1>6. Flags'
  BY <1>0, <1>3, BlockingWB, BlockingAssumption, Zenon
     DEF WriteDone, BlockedWB, RestType, Flags, BlockingAssumption,
         MSHRsType
<1>7. Counts'
  BY <1>0, <1>3, BlockingAssumption, BlockingWB
     DEF BlockingAssumption, WriteDone, MSHRsType, RestType, Counts, Pend,
         NumEntries
<1> QED  BY <1>1, <1>2, <1>3, <1>4, <1>5, <1>6, <1>7, Zenon DEF IInv

\* Sending a miss changes no count.
LEMMA SendMissInv ==
  ASSUME IInv, NEW m \in MSHRs, SendMiss(m)
  PROVE  IInv'
<1>0. /\ MSHRsType /\ RestType /\ frame \in Frames
      /\ FreeListExact /\ FrameOK /\ Flags /\ Counts
  BY Zenon DEF IInv
<1>1. MSHRsType'
  BY <1>0 DEF SendMiss, MSHRsType
<1>2. FreeListExact'
  BY <1>0, SameFree, Zenon DEF SendMiss, MSHRsType
<1>3. frame' \in Frames /\ Place(frame') = Place(frame) /\ frame'.mshr = frame.mshr
  BY <1>0, Zenon DEF SendMiss
<1>4. RestType'
  BY <1>0, <1>3, BlockingAssumption, Zenon
     DEF BlockingAssumption, SendMiss, RestType, Causes, PamStates
<1>5. FrameOK'
  BY <1>0, <1>3, Zenon DEF SendMiss, MSHRsType, FrameOK
<1>6. Flags'
  BY <1>0, <1>3, Zenon DEF SendMiss, RestType, Flags
<1>7. Counts'
  BY <1>0, <1>3, BlockingAssumption, Zenon
     DEF BlockingAssumption, SendMiss, MSHRsType, RestType, Counts, Pend
<1> QED  BY <1>1, <1>2, <1>3, <1>4, <1>5, <1>6, <1>7, Zenon DEF IInv

\* An answer before the tag check changes no count.
LEMMA AnswerUnknownInv ==
  ASSUME IInv, NEW m \in MSHRs, AnswerUnknown(m)
  PROVE  IInv'
<1>0. /\ MSHRsType /\ RestType /\ frame \in Frames
      /\ FreeListExact /\ FrameOK /\ Flags /\ Counts
  BY Zenon DEF IInv
<1>1. MSHRsType'
  BY <1>0, Zenon DEF AnswerUnknown, MSHRsType
<1>2. FreeListExact'
  BY <1>0, SameFree, Zenon DEF AnswerUnknown, MSHRsType
<1>3. UNCHANGED frame
  BY Zenon DEF AnswerUnknown
<1>4. RestType'
  BY <1>0, <1>3, BlockingAssumption, Zenon
     DEF BlockingAssumption, AnswerUnknown, RestType, Causes, PamStates
<1>5. FrameOK'
  BY <1>0, <1>3, Zenon DEF AnswerUnknown, MSHRsType, FrameOK
<1>6. Flags'
  BY <1>0, <1>3, Zenon DEF AnswerUnknown, RestType, Flags
<1>7. Counts'
  BY <1>0, <1>3, BlockingAssumption, Zenon
     DEF BlockingAssumption, AnswerUnknown, MSHRsType, RestType, Counts,
         Pend
<1> QED  BY <1>1, <1>2, <1>3, <1>4, <1>5, <1>6, <1>7, Zenon DEF IInv

\* An answer after a hit changes no count.
LEMMA AnswerOrphanInv ==
  ASSUME IInv, NEW b \in Blocks, AnswerOrphan(b)
  PROVE  IInv'
<1>0. /\ MSHRsType /\ RestType /\ frame \in Frames
      /\ FreeListExact /\ FrameOK /\ Flags /\ Counts
  BY Zenon DEF IInv
<1>1. MSHRsType'
  BY <1>0, Zenon DEF AnswerOrphan, MSHRsType
<1>2. FreeListExact'
  BY <1>0, SameFree, Zenon DEF AnswerOrphan, MSHRsType
<1>3. frame' \in Frames /\ Place(frame') = Place(frame) /\ frame'.mshr = frame.mshr
  BY <1>0, Zenon DEF AnswerOrphan
<1>4. RestType'
  BY <1>0, <1>3, BlockingAssumption, Zenon
     DEF BlockingAssumption, AnswerOrphan, RestType, Causes, PamStates
<1>5. FrameOK'
  BY <1>0, <1>3, Zenon DEF AnswerOrphan, MSHRsType, FrameOK
<1>6. Flags'
  BY <1>0, <1>3, Zenon DEF AnswerOrphan, RestType, Flags
<1>7. Counts'
  BY <1>0, <1>3, BlockingAssumption, Zenon
     DEF BlockingAssumption, AnswerOrphan, MSHRsType, RestType, Counts, Pend
<1> QED  BY <1>1, <1>2, <1>3, <1>4, <1>5, <1>6, <1>7, Zenon DEF IInv

\* An answer starts with the MSHR allocated.
LEMMA AnswerInv ==
  ASSUME IInv, NEW m \in MSHRs, Answer(m)
  PROVE  IInv'
<1>0. /\ MSHRsType /\ RestType /\ frame \in Frames
      /\ FreeListExact /\ FrameOK /\ Flags /\ Counts
  BY Zenon DEF IInv
<1>1. MSHRsType' /\ FreeListExact' /\ UNCHANGED <<mshrs, freeList, reads, writes, wb>>
  BY <1>0, Zenon DEF Answer, MSHRsType, FreeListExact
<1>2. mshrs[m].blk # NoBlock
  BY <1>0, Zenon DEF Answer, Sent, MSHRsType
<1> DEFINE f == [at |-> IF pam[mshrs[m].blk] = "miss" THEN "pamFree" ELSE "serialFree",
                 then |-> "idle", mshr |-> m, blk |-> mshrs[m].blk, wasFull |-> Full,
                 cleared |-> IF m = noTargetMSHR THEN "yes" ELSE "no"]
<1>a. /\ f \in Frames /\ f.at # "retry" /\ f.at # "pamFill" /\ f.mshr = m
  BY <1>0, Zenon DEF MSHRsType, Frames, Places, Full
<1>b. \/ clearBlocked(blocked, "NoTargets", f)
      \/ blocked' = blocked /\ frame' = f
  BY Zenon DEF Answer
<1> HIDE DEF f
<1>3. /\ frame' \in Frames /\ Place(frame') = f.at /\ frame'.mshr = m
      /\ (blocked' = blocked \/ blocked' = blocked \ {"NoTargets"})
  <2>1. CASE clearBlocked(blocked, "NoTargets", f)
    BY <1>0, <1>a, <2>1, Clearing, Zenon DEF RestType
  <2>2. CASE blocked' = blocked /\ frame' = f
    BY <1>a, <2>2, Zenon DEF Place
  <2> QED  BY <1>b, <2>1, <2>2, Zenon
<1>4. RestType'
  BY <1>0, <1>3, Zenon DEF Answer, RestType
<1>5. FrameOK'
  BY <1>1, <1>2, <1>3, Zenon DEF FrameOK
<1>6. Flags'
  BY <1>0, <1>1, <1>3, Zenon DEF Flags
<1>c. Len(freeList') = Len(freeList) /\ Pend(frame') = 0 /\ Pend(frame) \in {0, 1}
  BY <1>1, <1>3, <1>a, Zenon DEF Pend
<1>7. Counts'
  BY <1>0, <1>1, <1>c, BlockingAssumption
     DEF BlockingAssumption, MSHRsType, RestType, Counts, NumEntries
<1> QED  BY <1>1, <1>3, <1>4, <1>5, <1>6, <1>7, Zenon DEF IInv

\* An ordinary miss trades its MSHR for an eviction.
LEMMA SerialFreeInv ==
  ASSUME IInv, NEW n \in {0, 1}, SerialFree(n)
  PROVE  IInv'
<1>0. /\ MSHRsType /\ RestType /\ frame \in Frames
      /\ FreeListExact /\ FrameOK /\ Flags /\ Counts
  BY Zenon DEF IInv
<1>a. frame.mshr \in MSHRs /\ mshrs[frame.mshr].blk # NoBlock /\ deallocate(frame.mshr)
  BY <1>0, Zenon DEF SerialFree, FrameOK, Place
<1>b. MSHRsType' /\ FreeListExact' /\ Len(freeList') = Len(freeList) + 1
  BY <1>0, <1>a, Deallocates, Zenon
<1>c. /\ BlockedWB(n) \in SUBSET Causes /\ blocked \subseteq BlockedWB(n)
      /\ wb + n >= WriteBuffers => "NoWBBuffers" \in BlockedWB(n)
  BY <1>0, BlockingWB, Zenon
<1>d. PICK f \in Frames : f.at \in {"idle"} /\ MadeRoom(frame.wasFull, BlockedWB(n), f)
  BY Zenon DEF SerialFree, Idle, Frames, Places
<1>3. /\ frame' \in Frames /\ Place(frame') \in {"idle"}
      /\ blocked' \subseteq Causes
      /\ \A c \in BlockedWB(n) : c # "NoMSHRs" \/ Len(freeList) + 1 < ReadBufferSize
                         => c \in blocked'
  BY <1>0, <1>c, <1>d, MakingRoom, Zenon
<1>n. wb + n \in Nat
  BY <1>0 DEF RestType
<1>4. RestType'
  BY <1>0, <1>3, <1>n, Zenon DEF SerialFree, ResetNoTarget, RestType, PamStates
<1>5. FrameOK'
  BY <1>3, Zenon DEF FrameOK
<1>e. UNCHANGED <<reads, writes>> /\ wb' = wb + n /\ Len(freeList) \in Nat
  BY <1>0 DEF SerialFree, MSHRsType
<1>6. Flags'
  BY <1>b, <1>c, <1>e, <1>3, <1>0, BlockingAssumption
     DEF BlockingAssumption, RestType, Flags
<1>f. Pend(frame') = 0 /\ Pend(frame) \in {0, 1}
  BY <1>3, Zenon DEF Pend
<1>7. Counts'
  BY <1>0, <1>b, <1>e, <1>f, BlockingAssumption
     DEF BlockingAssumption, RestType, Counts, NumEntries
<1> QED  BY <1>b, <1>3, <1>4, <1>5, <1>6, <1>7, Zenon DEF IInv

\* A parallel access that missed trades its MSHR for the fill to come.
LEMMA PamFreeInv ==
  ASSUME IInv, PamFree
  PROVE  IInv'
<1>0. /\ MSHRsType /\ RestType /\ frame \in Frames
      /\ FreeListExact /\ FrameOK /\ Flags /\ Counts
  BY Zenon DEF IInv
<1>a. frame.mshr \in MSHRs /\ mshrs[frame.mshr].blk # NoBlock /\ deallocate(frame.mshr)
  BY <1>0, Zenon DEF PamFree, FrameOK, Place
<1>b. MSHRsType' /\ FreeListExact' /\ Len(freeList') = Len(freeList) + 1
  BY <1>0, <1>a, Deallocates, Zenon
<1>c. /\ blocked \in SUBSET Causes /\ blocked \subseteq blocked
      /\ wb >= WriteBuffers => "NoWBBuffers" \in blocked
  BY <1>0, Zenon DEF RestType, Flags
<1>d. PICK f \in Frames : f.at \in {"pamFill"} /\ MadeRoom(frame.wasFull, blocked, f)
  BY <1>0, Zenon DEF PamFree, Frames, Places
<1>3. /\ frame' \in Frames /\ Place(frame') \in {"pamFill"}
      /\ blocked' \subseteq Causes
      /\ \A c \in blocked : c # "NoMSHRs" \/ Len(freeList) + 1 < ReadBufferSize
                         => c \in blocked'
  BY <1>0, <1>c, <1>d, MakingRoom, Zenon
<1>4. RestType'
  BY <1>0, <1>3, Zenon DEF PamFree, ResetNoTarget, RestType, PamStates
<1>5. FrameOK'
  BY <1>3, Zenon DEF FrameOK
<1>e. UNCHANGED <<reads, writes>> /\ wb' = wb /\ Len(freeList) \in Nat
  BY <1>0 DEF PamFree, MSHRsType
<1>6. Flags'
  BY <1>b, <1>c, <1>e, <1>3, <1>0, BlockingAssumption
     DEF BlockingAssumption, RestType, Flags
<1>f. Pend(frame') = 1 /\ Pend(frame) \in {0, 1} /\ Pend(frame) = 0
  BY <1>3, Zenon DEF Pend, PamFree, Place
<1>7. Counts'
  BY <1>0, <1>b, <1>e, <1>f, BlockingAssumption
     DEF BlockingAssumption, RestType, Counts, NumEntries
<1> QED  BY <1>b, <1>3, <1>4, <1>5, <1>6, <1>7, Zenon DEF IInv

\* The fill to come trades its place for an eviction.
LEMMA PamFillInv ==
  ASSUME IInv, NEW n \in {0, 1}, PamFill(n)
  PROVE  IInv'
<1>0. /\ MSHRsType /\ RestType /\ frame \in Frames
      /\ FreeListExact /\ FrameOK /\ Flags /\ Counts
  BY Zenon DEF IInv
<1>1. MSHRsType' /\ FreeListExact' /\ UNCHANGED <<freeList, reads, writes>>
  BY <1>0, Zenon DEF PamFill, MSHRsType, FreeListExact
<1>2. wb' = wb + n /\ wb' \in Nat /\ blocked' = BlockedWB(n)
  BY <1>0 DEF PamFill, RestType
<1>3. /\ frame' \in Frames /\ Place(frame') = "idle"
      /\ Pend(frame') = 0 /\ Pend(frame) = 1
  BY Zenon DEF PamFill, Idle, Frames, Places, Place, Pend
<1>a. /\ blocked' \subseteq Causes /\ blocked \subseteq blocked'
      /\ wb' >= WriteBuffers => "NoWBBuffers" \in blocked'
  BY <1>0, <1>2, BlockingWB, Zenon
<1>4. RestType'
  BY <1>0, <1>2, <1>a, Zenon DEF PamFill, RestType, PamStates
<1>5. FrameOK'
  BY <1>3, Zenon DEF FrameOK
<1>6. Flags'
  BY <1>0, <1>1, <1>a, Zenon DEF Flags
<1>7. Counts'
  <2>1. /\ Len(freeList) \in Nat /\ reads \in Nat /\ writes \in Nat /\ wb \in Nat
        /\ WriteBuffers \in Nat /\ MaxWrites \in Nat /\ MaxReads \in Nat
        /\ NumEntries \in Nat
    BY <1>0, BlockingAssumption
       DEF BlockingAssumption, MSHRsType, RestType, NumEntries
  <2>2. wb' + writes' + reads' + Pend(frame') <= wb + writes + reads + Pend(frame)
    BY <2>1, <1>1, <1>2, <1>3
  <2> QED  BY <2>1, <2>2, <1>0, <1>1, <1>2, <1>3 DEF Counts
<1> QED  BY <1>1, <1>3, <1>4, <1>5, <1>6, <1>7, Zenon DEF IInv

\* An answered write-back frees a write buffer.
LEMMA AnswerWriteBackInv ==
  ASSUME IInv, AnswerWriteBack
  PROVE  IInv'
<1>0. /\ MSHRsType /\ RestType /\ frame \in Frames
      /\ FreeListExact /\ FrameOK /\ Flags /\ Counts
  BY Zenon DEF IInv
<1>1. MSHRsType' /\ FreeListExact' /\ UNCHANGED <<mshrs, freeList, reads, writes>>
  BY <1>0, Zenon DEF AnswerWriteBack, MSHRsType, FreeListExact
<1>2. wb' = wb - 1 /\ wb' \in Nat
  BY <1>0 DEF AnswerWriteBack, RestType
<1>3. /\ frame' \in Frames /\ Place(frame') = "idle"
      /\ \/ blocked' = blocked
         \/ blocked' = blocked \ {"NoWBBuffers"} /\ wb = WriteBuffers
  <2>1. CASE wb = WriteBuffers /\ clearBlocked(blocked, "NoWBBuffers", Idle)
    <3>1. Idle \in Frames /\ Idle.at = "idle"
      BY Zenon DEF Idle, Frames, Places
    <3> QED  BY <1>0, <2>1, <3>1, Clearing, Zenon DEF RestType
  <2>2. CASE UNCHANGED <<blocked, frame>>
    BY <1>0, <2>2, Zenon DEF AnswerWriteBack, Place
  <2> QED  BY <2>1, <2>2, Zenon DEF AnswerWriteBack
<1>4. RestType'
  BY <1>0, <1>2, <1>3, Zenon DEF AnswerWriteBack, RestType
<1>5. FrameOK'
  BY <1>3, Zenon DEF FrameOK
<1>6. Flags'
  BY <1>0, <1>1, <1>2, <1>3, BlockingAssumption DEF BlockingAssumption, RestType, Flags
<1>7. Counts'
  BY <1>0, <1>1, <1>2, <1>3, BlockingAssumption
     DEF BlockingAssumption, MSHRsType, RestType, Counts, Pend, NumEntries
<1> QED  BY <1>1, <1>3, <1>4, <1>5, <1>6, <1>7, Zenon DEF IInv

-----------------------------------------------------------------------------
(***************************************************************************)
(* The theorems                                                            *)
(***************************************************************************)

\* The invariant holds in the initial state.
LEMMA InitInv == Init => IInv
<1> SUFFICES ASSUME Init PROVE IInv
  BY Zenon
<1>0. NumEntries \in Nat /\ NumEntries = NumMSHRs + ReadBufferSize - 1
  BY BlockingAssumption DEF BlockingAssumption, NumEntries
<1>1. /\ freeList \in Seq(MSHRs) /\ Len(freeList) = NumEntries
      /\ \A i \in 1 .. Len(freeList) : freeList[i] = i
  BY <1>0 DEF Init, MSHRs
<1>2. MSHRsType /\ RestType /\ frame \in Frames
  <2>1. MSHRsType
    BY <1>1, Zenon DEF Init, FreeMSHR, MSHRsType
  <2>2. RestType
    BY BlockingAssumption DEF BlockingAssumption, Init, RestType, PamStates
  <2>3. frame \in Frames
    BY Zenon DEF Init, Idle, Frames, Places
  <2> QED  BY <2>1, <2>2, <2>3, Zenon
<1>3. FreeListExact
  BY <1>0, <1>1, Zenon DEF Init, FreeListExact, FreeMSHR, MSHRs
<1>4. FrameOK /\ Flags
  BY <1>0, <1>1, BlockingAssumption
     DEF BlockingAssumption, Init, Idle, Place, FrameOK, Flags
<1>5. Counts
  BY <1>0, <1>1, BlockingAssumption
     DEF BlockingAssumption, Init, Idle, Counts, Pend, Place
<1> QED  BY <1>2, <1>3, <1>4, <1>5, Zenon DEF IInv

\* Every step keeps the invariant.
LEMMA NextInv == IInv /\ [Next]_vars => IInv'
<1> SUFFICES ASSUME IInv, [Next]_vars PROVE IInv'
  BY Zenon
<1>1. CASE RecvTimingReq
  BY <1>1, RecvRefusedInv, RecvServedInv, RecvReadInv, RecvWriteInv,
     RecvCoalesceInv, RecvBypassInv, RecvReadPamInv, Zenon DEF RecvTimingReq
<1>2. CASE SerialRespond
  BY <1>2, SerialHitInv, SerialMissInv, Zenon DEF SerialRespond
<1>3. CASE \E n \in {0, 1} : WriteDone(n)
  BY <1>3, WriteDoneInv, Zenon
<1>4. CASE \E m \in MSHRs : PamRespond(m)
  BY <1>4, PamHitInv, PamMissInv, PamDoneInv, Zenon DEF PamRespond
<1>5. CASE \E m \in MSHRs : SendMiss(m) \/ RecvTimingResp(m)
  BY <1>5, SendMissInv, AnswerUnknownInv, AnswerInv, Zenon DEF RecvTimingResp
<1>6. CASE \E b \in Blocks : AnswerOrphan(b)
  BY <1>6, AnswerOrphanInv, Zenon
<1>7. CASE Continue
  BY <1>7, PamEraseInv, PamFreeInv, SerialFreeInv, PamFillInv, Zenon DEF Continue
<1>8. CASE AnswerWriteBack
  BY <1>8, AnswerWriteBackInv, Zenon
<1>9. CASE UNCHANGED vars
  <2>1. MSHRsType' /\ RestType' /\ (frame \in Frames)' /\ FreeListExact'
    BY <1>9, Zenon DEF IInv, vars, MSHRsType, RestType, FreeListExact
  <2>2. FrameOK' /\ Flags' /\ Counts'
    BY <1>9, Zenon DEF IInv, vars, FrameOK, Flags, Counts, Pend, Place
  <2> QED  BY <2>1, <2>2, Zenon DEF IInv
<1> QED
  BY <1>1, <1>2, <1>3, <1>4, <1>5, <1>6, <1>7, <1>8, <1>9, Zenon DEF Next

\* What the invariant implies.
LEMMA InvImplies ==
  IInv => TypeOK /\ FreeListSuffices /\ WriteBufferSuffices /\ FreeListExact
<1> SUFFICES ASSUME IInv
             PROVE  TypeOK /\ FreeListSuffices /\ WriteBufferSuffices /\ FreeListExact
  BY Zenon
<1>1. FreeListExact
  BY Zenon DEF IInv
<1>2. Len(freeList) <= NumEntries
  BY <1>1, Pigeons, Zenon DEF IInv, MSHRsType, FreeListExact
<1>3. TypeOK
  BY <1>2, Zenon DEF IInv, MSHRsType, RestType, Frames, TypeOK
<1>4. FreeListSuffices
  BY Room, Zenon DEF IInv, MSHRsType, RestType, Counts, FreeListSuffices
<1>5. WriteBufferSuffices
  BY <1>2, BlockingAssumption
     DEF BlockingAssumption, IInv, MSHRsType, RestType, Counts, Pend, NumEntries,
         WriteBufferSuffices
<1> QED  BY <1>1, <1>3, <1>4, <1>5, Zenon

\* For every size: MSHRQueue::allocate never finds the free list of the MSHRs
\* empty, or an MSHR on it that has targets, and the write buffer never needs
\* more than its entries.
THEOREM BlockingSafety ==
  Spec => [](TypeOK /\ FreeListSuffices /\ WriteBufferSuffices /\ FreeListExact)
BY InitInv, NextInv, InvImplies, PTL DEF Spec

\* Type correctness of the limits, for every size.
THEOREM BlockingTypeOK == Spec => []TypeOK
BY BlockingSafety, PTL

\* For every size, the reserve of read_buffer_size MSHRs is enough for every
\* read that was accepted: allocate never finds the free list empty.
THEOREM ReserveSuffices == Spec => []FreeListSuffices
BY BlockingSafety, PTL

\* For every size, the reserve of the write buffer is enough for the evictions
\* and the writes that are still to come once requests are refused.
THEOREM WriteReserveSuffices == Spec => []WriteBufferSuffices
BY BlockingSafety, PTL

\* For every size, no MSHR is deallocated twice or while it is in use.
THEOREM FreedOnce == Spec => []FreeListExact
BY BlockingSafety, PTL

-----------------------------------------------------------------------------
(***************************************************************************)
(* One MSHR per block                                                      *)
(***************************************************************************)

\* A step that keeps the blocks of the MSHRs keeps them apart.
LEMMA SameBlocks ==
  ASSUME OneMSHRPerBlock, \A m \in MSHRs : mshrs'[m].blk = mshrs[m].blk
  PROVE  OneMSHRPerBlock'
BY Zenon DEF OneMSHRPerBlock

\* An MSHR allocated after findMatch found none is the only one of its block.
LEMMA AllocatesOne ==
  ASSUME MSHRsType, OneMSHRPerBlock, Len(freeList) > 0, NEW b \in Blocks,
         findMatch(b) = {}, allocateMissBuffer(b)
  PROVE  OneMSHRPerBlock'
<1>1. Head(freeList) \in MSHRs
  BY DEF MSHRsType
<1>2. \A m \in MSHRs : mshrs'[m].blk = IF m = Head(freeList) THEN b ELSE mshrs[m].blk
  BY <1>1, Zenon DEF allocateMissBuffer, MSHRsType
<1>3. \A m \in MSHRs : mshrs[m].blk # b
  BY Zenon DEF findMatch
<1> QED  BY <1>1, <1>2, <1>3, Zenon DEF OneMSHRPerBlock

\* A deallocated MSHR has no block.
LEMMA DeallocatesOne ==
  ASSUME MSHRsType, OneMSHRPerBlock, NEW m \in MSHRs, deallocate(m)
  PROVE  OneMSHRPerBlock'
<1>1. \A k \in MSHRs : mshrs'[k].blk = IF k = m THEN NoBlock ELSE mshrs[k].blk
  BY Zenon DEF deallocate, MSHRsType, FreeMSHR
<1> QED  BY <1>1, Zenon DEF OneMSHRPerBlock

\* Every step keeps the MSHRs of different blocks apart.
LEMMA NextOne == IInv /\ OneMSHRPerBlock /\ [Next]_vars => OneMSHRPerBlock'
<1> SUFFICES ASSUME IInv, OneMSHRPerBlock, [Next]_vars PROVE OneMSHRPerBlock'
  BY Zenon
<1>0. MSHRsType /\ RestType /\ Counts /\ FrameOK
  BY Zenon DEF IInv
<1>1. CASE UNCHANGED mshrs
  BY <1>1, SameBlocks, Zenon
<1>2. ASSUME NEW m \in MSHRs, mshrs' = [mshrs EXCEPT ![m].targets = @ + 1]
      PROVE  OneMSHRPerBlock'
  BY <1>0, <1>2, SameBlocks, Zenon DEF MSHRsType
<1>3. ASSUME NEW b \in Blocks, blocked = {} \/ reads > 0, findMatch(b) = {},
             allocateMissBuffer(b)
      PROVE  OneMSHRPerBlock'
  <2>1. Len(freeList) > 0
    BY <1>0, <1>3, Room DEF MSHRsType, RestType, Counts
  <2> QED  BY <1>0, <1>3, <2>1, AllocatesOne, Zenon
<1>4. CASE RecvTimingReq
  <2>1. CASE RecvRefused \/ RecvServed \/ RecvRead \/ RecvWrite
    BY <1>1, <2>1, Zenon DEF RecvRefused, RecvServed, RecvRead, RecvWrite
  <2>2. CASE \E m \in MSHRs : RecvCoalesce(m)
    BY <1>2, <2>2, Zenon DEF RecvCoalesce, Coalesce
  <2>3. CASE \E b \in Blocks : RecvBypass(b) \/ RecvReadPam(b)
    BY <1>3, <2>3, Zenon DEF RecvBypass, RecvReadPam
  <2> QED  BY <1>4, <2>1, <2>2, <2>3, Zenon DEF RecvTimingReq
<1>5. CASE SerialRespond
  <2>1. CASE SerialHit
    BY <1>1, <2>1, Zenon DEF SerialHit
  <2>2. CASE \E b \in Blocks : SerialMiss(b)
    <3>1. PICK b \in Blocks : SerialMiss(b)
      BY <2>2, Zenon
    <3>2. CASE findMatch(b) = {} /\ allocateMissBuffer(b)
      BY <1>3, <3>1, <3>2, Zenon DEF SerialMiss
    <3>3. CASE \E m \in findMatch(b) : mshrs[m].targets < MaxTargets /\ Coalesce(m)
      BY <1>2, <3>3, Zenon DEF Coalesce, findMatch
    <3> QED  BY <3>1, <3>2, <3>3, Zenon DEF SerialMiss
  <2> QED  BY <1>5, <2>1, <2>2, Zenon DEF SerialRespond
<1>6. CASE \E n \in {0, 1} : WriteDone(n)
  BY <1>1, <1>6, Zenon DEF WriteDone
<1>7. CASE \E m \in MSHRs : PamRespond(m)
  BY <1>0, <1>2, <1>7, DeallocatesOne, Zenon DEF PamRespond, PamHit, PamMiss, PamDone
<1>8. CASE \E m \in MSHRs : SendMiss(m) \/ RecvTimingResp(m)
  <2>1. PICK m \in MSHRs : SendMiss(m) \/ RecvTimingResp(m)
    BY <1>8, Zenon
  <2>2. CASE SendMiss(m)
    BY <1>0, <2>2, SameBlocks, Zenon DEF SendMiss, MSHRsType
  <2>3. CASE RecvTimingResp(m)
    BY <1>1, <2>3, Zenon DEF RecvTimingResp, AnswerUnknown, Answer
  <2> QED  BY <2>1, <2>2, <2>3, Zenon
<1>9. CASE \E b \in Blocks : AnswerOrphan(b)
  BY <1>1, <1>9, Zenon DEF AnswerOrphan
<1>10. CASE Continue
  <2>1. CASE PamErase \/ \E n \in {0, 1} : PamFill(n)
    BY <1>1, <2>1, Zenon DEF PamErase, PamFill
  <2>2. CASE PamFree \/ \E n \in {0, 1} : SerialFree(n)
    BY <1>0, <2>2, DeallocatesOne, Zenon DEF PamFree, SerialFree, FrameOK, Place
  <2> QED  BY <1>10, <2>1, <2>2, Zenon DEF Continue
<1>11. CASE AnswerWriteBack
  BY <1>1, <1>11, Zenon DEF AnswerWriteBack
<1>12. CASE UNCHANGED vars
  BY <1>1, <1>12, Zenon DEF vars
<1> QED
  BY <1>4, <1>5, <1>6, <1>7, <1>8, <1>9, <1>10, <1>11, <1>12, Zenon DEF Next

\* For every size, the tag checks, the parallel accesses and the bypasses never
\* give a block two MSHRs.
THEOREM OneMSHR == Spec => []OneMSHRPerBlock
<1>1. Init => OneMSHRPerBlock
  BY DEF Init, OneMSHRPerBlock, FreeMSHR
<1> QED  BY <1>1, InitInv, NextInv, NextOne, PTL DEF Spec

-----------------------------------------------------------------------------
(***************************************************************************)
(* A cause is set only while it lasts                                      *)
(***************************************************************************)

\* While no MSHR runs out of targets: a cause in force lasts, also within a
\* handler, and an answer that is going to deallocate saw isFull as it still is.
CauseInv ==
  /\ noTargetMSHR = 0 /\ "NoTargets" \notin blocked
  /\ "NoMSHRs" \in blocked => Len(freeList) < ReadBufferSize
  /\ "NoWBBuffers" \in blocked => wb >= WriteBuffers
  /\ Place(frame) \in {"serialFree", "pamFree"}
       => frame.at # "retry" /\ frame.wasFull = Full

\* A handler that deallocated, and saw isFull as it was, keeps no stale cause.
LEMMA RoomCause ==
  ASSUME MSHRsType, NEW bs \in SUBSET Causes, NEW f \in Frames, f.at # "retry",
         "NoMSHRs" \in bs => Len(freeList) < ReadBufferSize,
         MadeRoom(Full, bs, f)
  PROVE  /\ Place(frame') = f.at /\ blocked' \subseteq bs
         /\ "NoMSHRs" \in blocked' => Len(freeList) + 1 < ReadBufferSize
<1>1. /\ Len(freeList) \in Nat
      /\ isFull <=> Len(freeList) < ReadBufferSize
      /\ allocated - 1 <= NumEntries - ReadBufferSize
           <=> Len(freeList) + 1 >= ReadBufferSize
  BY FullIff, Zenon
<1>2. ReadBufferSize \in Nat
  BY BlockingAssumption, Zenon DEF BlockingAssumption
<1>3. CASE Full = "yes" /\ allocated - 1 <= NumEntries - ReadBufferSize
  <2>1. clearBlocked(bs, "NoMSHRs", f)
    BY <1>3, Zenon DEF MadeRoom
  <2>2. Place(frame') = f.at /\ blocked' = bs \ {"NoMSHRs"}
    BY <2>1, Clearing, Zenon
  <2> QED  BY <2>2, Zenon
<1>4. CASE ~(Full = "yes" /\ allocated - 1 <= NumEntries - ReadBufferSize)
  <2>1. blocked' = bs /\ frame' = f
    BY <1>4, Zenon DEF MadeRoom
  <2>2. "NoMSHRs" \in bs => Len(freeList) + 1 < ReadBufferSize
    BY <1>1, <1>2, <1>4 DEF Full
  <2> QED  BY <2>1, <2>2, Zenon DEF Place
<1> QED  BY <1>3, <1>4, Zenon

\* allocateWriteBuffer sets its cause only when the write buffer is full.
LEMMA WBCause ==
  ASSUME RestType, CauseInv, NEW n \in {0, 1}
  PROVE  /\ BlockedWB(n) \in SUBSET Causes /\ BlockedWB(n) \subseteq blocked \cup {"NoWBBuffers"}
         /\ "NoWBBuffers" \in BlockedWB(n) => wb + n >= WriteBuffers
BY BlockingAssumption
   DEF BlockingAssumption, RestType, CauseInv, BlockedWB, Causes

\* A step that keeps what CauseInv speaks of.
LEMMA SameCause ==
  ASSUME CauseInv, UNCHANGED <<noTargetMSHR, blocked, freeList, wb>>,
         \/ UNCHANGED frame
         \/ Place(frame') \notin {"serialFree", "pamFree"}
  PROVE  CauseInv'
<1>1. Full' = Full
  BY Zenon DEF Full, isFull, allocated
<1> QED  BY <1>1, Zenon DEF CauseInv

\* A request that returns does not return into an answer.
LEMMA ReturnCause ==
  ASSUME CauseInv, frame \in Frames, Calls,
         frame' = [frame EXCEPT !.at = IF @ = "retry" THEN frame.then ELSE @]
  PROVE  Place(frame') \notin {"serialFree", "pamFree"}
<1>1. Place(frame') = Place(frame)
  BY Returning, Zenon
<1>2. CASE frame.at = "idle"
  BY <1>1, <1>2, Zenon DEF Place
<1>3. CASE frame.at = "retry"
  BY <1>1, <1>3, Zenon DEF CauseInv
<1> QED  BY <1>2, <1>3, Zenon DEF Calls

\* An MSHR allocated outside the handler of an answer.
LEMMA AllocCause ==
  ASSUME IInv, CauseInv, Len(freeList) > 0, NEW b \in Blocks,
         allocateMissBuffer(b), UNCHANGED <<noTargetMSHR, wb>>,
         Place(frame') \notin {"serialFree", "pamFree"}
  PROVE  CauseInv'
<1>0. MSHRsType /\ FreeListExact
  BY Zenon DEF IInv
<1>1. Len(freeList') = Len(freeList) - 1 /\ Len(freeList) \in Nat
  BY <1>0, Allocates, FullIff, Zenon
<1>2. /\ "NoMSHRs" \in blocked' => Len(freeList) - 1 < ReadBufferSize
      /\ blocked' \subseteq blocked \cup {"NoMSHRs"}
  BY <1>0, <1>1, FullIff, BlockingAssumption
     DEF allocateMissBuffer, CauseInv, BlockingAssumption
<1> QED  BY <1>1, <1>2, Zenon DEF CauseInv

\* An MSHR deallocated, and the causes bs with it.
LEMMA FreeCause ==
  ASSUME IInv, CauseInv, NEW m \in MSHRs, mshrs[m].blk # NoBlock, deallocate(m),
         NEW n \in {0, 1}, wb' = wb + n, noTargetMSHR' = 0,
         NEW bs \in SUBSET Causes, bs \subseteq blocked \cup {"NoWBBuffers"},
         "NoWBBuffers" \in bs => wb + n >= WriteBuffers,
         NEW f \in Frames, f.at \notin {"retry", "serialFree", "pamFree"},
         MadeRoom(Full, bs, f)
  PROVE  CauseInv'
<1>0. MSHRsType /\ FreeListExact
  BY Zenon DEF IInv
<1>1. Len(freeList') = Len(freeList) + 1
  BY <1>0, Deallocates, Zenon
<1>2. "NoMSHRs" \in bs => Len(freeList) < ReadBufferSize
  BY Zenon DEF CauseInv
<1>3. /\ Place(frame') = f.at /\ blocked' \subseteq bs
      /\ "NoMSHRs" \in blocked' => Len(freeList) + 1 < ReadBufferSize
  BY <1>0, <1>2, RoomCause, Zenon
<1>4. "NoTargets" \notin bs
  BY Zenon DEF CauseInv
<1> QED  BY <1>1, <1>3, <1>4, Zenon DEF CauseInv

\* A coalesced read that is not the last target sets no cause.
LEMMA CoalesceCause ==
  ASSUME MSHRsType, MaxTargets < NumTarget, NEW m \in MSHRs,
         mshrs[m].targets < MaxTargets, Coalesce(m)
  PROVE  UNCHANGED <<noTargetMSHR, blocked>>
<1>1. mshrs[m].targets + 1 # NumTarget
  BY BlockingAssumption DEF BlockingAssumption, MSHRsType
<1> QED  BY <1>1, Zenon DEF Coalesce

\* A request keeps the causes honest.
LEMMA RequestCause ==
  ASSUME IInv, CauseInv, MaxTargets < NumTarget, RecvTimingReq
  PROVE  CauseInv'
<1>0. MSHRsType /\ RestType /\ Counts /\ frame \in Frames
  BY Zenon DEF IInv
<1>1. CASE RecvRefused \/ RecvServed \/ RecvRead \/ RecvWrite
  <2>1. UNCHANGED <<noTargetMSHR, blocked, freeList, wb>>
    BY <1>1, Zenon DEF RecvRefused, RecvServed, RecvRead, RecvWrite
  <2>2. Place(frame') \notin {"serialFree", "pamFree"}
    BY <1>0, <1>1, ReturnCause, Zenon
       DEF RecvRefused, RecvServed, RecvRead, RecvWrite, Returns
  <2> QED  BY <2>1, <2>2, SameCause, Zenon
<1>2. CASE \E m \in MSHRs : RecvCoalesce(m)
  <2>1. PICK m \in MSHRs : RecvCoalesce(m)
    BY <1>2, Zenon
  <2>4. Coalesce(m) /\ mshrs[m].targets < MaxTargets
    BY <2>1, BlockingAssumption DEF RecvCoalesce, BlockingAssumption
  <2>2. UNCHANGED <<noTargetMSHR, blocked>>
    BY <1>0, <2>4, CoalesceCause, Zenon
  <2>3. Place(frame') \notin {"serialFree", "pamFree"}
    BY <1>0, <2>1, ReturnCause, Zenon DEF RecvCoalesce, Returns
  <2> QED  BY <2>1, <2>2, <2>3, SameCause, Zenon DEF RecvCoalesce
<1>3. CASE \E b \in Blocks : RecvBypass(b) \/ RecvReadPam(b)
  <2>1. PICK b \in Blocks : RecvBypass(b) \/ RecvReadPam(b)
    BY <1>3, Zenon
  <2>2. Len(freeList) > 0
    BY <1>0, <2>1, Room DEF RecvBypass, RecvReadPam, MSHRsType, RestType
  <2>3. Place(frame') \notin {"serialFree", "pamFree"}
    BY <1>0, <2>1, ReturnCause, Zenon DEF RecvBypass, RecvReadPam, Returns
  <2> QED  BY <2>1, <2>2, <2>3, AllocCause, Zenon DEF RecvBypass, RecvReadPam
<1> QED  BY <1>1, <1>2, <1>3, Zenon DEF RecvTimingReq

\* So does a tag check.
LEMMA TagCheckCause ==
  ASSUME IInv, CauseInv, MaxTargets < NumTarget,
         \/ SerialRespond
         \/ \E m \in MSHRs : PamRespond(m)
         \/ \E n \in {0, 1} : WriteDone(n)
  PROVE  CauseInv'
<1>0. MSHRsType /\ RestType /\ Counts /\ frame \in Frames
  BY Zenon DEF IInv
<1>1. CASE SerialHit
  BY <1>1, SameCause, Zenon DEF SerialHit
<1>2. CASE \E b \in Blocks : SerialMiss(b)
  <2>1. PICK b \in Blocks : SerialMiss(b)
    BY <1>2, Zenon
  <2>2. CASE allocateMissBuffer(b) /\ UNCHANGED noTargetMSHR
    <3>1. Len(freeList) > 0 /\ Place(frame') \notin {"serialFree", "pamFree"}
      BY <1>0, <2>1 DEF SerialMiss, MSHRsType, RestType, Counts, Place
    <3> QED  BY <2>1, <2>2, <3>1, AllocCause, Zenon DEF SerialMiss
  <2>3. CASE (\E m \in findMatch(b) : mshrs[m].targets < MaxTargets /\ Coalesce(m))
             /\ UNCHANGED freeList
    <3>1. UNCHANGED <<noTargetMSHR, blocked>>
      BY <1>0, <2>3, CoalesceCause, Zenon DEF findMatch
    <3> QED  BY <2>1, <2>3, <3>1, SameCause, Zenon DEF SerialMiss
  <2> QED  BY <2>1, <2>2, <2>3, Zenon DEF SerialMiss
<1>3. CASE \E m \in MSHRs : PamHit(m)
  <2>1. PICK m \in MSHRs : PamHit(m)
    BY <1>3, Zenon
  <2>2. PICK f \in Frames : f.at \in {"idle", "pamErase"} /\ MadeRoom(Full, blocked, f)
    BY <1>0, <2>1, Zenon DEF PamHit, MSHRsType, Idle, Frames, Places
  <2>3. /\ mshrs[m].blk # NoBlock /\ deallocate(m) /\ wb' = wb + 0
        /\ noTargetMSHR' = 0 /\ blocked \in SUBSET Causes
        /\ "NoWBBuffers" \in blocked => wb + 0 >= WriteBuffers
    BY <1>0, <2>1 DEF PamHit, RestType, CauseInv
  <2> QED  BY <2>2, <2>3, FreeCause, Zenon
<1>4. CASE \E m \in MSHRs : PamMiss(m)
  BY <1>4, SameCause, Zenon DEF PamMiss
<1>5. CASE \E m \in MSHRs, n \in {0, 1} : PamDone(m, n)
  <2>1. PICK m \in MSHRs, n \in {0, 1} : PamDone(m, n)
    BY <1>5, Zenon
  <2>2. Idle \in Frames /\ Idle.at = "idle"
    BY Zenon DEF Idle, Frames, Places
  <2>3. /\ mshrs[m].blk # NoBlock /\ deallocate(m) /\ wb' = wb + n
        /\ noTargetMSHR' = 0 /\ MadeRoom(Full, BlockedWB(n), Idle)
    BY <2>1, Zenon DEF PamDone, CauseInv
  <2> QED  BY <1>0, <2>2, <2>3, WBCause, FreeCause, Zenon
<1>6. CASE \E n \in {0, 1} : WriteDone(n)
  <2>1. PICK n \in {0, 1} : WriteDone(n)
    BY <1>6, Zenon
  <2>2. /\ blocked' \subseteq blocked \cup {"NoWBBuffers"} /\ wb' = wb + n
        /\ "NoWBBuffers" \in blocked' => wb' >= WriteBuffers
        /\ UNCHANGED <<noTargetMSHR, freeList>> /\ Place(frame') = "idle"
    BY <1>0, <2>1, WBCause, Zenon DEF WriteDone, Place
  <2> QED  BY <2>2, Zenon DEF CauseInv
<1> QED  BY <1>1, <1>2, <1>3, <1>4, <1>5, <1>6, Zenon DEF SerialRespond, PamRespond

\* So does the memory side.
LEMMA MemoryCause ==
  ASSUME IInv, CauseInv,
         \/ \E m \in MSHRs : SendMiss(m) \/ RecvTimingResp(m)
         \/ \E b \in Blocks : AnswerOrphan(b)
         \/ AnswerWriteBack
  PROVE  CauseInv'
<1>0. MSHRsType /\ RestType /\ Counts /\ frame \in Frames
  BY Zenon DEF IInv
<1>1. CASE \E m \in MSHRs : SendMiss(m) \/ AnswerUnknown(m)
  BY <1>1, SameCause, Zenon DEF SendMiss, AnswerUnknown
<1>2. CASE \E b \in Blocks : AnswerOrphan(b)
  BY <1>2, SameCause, Zenon DEF AnswerOrphan
<1>3. CASE \E m \in MSHRs : Answer(m)
  <2>1. PICK m \in MSHRs : Answer(m)
    BY <1>3, Zenon
  <2>2. m # noTargetMSHR
    BY BlockingAssumption DEF CauseInv, MSHRs
  <2>3. /\ UNCHANGED <<noTargetMSHR, blocked, freeList, wb>>
        /\ frame'.at # "retry" /\ frame'.wasFull = Full
    <3>1. UNCHANGED <<noTargetMSHR, blocked, freeList, wb>>
      BY <2>1, <2>2, Zenon DEF Answer
    <3>2. frame' = [at |-> IF pam[mshrs[m].blk] = "miss" THEN "pamFree" ELSE "serialFree",
                    then |-> "idle", mshr |-> m, blk |-> mshrs[m].blk,
                    wasFull |-> Full, cleared |-> "no"]
      BY <2>1, <2>2, Zenon DEF Answer
    <3> QED  BY <3>1, <3>2, Zenon
  <2>4. Full' = Full
    BY <2>3, Zenon DEF Full, isFull, allocated
  <2> QED  BY <2>3, <2>4, Zenon DEF CauseInv
<1>4. CASE AnswerWriteBack
  <2>1. wb' = wb - 1 /\ wb \in Nat /\ UNCHANGED <<noTargetMSHR, freeList>>
    BY <1>0, <1>4, Zenon DEF AnswerWriteBack, RestType
  <2>2. CASE wb = WriteBuffers /\ clearBlocked(blocked, "NoWBBuffers", Idle)
    <3>1. Idle \in Frames /\ Idle.at = "idle"
      BY Zenon DEF Idle, Frames, Places
    <3>2. Place(frame') = "idle" /\ blocked' = blocked \ {"NoWBBuffers"}
      BY <1>0, <2>2, <3>1, Clearing, Zenon DEF RestType
    <3> QED  BY <2>1, <3>2, Zenon DEF CauseInv
  <2>3. CASE wb # WriteBuffers /\ UNCHANGED <<blocked, frame>>
    <3>1. "NoWBBuffers" \in blocked => wb - 1 >= WriteBuffers
      BY <2>1, <2>3, BlockingAssumption DEF CauseInv, BlockingAssumption
    <3>2. Place(frame') = "idle"
      BY <1>4, <2>3, Zenon DEF AnswerWriteBack, Place
    <3> QED  BY <2>1, <2>3, <3>1, <3>2, Zenon DEF CauseInv
  <2> QED  BY <1>4, <2>2, <2>3, Zenon DEF AnswerWriteBack
<1> QED  BY <1>1, <1>2, <1>3, <1>4, Zenon DEF RecvTimingResp

\* And so does the rest of a handler.
LEMMA ContinueCause ==
  ASSUME IInv, CauseInv, Continue
  PROVE  CauseInv'
<1>0. MSHRsType /\ RestType /\ FrameOK /\ frame \in Frames
  BY Zenon DEF IInv
<1>i. Idle \in Frames /\ Idle.at = "idle" /\ Place(Idle) = "idle"
  BY Zenon DEF Idle, Frames, Places, Place
<1>1. CASE PamErase
  BY <1>1, <1>i, SameCause, Zenon DEF PamErase
<1>2. CASE \E n \in {0, 1} : PamFill(n)
  <2>1. PICK n \in {0, 1} : PamFill(n)
    BY <1>2, Zenon
  <2>2. /\ blocked' \subseteq blocked \cup {"NoWBBuffers"} /\ wb' = wb + n
        /\ "NoWBBuffers" \in blocked' => wb' >= WriteBuffers
        /\ UNCHANGED <<noTargetMSHR, freeList>> /\ Place(frame') = "idle"
    BY <1>0, <1>i, <2>1, WBCause, Zenon DEF PamFill
  <2> QED  BY <2>2, Zenon DEF CauseInv
<1>3. CASE PamFree \/ \E n \in {0, 1} : SerialFree(n)
  <2>1. /\ frame.mshr \in MSHRs /\ mshrs[frame.mshr].blk # NoBlock
        /\ deallocate(frame.mshr) /\ noTargetMSHR' = 0 /\ frame.wasFull = Full
    BY <1>0, <1>3, Zenon DEF PamFree, SerialFree, ResetNoTarget, FrameOK, Place, CauseInv
  <2>2. CASE PamFree
    <3>1. PICK f \in Frames : f.at = "pamFill" /\ MadeRoom(Full, blocked, f)
      BY <1>0, <2>1, <2>2, Zenon DEF PamFree, Frames, Places
    <3>2. /\ wb' = wb + 0 /\ blocked \in SUBSET Causes
          /\ "NoWBBuffers" \in blocked => wb + 0 >= WriteBuffers
      BY <1>0, <2>2 DEF PamFree, RestType, CauseInv
    <3> QED  BY <2>1, <3>1, <3>2, FreeCause, Zenon
  <2>3. CASE \E n \in {0, 1} : SerialFree(n)
    <3>1. PICK n \in {0, 1} : SerialFree(n)
      BY <2>3, Zenon
    <3>2. wb' = wb + n /\ MadeRoom(Full, BlockedWB(n), Idle)
      BY <2>1, <3>1, Zenon DEF SerialFree
    <3> QED  BY <1>0, <1>i, <2>1, <3>2, WBCause, FreeCause, Zenon
  <2> QED  BY <1>3, <2>2, <2>3, Zenon
<1> QED  BY <1>1, <1>2, <1>3, Zenon DEF Continue

\* For every size, while the requests to a block are fewer than tgts_per_mshr: a
\* cause for which requests are refused is set only while it lasts, whatever
\* retry runs inside whatever handler.
THEOREM CausesLast ==
  ASSUME MaxTargets < NumTarget PROVE Spec => []BlockedForCause
<1>1. Init => CauseInv
  BY DEF Init, CauseInv, Place, Idle
<1>2. IInv /\ CauseInv /\ [Next]_vars => CauseInv'
  <2> SUFFICES ASSUME IInv, CauseInv, [Next]_vars PROVE CauseInv'
    BY Zenon
  <2>1. CASE UNCHANGED vars
    BY <2>1, SameCause, Zenon DEF vars
  <2> QED
    BY <2>1, RequestCause, TagCheckCause, MemoryCause, ContinueCause, Zenon DEF Next
<1>3. IInv /\ CauseInv => BlockedForCause
  BY FullIff, Zenon DEF IInv, CauseInv, BlockedForCause
<1> QED  BY <1>1, <1>2, <1>3, InitInv, NextInv, PTL DEF Spec
=============================================================================
