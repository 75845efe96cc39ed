--------------------- MODULE DRAMCacheDataAccessProofs ----------------------
(***************************************************************************)
(* The requests and the cache's DRAM keep the invariants of                *)
(* DRAMCacheDataInvariant.                                                 *)
(***************************************************************************)
EXTENDS DRAMCacheDataInvariant

-----------------------------------------------------------------------------
(***************************************************************************)
(* Requests arrive                                                         *)
(***************************************************************************)

\* A read that waits in an MSHR from the start keeps the base.
LEMMA BaseJoin ==
  ASSUME Base, NEW p \in Packets, NEW b \in Blocks, NEW ctx \in Contexts,
         MayRead(p, b), Joins(p, b, ctx), Accept(p, b, ctx, "mshr"),
         UNCHANGED <<tags, writeBuffer, pamQueue, memory, physMem, latest,
                     gpuRunning, stale, astray>>
  PROVE  Base'
<1> DEFINE r == [cmd |-> "read", blk |-> b, ctx |-> ctx, at |-> "mshr"]
<1>1. r \in ReadPkt /\ r.cmd = "read" /\ r.blk = b /\ r.at = "mshr"
  BY Zenon DEF ReadPkt
<1>2. pkts' = [pkts EXCEPT ![p] = r]
  BY Zenon DEF Accept
<1> HIDE DEF r
<1>3. /\ pkts' \in [Packets -> {NoPkt} \cup ReadPkt \cup WritePkt]
      /\ pkts'[p] = r
      /\ \A q \in Packets : q # p => pkts'[q] = pkts[q]
  BY <1>1, <1>2, Accepts, Zenon DEF Base
<1>4. PICK m \in MSHRs :
        /\ mshrs' \in [MSHRs -> Slot] /\ FreeOnce'
        /\ Waiting(m)' = Waiting(m) \cup {p}
        /\ \A n \in MSHRs : n # m => Waiting(n)' = Waiting(n)
        /\ mshrs'[m].blk = b
        /\ \A n \in MSHRs : Allocated(n) => mshrs'[n].blk = mshrs[n].blk
        /\ \A n \in MSHRs : Allocated(n)' => Allocated(n) \/ n = m
  BY JoinsEntry DEF Base
<1>5. Types'
  BY <1>3, <1>4, Zenon DEF Base, Types, LinesOK, tags, memory
<1>6. ~InMSHR(p) /\ InMSHR(p)' /\ pkts'[p].blk = mshrs'[m].blk
  BY <1>1, <1>3, <1>4, Idle, Zenon DEF InMSHR
<1>7. \A n : ~Owner(n, p)
  BY Idle DEF Owner
<1>8. \A c \in Blocks : KeepsPam(c)
  BY Zenon DEF KeepsPam
<1> QED  BY <1>3, <1>4, <1>5, <1>6, <1>7, <1>8, BaseJoined, Zenon

\* The requester takes a packet that no parallel access waits for.
LEMMA PamsAccept ==
  ASSUME Types, Pams, NEW p \in Packets, NEW b \in Blocks, MayRead(p, b),
         pkts'[p].blk = b,
         QueuedRead(p)' /\ pamQueue[b] # NoPam => pamQueue[b].pkt # p,
         \A q \in Packets : q # p => pkts'[q] = pkts[q],
         UNCHANGED memReads,
         \A n \in MSHRs : \A c \in Blocks : Serves(n, c) => Serves(n, c)' /\ Stays(n)
  PROVE  \A c \in Blocks : pamQueue'[c] = pamQueue[c] => PamOK(c)'
<1> SUFFICES ASSUME NEW c \in Blocks, pamQueue'[c] = pamQueue[c]
             PROVE  PamOK(c)'
  BY Zenon
<1>1. PamOK(c) /\ (AtMemory(c)' <=> AtMemory(c))
  BY Zenon DEF Pams, AtMemory, ReadOf
<1>2. ASSUME pamQueue[c] # NoPam
      PROVE  pkts'[pamQueue[c].pkt] = pkts[pamQueue[c].pkt] \/ StillHit(c)
  <2>1. /\ pamQueue[c].pkt \in Packets
        /\ pamQueue[c].isHit # "hit" => pkts[pamQueue[c].pkt] # NoPkt
    BY <1>2, PamBlock, Zenon
  <2>2. CASE pamQueue[c].pkt # p
    BY <2>1, <2>2, Zenon
  <2>3. CASE pamQueue[c].pkt = p
    <3>1. pamQueue[c].isHit = "hit"
      BY <2>1, <2>3, Idle, Zenon
    <3>2. ~(QueuedRead(p)' /\ pkts'[p].blk = c)
      BY <1>2, <2>3, Zenon
    <3> QED  BY <2>3, <3>1, <3>2 DEF StillHit, QueuedRead
  <2> QED  BY <2>2, <2>3, Zenon
<1> QED  BY <1>1, <1>2, PamKept, Zenon

\* A read that waits in an MSHR from the start: coalesced, or a bypass.
LEMMA IInvJoin ==
  ASSUME IInv, Base', NEW p \in Packets, NEW b \in Blocks, NEW ctx \in Contexts,
         MayRead(p, b), Joins(p, b, ctx), Accept(p, b, ctx, "mshr"),
         UNCHANGED <<tags, writeBuffer, pamQueue, memory, physMem, latest,
                     gpuRunning, stale, astray>>
  PROVE  IInv'
<1> DEFINE r == [cmd |-> "read", blk |-> b, ctx |-> ctx, at |-> "mshr"]
<1>1. r \in ReadPkt /\ r.cmd = "read" /\ r.blk = b /\ r.at = "mshr"
  BY Zenon DEF ReadPkt
<1>2. pkts' = [pkts EXCEPT ![p] = r]
  BY Zenon DEF Accept
<1> HIDE DEF r
<1> USE DEF IInv
<1>0. Types /\ FreeOnce /\ UNCHANGED memReads
  BY Zenon DEF Base, memory
<1>3. /\ pkts'[p] = r
      /\ \A q \in Packets : q # p => pkts'[q] = pkts[q]
  BY <1>0, <1>1, <1>2, Accepts, Zenon
<1>4. OneMSHR'
  BY <1>0, JoinsEntry, Zenon
<1>5. Targets'
  <2>1. ~InMSHR(p) /\ pkts'[p].blk = b
    BY <1>1, <1>3, Idle, Zenon
  <2>2. PICK m \in MSHRs :
          /\ Waiting(m)' = Waiting(m) \cup {p}
          /\ \A n \in MSHRs : n # m => Waiting(n)' = Waiting(n)
          /\ \A n \in MSHRs : \A c \in Blocks :
               Serves(n, c)' <=> (n = m /\ c = b) \/ Serves(n, c)
    BY <1>0, JoinsEntry
  <2> QED  BY <1>3, <2>1, <2>2, TargetAdded, Zenon
<1>6. Alone'
  BY <1>0, <1>1, <1>3, AloneAccepts, Zenon
<1>7. /\ \A n \in MSHRs : \A c \in Blocks : Serves(n, c) => Serves(n, c)' /\ Stays(n)
      /\ \A n \in MSHRs : \A c \in Blocks :
           Serves(n, c)' /\ ~Sent(n)' =>
             \/ Serves(n, c) /\ ~Sent(n)
             \/ \A k \in MSHRs : ~Serves(k, c)
  BY <1>0, JoinsEntry, Zenon
<1>8. Pams'
  <2>1. pkts'[p].blk = b /\ ~QueuedRead(p)'
    BY <1>1, <1>3 DEF QueuedRead
  <2>2. \A c \in Blocks : pamQueue'[c] = pamQueue[c] => PamOK(c)'
    BY <1>0, <1>3, <1>7, <2>1, PamsAccept, Zenon
  <2> QED  BY <2>2, Zenon DEF Pams
<1>9. Reads'
  BY <1>0, <1>7, ReadsKept, Zenon DEF Stays
<1> QED  BY <1>4, <1>5, <1>6, <1>8, <1>9, Zenon

\* A read that is coalesced into the MSHR of its block, or goes around the cache.
LEMMA Joining ==
  ASSUME NEW p, NEW b, NEW ctx, RecvReadCoalesce(p, b, ctx) \/ RecvReadBypass(p, b, ctx)
  PROVE  /\ MayRead(p, b) /\ Joins(p, b, ctx) /\ Accept(p, b, ctx, "mshr")
         /\ UNCHANGED <<tags, writeBuffer, pamQueue, memory, physMem, latest,
                        gpuRunning, stale, astray>>
BY Zenon DEF RecvReadCoalesce, RecvReadBypass, Joins

\* The reads answered on arrival.
LEMMA BaseAtOnce ==
  ASSUME Base, NEW p \in Packets, NEW b \in Blocks, NEW ctx \in Contexts,
         RecvReadWriteBuffer(p, b) \/ RecvReadFillQueue(p, b, ctx)
  PROVE  Base' /\ UNCHANGED <<pkts, mshrs, pamQueue, memReads, astray>>
<1>1. /\ Respond({}, b, physMem[b])
      /\ UNCHANGED <<tags, missQueue, writeBuffer, pamQueue, memory, physMem, latest,
                     gpuRunning, astray>>
  BY Zenon DEF RecvReadWriteBuffer, RecvReadFillQueue
<1>2. pkts' = pkts /\ stale' \in SUBSET Blocks
  BY <1>1, Responds, Zenon DEF Base
<1>3. Types'
  BY <1>1, <1>2, Zenon DEF Base, Types, LinesOK, tags, missQueue, memory
<1>4. \A n \in MSHRs : mshrs'[n].blk = mshrs[n].blk /\ Waiting(n)' = Waiting(n)
  BY <1>1, Zenon DEF Waiting, missQueue
<1> QED  BY <1>1, <1>2, <1>3, <1>4, BaseSame, Zenon DEF missQueue, memory

\* A packet that neither waits in an MSHR nor starts to, and no MSHR changes.
LEMMA IInvPacket ==
  ASSUME IInv, Base', NEW p \in Packets, ~InMSHR(p),
         \A q \in Packets : q # p => pkts'[q] = pkts[q],
         UNCHANGED <<missQueue, pamQueue, memory>>, Alone', Pams'
  PROVE  IInv'
<1> USE DEF IInv, missQueue, memory
<1>0. Types /\ Held
  BY Zenon DEF Base
<1>1. /\ \A n : Waiting(n)' = Waiting(n)
      /\ \A n, c : (Serves(n, c)' <=> Serves(n, c)) /\ (Sent(n)' <=> Sent(n))
  BY Zenon DEF Waiting, Serves, Sent
<1>2. OneMSHR'
  BY <1>1, Zenon DEF OneMSHR
<1>3. ASSUME NEW n \in MSHRs, NEW q \in Waiting(n)
      PROVE  pkts'[q].blk = pkts[q].blk
  <2>1. q \in Packets /\ InMSHR(q)
    BY <1>0, HeldPackets, Zenon
  <2> QED  BY <2>1, Zenon
<1>4. Targets'
  BY <1>1, <1>3, TargetsKept, Zenon
<1>5. Reads'
  BY <1>0, <1>1, ReadsKept, Zenon
<1> QED  BY <1>2, <1>4, <1>5, Zenon

\* A read is queued, with or without a parallel access.
Queues(p, b, ctx, r) ==
  /\ r \in ReadPkt /\ r.cmd = "read" /\ r.blk = b /\ r.at = "queue"
  /\ MayRead(p, b) /\ findMatch(b) = {}
  /\ pkts' \in [Packets -> {NoPkt} \cup ReadPkt \cup WritePkt] /\ pkts'[p] = r
  /\ \A q \in Packets : q # p => pkts'[q] = pkts[q]
  /\ ~InMSHR(p) /\ QueuedRead(p)' /\ pkts'[p].blk = b /\ pkts'[p].cmd = "read"

\* What such a read does to the packets.
LEMMA QueuesRead ==
  ASSUME Types, NEW p \in Packets, NEW b \in Blocks, NEW ctx \in Contexts,
         RecvReadQueue(p, b, ctx)
  PROVE  \E r : Queues(p, b, ctx, r)
<1> DEFINE r == [cmd |-> "read", blk |-> b, ctx |-> ctx, at |-> "queue"]
<1>1. r \in ReadPkt /\ r.cmd = "read" /\ r.blk = b /\ r.at = "queue"
  BY Zenon DEF ReadPkt
<1>2. pkts' = [pkts EXCEPT ![p] = r] /\ MayRead(p, b) /\ findMatch(b) = {}
  BY Zenon DEF RecvReadQueue, ToReadQueue, Accept
<1> HIDE DEF r
<1>3. /\ pkts' \in [Packets -> {NoPkt} \cup ReadPkt \cup WritePkt]
      /\ pkts'[p] = r
      /\ \A q \in Packets : q # p => pkts'[q] = pkts[q]
  BY <1>1, <1>2, Accepts, Zenon
<1>4. ~InMSHR(p) /\ pkts'[p].blk = b /\ QueuedRead(p)' /\ pkts'[p].cmd = "read"
  BY <1>1, <1>2, <1>3, Idle, Zenon DEF QueuedRead
<1> QED  BY <1>1, <1>2, <1>3, <1>4, Zenon DEF Queues

\* The parallel access that such a read may start.
PamStarts(p, b, m) ==
  /\ MAPI_PREDICTOR /\ pamQueue[b] = NoPam
  /\ ~Allocated(m) /\ Waiting(m) = {} /\ Waiting(m)' = {}
  /\ mshrs' \in [MSHRs -> Slot] /\ FreeOnce'
  /\ \A n \in MSHRs : \A c \in Blocks : Serves(n, c)' <=> (n = m /\ c = b) \/ Serves(n, c)
  /\ \A n \in MSHRs : n # m => mshrs'[n] = mshrs[n] /\ Waiting(n)' = Waiting(n)
  /\ ~Sent(m)' /\ mshrs'[m].blk = b /\ Cloned(m)'
  /\ pamQueue' \in [Blocks -> {NoPam} \cup PamEntry]
  /\ pamQueue'[b].isHit = "unknown" /\ ~pamQueue'[b].complete
  /\ pamQueue'[b].mshr = m /\ pamQueue'[b].pkt = p
  /\ \A c \in Blocks : c # b => pamQueue'[c] = pamQueue[c]

\* It has a new MSHR and an entry of the pamQueue.
LEMMA StartsPam ==
  ASSUME Types, FreeOnce, NEW p \in Packets, NEW b \in Blocks, NEW ctx \in Contexts,
         RecvReadQueue(p, b, ctx), ~UNCHANGED <<missQueue, pamQueue>>
  PROVE  \E m \in MSHRs : PamStarts(p, b, m)
<1>1. /\ MAPI_PREDICTOR /\ pamQueue[b] = NoPam
      /\ allocateMissBuffer(b, ctx, 0)
      /\ pamQueue' = [pamQueue EXCEPT ![b] =
                        [isHit |-> "unknown", complete |-> FALSE,
                         mshr |-> Head(freeList), pkt |-> p]]
  BY Zenon DEF RecvReadQueue
<1>2. PICK m \in MSHRs :
        /\ m = Head(freeList)
        /\ ~Allocated(m) /\ Waiting(m) = {}
        /\ mshrs' \in [MSHRs -> Slot] /\ FreeOnce'
        /\ \A n \in MSHRs : \A c \in Blocks :
             Serves(n, c)' <=> (n = m /\ c = b) \/ Serves(n, c)
        /\ \A n \in MSHRs : n # m => mshrs'[n] = mshrs[n]
        /\ ~Sent(m)' /\ Waiting(m)' = {0} \ {0} /\ mshrs'[m].blk = b
        /\ Cloned(m)'
        /\ \A n \in MSHRs : n # m => Waiting(n)' = Waiting(n)
  BY <1>1, Allocates
<1> DEFINE e == [isHit |-> "unknown", complete |-> FALSE, mshr |-> m, pkt |-> p]
<1>3. /\ e \in PamEntry /\ e.isHit = "unknown" /\ e.complete = FALSE
      /\ e.mshr = m /\ e.pkt = p
  BY Zenon DEF PamEntry
<1>4. pamQueue' = [pamQueue EXCEPT ![b] = e]
  BY <1>1, <1>2, Zenon
<1> HIDE DEF e
<1>5. /\ pamQueue' \in [Blocks -> {NoPam} \cup PamEntry] /\ pamQueue'[b] = e
      /\ \A c \in Blocks : c # b => pamQueue'[c] = pamQueue[c]
  BY <1>3, <1>4, Zenon DEF Types
<1>6. Waiting(m)' = {}
  BY <1>2, Zenon
<1> QED  BY <1>1, <1>2, <1>3, <1>5, <1>6, Zenon DEF PamStarts

\* A read that is queued keeps the base.
LEMMA BaseQueue ==
  ASSUME Base, NEW p \in Packets, NEW b \in Blocks, NEW ctx \in Contexts,
         RecvReadQueue(p, b, ctx)
  PROVE  Base'
<1> USE DEF Base
<1>1. PICK r : Queues(p, b, ctx, r)
  BY QueuesRead, Zenon
<1>2. /\ pkts' \in [Packets -> {NoPkt} \cup ReadPkt \cup WritePkt]
      /\ \A q \in Packets : q # p => pkts'[q] = pkts[q]
      /\ QueuedRead(p)' /\ pkts'[p].blk = b /\ pkts'[p].cmd = "read"
  BY <1>1, Zenon DEF Queues
<1>3. UNCHANGED <<tags, writeBuffer, memory, physMem, latest, gpuRunning, stale>>
  BY Zenon DEF RecvReadQueue
<1>4. astray' \in BOOLEAN
  BY DEF RecvReadQueue
<1>5. \A q \in Packets : Owning(q) => pkts'[q] = pkts[q]
  <2>1. ~Owning(p)
    BY <1>1, Idle, Zenon DEF Queues, Owning
  <2> QED  BY <1>2, <2>1, Zenon
<1>6. CASE UNCHANGED <<missQueue, pamQueue>>
  <2>1. Types'
    BY <1>2, <1>3, <1>4, <1>6, Zenon DEF Types, LinesOK, tags, missQueue, memory
  <2>2. FreeOnce'
    BY <1>6, Zenon DEF FreeOnce, Allocated, missQueue
  <2>3. /\ \A n \in MSHRs : mshrs'[n].blk = mshrs[n].blk /\ Waiting(n)' = Waiting(n)
        /\ \A c \in Blocks : KeepsPam(c)
    BY <1>6, Zenon DEF Waiting, KeepsPam, missQueue
  <2> HIDE DEF Base
  <2> QED  BY <1>5, <2>1, <2>2, <2>3, BaseKept, Zenon
<1>7. CASE ~UNCHANGED <<missQueue, pamQueue>>
  <2>1. PICK m \in MSHRs : PamStarts(p, b, m)
    BY <1>7, StartsPam, Zenon
  <2>2. Types' /\ FreeOnce'
    BY <1>2, <1>3, <1>4, <2>1, Zenon DEF Types, LinesOK, tags, memory, PamStarts
  <2>3. Held'
    <3>1. ASSUME NEW n \in MSHRs, NEW q \in Waiting(n)'
          PROVE  InMSHR(q)' /\ q \in Waiting(n)
      <4>1. q \in Waiting(n)
        BY <3>1, <2>1 DEF PamStarts
      <4>2. q \in Packets /\ InMSHR(q)
        BY <4>1, HeldPackets, Zenon
      <4> QED  BY <4>1, <4>2, <1>5, Zenon DEF InMSHR, Owning
    <3> QED  BY <3>1, HeldKept, Zenon
  <2>4. Owned'
    <3> SUFFICES ASSUME NEW n \in MSHRs, Allocated(n)'
                 PROVE  \E q \in Packets : Owner(n, q)'
      BY Zenon DEF Owned
    <3>1. CASE n = m
      <4>1. /\ mshrs'[m].blk = b /\ pamQueue'[b].isHit = "unknown"
            /\ pamQueue'[b].mshr = m /\ pamQueue'[b].pkt = p
        BY <2>1, Zenon DEF PamStarts
      <4>2. Owner(m, p)'
        BY <4>1, <1>2 DEF Owner, QueuedRead
      <4> QED  BY <3>1, <4>2, Zenon
    <3>2. CASE n # m
      <4>1. mshrs'[n] = mshrs[n] /\ Waiting(n)' = Waiting(n) /\ Allocated(n)
        BY <3>2, <2>1, Zenon DEF PamStarts, Allocated
      <4>2. PICK q \in Packets : Owner(n, q)
        BY <4>1, Zenon DEF Owned
      <4>3. Owning(q) /\ mshrs[n].blk \in Blocks
        BY <4>1, <4>2, Owners, Zenon
      <4>4. \A c \in Blocks : KeepsPam(c)
        BY <2>1 DEF PamStarts, KeepsPam, NoPam
      <4>5. Owner(n, q)'
        BY <4>1, <4>2, <4>3, <4>4, <1>5, OwnerKept, Zenon
      <4> QED  BY <4>5, Zenon
    <3> QED  BY <3>1, <3>2, Zenon
  <2> QED  BY <2>2, <2>3, <2>4, Zenon
<1> QED  BY <1>6, <1>7, Zenon

\* A read that is queued keeps the invariant, unless it comes at the address of
\* its block's parallel access.
LEMMA IInvQueue ==
  ASSUME IInv, Base', ~astray', NEW p \in Packets, NEW b \in Blocks, NEW ctx \in Contexts,
         RecvReadQueue(p, b, ctx)
  PROVE  IInv'
<1> USE DEF IInv
<1>0. Types /\ FreeOnce /\ Held
  BY Zenon DEF Base
<1>1. PICK r : Queues(p, b, ctx, r)
  BY <1>0, QueuesRead, Zenon
<1>2. /\ MayRead(p, b) /\ findMatch(b) = {} /\ ~InMSHR(p)
      /\ \A q \in Packets : q # p => pkts'[q] = pkts[q]
      /\ QueuedRead(p)' /\ pkts'[p].blk = b /\ pkts'[p].cmd = "read"
  BY <1>1, Zenon DEF Queues
<1>3. UNCHANGED <<memReads, memWriteQ>>
  BY Zenon DEF RecvReadQueue, memory
<1>4. pamQueue[b] # NoPam => pamQueue[b].pkt # p
  BY DEF RecvReadQueue
<1>5. Alone'
  BY <1>0, <1>2, AloneAccepts, Zenon
<1>6. CASE UNCHANGED <<missQueue, pamQueue>>
  <2>1. \A n, c : (Serves(n, c)' <=> Serves(n, c)) /\ Stays(n)
    BY <1>6, Zenon DEF Serves, Sent, Stays, Cloned, missQueue
  <2>2. \A c \in Blocks : pamQueue'[c] = pamQueue[c] => PamOK(c)'
    BY <1>0, <1>2, <1>3, <1>4, <2>1, PamsAccept, Zenon
  <2>3. Pams'
    BY <1>6, <2>2, Zenon DEF Pams
  <2>4. UNCHANGED memory
    BY <1>3, Zenon DEF memory
  <2> HIDE DEF IInv
  <2> QED  BY <1>2, <1>5, <1>6, <2>3, <2>4, IInvPacket, Zenon
<1>7. CASE ~UNCHANGED <<missQueue, pamQueue>>
  <2>1. PICK m \in MSHRs : PamStarts(p, b, m)
    BY <1>0, <1>7, StartsPam, Zenon
  <2> USE DEF PamStarts
  <2>2. \A n \in MSHRs : ~Serves(n, b)
    BY <1>2, FindMatch, Zenon
  <2>3. OneMSHR'
    BY <2>1, <2>2, OneAdded, Zenon
  <2>4. \A n \in MSHRs : \A c \in Blocks : Serves(n, c) =>
          n # m /\ Serves(n, c)' /\ Stays(n) /\ (Sent(n)' <=> Sent(n))
    <3> SUFFICES ASSUME NEW n \in MSHRs, NEW c \in Blocks, Serves(n, c)
                 PROVE  n # m /\ Serves(n, c)' /\ Stays(n) /\ (Sent(n)' <=> Sent(n))
      BY Zenon
    <3>1. n # m
      BY <2>1, BlockNumbers DEF Serves, Allocated
    <3>2. mshrs'[n] = mshrs[n]
      BY <2>1, <3>1, Zenon
    <3> QED  BY <3>1, <3>2, Zenon DEF Serves, Stays, Sent, Cloned
  <2>5. Targets'
    <3>1. \A n \in MSHRs : Waiting(n)' = Waiting(n)
      BY <2>1
    <3>2. ASSUME NEW n \in MSHRs, NEW q \in Waiting(n)
          PROVE  pkts'[q].blk = pkts[q].blk
      <4>1. q \in Packets /\ InMSHR(q)
        BY <1>0, HeldPackets, Zenon
      <4> QED  BY <1>2, <4>1, Zenon
    <3> QED  BY <2>4, <3>1, <3>2, TargetsKept, Zenon
  <2>6. Pams'
    <3>1. PamOK(b)'
      <4>1. Serves(m, b)' /\ ~Sent(m)' /\ Cloned(m)'
        BY <2>1, Zenon
      <4>2. /\ pamQueue'[b].isHit = "unknown" /\ ~pamQueue'[b].complete
            /\ pamQueue'[b].mshr = m /\ pamQueue'[b].pkt = p
        BY <2>1, Zenon
      <4>3. PamUnknown(b)'
        BY <4>1, <4>2, <1>2, Zenon DEF PamUnknown, QueuedRead, Serves, Sent, Cloned
      <4> QED  BY <4>2, <4>3, <2>1, Zenon DEF PamOK
    <3>2. \A c \in Blocks : c # b => PamOK(c)'
      <4>1. \A c \in Blocks : pamQueue'[c] = pamQueue[c] => PamOK(c)'
        BY <1>0, <1>2, <1>3, <1>4, <2>4, PamsAccept, Zenon
      <4> QED  BY <4>1, <2>1, Zenon
    <3> QED  BY <3>1, <3>2, Zenon DEF Pams
  <2>7. Reads'
    <3>1. \A c \in Blocks : pamQueue'[c].isHit = "hit" <=> pamQueue[c].isHit = "hit"
      BY <2>1 DEF NoPam
    <3>2. \A n \in MSHRs : \A c \in Blocks :
            Serves(n, c)' /\ ~Sent(n)' =>
              \/ Serves(n, c) /\ ~Sent(n)
              \/ \A k \in MSHRs : ~Serves(k, c)
      BY <2>1, <2>2, <2>4
    <3> QED  BY <1>0, <1>3, <2>4, <3>1, <3>2, ReadsKept, Zenon
  <2> QED  BY <1>5, <2>3, <2>5, <2>6, <2>7, Zenon
<1> QED  BY <1>6, <1>7, Zenon

\* A write arrives at an idle block.
LEMMA Writes ==
  ASSUME Types, NEW p \in Packets, NEW b \in Blocks, NEW ctx \in Contexts,
         RecvWrite(p, b, ctx)
  PROVE  /\ Types' /\ MayRead(p, b) /\ Outstanding(b) = {}
         /\ pkts'[p].cmd = "write" /\ pkts'[p].blk = b
         /\ \A q \in Packets : q # p => pkts'[q] = pkts[q]
         /\ UNCHANGED <<missQueue, pamQueue, memory, astray>>
<1> DEFINE v == latest[b] + 1
           r == [cmd |-> "write", blk |-> b, ctx |-> ctx, at |-> "queue", data |-> v]
<1>1. v \in Versions
  <2>1. latest[b] \in 0 .. MaxVersion /\ latest[b] < MaxVersion /\ MaxVersion \in Nat
    BY DataAssumption, Zenon DEF Types, RecvWrite, MayWrite, DataAssumption, Versions
  <2> QED  BY <2>1 DEF Versions
<1>2. /\ pkts' = [pkts EXCEPT ![p] = r] /\ MayRead(p, b) /\ Outstanding(b) = {}
      /\ latest' = [latest EXCEPT ![b] = v] /\ physMem' = [physMem EXCEPT ![b] = v]
      /\ UNCHANGED <<tags, missQueue, writeBuffer, pamQueue, memory, gpuRunning, stale,
                     astray>>
  BY Zenon DEF RecvWrite, MayWrite
<1> HIDE DEF v
<1>3. r \in WritePkt /\ r.cmd = "write" /\ r.blk = b
  BY <1>1, Zenon DEF WritePkt
<1> HIDE DEF r
<1>4. /\ pkts' \in [Packets -> {NoPkt} \cup ReadPkt \cup WritePkt]
      /\ pkts'[p] = r
      /\ \A q \in Packets : q # p => pkts'[q] = pkts[q]
  BY <1>2, <1>3, Accepts, Zenon
<1>5. latest' \in [Blocks -> Versions] /\ physMem' \in [Blocks -> Versions]
  BY <1>1, <1>2, Zenon DEF Types
<1>6. Types'
  BY <1>2, <1>4, <1>5, Zenon DEF Types, LinesOK, tags, missQueue, memory
<1> QED  BY <1>2, <1>3, <1>4, <1>6, Zenon

\* A packet that no entry is kept for changes.
LEMMA BasePacket ==
  ASSUME Base, Types', NEW p \in Packets, ~Owning(p),
         \A q \in Packets : q # p => pkts'[q] = pkts[q],
         UNCHANGED <<missQueue, pamQueue>>
  PROVE  Base'
<1>1. FreeOnce'
  BY SameServes, Zenon DEF Base, missQueue
<1>2. \A n \in MSHRs : mshrs'[n].blk = mshrs[n].blk /\ Waiting(n)' = Waiting(n)
  BY Zenon DEF Waiting, missQueue
<1>3. \A c \in Blocks : KeepsPam(c)
  BY Zenon DEF KeepsPam
<1>4. \A q \in Packets : Owning(q) => pkts'[q] = pkts[q]
  BY Zenon
<1> QED  BY <1>1, <1>2, <1>3, <1>4, BaseKept, Zenon

\* The arrival of a write keeps the base.
LEMMA BaseRecvWrite ==
  ASSUME Base, NEW p \in Packets, NEW b \in Blocks, NEW ctx \in Contexts,
         RecvWrite(p, b, ctx)
  PROVE  Base'
<1>1. /\ Types' /\ MayRead(p, b) /\ UNCHANGED <<missQueue, pamQueue>>
      /\ \A q \in Packets : q # p => pkts'[q] = pkts[q]
  BY Writes, Zenon DEF Base
<1>2. ~Owning(p)
  BY <1>1, Idle, Zenon DEF Owning
<1> QED  BY <1>1, <1>2, BasePacket, Zenon

\* The arrival of a write keeps the invariant.
LEMMA IInvRecvWrite ==
  ASSUME IInv, Base', NEW p \in Packets, NEW b \in Blocks, NEW ctx \in Contexts,
         RecvWrite(p, b, ctx)
  PROVE  IInv'
<1>0. Types /\ Alone /\ Pams
  BY Zenon DEF IInv, Base
<1>1. /\ MayRead(p, b) /\ Outstanding(b) = {} /\ pkts'[p].cmd = "write" /\ pkts'[p].blk = b
      /\ \A q \in Packets : q # p => pkts'[q] = pkts[q]
      /\ UNCHANGED <<missQueue, pamQueue, memory>>
  BY <1>0, Writes, Zenon
<1>2. ~InMSHR(p) /\ ~QueuedRead(p)'
  BY <1>1, Idle DEF QueuedRead
<1>3. Alone'
  BY <1>0, <1>1, AloneAccepts, Zenon
<1>4. Pams'
  <2>1. \A n, c : (Serves(n, c)' <=> Serves(n, c)) /\ Stays(n)
    BY <1>1, Zenon DEF Serves, Sent, Stays, Cloned, missQueue
  <2>2. UNCHANGED memReads
    BY <1>1, Zenon DEF memory
  <2>3. \A c \in Blocks : pamQueue'[c] = pamQueue[c] => PamOK(c)'
    BY <1>0, <1>1, <1>2, <2>1, <2>2, PamsAccept, Zenon
  <2> QED  BY <1>1, <2>3, Zenon DEF Pams
<1> QED  BY <1>1, <1>2, <1>3, <1>4, IInvPacket, Zenon

\* What the answer to a write changes.
LEMMA WriteAnswered ==
  ASSUME Types, NEW p \in Packets, processWriteRespondEvent(p)
  PROVE  /\ Types' /\ pkts[p].cmd = "write" /\ pkts'[p] = NoPkt
         /\ \A q \in Packets : q # p => pkts'[q] = pkts[q]
         /\ UNCHANGED <<missQueue, pamQueue, memory, astray>>
<1>1. /\ pkts[p].cmd = "write" /\ pkts' = [pkts EXCEPT ![p] = NoPkt]
      /\ UNCHANGED <<fillQ, missQueue, pamQueue, memory, physMem, latest, gpuRunning,
                     stale, astray>>
  BY Zenon DEF processWriteRespondEvent
<1>2. pkts[p] \in WritePkt
  BY <1>1, Kinds, Zenon DEF KindsOK
<1> PICK b \in Blocks : b = pkts[p].blk
  BY <1>2, Zenon DEF WritePkt
<1> PICK ctx \in Contexts : ctx = pkts[p].ctx
  BY <1>2, Zenon DEF WritePkt
<1> PICK v \in Versions : v = pkts[p].data
  BY <1>2, Zenon DEF WritePkt
<1>3. /\ doCacheLookup(b, ctx, "write")
      /\ writeBuffer' = writeBuffer \/ allocateWriteBuffer(b, v)
  BY Zenon DEF processWriteRespondEvent
<1>4. writeBuffer' \in Seq(WriteBackEntry)
  <2>1. writeBuffer \in Seq(WriteBackEntry)
    BY Zenon DEF Types
  <2> DEFINE w == [blk |-> b, data |-> v, inService |-> FALSE]
  <2>2. w \in WriteBackEntry
    BY Zenon DEF WriteBackEntry
  <2>3. Append(writeBuffer, w) \in Seq(WriteBackEntry)
    BY <2>1, <2>2
  <2> QED  BY <1>3, <2>1, <2>3, Zenon DEF allocateWriteBuffer
<1>5. LinesOK'
  BY <1>3, Lookup, Zenon
<1>6. /\ pkts' \in [Packets -> {NoPkt} \cup ReadPkt \cup WritePkt]
      /\ pkts'[p] = NoPkt /\ \A q \in Packets : q # p => pkts'[q] = pkts[q]
  BY <1>1, Zenon DEF Types
<1>7. Types'
  BY <1>1, <1>4, <1>5, <1>6, Zenon DEF Types, missQueue, memory
<1> QED  BY <1>1, <1>6, <1>7, Zenon

\* A packet that is no parallel access's, unless one that hit, leaves its queue.
LEMMA PamsLeave ==
  ASSUME Types, Pams, NEW p \in Packets, ~QueuedRead(p)',
         \A c \in Blocks : pamQueue[c] # NoPam /\ pamQueue[c].isHit # "hit"
           => pamQueue[c].pkt # p,
         \A q \in Packets : q # p => pkts'[q] = pkts[q],
         UNCHANGED <<pamQueue, memReads>>,
         \A n \in MSHRs : \A c \in Blocks : Serves(n, c) => Serves(n, c)' /\ Stays(n)
  PROVE  Pams'
<1> SUFFICES ASSUME NEW c \in Blocks PROVE PamOK(c)'
  BY Zenon DEF Pams
<1>1. PamOK(c) /\ (AtMemory(c)' <=> AtMemory(c))
  BY Zenon DEF Pams, AtMemory, ReadOf
<1>2. ASSUME pamQueue[c] # NoPam
      PROVE  pkts'[pamQueue[c].pkt] = pkts[pamQueue[c].pkt] \/ StillHit(c)
  <2>1. pamQueue[c].pkt \in Packets
    BY <1>2, PamBlock, Zenon
  <2>2. CASE pamQueue[c].pkt # p
    BY <2>1, <2>2, Zenon
  <2>3. CASE pamQueue[c].pkt = p
    BY <1>2, <2>3 DEF StillHit, QueuedRead
  <2> QED  BY <2>2, <2>3, Zenon
<1> QED  BY <1>1, <1>2, PamKept, Zenon

\* The answer to a write keeps the base.
LEMMA BaseWriteRespond ==
  ASSUME Base, NEW p \in Packets, processWriteRespondEvent(p)
  PROVE  Base'
<1>1. /\ Types' /\ pkts[p].cmd = "write" /\ UNCHANGED <<missQueue, pamQueue>>
      /\ \A q \in Packets : q # p => pkts'[q] = pkts[q]
  BY WriteAnswered, Zenon DEF Base
<1>2. ~Owning(p)
  BY <1>1 DEF Owning, InMSHR, QueuedRead
<1> QED  BY <1>1, <1>2, BasePacket, Zenon

\* A write is answered; when it misses it goes to the write buffer.
LEMMA IInvWriteRespond ==
  ASSUME IInv, Base', NEW p \in Packets, processWriteRespondEvent(p)
  PROVE  IInv'
<1>0. Types /\ Alone /\ Pams
  BY Zenon DEF IInv, Base
<1>1. /\ pkts[p].cmd = "write" /\ pkts'[p] = NoPkt
      /\ \A q \in Packets : q # p => pkts'[q] = pkts[q]
      /\ UNCHANGED <<missQueue, pamQueue, memory>>
  BY <1>0, WriteAnswered, Zenon
<1>2. Alone'
  BY <1>0, <1>1, AloneKept, Zenon DEF Base
<1>3. Pams'
  <2>1. ~QueuedRead(p)'
    BY <1>1 DEF QueuedRead, NoPkt
  <2>2. ASSUME NEW c \in Blocks, pamQueue[c] # NoPam, pamQueue[c].isHit # "hit"
        PROVE  pamQueue[c].pkt # p
    <3>1. pkts[pamQueue[c].pkt].cmd = "read"
      BY <1>0, <2>2, PamBlock, Zenon
    <3> QED  BY <3>1, <1>1
  <2>3. /\ UNCHANGED memReads
        /\ \A n, c : (Serves(n, c)' <=> Serves(n, c)) /\ Stays(n)
    BY <1>1, Zenon DEF Serves, Sent, Stays, Cloned, missQueue, memory
  <2> QED  BY <1>0, <1>1, <2>1, <2>2, <2>3, PamsLeave, Zenon
<1>4. ~InMSHR(p)
  BY <1>1 DEF InMSHR
<1> QED  BY <1>1, <1>2, <1>3, <1>4, IInvPacket, Zenon

-----------------------------------------------------------------------------
(***************************************************************************)
(* The tag check of a read                                                 *)
(***************************************************************************)

\* The entry of b goes while main memory has no read of b, or only the one of a
\* parallel access that hits now.
LEMMA ReadsCleared ==
  ASSUME Types, Reads, NEW b \in Blocks, UNCHANGED memReads,
         \A c \in Blocks : c # b => pamQueue'[c] = pamQueue[c],
         \A n \in MSHRs : \A c \in Blocks : c # b =>
           (Serves(n, c)' <=> Serves(n, c)) /\ (Serves(n, c) => (Sent(n)' <=> Sent(n))),
         \A n \in MSHRs : ~Serves(n, b)',
         pamQueue[b].isHit # "hit",
         ~AtMemory(b) \/ pamQueue'[b].isHit = "hit"
  PROVE  Reads'
<1>0. \A i \in DOMAIN memReads : memReads[i].blk \in Blocks
  BY ReadTypes, Zenon
<1>1. \A i \in DOMAIN memReads : memReads[i].blk # b /\ Live(i) => Live(i)'
  BY <1>0 DEF Live, Serves
<1>2. \A i \in DOMAIN memReads : memReads[i].blk = b => pamQueue'[b].isHit = "hit"
  BY Zenon DEF AtMemory, ReadOf
<1>3. \A i \in DOMAIN memReads' : pamQueue'[memReads'[i].blk].isHit # "hit" => Live(i)'
  BY <1>0, <1>1, <1>2, Zenon DEF Reads
<1>4. \A i, j \in DOMAIN memReads' : i < j /\ memReads'[i].blk = memReads'[j].blk
        => pamQueue'[memReads'[i].blk].isHit = "hit" /\ Live(j)'
  BY <1>0, <1>1 DEF Reads
<1>5. ASSUME NEW m \in MSHRs, NEW c \in Blocks, Serves(m, c)', ~Sent(m)'
      PROVE  OnlyHit(c)'
  <2>1. c # b /\ OnlyHit(c)
    BY <1>5, Zenon DEF Reads
  <2> QED  BY <2>1, Zenon DEF OnlyHit, ReadOf
<1>6. \A i, j, k \in DOMAIN memReads' : i < j /\ j < k =>
        ~(memReads'[i].blk = memReads'[j].blk /\ memReads'[j].blk = memReads'[k].blk)
  BY DEF Reads
<1> QED  BY <1>3, <1>4, <1>5, <1>6, Zenon DEF Reads

\* The packet of a parallel access at its tag check, in any state.
LEMMA PamEntryOf ==
  ASSUME Types, NEW p \in Packets, QueuedRead(p), IsPamPacket(p)
  PROVE  /\ pkts[p].blk \in Blocks /\ pkts[p].ctx \in Contexts
         /\ pamQueue[pkts[p].blk] \in PamEntry
         /\ pamQueue[pkts[p].blk].mshr \in MSHRs /\ pamQueue[pkts[p].blk].pkt = p
<1>1. pkts[p].blk \in Blocks /\ pkts[p].ctx \in Contexts
  BY QueuedTypes, Zenon
<1>2. pamQueue[pkts[p].blk] \in PamEntry
  BY <1>1, Kinds, Zenon DEF IsPamPacket, KindsOK
<1> QED  BY <1>1, <1>2, Zenon DEF PamEntry, IsPamPacket

\* The tag check of packet p ends the MSHR m of b's parallel access.
LEMMA BasePamEnd ==
  ASSUME Base, Types', NEW p \in Packets, QueuedRead(p), NEW b \in Blocks,
         pkts[p].blk = b, NEW m \in MSHRs, m = pamQueue[b].mshr, deallocate(m),
         \A q \in Packets : q \notin {p} \cup Waiting(m) => pkts'[q] = pkts[q],
         \A c \in Blocks : c # b => pamQueue'[c] = pamQueue[c]
  PROVE  Base'
<1> DEFINE ps == {p} \cup Waiting(m)
<1>1. \A q \in ps : \/ q \in Waiting(m)
                    \/ QueuedRead(q) /\ pamQueue[pkts[q].blk].mshr = m
  BY Zenon
<1>2. \A c \in Blocks : KeepsPam(c) \/ pamQueue[c].mshr = m
  BY Zenon DEF KeepsPam
<1>3. \A q \in Packets : q \notin ps => pkts'[q] = pkts[q]
  BY Zenon
<1> HIDE DEF ps
<1> QED  BY <1>1, <1>2, <1>3, BaseCleared

\* The tag check of packet p ends the MSHR m of b's parallel access, and the
\* parallel access too unless main memory has its read.
PamEnds(p, b, m) ==
  /\ \A q \in Packets : pkts'[q] = IF q \in {p} \cup Waiting(m) THEN NoPkt ELSE pkts[q]
  /\ deallocate(m) /\ UNCHANGED memory
  /\ \A c \in Blocks : c # b => pamQueue'[c] = pamQueue[c]
  /\ \/ pamQueue'[b] = NoPam /\ ~AtMemory(b)
     \/ /\ pamQueue'[b].isHit = "hit" /\ pamQueue'[b].pkt = p
        /\ ~pamQueue'[b].complete /\ AtMemory(b)

\* Such a tag check keeps the invariant.
LEMMA IInvPamEnd ==
  ASSUME IInv, Base', NEW p \in Packets, QueuedRead(p), NEW b \in Blocks,
         pkts[p].blk = b, IsPamPacket(p), NEW m \in MSHRs, m = pamQueue[b].mshr,
         PamEnds(p, b, m)
  PROVE  IInv'
<1> USE DEF PamEnds
<1>0. /\ Types /\ FreeOnce /\ Held /\ Types' /\ Base
      /\ OneMSHR /\ Targets /\ Alone /\ Pams /\ Reads
  BY Zenon DEF IInv, Base
<1>1. Serves(m, b) /\ pamQueue[b].isHit = "unknown" /\ MAPI_PREDICTOR
  BY PamPacket, Zenon
<1>2. /\ \A n \in MSHRs : \A c \in Blocks : Serves(n, c)' <=> n # m /\ Serves(n, c)
      /\ \A n \in MSHRs : n # m => mshrs'[n] = mshrs[n]
      /\ Waiting(m)' = {}
      /\ \A n \in MSHRs : n # m => Waiting(n)' = Waiting(n)
  BY <1>0, Deallocates, Zenon
<1>3. OneMSHR'
  BY <1>0, <1>2, OneKept, Zenon
<1>4. \A q \in Packets : q \in {p} \cup Waiting(m) => pkts[q] # NoPkt /\ pkts[q].blk = b
  <2>1. \A q \in Waiting(m) : pkts[q] # NoPkt /\ Serves(m, pkts[q].blk)
    BY <1>0, HeldPackets, Zenon DEF Targets
  <2>2. pkts[p] # NoPkt
    BY <1>0, QueuedTypes, Zenon
  <2>3. \A q \in Waiting(m) : pkts[q].blk = b
    BY <1>1, <2>1 DEF Serves
  <2> QED  BY <2>1, <2>2, <2>3, Zenon
<1>5. Targets'
  <2>1. ASSUME NEW n \in MSHRs, NEW q \in Waiting(n)'
        PROVE  n # m /\ q \in Waiting(n) /\ pkts'[q].blk = pkts[q].blk
    <3>1. n # m
      BY <1>2, <2>1
    <3>2. q \in Waiting(n)
      BY <1>2, <2>1, <3>1
    <3>3. q \in Packets /\ ~QueuedRead(q) /\ (q \in Waiting(m) => m = n)
      BY <1>0, <3>2, HeldPackets, Zenon
    <3>4. q \notin {p} \cup Waiting(m)
      BY <3>1, <3>3, Zenon
    <3> QED  BY <3>1, <3>2, <3>3, <3>4, Zenon
  <2>2. \A n \in MSHRs : \A c \in Blocks : Waiting(n)' # {} /\ Serves(n, c) => Serves(n, c)'
    BY <1>2, Zenon
  <2> QED  BY <1>0, <2>1, <2>2, TargetsKept, Zenon
<1>6. Alone'
  BY <1>0, AloneKept, Zenon
<1>7. \A n \in MSHRs : \A c \in Blocks : c # b =>
        /\ Serves(n, c)' <=> Serves(n, c)
        /\ Serves(n, c) => (Sent(n)' <=> Sent(n)) /\ Stays(n)
  <2>1. \A n \in MSHRs : \A c \in Blocks : c # b /\ Serves(n, c) => n # m
    BY <1>1, Zenon DEF Serves
  <2> QED  BY <2>1, <1>2, Zenon DEF Sent, Stays, Cloned
<1>8. \A c \in Blocks : AtMemory(c)' <=> AtMemory(c)
  BY Zenon DEF AtMemory, ReadOf, memory
<1>9. Pams'
  <2>1. \A c \in Blocks : c # b => PamOK(c)'
    <3>1. \A q \in Packets :
            \/ pkts'[q] = pkts[q]
            \/ /\ pkts[q] # NoPkt /\ pkts[q].blk = b
               /\ pkts'[q] = NoPkt \/ pkts'[q].blk = b
      BY <1>4, Zenon
    <3> QED  BY <1>0, <1>7, <1>8, <3>1, OtherPams, Zenon
  <2>2. PamOK(b)'
    <3>1. CASE pamQueue'[b] = NoPam
      BY <3>1, Zenon DEF PamOK
    <3>2. CASE pamQueue'[b] # NoPam
      <4>1. /\ pamQueue'[b].isHit = "hit" /\ pamQueue'[b].pkt = p
            /\ ~pamQueue'[b].complete /\ AtMemory(b)
        BY <3>2, Zenon
      <4>2. ~QueuedRead(p)'
        BY DEF QueuedRead, NoPkt
      <4>3. PamHit(b)'
        BY <4>1, <4>2, <1>8 DEF PamHit, QueuedRead
      <4> QED  BY <4>1, <4>3, <1>1, Zenon DEF PamOK
    <3> QED  BY <3>1, <3>2, Zenon
  <2> QED  BY <2>1, <2>2, Zenon DEF Pams
<1>10. Reads'
  <2>1. \A n \in MSHRs : ~Serves(n, b)'
    BY <1>0, <1>1, <1>2 DEF OneMSHR
  <2>2. UNCHANGED memReads
    BY Zenon DEF memory
  <2> QED  BY <1>0, <1>1, <1>7, <2>1, <2>2, ReadsCleared, Zenon
<1> QED  BY <1>3, <1>5, <1>6, <1>9, <1>10, Zenon DEF IInv

\* What the tag check after the answer of the parallel access does.
CompleteOf(p, b, ctx, m) ==
  /\ QueuedRead(p) /\ IsPamPacket(p) /\ pkts[p].blk = b /\ m = pamQueue[b].mshr
  /\ pamQueue[b].complete /\ deallocate(m)
  /\ pamQueue' = [pamQueue EXCEPT ![b] = NoPam]
  /\ UNCHANGED <<memory, physMem, latest, gpuRunning, astray>>
  /\ \E right : RespondTargets({p}, m, right)
  /\ \/ doCacheLookup(b, ctx, "read") /\ UNCHANGED <<writeBuffer, fillQ>>
     \/ addToFillQueue(mshrs[m].blk, ctx)

\* It has a block, a context and an MSHR.
LEMMA Completes ==
  ASSUME Types, NEW p \in Packets, RespondPamComplete(p)
  PROVE  \E b \in Blocks, ctx \in Contexts, m \in MSHRs : CompleteOf(p, b, ctx, m)
<1>1. QueuedRead(p) /\ IsPamPacket(p)
  BY Zenon DEF RespondPamComplete
<1> PICK b \in Blocks : b = pkts[p].blk
  BY <1>1, PamEntryOf, Zenon
<1> PICK ctx \in Contexts : ctx = pkts[p].ctx
  BY <1>1, PamEntryOf, Zenon
<1> PICK m \in MSHRs : m = pamQueue[b].mshr
  BY <1>1, PamEntryOf, Zenon
<1>2. CompleteOf(p, b, ctx, m)
  BY Zenon DEF RespondPamComplete, CompleteOf
<1> QED  BY <1>2, Zenon

\* It keeps the base.
LEMMA BasePamComplete ==
  ASSUME Base, NEW p \in Packets, RespondPamComplete(p)
  PROVE  Base'
<1>0. Types /\ FreeOnce /\ Held
  BY Zenon DEF Base
<1>1. PICK b \in Blocks, ctx \in Contexts, m \in MSHRs : CompleteOf(p, b, ctx, m)
  BY <1>0, Completes, Zenon
<1> USE <1>1 DEF CompleteOf
<1>2. PICK right : RespondTargets({p}, m, right)
  BY Zenon
<1>3. /\ pkts' \in [Packets -> {NoPkt} \cup ReadPkt \cup WritePkt]
      /\ \A q \in Packets : q \notin {p} \cup Waiting(m) => pkts'[q] = pkts[q]
      /\ stale' \in SUBSET Blocks
  <2>1. {p} \in SUBSET Packets
    BY Zenon
  <2> QED  BY <1>0, <1>2, <2>1, RespondsTargets, Zenon
<1>4. LinesOK' /\ fillQ' \in SUBSET Blocks /\ writeBuffer' \in Seq(WriteBackEntry)
  <2>1. CASE doCacheLookup(b, ctx, "read") /\ UNCHANGED <<writeBuffer, fillQ>>
    BY <1>0, <2>1, Lookup, Zenon DEF Types
  <2>2. CASE addToFillQueue(mshrs[m].blk, ctx)
    <3>1. mshrs[m].blk \in Blocks
      BY <1>0, Kinds, Zenon DEF KindsOK, deallocate
    <3> QED  BY <1>0, <2>2, <3>1, Fill, Zenon
  <2> QED  BY <2>1, <2>2, Zenon
<1>5. /\ pamQueue' \in [Blocks -> {NoPam} \cup PamEntry]
      /\ \A c \in Blocks : c # b => pamQueue'[c] = pamQueue[c]
  BY <1>0, Zenon DEF Types
<1>6. mshrs' \in [MSHRs -> Slot]
  BY <1>0, Deallocates, Zenon
<1>7. Types'
  BY <1>0, <1>3, <1>4, <1>5, <1>6, Zenon DEF Types, memory
<1>8. QueuedRead(p) /\ pkts[p].blk = b /\ m = pamQueue[b].mshr /\ deallocate(m)
  BY Zenon
<1> HIDE <1>1 DEF CompleteOf
<1> QED  BY <1>3, <1>5, <1>7, <1>8, BasePamEnd

\* The tag check comes after the answer of the parallel access.
LEMMA IInvPamComplete ==
  ASSUME IInv, Base', NEW p \in Packets, RespondPamComplete(p)
  PROVE  IInv'
<1>0. Types /\ Held
  BY Zenon DEF IInv, Base
<1>1. PICK b \in Blocks, ctx \in Contexts, m \in MSHRs : CompleteOf(p, b, ctx, m)
  BY <1>0, Completes, Zenon
<1> USE <1>1 DEF CompleteOf
<1>2. PICK right : RespondTargets({p}, m, right)
  BY Zenon
<1>3. Cloned(m) /\ ~AtMemory(b)
  BY PamPacket, Zenon DEF PamOK
<1>4. \A q \in Packets : pkts'[q] = IF q \in {p} \cup Waiting(m) THEN NoPkt ELSE pkts[q]
  <2>1. {p} \in SUBSET Packets
    BY Zenon
  <2> HIDE <1>1 DEF CompleteOf
  <2> QED  BY <1>0, <1>2, <1>3, <2>1, RespondsTargets
<1>5. pamQueue'[b] = NoPam /\ \A c \in Blocks : c # b => pamQueue'[c] = pamQueue[c]
  BY <1>0, Zenon DEF Types
<1>6. PamEnds(p, b, m)
  BY <1>3, <1>4, <1>5, Zenon DEF PamEnds
<1> QED  BY <1>6, IInvPamEnd, Zenon

\* What the tag check that hits before the answer does; e is the entry it leaves.
HitOf(p, b, ctx, m, e) ==
  /\ QueuedRead(p) /\ IsPamPacket(p) /\ pkts[p].blk = b /\ m = pamQueue[b].mshr
  /\ ~pamQueue[b].complete /\ deallocate(m)
  /\ e \in {NoPam} \cup PamEntry
  /\ Sent(m) => e.isHit = "hit" /\ e.pkt = p /\ e.complete = pamQueue[b].complete
  /\ ~Sent(m) => e = NoPam
  /\ pamQueue' = [pamQueue EXCEPT ![b] = e]
  /\ UNCHANGED <<fillQ, writeBuffer, memory, physMem, latest, gpuRunning, astray>>
  /\ RespondTargets({p}, m, Current)
  /\ doCacheLookup(b, ctx, "read")

\* It has a block, a context and an MSHR.
LEMMA HitsEarly ==
  ASSUME Types, NEW p \in Packets, RespondPamHit(p)
  PROVE  \E b \in Blocks, ctx \in Contexts, m \in MSHRs : \E e : HitOf(p, b, ctx, m, e)
<1>1. QueuedRead(p) /\ IsPamPacket(p)
  BY Zenon DEF RespondPamHit
<1> PICK b \in Blocks : b = pkts[p].blk
  BY <1>1, PamEntryOf, Zenon
<1> PICK ctx \in Contexts : ctx = pkts[p].ctx
  BY <1>1, PamEntryOf, Zenon
<1> PICK m \in MSHRs : m = pamQueue[b].mshr
  BY <1>1, PamEntryOf, Zenon
<1>2. /\ ~pamQueue[b].complete /\ deallocate(m)
      /\ pamQueue' = [pamQueue EXCEPT ![b] =
                        IF mshrs[m].inService THEN [@ EXCEPT !.isHit = "hit"] ELSE NoPam]
      /\ UNCHANGED <<fillQ, writeBuffer, memory, physMem, latest, gpuRunning, astray>>
      /\ RespondTargets({p}, m, Current)
      /\ doCacheLookup(b, ctx, "read")
  BY Zenon DEF RespondPamHit
<1> DEFINE e == IF Sent(m) THEN [pamQueue[b] EXCEPT !.isHit = "hit"] ELSE NoPam
<1>3. pamQueue[b] \in PamEntry /\ pamQueue[b].pkt = p
  BY <1>1, PamEntryOf, Zenon
<1>4. /\ e \in {NoPam} \cup PamEntry
      /\ Sent(m) => e.isHit = "hit" /\ e.pkt = p /\ e.complete = pamQueue[b].complete
      /\ ~Sent(m) => e = NoPam
  BY <1>3, Zenon DEF PamEntry
<1>5. pamQueue' = [pamQueue EXCEPT ![b] = e]
  BY <1>2, Zenon DEF Sent
<1> HIDE DEF e
<1>6. HitOf(p, b, ctx, m, e)
  BY <1>1, <1>2, <1>4, <1>5, Zenon DEF HitOf
<1> QED  BY <1>6, Zenon

\* It keeps the base.
LEMMA BasePamHit ==
  ASSUME Base, NEW p \in Packets, RespondPamHit(p)
  PROVE  Base'
<1>0. Types /\ FreeOnce /\ Held
  BY Zenon DEF Base
<1>1. PICK b \in Blocks, ctx \in Contexts, m \in MSHRs : \E e : HitOf(p, b, ctx, m, e)
  BY <1>0, HitsEarly, Zenon
<1>2. PICK e : HitOf(p, b, ctx, m, e)
  BY <1>1, Zenon
<1> USE <1>2 DEF HitOf
<1>3. /\ pkts' \in [Packets -> {NoPkt} \cup ReadPkt \cup WritePkt]
      /\ \A q \in Packets : q \notin {p} \cup Waiting(m) => pkts'[q] = pkts[q]
      /\ stale' \in SUBSET Blocks
  <2>1. {p} \in SUBSET Packets
    BY Zenon
  <2>2. RespondTargets({p}, m, Current)
    BY Zenon
  <2> HIDE <1>2 DEF HitOf
  <2> QED  BY <1>0, <2>1, <2>2, RespondsTargets
<1>4. LinesOK'
  BY <1>0, Lookup, Zenon
<1>5. /\ pamQueue' \in [Blocks -> {NoPam} \cup PamEntry]
      /\ \A c \in Blocks : c # b => pamQueue'[c] = pamQueue[c]
  BY <1>0, Zenon DEF Types
<1>6. mshrs' \in [MSHRs -> Slot]
  BY <1>0, Deallocates, Zenon
<1>7. Types'
  BY <1>0, <1>3, <1>4, <1>5, <1>6, Zenon DEF Types, memory
<1>8. QueuedRead(p) /\ pkts[p].blk = b /\ m = pamQueue[b].mshr /\ deallocate(m)
  BY Zenon
<1> HIDE <1>2 DEF HitOf
<1> QED  BY <1>3, <1>5, <1>7, <1>8, BasePamEnd

\* The tag check hits before the answer of the parallel access.
LEMMA IInvPamHit ==
  ASSUME IInv, Base', NEW p \in Packets, RespondPamHit(p)
  PROVE  IInv'
<1>0. Types /\ Held /\ Reads
  BY Zenon DEF IInv, Base
<1>1. PICK b \in Blocks, ctx \in Contexts, m \in MSHRs : \E e : HitOf(p, b, ctx, m, e)
  BY <1>0, HitsEarly, Zenon
<1>2. PICK e : HitOf(p, b, ctx, m, e)
  BY <1>1, Zenon
<1> USE <1>2 DEF HitOf
<1>3. /\ PamUnknown(b) /\ pamQueue[b].isHit = "unknown" /\ Serves(m, b) /\ Cloned(m)
  BY PamPacket, Zenon
<1>4. \A q \in Packets : pkts'[q] = IF q \in {p} \cup Waiting(m) THEN NoPkt ELSE pkts[q]
  <2>1. {p} \in SUBSET Packets
    BY Zenon
  <2>2. RespondTargets({p}, m, Current)
    BY Zenon
  <2> HIDE <1>2 DEF HitOf
  <2> QED  BY <1>0, <1>3, <2>1, <2>2, RespondsTargets
<1>5. /\ pamQueue'[b] = e
      /\ \A c \in Blocks : c # b => pamQueue'[c] = pamQueue[c]
  BY <1>0, Zenon DEF Types
<1>6. Sent(m) => AtMemory(b)
  BY <1>3, Zenon DEF PamUnknown
<1>7. ~Sent(m) => ~AtMemory(b)
  <2>1. ~Sent(m) => OnlyHit(b)
    BY <1>0, <1>3, Zenon DEF Reads
  <2> QED  BY <2>1, <1>3, Zenon DEF OnlyHit, AtMemory
<1>8. \/ pamQueue'[b] = NoPam /\ ~AtMemory(b)
      \/ /\ pamQueue'[b].isHit = "hit" /\ pamQueue'[b].pkt = p
         /\ ~pamQueue'[b].complete /\ AtMemory(b)
  <2>1. CASE Sent(m)
    BY <2>1, <1>5, <1>6, Zenon
  <2>2. CASE ~Sent(m)
    BY <2>2, <1>5, <1>7, Zenon
  <2> QED  BY <2>1, <2>2, Zenon
<1>9. PamEnds(p, b, m)
  BY <1>4, <1>5, <1>8, Zenon DEF PamEnds
<1> QED  BY <1>3, <1>9, IInvPamEnd, Zenon

\* What the tag check that misses before the answer does; e is the entry it leaves.
MissOf(p, b, m, e) ==
  /\ QueuedRead(p) /\ IsPamPacket(p) /\ pkts[p].blk = b /\ m = pamQueue[b].mshr
  /\ pamQueue[b].pkt = p
  /\ ~pamQueue[b].complete /\ allocateTarget(m, p)
  /\ e \in PamEntry /\ e.isHit = "miss" /\ e.pkt = p /\ e.mshr = m /\ ~e.complete
  /\ pamQueue' = [pamQueue EXCEPT ![b] = e]
  /\ pkts' \in [Packets -> {NoPkt} \cup ReadPkt \cup WritePkt]
  /\ ~InMSHR(p) /\ InMSHR(p)' /\ pkts'[p].cmd = pkts[p].cmd /\ pkts'[p].blk = b
  /\ \A q \in Packets : q # p => pkts'[q] = pkts[q]
  /\ UNCHANGED <<tags, writeBuffer, memory, physMem, latest, gpuRunning, stale, astray>>

\* It has a block and an MSHR.
LEMMA MissesEarly ==
  ASSUME Types, NEW p \in Packets, RespondPamMiss(p)
  PROVE  \E b \in Blocks, m \in MSHRs : \E e : MissOf(p, b, m, e)
<1>1. QueuedRead(p) /\ IsPamPacket(p)
  BY Zenon DEF RespondPamMiss
<1> PICK b \in Blocks : b = pkts[p].blk
  BY <1>1, PamEntryOf, Zenon
<1> PICK m \in MSHRs : m = pamQueue[b].mshr
  BY <1>1, PamEntryOf, Zenon
<1>2. /\ ~pamQueue[b].complete /\ allocateTarget(m, p)
      /\ pkts' = [pkts EXCEPT ![p].at = "mshr"]
      /\ pamQueue' = [pamQueue EXCEPT ![b].isHit = "miss"]
      /\ UNCHANGED <<tags, writeBuffer, memory, physMem, latest, gpuRunning, stale, astray>>
  BY Zenon DEF RespondPamMiss
<1>3. /\ pkts' \in [Packets -> {NoPkt} \cup ReadPkt \cup WritePkt]
      /\ InMSHR(p)' /\ pkts'[p].cmd = pkts[p].cmd /\ pkts'[p].blk = b
      /\ \A q \in Packets : q # p => pkts'[q] = pkts[q]
  BY <1>1, <1>2, ToMSHR, Zenon
<1>4. pamQueue[b] \in PamEntry /\ pamQueue[b].pkt = p /\ ~InMSHR(p)
  BY <1>1, PamEntryOf, QueuedTypes, Zenon
<1> DEFINE e == [pamQueue[b] EXCEPT !.isHit = "miss"]
<1>5. /\ e \in PamEntry /\ e.isHit = "miss" /\ e.pkt = p /\ e.mshr = m
      /\ ~e.complete
  BY <1>2, <1>4, Zenon DEF PamEntry
<1>6. pamQueue' = [pamQueue EXCEPT ![b] = e]
  BY <1>2, Zenon
<1> HIDE DEF e
<1>7. MissOf(p, b, m, e)
  BY <1>1, <1>2, <1>3, <1>4, <1>5, <1>6, Zenon DEF MissOf
<1> QED  BY <1>7, Zenon

\* It keeps the base, even when the entry it joins is another block's by now.
LEMMA BasePamMiss ==
  ASSUME Base, NEW p \in Packets, RespondPamMiss(p)
  PROVE  Base'
<1>0. Types /\ FreeOnce
  BY Zenon DEF Base
<1>1. PICK b \in Blocks, m \in MSHRs : \E e : MissOf(p, b, m, e)
  BY <1>0, MissesEarly, Zenon
<1>2. PICK e : MissOf(p, b, m, e)
  BY <1>1, Zenon
<1> USE <1>2 DEF MissOf
<1>3. /\ pamQueue' \in [Blocks -> {NoPam} \cup PamEntry]
      /\ \A c \in Blocks : c # b => pamQueue'[c] = pamQueue[c]
  BY <1>0, Zenon DEF Types
<1>4. /\ mshrs' \in [MSHRs -> Slot] /\ FreeOnce'
      /\ \A n \in MSHRs : mshrs'[n].blk = mshrs[n].blk
      /\ Waiting(m)' = Waiting(m) \cup {p}
      /\ \A n \in MSHRs : n # m => Waiting(n)' = Waiting(n)
  BY <1>0, AddsTarget, Zenon
<1>5. Types'
  BY <1>0, <1>3, <1>4, Zenon DEF Types, LinesOK, tags, memory
<1>6. \A n \in MSHRs : Allocated(n)' <=> Allocated(n)
  BY <1>4, Zenon DEF Allocated
<1>7. \A c \in Blocks : KeepsPam(c) \/ pamQueue[c].pkt = p
  BY <1>3, Zenon DEF KeepsPam
<1>8. ASSUME NEW n \in MSHRs, Allocated(n), Owner(n, p)
      PROVE  n = m /\ pkts'[p].blk = pkts[p].blk
  <2>1. pkts[p].blk = mshrs[n].blk /\ pamQueue[mshrs[n].blk].mshr = n
    BY <1>8, Owners, Zenon
  <2> QED  BY <2>1
<1> QED  BY <1>3, <1>4, <1>5, <1>6, <1>7, <1>8, BaseJoined, Zenon

\* The tag check misses before the answer of the parallel access.
LEMMA IInvPamMiss ==
  ASSUME IInv, Base', NEW p \in Packets, RespondPamMiss(p)
  PROVE  IInv'
<1>0. /\ Types /\ FreeOnce /\ Types' /\ Base
      /\ OneMSHR /\ Targets /\ Alone /\ Pams /\ Reads
  BY Zenon DEF IInv, Base
<1>1. PICK b \in Blocks, m \in MSHRs : \E e : MissOf(p, b, m, e)
  BY <1>0, MissesEarly, Zenon
<1>2. PICK e : MissOf(p, b, m, e)
  BY <1>1, Zenon
<1> USE <1>2 DEF MissOf
<1>3. /\ pamQueue'[b] = e
      /\ \A c \in Blocks : c # b => pamQueue'[c] = pamQueue[c]
  BY <1>0, Zenon DEF Types
<1>4. /\ pamQueue[b].isHit = "unknown" /\ Serves(m, b) /\ Cloned(m) /\ MAPI_PREDICTOR
  BY PamPacket, Zenon
<1>5. /\ \A n \in MSHRs : \A c \in Blocks : Serves(n, c)' <=> Serves(n, c)
      /\ \A n \in MSHRs : Stays(n)
      /\ Waiting(m)' = Waiting(m) \cup {p}
      /\ \A n \in MSHRs : n # m => Waiting(n)' = Waiting(n)
  BY <1>0, AddsTarget, Zenon
<1>6. OneMSHR'
  BY <1>0, <1>5, OneKept, Zenon
<1>7. Targets'
  <2>1. \A n \in MSHRs : \A c \in Blocks :
          Serves(n, c)' <=> (n = m /\ c = b) \/ Serves(n, c)
    BY <1>4, <1>5, Zenon
  <2>2. /\ ~InMSHR(p) /\ pkts'[p].blk = b
        /\ \A q \in Packets : q # p => pkts'[q] = pkts[q]
    BY Zenon
  <2> HIDE <1>2 DEF MissOf
  <2> QED  BY <1>0, <1>5, <2>1, <2>2, TargetAdded, Zenon
<1>8. Alone'
  BY <1>0, AloneKept, Zenon
<1>9. Pams'
  <2>1. \A c \in Blocks : AtMemory(c)' <=> AtMemory(c)
    BY Zenon DEF AtMemory, ReadOf, memory
  <2>2. pkts[p] # NoPkt
    BY <1>0, QueuedTypes, Zenon
  <2>3. \A q \in Packets :
          \/ pkts'[q] = pkts[q]
          \/ /\ pkts[q] # NoPkt /\ pkts[q].blk = b
             /\ pkts'[q] = NoPkt \/ pkts'[q].blk = b
    BY <2>2, Zenon
  <2>4. \A c \in Blocks : c # b => PamOK(c)'
    BY <1>0, <1>3, <1>5, <2>1, <2>3, OtherPams, Zenon
  <2>5. PamMiss(b)'
    <3>1. Serves(m, b)' /\ Cloned(m)'
      BY <1>4, <1>5, Zenon DEF Stays
    <3> QED  BY <1>3, <3>1, Zenon DEF PamMiss, InMSHR, Serves, Cloned
  <2>6. PamOK(b)'
    BY <1>3, <1>4, <2>5 DEF PamOK
  <2> QED  BY <2>4, <2>6, Zenon DEF Pams
<1>10. Reads'
  <2>1. \A c \in Blocks : pamQueue'[c].isHit = "hit" <=> pamQueue[c].isHit = "hit"
    BY <1>3, <1>4, Zenon
  <2>2. UNCHANGED memReads
    BY Zenon DEF memory
  <2> QED  BY <1>0, <1>5, <2>1, <2>2, ReadsKept, Zenon DEF Stays
<1> QED  BY <1>6, <1>7, <1>8, <1>9, <1>10, Zenon DEF IInv

\* A hit without a parallel access of its own.
LEMMA SerialHit ==
  ASSUME Types, NEW p \in Packets, RespondSerial(p), Hit(pkts[p].blk)
  PROVE  /\ Types' /\ QueuedRead(p) /\ ~IsPamPacket(p) /\ pkts'[p] = NoPkt
         /\ \A q \in Packets : q # p => pkts'[q] = pkts[q]
         /\ UNCHANGED <<missQueue, pamQueue, memory, astray>>
<1>1. QueuedRead(p) /\ ~IsPamPacket(p)
  BY Zenon DEF RespondSerial
<1> PICK b \in Blocks : b = pkts[p].blk
  BY <1>1, QueuedTypes, Zenon
<1> PICK ctx \in Contexts : ctx = pkts[p].ctx
  BY <1>1, QueuedTypes, Zenon
<1>2. /\ doCacheLookup(b, ctx, "read")
      /\ Respond({p}, b, physMem[b]) /\ UNCHANGED missQueue
      /\ UNCHANGED <<fillQ, writeBuffer, pamQueue, memory, physMem, latest, gpuRunning,
                     astray>>
  BY Zenon DEF RespondSerial
<1>3. LinesOK'
  BY <1>2, Lookup, Zenon
<1>4. /\ pkts' \in [Packets -> {NoPkt} \cup ReadPkt \cup WritePkt]
      /\ \A q \in Packets : pkts'[q] = IF q \in {p} THEN NoPkt ELSE pkts[q]
      /\ stale' \in SUBSET Blocks
  BY <1>2, Responds, Zenon
<1>5. pkts'[p] = NoPkt /\ \A q \in Packets : q # p => pkts'[q] = pkts[q]
  BY <1>4, Zenon
<1>6. Types'
  BY <1>2, <1>3, <1>4, Zenon DEF Types, missQueue, memory
<1> QED  BY <1>1, <1>2, <1>5, <1>6, Zenon

\* A miss without one joins the MSHRs.
LEMMA SerialMiss ==
  ASSUME Types, FreeOnce, NEW p \in Packets, RespondSerial(p), ~Hit(pkts[p].blk)
  PROVE  /\ Types' /\ FreeOnce' /\ QueuedRead(p) /\ ~IsPamPacket(p)
         /\ pkts[p].blk \in Blocks
         /\ \E ctx \in Contexts : Joins(p, pkts[p].blk, ctx)
         /\ ~InMSHR(p) /\ InMSHR(p)' /\ ~QueuedRead(p)' /\ pkts'[p].cmd = pkts[p].cmd
         /\ pkts'[p].blk = pkts[p].blk
         /\ \A q \in Packets : q # p => pkts'[q] = pkts[q]
         /\ UNCHANGED <<pamQueue, memory, astray>>
<1>1. QueuedRead(p) /\ ~IsPamPacket(p) /\ ~InMSHR(p)
  BY QueuedTypes, Zenon DEF RespondSerial
<1> PICK b \in Blocks : b = pkts[p].blk
  BY <1>1, QueuedTypes, Zenon
<1> PICK ctx \in Contexts : ctx = pkts[p].ctx
  BY <1>1, QueuedTypes, Zenon
<1>2. /\ doCacheLookup(b, ctx, "read")
      /\ pkts' = [pkts EXCEPT ![p].at = "mshr"] /\ UNCHANGED stale
      /\ Joins(p, b, ctx)
      /\ UNCHANGED <<fillQ, writeBuffer, pamQueue, memory, physMem, latest, gpuRunning,
                     astray>>
  BY Zenon DEF RespondSerial, Joins
<1>3. LinesOK'
  BY <1>2, Lookup, Zenon
<1>4. /\ pkts' \in [Packets -> {NoPkt} \cup ReadPkt \cup WritePkt]
      /\ InMSHR(p)' /\ ~QueuedRead(p)' /\ pkts'[p].cmd = pkts[p].cmd
      /\ pkts'[p].blk = pkts[p].blk
      /\ \A q \in Packets : q # p => pkts'[q] = pkts[q]
  BY <1>1, <1>2, ToMSHR, Zenon
<1>5. mshrs' \in [MSHRs -> Slot] /\ FreeOnce'
  BY <1>2, JoinsEntry, Zenon
<1>6. Types'
  BY <1>2, <1>3, <1>4, <1>5, Zenon DEF Types, memory
<1> QED  BY <1>1, <1>2, <1>4, <1>5, <1>6, Zenon

\* The tag check of a read without a parallel access of its own keeps the base.
LEMMA BaseSerial ==
  ASSUME Base, NEW p \in Packets, RespondSerial(p)
  PROVE  Base'
<1>0. Types /\ FreeOnce
  BY Zenon DEF Base
<1>1. CASE Hit(pkts[p].blk)
  <2>1. /\ Types' /\ QueuedRead(p) /\ ~IsPamPacket(p)
        /\ \A q \in Packets : q # p => pkts'[q] = pkts[q]
        /\ UNCHANGED <<missQueue, pamQueue>>
    BY <1>0, <1>1, SerialHit, Zenon
  <2>2. ~Owning(p)
    BY <1>0, <2>1, QueuedTypes, Zenon DEF Owning
  <2> QED  BY <2>1, <2>2, BasePacket, Zenon
<1>2. CASE ~Hit(pkts[p].blk)
  <2>1. /\ Types' /\ FreeOnce' /\ QueuedRead(p) /\ ~IsPamPacket(p)
        /\ pkts[p].blk \in Blocks
        /\ \E ctx \in Contexts : Joins(p, pkts[p].blk, ctx)
        /\ ~InMSHR(p) /\ InMSHR(p)' /\ pkts'[p].blk = pkts[p].blk
        /\ \A q \in Packets : q # p => pkts'[q] = pkts[q]
        /\ UNCHANGED pamQueue
    BY <1>0, <1>2, SerialMiss, Zenon
  <2> PICK b \in Blocks : b = pkts[p].blk
    BY <2>1, Zenon
  <2> PICK ctx \in Contexts : Joins(p, b, ctx)
    BY <2>1, Zenon
  <2>2. PICK m \in MSHRs :
          /\ Waiting(m)' = Waiting(m) \cup {p}
          /\ \A n \in MSHRs : n # m => Waiting(n)' = Waiting(n)
          /\ mshrs'[m].blk = b
          /\ \A n \in MSHRs : Allocated(n) => mshrs'[n].blk = mshrs[n].blk
          /\ \A n \in MSHRs : Allocated(n)' => Allocated(n) \/ n = m
    BY <1>0, JoinsEntry
  <2>3. ASSUME NEW n \in MSHRs, Allocated(n), Owner(n, p)
        PROVE  FALSE
    BY <2>1, <2>3, Owners, Zenon
  <2>4. \A c \in Blocks : KeepsPam(c)
    BY <2>1, Zenon DEF KeepsPam
  <2>5. \A n \in MSHRs : Allocated(n)' =>
          Allocated(n) \/ (n = m /\ pkts'[p].blk = mshrs'[m].blk)
    BY <2>1, <2>2, Zenon
  <2> QED  BY <2>1, <2>2, <2>3, <2>4, <2>5, BaseJoined, Zenon
<1> QED  BY <1>1, <1>2, Zenon

\* A packet of no parallel access is not the one any of them was made for, unless
\* that one hit.
LEMMA NotPamPacket ==
  ASSUME Types, Pams, NEW p \in Packets, ~IsPamPacket(p),
         NEW c \in Blocks, pamQueue[c] # NoPam, pamQueue[c].isHit # "hit"
  PROVE  pamQueue[c].pkt # p
<1>1. pkts[pamQueue[c].pkt].blk = c
  BY PamBlock, Zenon
<1> QED  BY <1>1, Zenon DEF IsPamPacket

\* The tag check of a read without a parallel access of its own.
LEMMA IInvSerial ==
  ASSUME IInv, Base', NEW p \in Packets, RespondSerial(p)
  PROVE  IInv'
<1>0. /\ Types /\ FreeOnce /\ Types' /\ Base
      /\ OneMSHR /\ Targets /\ Alone /\ Pams /\ Reads
  BY Zenon DEF IInv, Base
<1>1. CASE Hit(pkts[p].blk)
  <2>1. /\ QueuedRead(p) /\ ~IsPamPacket(p) /\ pkts'[p] = NoPkt
        /\ \A q \in Packets : q # p => pkts'[q] = pkts[q]
        /\ UNCHANGED <<missQueue, pamQueue, memory>>
    BY <1>0, <1>1, SerialHit, Zenon
  <2>2. Alone'
    BY <1>0, <2>1, AloneKept, Zenon
  <2>3. ~QueuedRead(p)'
    BY <2>1 DEF QueuedRead, NoPkt
  <2>4. Pams'
    <3>1. /\ UNCHANGED memReads
          /\ \A n, c : (Serves(n, c)' <=> Serves(n, c)) /\ Stays(n)
      BY <2>1, Zenon DEF Serves, Sent, Stays, Cloned, missQueue, memory
    <3>2. \A c \in Blocks : pamQueue[c] # NoPam /\ pamQueue[c].isHit # "hit"
            => pamQueue[c].pkt # p
      BY <1>0, <2>1, NotPamPacket, Zenon
    <3> QED  BY <1>0, <2>1, <2>3, <3>1, <3>2, PamsLeave, Zenon
  <2>5. ~InMSHR(p)
    BY <1>0, <2>1, QueuedTypes, Zenon
  <2> QED  BY <2>1, <2>2, <2>4, <2>5, IInvPacket, Zenon
<1>2. CASE ~Hit(pkts[p].blk)
  <2>1. /\ QueuedRead(p) /\ ~IsPamPacket(p) /\ pkts[p].blk \in Blocks
        /\ \E ctx \in Contexts : Joins(p, pkts[p].blk, ctx)
        /\ ~InMSHR(p) /\ ~QueuedRead(p)' /\ pkts'[p].cmd = pkts[p].cmd
        /\ pkts'[p].blk = pkts[p].blk
        /\ \A q \in Packets : q # p => pkts'[q] = pkts[q]
        /\ UNCHANGED <<pamQueue, memory>>
    BY <1>0, <1>2, SerialMiss, Zenon
  <2> PICK b \in Blocks : b = pkts[p].blk
    BY <2>1, Zenon
  <2> PICK ctx \in Contexts : Joins(p, b, ctx)
    BY <2>1, Zenon
  <2>2. OneMSHR'
    BY <1>0, JoinsEntry, Zenon
  <2>3. Targets'
    <3>1. PICK m \in MSHRs :
            /\ Waiting(m)' = Waiting(m) \cup {p}
            /\ \A n \in MSHRs : n # m => Waiting(n)' = Waiting(n)
            /\ \A n \in MSHRs : \A c \in Blocks :
                 Serves(n, c)' <=> (n = m /\ c = b) \/ Serves(n, c)
      BY <1>0, JoinsEntry
    <3> QED  BY <1>0, <2>1, <3>1, TargetAdded, Zenon
  <2>4. Alone'
    BY <1>0, <2>1, AloneKept, Zenon
  <2>5. /\ \A n \in MSHRs : \A c \in Blocks : Serves(n, c) => Serves(n, c)' /\ Stays(n)
        /\ \A n \in MSHRs : \A c \in Blocks :
             Serves(n, c)' /\ ~Sent(n)' =>
               \/ Serves(n, c) /\ ~Sent(n)
               \/ \A k \in MSHRs : ~Serves(k, c)
    BY <1>0, JoinsEntry, Zenon
  <2>6. UNCHANGED memReads
    BY <2>1, Zenon DEF memory
  <2>7. Pams'
    <3>1. \A c \in Blocks : pamQueue[c] # NoPam /\ pamQueue[c].isHit # "hit"
            => pamQueue[c].pkt # p
      BY <1>0, <2>1, NotPamPacket, Zenon
    <3> QED  BY <1>0, <2>1, <2>5, <2>6, <3>1, PamsLeave, Zenon
  <2>8. Reads'
    BY <1>0, <2>1, <2>5, <2>6, ReadsKept, Zenon DEF Stays
  <2> QED  BY <2>2, <2>3, <2>4, <2>7, <2>8, Zenon DEF IInv
<1> QED  BY <1>1, <1>2, Zenon

-----------------------------------------------------------------------------
(***************************************************************************)
(* The data                                                                *)
(***************************************************************************)

\* Joining an entry of b that is there, or a new one while b is not dirty.
LEMMA JoinsClean ==
  ASSUME IInv, NEW p \in Packets, NEW b \in Blocks, NEW ctx \in Contexts,
         Joins(p, b, ctx), findMatch(b) # {} \/ ~Dirty(b)
  PROVE  \A c \in Blocks : \A m \in MSHRs : Serves(m, c)' =>
           (Serves(m, c) /\ (Sent(m)' => Sent(m))) \/ (~Dirty(c) /\ ~Sent(m)')
<1> SUFFICES ASSUME NEW c \in Blocks, NEW m \in MSHRs, Serves(m, c)'
             PROVE  (Serves(m, c) /\ (Sent(m)' => Sent(m))) \/ (~Dirty(c) /\ ~Sent(m)')
  BY Zenon
<1>1. CASE Serves(m, c)
  <2>1. Sent(m)' <=> Sent(m)
    BY <1>1, JoinsEntry, Zenon DEF IInv, Base, Stays
  <2> QED  BY <1>1, <2>1, Zenon
<1>2. CASE ~Serves(m, c)
  <2>1. findMatch(b) = {}
    <3> SUFFICES ASSUME findMatch(b) # {} PROVE FALSE
      BY Zenon
    <3>1. PICK n \in MSHRs : Serves(n, b) /\ allocateTarget(n, p)
      BY FindMatch, Zenon DEF Joins, findMatch
    <3>2. Serves(m, c)' <=> Serves(m, c)
      BY <3>1, AddsTarget, Zenon DEF IInv, Base
    <3> QED  BY <3>2, <1>2, Zenon
  <2>2. allocateMissBuffer(b, ctx, p) /\ p \in Packets \cup {0}
    BY <2>1, Zenon DEF Joins
  <2>3. PICK n \in MSHRs :
          /\ \A k \in MSHRs : \A d \in Blocks :
               Serves(k, d)' <=> (k = n /\ d = b) \/ Serves(k, d)
          /\ ~Sent(n)'
    BY <2>2, Allocates, Zenon DEF IInv, Base
  <2>4. m = n /\ c = b
    BY <2>3, <1>2, Zenon
  <2> QED  BY <2>1, <2>3, <2>4, Zenon
<1> QED  BY <1>1, <1>2, Zenon

\* A read arrives: no write, line or write-back changes.
LEMMA DataRequest ==
  ASSUME ~MAPI_PREDICTOR, IInv, DataInv, NEW p \in Packets, NEW b \in Blocks,
         NEW ctx \in Contexts,
         \/ RecvReadCoalesce(p, b, ctx) \/ RecvReadBypass(p, b, ctx)
         \/ RecvReadWriteBuffer(p, b) \/ RecvReadFillQueue(p, b, ctx)
         \/ RecvReadQueue(p, b, ctx)
  PROVE  DataInv'
<1>1. CASE RecvReadCoalesce(p, b, ctx) \/ RecvReadBypass(p, b, ctx)
  <2>1. /\ MayRead(p, b) /\ Joins(p, b, ctx) /\ Accept(p, b, ctx, "mshr")
        /\ UNCHANGED <<tags, writeBuffer, pamQueue, memory, physMem, latest,
                       gpuRunning, stale>>
    BY <1>1, Joining, Zenon
  <2>2. findMatch(b) # {} \/ ~Dirty(b)
    BY <1>1, Zenon DEF RecvReadCoalesce, RecvReadBypass, Bypassed, Dirty
  <2>3. \A q \in Packets : \/ pkts'[q] = pkts[q]
                           \/ pkts'[q].cmd # "write" /\ pkts[q].cmd # "write"
    BY <2>1, Idle, Zenon DEF Accept, IInv, Base, Types
  <2>4. \A c \in Blocks : \A m \in MSHRs : Serves(m, c)' =>
          (Serves(m, c) /\ (Sent(m)' => Sent(m))) \/ (~Dirty(c) /\ ~Sent(m)')
    BY <2>1, <2>2, JoinsClean, Zenon
  <2> QED  BY <2>1, <2>3, <2>4, DataSame, Zenon DEF tags
<1>2. CASE RecvReadWriteBuffer(p, b) \/ RecvReadFillQueue(p, b, ctx)
  <2>1. /\ Respond({}, b, physMem[b])
        /\ UNCHANGED <<tags, missQueue, writeBuffer, physMem, latest>>
    BY <1>2, Zenon DEF RecvReadWriteBuffer, RecvReadFillQueue
  <2>2. UNCHANGED pkts
    BY <2>1, Responds, Zenon DEF IInv, Base
  <2>3. \A n, c : (Serves(n, c)' <=> Serves(n, c)) /\ (Sent(n)' <=> Sent(n))
    BY <2>1, Zenon DEF Serves, Sent, missQueue
  <2> QED  BY <2>1, <2>2, <2>3, DataSame, Zenon DEF tags
<1>3. CASE RecvReadQueue(p, b, ctx)
  <2>1. /\ MayRead(p, b) /\ Accept(p, b, ctx, "queue")
        /\ UNCHANGED <<tags, missQueue, writeBuffer, physMem, latest>>
    BY <1>3, Zenon DEF RecvReadQueue, ToReadQueue
  <2>2. \A q \in Packets : \/ pkts'[q] = pkts[q]
                           \/ pkts'[q].cmd # "write" /\ pkts[q].cmd # "write"
    BY <2>1, Idle, Zenon DEF Accept, IInv, Base, Types
  <2>3. \A n, c : (Serves(n, c)' <=> Serves(n, c)) /\ (Sent(n)' <=> Sent(n))
    BY <2>1, Zenon DEF Serves, Sent, missQueue
  <2> QED  BY <2>1, <2>2, <2>3, DataSame, Zenon DEF tags
<1> QED  BY <1>1, <1>2, <1>3, Zenon

\* A write arrives, alone, and the backing store has it at once.
LEMMA DataRecvWrite ==
  ASSUME IInv, DataInv, NEW p \in Packets, NEW b \in Blocks, NEW ctx \in Contexts,
         RecvWrite(p, b, ctx)
  PROVE  DataInv'
<1> DEFINE v == latest[b] + 1
           r == [cmd |-> "write", blk |-> b, ctx |-> ctx, at |-> "queue", data |-> v]
<1>1. /\ pkts' = [pkts EXCEPT ![p] = r] /\ Outstanding(b) = {} /\ findMatch(b) = {}
      /\ latest' = [latest EXCEPT ![b] = v] /\ physMem' = [physMem EXCEPT ![b] = v]
      /\ UNCHANGED <<tags, missQueue, writeBuffer>> /\ MayRead(p, b)
  BY Zenon DEF RecvWrite, MayWrite
<1>2. r.cmd = "write" /\ r.blk = b /\ r.data = v
  BY Zenon
<1> HIDE DEF v, r
<1>3. /\ pkts'[p] = r /\ \A q \in Packets : q # p => pkts'[q] = pkts[q]
      /\ latest'[b] = v /\ \A c \in Blocks : c # b => latest'[c] = latest[c]
      /\ physMem'[b] = v /\ \A c \in Blocks : c # b => physMem'[c] = physMem[c]
  BY <1>1, Zenon DEF IInv, Base, Types
<1>4. \A q \in Packets : pkts[q].cmd = "write" => pkts[q].blk \in Blocks /\ pkts[q].blk # b
  <2>1. \A q \in Packets : pkts[q].cmd = "write" => pkts[q] \in WritePkt
    BY Kinds, Zenon DEF IInv, Base, KindsOK
  <2> SUFFICES ASSUME NEW q \in Packets, pkts[q].cmd = "write"
               PROVE  pkts[q].blk \in Blocks /\ pkts[q].blk # b
    BY Zenon
  <2>2. pkts[q].blk \in Blocks /\ pkts[q] # NoPkt
    BY <2>1, Zenon DEF WritePkt, NoPkt
  <2>3. q \notin Outstanding(b)
    BY <1>1, Zenon
  <2> QED  BY <2>2, <2>3, Zenon DEF Outstanding
<1>5. WriteData'
  <2> SUFFICES ASSUME NEW q \in Packets, pkts'[q].cmd = "write"
               PROVE  pkts'[q].data = latest'[pkts'[q].blk]
    BY Zenon DEF WriteData
  <2>1. CASE q = p
    BY <2>1, <1>2, <1>3, Zenon
  <2>2. CASE q # p
    BY <2>2, <1>3, <1>4 DEF DataInv, WriteData
  <2> QED  BY <2>1, <2>2, Zenon
<1>6. /\ \A c : (Hit(c)' <=> Hit(c)) /\ (Dirty(c)' <=> Dirty(c))
      /\ \A c : Queued(c)' <=> Queued(c)
      /\ \A c \in Blocks : c # b => (LastQueued(c) => LastQueued(c)')
      /\ \A n, c : (Serves(n, c)' <=> Serves(n, c)) /\ (Sent(n)' <=> Sent(n))
  <2>1. \A n, c : (Serves(n, c)' <=> Serves(n, c)) /\ (Sent(n)' <=> Sent(n))
    BY <1>1, Zenon DEF Serves, Sent, missQueue
  <2> QED  BY <1>1, <1>3, <2>1, SameTags, SameBuffer, Zenon DEF tags
<1>7. BlockOK(b)'
  <2>1. Writing(b)'
    BY <1>2, <1>3, Zenon DEF Writing
  <2>2. \A m \in MSHRs : ~Serves(m, b)'
    BY <1>1, <1>6, FindMatch, Zenon
  <2>3. Hit(b)' => ~Queued(b)'
    BY <1>6, Zenon DEF DataInv, BlockOK
  <2> QED  BY <2>1, <2>2, <2>3, <1>3, Zenon DEF BlockOK
<1>8. ASSUME NEW c \in Blocks, c # b
      PROVE  BlockOK(c)'
  <2>1. Writing(c)' <=> Writing(c)
    <3>1. pkts[p].cmd # "write"
      BY <1>1, Idle, Zenon
    <3> QED  BY <1>2, <1>3, <1>8, <3>1 DEF Writing
  <2>2. BlockOK(c) /\ physMem'[c] = physMem[c] /\ latest'[c] = latest[c]
    BY <1>3, <1>8, Zenon DEF DataInv
  <2> QED  BY <1>6, <1>8, <2>1, <2>2, BlockKept, Zenon
<1> QED  BY <1>5, <1>7, <1>8, Zenon DEF DataInv

\* A write makes its line dirty, or joins the write buffer behind the others.
LEMMA DataWriteRespond ==
  ASSUME IInv, DataInv, NEW p \in Packets, processWriteRespondEvent(p)
  PROVE  DataInv'
<1>1. /\ pkts[p].cmd = "write" /\ pkts' = [pkts EXCEPT ![p] = NoPkt]
      /\ UNCHANGED <<missQueue, physMem, latest>>
  BY Zenon DEF processWriteRespondEvent
<1>2. pkts[p] \in WritePkt
  BY <1>1, Kinds, Zenon DEF KindsOK, IInv, Base
<1> PICK b \in Blocks : b = pkts[p].blk
  BY <1>2, Zenon DEF WritePkt
<1> PICK ctx \in Contexts : ctx = pkts[p].ctx
  BY <1>2, Zenon DEF WritePkt
<1>3. /\ doCacheLookup(b, ctx, "write")
      /\ IF Hit(b) THEN UNCHANGED writeBuffer ELSE allocateWriteBuffer(b, latest[b])
  <2>1. pkts[p].data = latest[b]
    BY <1>1, Zenon DEF DataInv, WriteData
  <2> QED  BY <2>1, Zenon DEF processWriteRespondEvent
<1>4. \A c \in Blocks : /\ Hit(c)' <=> Hit(c)
                        /\ Dirty(c)' => Dirty(c) \/ c = b
  BY <1>3, Lookup, Zenon DEF IInv, Base
<1>5. pkts'[p] = NoPkt /\ \A q \in Packets : q # p => pkts'[q] = pkts[q]
  BY <1>1, Zenon DEF IInv, Base, Types
<1>6. WriteData'
  BY <1>1, <1>5 DEF DataInv, WriteData, NoPkt
<1>7. \A n, c : (Serves(n, c)' <=> Serves(n, c)) /\ (Sent(n)' <=> Sent(n))
  BY <1>1, Zenon DEF Serves, Sent, missQueue
<1>8. /\ \A m \in MSHRs : ~Serves(m, b)'
      /\ ~Writing(b)'
  <2>1. /\ \A m \in MSHRs : ~Serves(m, b)
        /\ \A q \in Packets : pkts[q] # NoPkt /\ pkts[q].blk = b => q = p
    BY <1>1, WritingAlone, Zenon
  <2>2. NoPkt.cmd # "write"
    BY Zenon DEF NoPkt
  <2>3. \A q \in Packets : pkts'[q].cmd = "write" => q # p /\ pkts[q] # NoPkt /\ pkts'[q] = pkts[q]
    BY <1>5, <2>2, Zenon
  <2> QED  BY <2>1, <2>3, <1>7, Zenon DEF Writing
<1>9. BlockOK(b)'
  <2>1. CASE Hit(b)
    <3>1. Queued(b)' <=> Queued(b)
      BY <2>1, <1>3, SameBuffer, Zenon
    <3>2. physMem'[b] = latest'[b] /\ ~Queued(b)'
      BY <2>1, <3>1, <1>1, Zenon DEF DataInv, BlockOK
    <3> QED  BY <3>2, <1>8, Zenon DEF BlockOK
  <2>2. CASE ~Hit(b)
    <3>1. Queued(b)' /\ LastQueued(b)'
      BY <2>2, <1>1, <1>3, Appended, Zenon DEF allocateWriteBuffer, IInv, Base
    <3>2. ~Hit(b)'
      BY <2>2, <1>4, Zenon
    <3> QED  BY <3>1, <3>2, <1>8, Zenon DEF BlockOK
  <2> QED  BY <2>1, <2>2, Zenon
<1>10. ASSUME NEW c \in Blocks, c # b
       PROVE  BlockOK(c)'
  <2>1. (Queued(c)' <=> Queued(c)) /\ (LastQueued(c) => LastQueued(c)')
    <3>1. latest'[c] = latest[c]
      BY <1>1, Zenon
    <3>2. CASE Hit(b)
      BY <3>1, <3>2, <1>3, SameBuffer, Zenon
    <3>3. CASE ~Hit(b)
      BY <3>1, <3>3, <1>3, <1>10, Appended, Zenon DEF allocateWriteBuffer, IInv, Base
    <3> QED  BY <3>2, <3>3, Zenon
  <2>2. Writing(c)' <=> Writing(c)
    BY <1>5, <1>10 DEF Writing, NoPkt
  <2>3. BlockOK(c) /\ physMem'[c] = physMem[c] /\ latest'[c] = latest[c]
    BY <1>1, Zenon DEF DataInv
  <2>4. (Hit(c)' => Hit(c)) /\ (Dirty(c)' => Dirty(c))
    BY <1>4, <1>10, Zenon
  <2> QED  BY <1>7, <2>1, <2>2, <2>3, <2>4, BlockKept, Zenon
<1> QED  BY <1>6, <1>9, <1>10, Zenon DEF DataInv

\* A tag check: a miss starts a read of main memory only for a block that is
\* not in the cache.
LEMMA DataSerial ==
  ASSUME IInv, DataInv, NEW p \in Packets, RespondSerial(p)
  PROVE  DataInv'
<1>1. QueuedRead(p) /\ pkts[p].cmd = "read"
  BY Zenon DEF RespondSerial, QueuedRead
<1> PICK b \in Blocks : b = pkts[p].blk
  BY <1>1, QueuedTypes, Zenon DEF IInv, Base
<1> PICK ctx \in Contexts : ctx = pkts[p].ctx
  BY <1>1, QueuedTypes, Zenon DEF IInv, Base
<1>2. doCacheLookup(b, ctx, "read") /\ UNCHANGED <<writeBuffer, physMem, latest>>
  BY Zenon DEF RespondSerial
<1>3. \A c \in Blocks : (Hit(c)' <=> Hit(c)) /\ (Dirty(c)' => Dirty(c))
  BY <1>2, Lookup, Zenon DEF IInv, Base
<1>4. /\ \A q \in Packets : \/ pkts'[q] = pkts[q]
                            \/ pkts'[q].cmd # "write" /\ pkts[q].cmd # "write"
      /\ \A c \in Blocks : \A m \in MSHRs : Serves(m, c)' =>
           (Serves(m, c) /\ (Sent(m)' => Sent(m))) \/ (~Dirty(c) /\ ~Sent(m)')
  <2>1. CASE Hit(b)
    <3>1. Respond({p}, b, physMem[b]) /\ UNCHANGED missQueue
      BY <2>1, Zenon DEF RespondSerial
    <3>2. \A q \in Packets : pkts'[q] = IF q = p THEN NoPkt ELSE pkts[q]
      BY <3>1, Zenon DEF Respond
    <3>3. \A n, c : (Serves(n, c)' <=> Serves(n, c)) /\ (Sent(n)' <=> Sent(n))
      BY <3>1, Zenon DEF Serves, Sent, missQueue
    <3> QED  BY <1>1, <3>2, <3>3 DEF NoPkt
  <2>2. CASE ~Hit(b)
    <3>1. pkts' = [pkts EXCEPT ![p].at = "mshr"] /\ Joins(p, b, ctx) /\ ~Dirty(b)
      BY <2>2, Zenon DEF RespondSerial, Joins, Dirty
    <3>2. /\ pkts'[p].cmd = pkts[p].cmd
          /\ \A q \in Packets : q # p => pkts'[q] = pkts[q]
      BY <1>1, <3>1, ToMSHR, Zenon DEF IInv, Base
    <3>3. \A c \in Blocks : \A m \in MSHRs : Serves(m, c)' =>
            (Serves(m, c) /\ (Sent(m)' => Sent(m))) \/ (~Dirty(c) /\ ~Sent(m)')
      BY <3>1, JoinsClean, Zenon
    <3> QED  BY <1>1, <3>2, <3>3, Zenon
  <2> QED  BY <2>1, <2>2, Zenon
<1>5. WriteData' /\ \A c : Writing(c)' <=> Writing(c)
  BY <1>2, <1>4, SameWrites, Zenon DEF DataInv
<1>6. ASSUME NEW c \in Blocks
      PROVE  BlockOK(c)'
  <2>1. /\ Queued(c)' <=> Queued(c)
        /\ LastQueued(c) => LastQueued(c)'
    BY <1>2, SameBuffer, Zenon
  <2>2. BlockOK(c) /\ physMem'[c] = physMem[c] /\ latest'[c] = latest[c]
    BY <1>2, Zenon DEF DataInv
  <2> QED  BY <1>3, <1>4, <1>5, <2>1, <2>2, BlockKept, Zenon
<1> QED  BY <1>5, <1>6, Zenon DEF DataInv

=============================================================================
