----------------------- MODULE DRAMCacheDataInvariant -----------------------
(***************************************************************************)
(* The invariant of DRAMCacheData's misses and parallel accesses, and what *)
(* the model's operators do to each of its parts, for every number of      *)
(* blocks, sets, packets and MSHRs.                                        *)
(***************************************************************************)
EXTENDS DRAMCacheData, TLAPS



-----------------------------------------------------------------------------
(***************************************************************************)
(* The inductive invariant                                                 *)
(***************************************************************************)

Line == [tag : Tags, valid : BOOLEAN, dirty : BOOLEAN, gpu : BOOLEAN]
ReadPkt == [cmd : {"read"}, blk : Blocks, ctx : Contexts,
            at : {"queue", "mshr", "deleted"}]
WritePkt == [cmd : {"write"}, blk : Blocks, ctx : Contexts, at : {"queue"},
             data : Versions]
Slot == [blk : Blocks \cup {NoBlock}, ctx : Contexts,
         targets : Seq(Packets \cup {0}), inService : BOOLEAN, data : Versions]
PamEntry == [isHit : {"unknown", "hit", "miss"}, complete : BOOLEAN,
             mshr : MSHRs, pkt : Packets]
WriteBackEntry == [blk : Blocks, data : Versions, inService : BOOLEAN]
MemRead == [blk : Blocks, mshr : MSHRs, ctx : Contexts, fast : BOOLEAN,
            data : Versions]

\* A valid line is the one of a block.
LinesOK ==
  /\ set \in [Sets -> Line]
  /\ \A s \in Sets : set[s].valid =>
       \E b \in Blocks : SetOf(b) = s /\ TagOf(b) = set[s].tag

Types ==
  /\ LinesOK
  /\ pkts \in [Packets -> {NoPkt} \cup ReadPkt \cup WritePkt]
  /\ mshrs \in [MSHRs -> Slot]
  /\ writeBuffer \in Seq(WriteBackEntry)
  /\ pamQueue \in [Blocks -> {NoPam} \cup PamEntry]
  /\ fillQ \in SUBSET Blocks
  /\ memReads \in Seq(MemRead) /\ memWriteQ \in SUBSET Blocks
  /\ physMem \in [Blocks -> Versions] /\ latest \in [Blocks -> Versions]
  /\ gpuRunning \in BOOLEAN /\ stale \in SUBSET Blocks /\ astray \in BOOLEAN

\* The free list has free entries, each once.
FreeOnce ==
  /\ freeList \in Seq(MSHRs)
  /\ \A i \in 1 .. Len(freeList) : ~Allocated(freeList[i])
  /\ \A i, j \in 1 .. Len(freeList) : freeList[i] = freeList[j] => i = j

InMSHR(p) == pkts[p].cmd = "read" /\ pkts[p].at = "mshr"

\* A packet that waits in an MSHR is a read that does, and waits in one only.
Held ==
  \A m \in MSHRs : \A p \in Waiting(m) :
    InMSHR(p) /\ \A n \in MSHRs : p \in Waiting(n) => n = m

\* The read p is what the entry m is kept for: a target of its block, or the one
\* the block's parallel access was started for, before its tag check.
Owner(m, p) ==
  LET b == mshrs[m].blk
  IN /\ pkts[p].cmd = "read" /\ pkts[p].blk = b
     /\ \/ p \in Waiting(m)
        \/ /\ QueuedRead(p) /\ pamQueue[b].isHit = "unknown"
           /\ pamQueue[b].mshr = m /\ pamQueue[b].pkt = p

Owned == \A m \in MSHRs : Allocated(m) => \E p \in Packets : Owner(m, p)

\* What holds of the MSHRs whatever happens to the parallel accesses.
Base == Types /\ FreeOnce /\ Held /\ Owned

-----------------------------------------------------------------------------
(***************************************************************************)
(* The invariant of the parallel accesses, until one goes astray           *)
(***************************************************************************)

\* m is the entry of block b; its request has been sent.
Serves(m, b) == m \in MSHRs /\ mshrs[m].blk = b
Sent(m) == mshrs[m].inService

OneMSHR ==
  \A b \in Blocks : \A m, n \in MSHRs : Serves(m, b) /\ Serves(n, b) => m = n

\* A read waits for memory in an MSHR of its block.
Targets == \A m \in MSHRs : \A p \in Waiting(m) : Serves(m, pkts[p].blk)

\* A write has its block for itself.
Alone ==
  \A p, q \in Packets :
    pkts[p].cmd = "write" /\ pkts[q] # NoPkt /\ pkts[q].blk = pkts[p].blk => q = p

\* The reads of block b at main memory.
ReadOf(b, i) == i \in DOMAIN memReads /\ memReads[i].blk = b
AtMemory(b) == \E i \in DOMAIN memReads : ReadOf(b, i)

\* Read i at main memory is the one of an MSHR in service.
Live(i) ==
  /\ Serves(memReads[i].mshr, memReads[i].blk)
  /\ Sent(memReads[i].mshr)

\* The first target of m is the clone of a parallel access.
Cloned(m) == mshrs[m].targets # <<>> /\ mshrs[m].targets[1] = 0

PamUnknown(b) ==
  /\ LET p == pamQueue[b].pkt
     IN QueuedRead(p) /\ pkts[p].blk = b
  /\ Serves(pamQueue[b].mshr, b) /\ Cloned(pamQueue[b].mshr)
  /\ ~pamQueue[b].complete /\ Sent(pamQueue[b].mshr) => AtMemory(b)
  /\ pamQueue[b].complete => Sent(pamQueue[b].mshr)

PamHit(b) ==
  /\ LET p == pamQueue[b].pkt
     IN ~(QueuedRead(p) /\ pkts[p].blk = b)
  /\ ~pamQueue[b].complete /\ AtMemory(b)

PamMiss(b) ==
  /\ InMSHR(pamQueue[b].pkt) /\ pkts[pamQueue[b].pkt].blk = b
  /\ ~pamQueue[b].complete
  /\ Serves(pamQueue[b].mshr, b) /\ Cloned(pamQueue[b].mshr)

\* A parallel access before its tag check, after a hit, and after a miss.
PamOK(b) ==
  pamQueue[b] # NoPam =>
    /\ MAPI_PREDICTOR
    /\ pamQueue[b].isHit = "unknown" => PamUnknown(b)
    /\ pamQueue[b].isHit = "hit" => PamHit(b)
    /\ pamQueue[b].isHit = "miss" => PamMiss(b)
    /\ pamQueue[b].complete => ~AtMemory(b)

Pams == \A b \in Blocks : PamOK(b)

\* The only read of b at main memory is that of a parallel access that hit.
OnlyHit(b) ==
  \A i, j \in DOMAIN memReads :
    ReadOf(b, i) /\ ReadOf(b, j) => i = j /\ pamQueue[b].isHit = "hit"

\* Main memory has at most one read of an MSHR, and at most one more of its
\* block: the one of a parallel access that hit, which is the older.
Reads ==
  /\ \A i \in DOMAIN memReads : pamQueue[memReads[i].blk].isHit # "hit" => Live(i)
  /\ \A i, j \in DOMAIN memReads : i < j /\ memReads[i].blk = memReads[j].blk
       => pamQueue[memReads[i].blk].isHit = "hit" /\ Live(j)
  /\ \A i, j, k \in DOMAIN memReads : i < j /\ j < k =>
       ~(memReads[i].blk = memReads[j].blk /\ memReads[j].blk = memReads[k].blk)
  /\ \A m \in MSHRs : \A b \in Blocks : Serves(m, b) /\ ~Sent(m) => OnlyHit(b)

IInv == Base /\ OneMSHR /\ Targets /\ Alone /\ Pams /\ Reads

\* The block has a line that main memory has not.
Dirty(b) == Hit(b) /\ set[SetOf(b)].dirty


-----------------------------------------------------------------------------
(***************************************************************************)
(* Addresses, sequences and records                                        *)
(***************************************************************************)

\* No block is the mark of a free entry.
LEMMA BlockNumbers == \A b \in Blocks : b # NoBlock
BY DataAssumption DEF DataAssumption, NoBlock

\* regenerateBlkAddr is the inverse of getSetTagFromAddr.
LEMMA Addresses ==
  ASSUME NEW b \in Blocks
  PROVE  /\ SetOf(b) \in Sets /\ TagOf(b) \in Tags
         /\ regenerateBlkAddr(SetOf(b), TagOf(b)) = b
<1>1. b \in Nat /\ NumSets \in Nat /\ NumSets > 0
  BY DataAssumption DEF DataAssumption
<1>2. b % NumSets \in 0 .. NumSets - 1
  BY <1>1
<1>3. (b \div NumSets) * NumSets + (b % NumSets) = b
  BY <1>1
<1> QED  BY <1>2, <1>3, Zenon DEF SetOf, TagOf, Sets, Tags, regenerateBlkAddr

\* What a concatenation holds.
LEMMA Concatenation ==
  ASSUME NEW S, NEW s \in Seq(S), NEW t \in Seq(S)
  PROVE  /\ s \o t \in Seq(S) /\ Len(s \o t) = Len(s) + Len(t)
         /\ \A j \in 1 .. Len(s) + Len(t) :
              (s \o t)[j] = IF j <= Len(s) THEN s[j] ELSE t[j - Len(s)]
OBVIOUS

\* t is the sequence s with x at its end.
Extends(t, s, x, S) ==
  /\ t \in Seq(S) /\ t # <<>>
  /\ Len(s) \in Nat /\ DOMAIN s = 1 .. Len(s) /\ DOMAIN t = 1 .. Len(s) + 1
  /\ \A i \in 1 .. Len(s) : t[i] = s[i]
  /\ t[Len(s) + 1] = x

\* What Append adds.
LEMMA AppendProperties ==
  ASSUME NEW S, NEW s \in Seq(S), NEW x \in S
  PROVE  Extends(Append(s, x), s, x, S)
BY DEF Extends

\* RemoveAt takes out one element and keeps the order of the others.
LEMMA RemoveAtProperties ==
  ASSUME NEW S, NEW s \in Seq(S), NEW i \in 1 .. Len(s)
  PROVE  /\ RemoveAt(s, i) \in Seq(S) /\ Len(RemoveAt(s, i)) = Len(s) - 1
         /\ \A j \in 1 .. Len(s) - 1 :
              RemoveAt(s, i)[j] = IF j < i THEN s[j] ELSE s[j + 1]
<1>0. Len(s) \in Nat /\ i \in Nat /\ i >= 1 /\ i <= Len(s)
  OBVIOUS
<1>1. \A j \in 1 .. Len(s) : s[j] \in S
  OBVIOUS
<1>2. /\ SubSeq(s, 1, i - 1) \in Seq(S)
      /\ Len(SubSeq(s, 1, i - 1)) = i - 1
      /\ \A j \in 1 .. i - 1 : SubSeq(s, 1, i - 1)[j] = s[j]
  <2>1. \A j \in 1 .. i - 1 : s[j] \in S
    BY <1>0, <1>1
  <2>2. 1 \in Int /\ i - 1 \in Int
    BY <1>0
  <2>3. /\ SubSeq(s, 1, i - 1) \in Seq(S)
        /\ Len(SubSeq(s, 1, i - 1)) = IF 1 <= i - 1 THEN (i - 1) - 1 + 1 ELSE 0
        /\ \A j \in 1 .. (i - 1) - 1 + 1 : SubSeq(s, 1, i - 1)[j] = s[1 + j - 1]
    BY <2>1, <2>2
  <2> QED  BY <1>0, <2>3
<1>3. /\ SubSeq(s, i + 1, Len(s)) \in Seq(S)
      /\ Len(SubSeq(s, i + 1, Len(s))) = Len(s) - i
      /\ \A j \in 1 .. Len(s) - i : SubSeq(s, i + 1, Len(s))[j] = s[i + j]
  <2>1. \A j \in i + 1 .. Len(s) : s[j] \in S
    BY <1>0, <1>1
  <2>2. i + 1 \in Int /\ Len(s) \in Int
    BY <1>0
  <2>3. /\ SubSeq(s, i + 1, Len(s)) \in Seq(S)
        /\ Len(SubSeq(s, i + 1, Len(s)))
             = IF i + 1 <= Len(s) THEN Len(s) - (i + 1) + 1 ELSE 0
        /\ \A j \in 1 .. Len(s) - (i + 1) + 1 :
             SubSeq(s, i + 1, Len(s))[j] = s[i + 1 + j - 1]
    BY <2>1, <2>2
  <2> QED  BY <1>0, <2>3
<1>4. /\ RemoveAt(s, i) \in Seq(S)
      /\ Len(RemoveAt(s, i)) = i - 1 + (Len(s) - i)
      /\ \A j \in 1 .. i - 1 + (Len(s) - i) : RemoveAt(s, i)[j] =
           IF j <= i - 1 THEN SubSeq(s, 1, i - 1)[j]
                         ELSE SubSeq(s, i + 1, Len(s))[j - (i - 1)]
  <2> DEFINE x == SubSeq(s, 1, i - 1)
             y == SubSeq(s, i + 1, Len(s))
  <2>1. /\ x \in Seq(S) /\ y \in Seq(S)
        /\ Len(x) = i - 1 /\ Len(y) = Len(s) - i
    BY <1>2, <1>3, Zenon
  <2>2. RemoveAt(s, i) = x \o y
    BY Zenon DEF RemoveAt
  <2> HIDE DEF x, y
  <2>3. /\ x \o y \in Seq(S) /\ Len(x \o y) = Len(x) + Len(y)
        /\ \A j \in 1 .. Len(x) + Len(y) :
             (x \o y)[j] = IF j <= Len(x) THEN x[j] ELSE y[j - Len(x)]
    BY <2>1, Concatenation, Zenon
  <2> USE DEF x, y
  <2> QED  BY <2>1, <2>2, <2>3, Zenon
<1>5. ASSUME NEW j \in 1 .. Len(s) - 1
      PROVE  RemoveAt(s, i)[j] = IF j < i THEN s[j] ELSE s[j + 1]
  <2>0. j \in 1 .. i - 1 + (Len(s) - i)
    BY <1>0
  <2>1. CASE j < i
    BY <2>0, <2>1, <1>0, <1>2, <1>4
  <2>2. CASE ~(j < i)
    <3>1. j - (i - 1) \in 1 .. Len(s) - i /\ i + (j - (i - 1)) = j + 1
      BY <2>2, <1>0
    <3>2. RemoveAt(s, i)[j] = SubSeq(s, i + 1, Len(s))[j - (i - 1)]
      BY <2>0, <2>2, <1>0, <1>4
    <3> QED  BY <2>2, <3>1, <3>2, <1>3, Zenon
  <2> QED  BY <2>1, <2>2, Zenon
<1> QED  BY <1>0, <1>4, <1>5

\* What distinguishes a packet, an MSHR or a pamQueue entry from none.
KindsOK ==
  /\ \A p \in Packets :
       /\ pkts[p] = NoPkt <=> pkts[p].cmd = "none"
       /\ pkts[p].cmd = "read" => pkts[p] \in ReadPkt
       /\ pkts[p].cmd = "write" => pkts[p] \in WritePkt
       /\ pkts[p].cmd \in {"none", "read", "write"}
  /\ \A m \in MSHRs :
       /\ mshrs[m] \in Slot /\ mshrs[m].targets \in Seq(Packets \cup {0})
       /\ Allocated(m) => mshrs[m].blk \in Blocks
  /\ \A b \in Blocks :
       /\ pamQueue[b] = NoPam <=> pamQueue[b].isHit = "none"
       /\ pamQueue[b] # NoPam => pamQueue[b] \in PamEntry

\* A request, an MSHR and a parallel access that are there have their fields.
LEMMA Kinds == Types => KindsOK
<1> SUFFICES ASSUME Types PROVE KindsOK
  BY Zenon
<1>1. \A p \in Packets : pkts[p] \in {NoPkt} \cup ReadPkt \cup WritePkt
  BY Zenon DEF Types
<1>2. \A m \in MSHRs : mshrs[m] \in Slot
  BY Zenon DEF Types
<1>3. \A b \in Blocks : pamQueue[b] \in {NoPam} \cup PamEntry
  BY Zenon DEF Types
<1>4. NoPkt.cmd = "none" /\ NoPam.isHit = "none"
  BY Zenon DEF NoPkt, NoPam
<1>5. /\ \A r \in ReadPkt : r.cmd = "read"
      /\ \A r \in WritePkt : r.cmd = "write"
      /\ \A r \in Slot : /\ r.blk \in Blocks \cup {NoBlock}
                         /\ r.targets \in Seq(Packets \cup {0})
      /\ \A r \in PamEntry : r.isHit \in {"unknown", "hit", "miss"}
  BY Zenon DEF ReadPkt, WritePkt, Slot, PamEntry
<1>6. \A p \in Packets :
        /\ pkts[p] = NoPkt <=> pkts[p].cmd = "none"
        /\ pkts[p].cmd = "read" => pkts[p] \in ReadPkt
        /\ pkts[p].cmd = "write" => pkts[p] \in WritePkt
        /\ pkts[p].cmd \in {"none", "read", "write"}
  BY <1>1, <1>4, <1>5, Zenon
<1>7. \A m \in MSHRs :
        /\ mshrs[m] \in Slot /\ mshrs[m].targets \in Seq(Packets \cup {0})
        /\ Allocated(m) => mshrs[m].blk \in Blocks
  BY <1>2, <1>5, Zenon DEF Allocated
<1>8. \A b \in Blocks :
        /\ pamQueue[b] = NoPam <=> pamQueue[b].isHit = "none"
        /\ pamQueue[b] # NoPam => pamQueue[b] \in PamEntry
  BY <1>3, <1>4, <1>5, Zenon
<1> QED  BY <1>6, <1>7, <1>8, Zenon DEF KindsOK

\* The same after a step.
LEMMA KindsNext == Types' => KindsOK'
BY Kinds, PTL

\* The reads at main memory and the entries of the write buffer.
LEMMA ReadTypes ==
  ASSUME Types
  PROVE  /\ \A i \in DOMAIN memReads :
              /\ i \in Nat /\ memReads[i] \in MemRead
              /\ memReads[i].blk \in Blocks /\ memReads[i].mshr \in MSHRs
         /\ \A i \in DOMAIN writeBuffer :
              /\ i \in Nat /\ writeBuffer[i] \in WriteBackEntry
              /\ writeBuffer[i].blk \in Blocks /\ writeBuffer[i].data \in Versions
<1>1. memReads \in Seq(MemRead) /\ writeBuffer \in Seq(WriteBackEntry)
  BY Zenon DEF Types
<1>2. /\ DOMAIN memReads = 1 .. Len(memReads) /\ Len(memReads) \in Nat
      /\ DOMAIN writeBuffer = 1 .. Len(writeBuffer) /\ Len(writeBuffer) \in Nat
  BY <1>1
<1>3. /\ \A i \in DOMAIN memReads : memReads[i] \in MemRead
      /\ \A i \in DOMAIN writeBuffer : writeBuffer[i] \in WriteBackEntry
  BY <1>1, <1>2
<1>4. /\ \A r \in MemRead : r.blk \in Blocks /\ r.mshr \in MSHRs
      /\ \A r \in WriteBackEntry : r.blk \in Blocks /\ r.data \in Versions
  BY Zenon DEF MemRead, WriteBackEntry
<1> QED  BY <1>2, <1>3, <1>4

\* Without an entry for b, only a parallel access that hit can have a read of it.
LEMMA NoEntry ==
  ASSUME Types, Reads, NEW b \in Blocks, \A m \in MSHRs : ~Serves(m, b)
  PROVE  OnlyHit(b)
<1> SUFFICES ASSUME NEW i \in DOMAIN memReads, NEW j \in DOMAIN memReads,
                    ReadOf(b, i), ReadOf(b, j)
             PROVE  i = j /\ pamQueue[b].isHit = "hit"
  BY Zenon DEF OnlyHit
<1>0. i \in Nat /\ j \in Nat
  BY ReadTypes, Zenon
<1>1. ~Live(i) /\ ~Live(j) /\ memReads[i].blk = b /\ memReads[j].blk = b
  BY Zenon DEF Live, ReadOf, Serves
<1>2. pamQueue[b].isHit = "hit"
  BY <1>1, Zenon DEF Reads
<1>3. ~(i < j) /\ ~(j < i)
  BY <1>1, Zenon DEF Reads
<1> QED  BY <1>0, <1>2, <1>3

\* Entries in service stay, new ones are for blocks that had none.
LEMMA ReadsKept ==
  ASSUME Types, Reads, UNCHANGED memReads,
         \A b \in Blocks : pamQueue'[b].isHit = "hit" <=> pamQueue[b].isHit = "hit",
         \A m \in MSHRs : \A b \in Blocks :
           Serves(m, b) /\ Sent(m) => Serves(m, b)' /\ Sent(m)',
         \A m \in MSHRs : \A b \in Blocks :
           Serves(m, b)' /\ ~Sent(m)' =>
             \/ Serves(m, b) /\ ~Sent(m)
             \/ \A n \in MSHRs : ~Serves(n, b)
  PROVE  Reads'
<1>0. \A i \in DOMAIN memReads : memReads[i].blk \in Blocks
  BY ReadTypes, Zenon
<1>1. \A i \in DOMAIN memReads : Live(i) => Live(i)'
  BY <1>0, Zenon DEF Live, Serves
<1>2. \A i \in DOMAIN memReads' : pamQueue'[memReads'[i].blk].isHit # "hit" => Live(i)'
  BY <1>0, <1>1, Zenon DEF Reads
<1>3. \A i, j \in DOMAIN memReads' : i < j /\ memReads'[i].blk = memReads'[j].blk
        => pamQueue'[memReads'[i].blk].isHit = "hit" /\ Live(j)'
  BY <1>0, <1>1, Zenon DEF Reads
<1>4. ASSUME NEW m \in MSHRs, NEW b \in Blocks, Serves(m, b)', ~Sent(m)'
      PROVE  OnlyHit(b)'
  <2>1. OnlyHit(b)
    BY <1>4, NoEntry, Zenon DEF Reads
  <2> QED  BY <2>1, Zenon DEF OnlyHit, ReadOf
<1>5. \A i, j, k \in DOMAIN memReads' : i < j /\ j < k =>
        ~(memReads'[i].blk = memReads'[j].blk /\ memReads'[j].blk = memReads'[k].blk)
  BY DEF Reads
<1> QED  BY <1>2, <1>3, <1>4, <1>5, Zenon DEF Reads

\* Where the elements of RemoveAt(s, i) come from.
LEMMA RemoveAtMap ==
  ASSUME NEW S, NEW s \in Seq(S), NEW i \in DOMAIN s
  PROVE  \E f \in [DOMAIN RemoveAt(s, i) -> DOMAIN s \ {i}] :
           /\ \A j \in DOMAIN RemoveAt(s, i) : RemoveAt(s, i)[j] = s[f[j]]
           /\ \A j, k \in DOMAIN RemoveAt(s, i) : j < k => f[j] < f[k]
           /\ \A k \in DOMAIN s \ {i} : \E j \in DOMAIN RemoveAt(s, i) : f[j] = k
<1>1. DOMAIN s = 1 .. Len(s) /\ Len(s) \in Nat /\ i \in 1 .. Len(s) /\ i \in Nat
  OBVIOUS
<1>2. /\ RemoveAt(s, i) \in Seq(S) /\ Len(RemoveAt(s, i)) = Len(s) - 1
      /\ \A j \in 1 .. Len(s) - 1 : RemoveAt(s, i)[j] = IF j < i THEN s[j] ELSE s[j + 1]
  <2>1. i \in 1 .. Len(s)
    BY <1>1, Zenon
  <2> QED  BY <2>1, RemoveAtProperties, Zenon
<1>3. DOMAIN RemoveAt(s, i) = 1 .. Len(s) - 1
  BY <1>2
<1> DEFINE f == [j \in 1 .. Len(s) - 1 |-> IF j < i THEN j ELSE j + 1]
<1>4. f \in [1 .. Len(s) - 1 -> (1 .. Len(s)) \ {i}]
  BY <1>1
<1>5. \A j \in 1 .. Len(s) - 1 : f[j] = IF j < i THEN j ELSE j + 1
  BY Zenon
<1> HIDE DEF f
<1>6. \A j \in 1 .. Len(s) - 1 : RemoveAt(s, i)[j] = s[f[j]]
  BY <1>2, <1>5, Zenon
<1>7. \A j, k \in 1 .. Len(s) - 1 : j < k => f[j] < f[k]
  BY <1>1, <1>5
<1>8. ASSUME NEW k \in (1 .. Len(s)) \ {i}
      PROVE  \E j \in 1 .. Len(s) - 1 : f[j] = k
  <2>1. CASE k < i
    <3>1. k \in 1 .. Len(s) - 1 /\ f[k] = k
      BY <2>1, <1>1, <1>5
    <3> QED  BY <3>1, Zenon
  <2>2. CASE ~(k < i)
    <3>1. k - 1 \in 1 .. Len(s) - 1 /\ ~(k - 1 < i) /\ k - 1 + 1 = k
      BY <2>2, <1>1
    <3>2. f[k - 1] = k
      BY <3>1, <1>5, Zenon
    <3> QED  BY <3>1, <3>2, Zenon
  <2> QED  BY <2>1, <2>2, Zenon
<1>9. f \in [DOMAIN RemoveAt(s, i) -> DOMAIN s \ {i}]
  BY <1>1, <1>3, <1>4, Zenon
<1>10. \A k \in DOMAIN s \ {i} : \E j \in DOMAIN RemoveAt(s, i) : f[j] = k
  BY <1>1, <1>3, <1>8, Zenon
<1>11. /\ \A j \in DOMAIN RemoveAt(s, i) : RemoveAt(s, i)[j] = s[f[j]]
       /\ \A j, k \in DOMAIN RemoveAt(s, i) : j < k => f[j] < f[k]
  BY <1>3, <1>6, <1>7, Zenon
<1> QED  BY <1>9, <1>10, <1>11, Zenon

\* Answer i for block b leaves main memory; other blocks keep their entry and
\* parallel access, and the entry of another read of b stays in service.
Removes(i, b) ==
  /\ memReads' = RemoveAt(memReads, i)
  /\ \A c \in Blocks : c # b => pamQueue'[c] = pamQueue[c]
  /\ pamQueue'[b].isHit # "hit"
  /\ \A n \in MSHRs : \A c \in Blocks : c # b => (Serves(n, c)' <=> Serves(n, c))
  /\ \A n \in MSHRs : \A c \in Blocks : c # b /\ Serves(n, c) => (Sent(n)' <=> Sent(n))
  /\ \A n \in MSHRs : Serves(n, b)' => Serves(n, b) /\ (Sent(n)' <=> Sent(n))
  /\ \A k \in DOMAIN memReads : k # i /\ memReads[k].blk = b =>
       \E m \in MSHRs : m = memReads[k].mshr /\ Serves(m, b)' /\ Sent(m)'

\* What such a step leaves at main memory.
LEMMA ReadsRemoved ==
  ASSUME Types, Reads, NEW i \in DOMAIN memReads, NEW b \in Blocks,
         memReads[i].blk = b, Removes(i, b)
  PROVE  /\ Reads'
         /\ \A c \in Blocks : c # b => (AtMemory(c)' <=> AtMemory(c))
         /\ (\A k \in DOMAIN memReads : memReads[k].blk = b => k = i) => ~AtMemory(b)'
<1>1. memReads \in Seq(MemRead)
  BY Zenon DEF Types
<1>2. PICK f \in [DOMAIN memReads' -> DOMAIN memReads \ {i}] :
        /\ \A j \in DOMAIN memReads' : memReads'[j] = memReads[f[j]]
        /\ \A j, k \in DOMAIN memReads' : j < k => f[j] < f[k]
        /\ \A k \in DOMAIN memReads \ {i} : \E j \in DOMAIN memReads' : f[j] = k
  BY <1>1, RemoveAtMap DEF Removes
<1>3. \A k \in DOMAIN memReads : memReads[k].blk \in Blocks /\ k \in Nat
  BY ReadTypes, Zenon
<1>4. \A j \in DOMAIN memReads' : /\ f[j] \in DOMAIN memReads /\ f[j] # i
                                  /\ memReads'[j] = memReads[f[j]]
  BY <1>2, Zenon
<1>5. \A j \in DOMAIN memReads' : memReads[f[j]].blk = b => Live(j)'
  <2> SUFFICES ASSUME NEW j \in DOMAIN memReads', memReads[f[j]].blk = b
               PROVE  Live(j)'
    BY Zenon
  <2>1. \E m \in MSHRs : m = memReads[f[j]].mshr /\ Serves(m, b)' /\ Sent(m)'
    BY <1>4, Zenon DEF Removes
  <2> QED  BY <2>1, <1>4, Zenon DEF Live, Serves, Sent
<1>6. \A j \in DOMAIN memReads' : memReads[f[j]].blk # b => (Live(f[j]) => Live(j)')
  <2> SUFFICES ASSUME NEW j \in DOMAIN memReads', memReads[f[j]].blk # b, Live(f[j])
               PROVE  Live(j)'
    BY Zenon
  <2>1. PICK n \in MSHRs, c \in Blocks : n = memReads[f[j]].mshr /\ c = memReads[f[j]].blk
    BY <1>3, <1>4, Zenon DEF Live, Serves
  <2>2. c # b /\ Serves(n, c) /\ Sent(n)
    BY <2>1, Zenon DEF Live
  <2>3. Serves(n, c)' /\ Sent(n)'
    BY <2>2, Zenon DEF Removes
  <2>4. memReads'[j].mshr = n /\ memReads'[j].blk = c
    BY <1>4, <2>1, Zenon
  <2> QED  BY <2>3, <2>4, Zenon DEF Live, Serves, Sent
<1>7. \A j \in DOMAIN memReads' : pamQueue'[memReads'[j].blk].isHit # "hit" => Live(j)'
  BY <1>3, <1>4, <1>5, <1>6 DEF Reads, Removes
<1>8. \A j, k \in DOMAIN memReads' : j < k /\ memReads'[j].blk = memReads'[k].blk
        => pamQueue'[memReads'[j].blk].isHit = "hit" /\ Live(k)'
  <2> SUFFICES ASSUME NEW j \in DOMAIN memReads', NEW k \in DOMAIN memReads',
                      j < k, memReads'[j].blk = memReads'[k].blk
               PROVE  pamQueue'[memReads'[j].blk].isHit = "hit" /\ Live(k)'
    BY Zenon
  <2>1. f[j] < f[k] /\ memReads[f[j]].blk = memReads[f[k]].blk
    BY <1>2, <1>4, Zenon
  <2>2. memReads[f[j]].blk # b
    <3> SUFFICES ASSUME memReads[f[j]].blk = b PROVE FALSE
      BY Zenon
    <3>1. /\ i \in DOMAIN memReads /\ f[j] \in DOMAIN memReads /\ f[k] \in DOMAIN memReads
          /\ i \in Nat /\ f[j] \in Nat /\ f[k] \in Nat /\ i # f[j] /\ i # f[k]
      BY <1>3, <1>4, Zenon
    <3>2. \/ i < f[j] /\ f[j] < f[k]
          \/ f[j] < i /\ i < f[k]
          \/ f[j] < f[k] /\ f[k] < i
      BY <2>1, <3>1
    <3> QED  BY <2>1, <3>1, <3>2 DEF Reads
  <2>3. pamQueue[memReads[f[j]].blk].isHit = "hit" /\ Live(f[k])
    BY <2>1, <1>4, Zenon DEF Reads
  <2>4. pamQueue'[memReads[f[j]].blk] = pamQueue[memReads[f[j]].blk]
    BY <2>2, <1>3, <1>4, Zenon DEF Removes
  <2> QED  BY <2>1, <2>2, <2>3, <2>4, <1>4, <1>6, Zenon
<1>9. \A j, k, l \in DOMAIN memReads' : j < k /\ k < l =>
        ~(memReads'[j].blk = memReads'[k].blk /\ memReads'[k].blk = memReads'[l].blk)
  BY <1>2, <1>4 DEF Reads
<1>10. ASSUME NEW m \in MSHRs, NEW c \in Blocks, Serves(m, c)', ~Sent(m)'
       PROVE  OnlyHit(c)'
  <2>1. Serves(m, c) /\ ~Sent(m)
    BY <1>10, Zenon DEF Removes
  <2>2. OnlyHit(c)
    BY <2>1, Zenon DEF Reads
  <2>3. CASE c # b
    <3> SUFFICES ASSUME NEW j \in DOMAIN memReads', NEW k \in DOMAIN memReads',
                        memReads'[j].blk = c, memReads'[k].blk = c
                 PROVE  j = k /\ pamQueue'[c].isHit = "hit"
      BY Zenon DEF OnlyHit, ReadOf
    <3>1. f[j] = f[k] /\ pamQueue[c].isHit = "hit"
      BY <2>2, <1>4 DEF OnlyHit, ReadOf
    <3>2. j \in Nat /\ k \in Nat
      <4>1. memReads' \in Seq(MemRead)
        BY <1>1, RemoveAtProperties DEF Removes
      <4> QED  BY <4>1
    <3>3. f[j] \in Nat /\ f[k] \in Nat
      BY <1>3, <1>4, Zenon
    <3>4. ~(j < k) /\ ~(k < j)
      BY <3>1, <3>3, <1>2
    <3> QED  BY <2>3, <3>1, <3>2, <3>4 DEF Removes
  <2>4. CASE c = b
    <3>1. \A j \in DOMAIN memReads' : memReads'[j].blk # b
      BY <2>2, <2>4, <1>4 DEF OnlyHit, ReadOf
    <3> QED  BY <2>4, <3>1, Zenon DEF OnlyHit, ReadOf
  <2> QED  BY <2>3, <2>4, Zenon
<1>12. \A c \in Blocks : c # b => (AtMemory(c)' <=> AtMemory(c))
  BY <1>2, <1>4 DEF AtMemory, ReadOf
<1>13. (\A k \in DOMAIN memReads : memReads[k].blk = b => k = i) => ~AtMemory(b)'
  BY <1>4 DEF AtMemory, ReadOf
<1> QED  BY <1>7, <1>8, <1>9, <1>10, <1>12, <1>13, Zenon DEF Reads

\* Serving fewer blocks, or one that had no entry, keeps one entry for each.
LEMMA OneKept ==
  ASSUME OneMSHR, \A n \in MSHRs : \A c \in Blocks : Serves(n, c)' => Serves(n, c)
  PROVE  OneMSHR'
BY Zenon DEF OneMSHR

\* A block without an MSHR gets one.
LEMMA OneAdded ==
  ASSUME OneMSHR, NEW m \in MSHRs, NEW b \in Blocks,
         \A n \in MSHRs : ~Serves(n, b),
         \A n \in MSHRs : \A c \in Blocks :
           Serves(n, c)' <=> (n = m /\ c = b) \/ Serves(n, c),
         ~Allocated(m)
  PROVE  OneMSHR'
<1> SUFFICES ASSUME NEW c \in Blocks, NEW n \in MSHRs, NEW k \in MSHRs,
                    Serves(n, c)', Serves(k, c)'
             PROVE  n = k
  BY Zenon DEF OneMSHR
<1>1. \A d \in Blocks : ~Serves(m, d)
  BY BlockNumbers, Zenon DEF Serves, Allocated
<1> QED  BY <1>1 DEF OneMSHR

\* The entry n stays in service or not, and stays that of a parallel access.
Stays(n) == (Sent(n)' <=> Sent(n)) /\ (Cloned(n) => Cloned(n)')

\* No packet of a parallel access that hit comes to its tag check again.
StillHit(b) ==
  LET p == pamQueue[b].pkt
  IN pamQueue[b].isHit = "hit" /\ ~(QueuedRead(p)' /\ pkts'[p].blk = b)

\* A parallel access whose packet, entry and read at memory stay is kept.
LEMMA PamKept ==
  ASSUME NEW b \in Blocks, PamOK(b),
         pamQueue[b] # NoPam =>
           /\ pkts'[pamQueue[b].pkt] = pkts[pamQueue[b].pkt] \/ StillHit(b)
           /\ AtMemory(b)' <=> AtMemory(b),
         \A m \in MSHRs : Serves(m, b) => Serves(m, b)' /\ Stays(m),
         pamQueue'[b] = pamQueue[b]
  PROVE  PamOK(b)'
<1> SUFFICES ASSUME pamQueue[b] # NoPam
             PROVE  PamOK(b)'
  BY Zenon DEF PamOK
<1>1. CASE pamQueue[b].isHit = "unknown"
  <2>1. PamUnknown(b) /\ MAPI_PREDICTOR /\ (pamQueue[b].complete => ~AtMemory(b))
    BY <1>1, Zenon DEF PamOK
  <2>2. /\ Serves(pamQueue[b].mshr, b) /\ Cloned(pamQueue[b].mshr)
        /\ pamQueue[b].mshr \in MSHRs
    BY <2>1, Zenon DEF PamUnknown, Serves
  <2>3. /\ Serves(pamQueue[b].mshr, b)' /\ Cloned(pamQueue[b].mshr)'
        /\ Sent(pamQueue[b].mshr)' <=> Sent(pamQueue[b].mshr)
    BY <2>2, Zenon DEF Stays
  <2>4. pkts'[pamQueue[b].pkt] = pkts[pamQueue[b].pkt]
    BY <1>1, Zenon DEF StillHit
  <2>5. PamUnknown(b)'
    BY <2>1, <2>3, <2>4, Zenon DEF PamUnknown, QueuedRead
  <2> QED  BY <1>1, <2>1, <2>5, Zenon DEF PamOK
<1>2. CASE pamQueue[b].isHit = "miss"
  <2>1. PamMiss(b) /\ MAPI_PREDICTOR /\ (pamQueue[b].complete => ~AtMemory(b))
    BY <1>2, Zenon DEF PamOK
  <2>2. /\ Serves(pamQueue[b].mshr, b) /\ Cloned(pamQueue[b].mshr)
        /\ pamQueue[b].mshr \in MSHRs
    BY <2>1, Zenon DEF PamMiss, Serves
  <2>3. Serves(pamQueue[b].mshr, b)' /\ Cloned(pamQueue[b].mshr)'
    BY <2>2, Zenon DEF Stays
  <2>4. pkts'[pamQueue[b].pkt] = pkts[pamQueue[b].pkt]
    BY <1>2, Zenon DEF StillHit
  <2>5. PamMiss(b)'
    BY <2>1, <2>3, <2>4, Zenon DEF PamMiss, InMSHR
  <2> QED  BY <1>2, <2>1, <2>5, Zenon DEF PamOK
<1>3. CASE pamQueue[b].isHit \notin {"unknown", "miss"}
  <2>1. CASE pkts'[pamQueue[b].pkt] = pkts[pamQueue[b].pkt]
    BY <1>3, <2>1, Zenon DEF PamOK, PamHit, QueuedRead
  <2>2. CASE StillHit(b)
    BY <1>3, <2>2, Zenon DEF PamOK, PamHit, StillHit, QueuedRead
  <2> QED  BY <2>1, <2>2, Zenon
<1> QED  BY <1>1, <1>2, <1>3, Zenon

-----------------------------------------------------------------------------
(***************************************************************************)
(* The tag directory                                                       *)
(***************************************************************************)

\* A set holds one block.
LEMMA OneBlockPerSet ==
  ASSUME NEW b \in Blocks, NEW c \in Blocks, SetOf(b) = SetOf(c), TagOf(b) = TagOf(c)
  PROVE  b = c
BY Addresses, Zenon

\* doCacheLookup changes no tag, and makes dirty what a write hits.
LEMMA Lookup ==
  ASSUME Types, NEW b \in Blocks, NEW ctx \in Contexts, NEW cmd \in {"read", "write"},
         doCacheLookup(b, ctx, cmd)
  PROVE  /\ LinesOK'
         /\ \A c \in Blocks : /\ Hit(c)' <=> Hit(c)
                              /\ Dirty(c)' => Dirty(c) \/ (c = b /\ cmd = "write")
<1>1. LinesOK /\ set \in [Sets -> Line] /\ SetOf(b) \in Sets
  BY Addresses, Zenon DEF Types, LinesOK
<1>2. CASE ~Hit(b)
  <2>1. set' = set
    BY <1>2, Zenon DEF doCacheLookup
  <2> QED  BY <2>1, <1>1, Zenon DEF LinesOK, Hit, Dirty
<1>3. CASE Hit(b)
  <2> DEFINE s == SetOf(b)
             g == (ctx = "gpu")
             d == (set[s].dirty \/ cmd = "write")
             l == [set[s] EXCEPT !.gpu = g, !.dirty = d]
  <2>2. set[s] \in Line /\ g \in BOOLEAN /\ d \in BOOLEAN
    BY <1>1, Zenon
  <2>0. cmd # "write" => d = set[s].dirty
    BY <2>2, Zenon DEF Line
  <2>1. set' = [set EXCEPT ![s].gpu = g, ![s].dirty = d]
    BY <1>1, <1>3, Zenon DEF doCacheLookup, Line
  <2> HIDE DEF g, d
  <2>3. l \in Line
    BY <2>2, Zenon DEF Line
  <2>4. l.valid = set[s].valid /\ l.tag = set[s].tag
    BY <2>2, Zenon DEF Line
  <2>5. cmd # "write" => l.dirty = set[s].dirty
    BY <2>0, <2>2, Zenon DEF Line
  <2>11. set' = [set EXCEPT ![s] = l]
    BY <2>1, <2>2, <1>1, Zenon DEF Line
  <2> HIDE DEF l, s
  <2>6. /\ set' \in [Sets -> Line] /\ set'[s] = l
        /\ \A t \in Sets : t # s => set'[t] = set[t]
    BY <2>11, <2>3, <1>1, Zenon DEF s
  <2>7. \A t \in Sets : set'[t].valid = set[t].valid /\ set'[t].tag = set[t].tag
    BY <2>4, <2>6, Zenon
  <2>8. LinesOK'
    BY <1>1, <2>6, <2>7, Zenon DEF LinesOK
  <2>9. \A c \in Blocks : Hit(c)' <=> Hit(c)
    BY <2>7, Addresses, Zenon DEF Hit
  <2>10. ASSUME NEW c \in Blocks, Dirty(c)'
         PROVE  Dirty(c) \/ (c = b /\ cmd = "write")
    <3>1. Hit(c) /\ set'[SetOf(c)].dirty /\ SetOf(c) \in Sets
      BY <2>9, <2>10, Addresses, Zenon DEF Dirty
    <3>2. CASE SetOf(c) # s
      BY <3>1, <3>2, <2>6, Zenon DEF Dirty
    <3>3. CASE SetOf(c) = s /\ cmd # "write"
      BY <3>1, <3>3, <2>5, <2>6, Zenon DEF Dirty
    <3>4. CASE SetOf(c) = s /\ cmd = "write"
      BY <3>1, <3>4, <1>3, OneBlockPerSet, Zenon DEF Hit, s
    <3> QED  BY <3>2, <3>3, <3>4, Zenon
  <2> QED  BY <2>8, <2>9, <2>10, Zenon
<1> QED  BY <1>2, <1>3, Zenon

\* What the insertion of block b by addToFillQueue does to the other blocks.
Inserts(b) ==
  /\ \A c \in Blocks : Hit(c)' <=> c = b \/ (Hit(c) /\ SetOf(c) # SetOf(b))
  /\ ~Dirty(b)'
  /\ \A c \in Blocks : c # b /\ Dirty(c)' => Dirty(c)
  /\ \/ /\ writeBuffer' = writeBuffer
        /\ \A c \in Blocks : SetOf(c) = SetOf(b) => ~Dirty(c)
     \/ \E e \in Blocks :
          /\ Dirty(e) /\ SetOf(e) = SetOf(b)
          /\ writeBuffer' = Append(writeBuffer, [blk |-> e, data |-> physMem[e],
                                                 inService |-> FALSE])

\* addToFillQueue replaces the line of the block's set, or, in the bypass phase,
\* leaves it.
LEMMA Fill ==
  ASSUME Types, NEW b \in Blocks, NEW ctx \in Contexts, addToFillQueue(b, ctx)
  PROVE  /\ LinesOK' /\ fillQ' \in SUBSET Blocks /\ writeBuffer' \in Seq(WriteBackEntry)
         /\ \/ Inserts(b)
            \/ UNCHANGED <<set, writeBuffer>>
<1>1. /\ LinesOK /\ set \in [Sets -> Line] /\ SetOf(b) \in Sets /\ TagOf(b) \in Tags
      /\ writeBuffer \in Seq(WriteBackEntry) /\ fillQ \in SUBSET Blocks
      /\ physMem \in [Blocks -> Versions]
  BY Addresses, Zenon DEF Types, LinesOK
<1>2. CASE UNCHANGED <<tags, writeBuffer>>
  BY <1>1, <1>2, Zenon DEF tags, LinesOK
<1>3. CASE ~UNCHANGED <<tags, writeBuffer>>
  <2> DEFINE s == SetOf(b)
             old == set[s]
             ev == regenerateBlkAddr(s, old.tag)
             l == [tag |-> TagOf(b), valid |-> TRUE, dirty |-> FALSE,
                   gpu |-> (ctx = "gpu")]
  <2>1. /\ IF old.valid /\ old.dirty THEN doWriteBack(ev) ELSE UNCHANGED writeBuffer
        /\ set' = [set EXCEPT ![s] = l]
        /\ fillQ' \in {fillQ, fillQ \cup {b}}
    BY <1>3, Zenon DEF addToFillQueue
  <2>2. l \in Line /\ l.valid = TRUE /\ l.tag = TagOf(b) /\ l.dirty = FALSE
    BY <1>1, Zenon DEF Line
  <2> HIDE DEF l
  <2>3. /\ set' \in [Sets -> Line] /\ set'[s] = l
        /\ \A t \in Sets : t # s => set'[t] = set[t]
    BY <2>1, <2>2, <1>1, Zenon
  <2>4. LinesOK'
    <3> SUFFICES ASSUME NEW t \in Sets, set'[t].valid
                 PROVE  \E c \in Blocks : SetOf(c) = t /\ TagOf(c) = set'[t].tag
      BY <2>3, Zenon DEF LinesOK
    <3>1. CASE t = s
      BY <3>1, <2>2, <2>3, Zenon
    <3>2. CASE t # s
      BY <3>2, <2>3, <1>1, Zenon DEF LinesOK
    <3> QED  BY <3>1, <3>2, Zenon
  <2>5. fillQ' \in SUBSET Blocks
    BY <2>1, <1>1, Zenon
  <2>6. \A c \in Blocks : Hit(c)' <=> c = b \/ (Hit(c) /\ SetOf(c) # SetOf(b))
    <3> SUFFICES ASSUME NEW c \in Blocks
                 PROVE  Hit(c)' <=> c = b \/ (Hit(c) /\ SetOf(c) # SetOf(b))
      BY Zenon
    <3>1. SetOf(c) \in Sets
      BY Addresses, Zenon
    <3>2. CASE SetOf(c) = s
      BY <3>2, <2>2, <2>3, OneBlockPerSet, Zenon DEF Hit
    <3>3. CASE SetOf(c) # s
      BY <3>1, <3>3, <2>3, Zenon DEF Hit
    <3> QED  BY <3>2, <3>3, Zenon
  <2>7. ~Dirty(b)'
    BY <2>2, <2>3, Zenon DEF Dirty
  <2>8. \A c \in Blocks : c # b /\ Dirty(c)' => Dirty(c)
    BY <2>3, <2>6, Addresses, Zenon DEF Dirty
  <2>9. CASE old.valid /\ old.dirty
    <3>1. PICK e \in Blocks : SetOf(e) = s /\ TagOf(e) = old.tag
      BY <2>9, <1>1, Zenon DEF LinesOK
    <3>2. ev = e
      BY <3>1, Addresses, Zenon
    <3>3. Dirty(e)
      BY <2>9, <3>1, Zenon DEF Dirty, Hit
    <3> DEFINE w == [blk |-> e, data |-> physMem[e], inService |-> FALSE]
    <3>4. writeBuffer' = Append(writeBuffer, w)
      BY <2>1, <2>9, <3>2, Zenon DEF doWriteBack, allocateWriteBuffer
    <3>5. w \in WriteBackEntry
      BY <1>1, Zenon DEF WriteBackEntry
    <3>6. writeBuffer' \in Seq(WriteBackEntry)
      BY <3>4, <3>5, <1>1
    <3>7. \E x \in Blocks :
            /\ Dirty(x) /\ SetOf(x) = SetOf(b)
            /\ writeBuffer' = Append(writeBuffer, [blk |-> x, data |-> physMem[x],
                                                   inService |-> FALSE])
      BY <3>1, <3>3, <3>4, Zenon
    <3>8. Inserts(b)
      BY <2>6, <2>7, <2>8, <3>7, Zenon DEF Inserts
    <3> QED  BY <2>4, <2>5, <3>6, <3>8, Zenon
  <2>10. CASE ~(old.valid /\ old.dirty)
    <3>1. writeBuffer' = writeBuffer
      BY <2>1, <2>10, Zenon
    <3>2. \A c \in Blocks : SetOf(c) = SetOf(b) => ~Dirty(c)
      BY <2>10, Zenon DEF Dirty, Hit
    <3> QED  BY <2>4, <2>5, <2>6, <2>7, <2>8, <3>1, <3>2, <1>1, Zenon DEF Inserts
  <2> QED  BY <2>9, <2>10, Zenon
<1> QED  BY <1>2, <1>3, Zenon

-----------------------------------------------------------------------------
(***************************************************************************)
(* The MSHR queue                                                          *)
(***************************************************************************)

\* The packets in a sequence of targets.
LEMMA WaitingTargets ==
  ASSUME Types, NEW m \in MSHRs
  PROVE  /\ mshrs[m].targets = <<>> => Waiting(m) = {}
         /\ Waiting(m) \subseteq Packets
         /\ mshrs[m].targets # <<>> =>
              /\ mshrs[m].targets[1] \in Packets \cup {0}
              /\ Waiting(m) = ({mshrs[m].targets[1]}
                   \cup {mshrs[m].targets[i] : i \in 2 .. Len(mshrs[m].targets)}) \ {0}
<1> DEFINE s == mshrs[m].targets
<1>1. s \in Seq(Packets \cup {0})
  BY Kinds, Zenon DEF KindsOK
<1>2. Waiting(m) = {s[i] : i \in DOMAIN s} \ {0}
  BY Zenon DEF Waiting
<1> HIDE DEF s
<1>3. Waiting(m) \subseteq Packets
  BY <1>1, <1>2
<1>4. s = <<>> => DOMAIN s = {}
  BY <1>1
<1>5. ASSUME s # <<>>
      PROVE  /\ s[1] \in Packets \cup {0}
             /\ {s[i] : i \in DOMAIN s} = {s[1]} \cup {s[i] : i \in 2 .. Len(s)}
  <2>1. /\ DOMAIN s = 1 .. Len(s) /\ 1 \in 1 .. Len(s)
        /\ \A i : i \in 1 .. Len(s) <=> i = 1 \/ i \in 2 .. Len(s)
    BY <1>1, <1>5
  <2>2. s[1] \in Packets \cup {0}
    BY <1>1, <2>1
  <2>3. {s[i] : i \in DOMAIN s} = {s[1]} \cup {s[i] : i \in 2 .. Len(s)}
    BY <2>1, Zenon
  <2> QED  BY <2>2, <2>3, Zenon
<1> QED  BY <1>2, <1>3, <1>4, <1>5, Zenon DEF s

\* allocateMissBuffer takes a free entry for block b.
LEMMA Allocates ==
  ASSUME Types, FreeOnce, NEW b \in Blocks, NEW ctx \in Contexts,
         NEW t \in Packets \cup {0}, allocateMissBuffer(b, ctx, t)
  PROVE  \E m \in MSHRs :
           /\ m = Head(freeList)
           /\ ~Allocated(m) /\ Waiting(m) = {}
           /\ mshrs' \in [MSHRs -> Slot] /\ FreeOnce'
           /\ \A n \in MSHRs : \A c \in Blocks :
                Serves(n, c)' <=> (n = m /\ c = b) \/ Serves(n, c)
           /\ \A n \in MSHRs : n # m => mshrs'[n] = mshrs[n]
           /\ ~Sent(m)' /\ Waiting(m)' = {t} \ {0} /\ mshrs'[m].blk = b
           /\ t = 0 => Cloned(m)'
           /\ \A n \in MSHRs : n # m => Waiting(n)' = Waiting(n)
<1> DEFINE e == [blk |-> b, ctx |-> ctx, targets |-> <<t>>,
                 inService |-> FALSE, data |-> 0]
<1>0. /\ freeList \in Seq(MSHRs) /\ freeList # <<>> /\ Len(freeList) \in Nat
      /\ Len(freeList) >= 1 /\ Head(freeList) = freeList[1]
      /\ Head(freeList) \in MSHRs
  <2>1. freeList \in Seq(MSHRs) /\ freeList # <<>>
    BY Zenon DEF FreeOnce, allocateMissBuffer
  <2> QED  BY <2>1
<1> PICK m \in MSHRs : m = Head(freeList)
  BY <1>0, Zenon
<1>1. /\ freeList \in Seq(MSHRs) /\ freeList # <<>> /\ Len(freeList) \in Nat
      /\ Len(freeList) >= 1 /\ m = freeList[1]
  BY <1>0, Zenon
<1>2. ~Allocated(m) /\ Waiting(m) = {}
  <2>1. ~Allocated(m)
    BY <1>1 DEF FreeOnce
  <2>2. mshrs[m].targets = <<>>
    BY Zenon DEF allocateMissBuffer
  <2> QED  BY <2>1, <2>2, WaitingTargets, Zenon
<1>3. e \in Slot /\ e.blk = b /\ e.inService = FALSE /\ e.targets = <<t>>
  <2>1. <<t>> \in Seq(Packets \cup {0}) /\ <<t>> # <<>>
    OBVIOUS
  <2>2. 0 \in Versions
    BY DataAssumption DEF DataAssumption, Versions
  <2>3. e \in Slot
    BY <2>1, <2>2, Zenon DEF Slot
  <2> QED  BY <2>3, Zenon
<1>4. mshrs' = [mshrs EXCEPT ![m] = e] /\ freeList' = Tail(freeList)
  BY Zenon DEF allocateMissBuffer
<1> HIDE DEF e
<1>5. mshrs \in [MSHRs -> Slot]
  BY Zenon DEF Types
<1>6. /\ mshrs' \in [MSHRs -> Slot] /\ mshrs'[m] = e
      /\ \A n \in MSHRs : n # m => mshrs'[n] = mshrs[n]
  BY <1>1, <1>3, <1>4, <1>5, Zenon
<1>7. FreeOnce'
  <2>1. /\ freeList' \in Seq(MSHRs) /\ Len(freeList') = Len(freeList) - 1
        /\ \A i \in 1 .. Len(freeList') : freeList'[i] = freeList[i + 1]
    BY <1>1, <1>4
  <2>2. \A i \in 1 .. Len(freeList') :
          /\ i + 1 \in 1 .. Len(freeList) /\ freeList'[i] = freeList[i + 1]
          /\ freeList[i + 1] \in MSHRs /\ freeList[i + 1] # freeList[1]
          /\ ~Allocated(freeList[i + 1])
    BY <1>1, <2>1 DEF FreeOnce
  <2>3. \A i \in 1 .. Len(freeList') : ~Allocated(freeList[i])'
    BY <1>1, <1>6, <2>2 DEF Allocated
  <2>4. \A i, j \in 1 .. Len(freeList') : freeList'[i] = freeList'[j] => i = j
    <3> SUFFICES ASSUME NEW i \in 1 .. Len(freeList'), NEW j \in 1 .. Len(freeList'),
                        freeList'[i] = freeList'[j]
                 PROVE  i = j
      BY Zenon
    <3>1. freeList[i + 1] = freeList[j + 1]
      BY <2>2, Zenon
    <3>2. i + 1 = j + 1
      BY <3>1, <2>2, Zenon DEF FreeOnce
    <3> QED  BY <3>2
  <2> QED  BY <2>1, <2>3, <2>4, Zenon DEF FreeOnce
<1>8. \A n \in MSHRs : \A c \in Blocks :
        Serves(n, c)' <=> (n = m /\ c = b) \/ Serves(n, c)
  BY <1>1, <1>2, <1>3, <1>6, BlockNumbers, Zenon DEF Serves, Allocated
<1>9. ~Sent(m)'
  BY <1>3, <1>6, Zenon DEF Sent
<1>10. Waiting(m)' = {t} \ {0}
  <2>1. Waiting(m)' = {mshrs'[m].targets[i] : i \in DOMAIN mshrs'[m].targets} \ {0}
    BY Zenon DEF Waiting
  <2>2. mshrs'[m].targets = <<t>>
    BY <1>3, <1>6, Zenon
  <2>3. Waiting(m)' = {<<t>>[i] : i \in DOMAIN <<t>>} \ {0}
    BY <2>1, <2>2, Zenon
  <2>4. DOMAIN <<t>> = {1} /\ <<t>>[1] = t
    OBVIOUS
  <2> QED  BY <2>3, <2>4, Zenon
<1>11. \A n \in MSHRs : n # m => Waiting(n)' = Waiting(n)
  BY <1>6, Zenon DEF Waiting
<1>12. mshrs'[m].blk = b /\ (t = 0 => Cloned(m)')
  <2>1. <<t>> # <<>> /\ <<t>>[1] = t
    OBVIOUS
  <2> QED  BY <2>1, <1>3, <1>6, Zenon DEF Cloned
<1> QED  BY <1>1, <1>2, <1>6, <1>7, <1>8, <1>9, <1>10, <1>11, <1>12, Zenon

\* deallocate gives the entry of block b back.
LEMMA Deallocates ==
  ASSUME Types, FreeOnce, NEW m \in MSHRs, deallocate(m)
  PROVE  /\ mshrs' \in [MSHRs -> Slot] /\ FreeOnce'
         /\ \A n \in MSHRs : \A c \in Blocks :
              Serves(n, c)' <=> n # m /\ Serves(n, c)
         /\ \A n \in MSHRs : n # m => mshrs'[n] = mshrs[n]
         /\ Waiting(m)' = {} /\ ~Allocated(m)'
         /\ \A n \in MSHRs : n # m => Waiting(n)' = Waiting(n)
<1>1. mshrs' = [mshrs EXCEPT ![m] = Free] /\ freeList' = <<m>> \o freeList
  BY Zenon DEF deallocate
<1>2. mshrs \in [MSHRs -> Slot]
  BY Zenon DEF Types
<1>3. /\ mshrs' \in [MSHRs -> Slot] /\ mshrs'[m] = Free
      /\ \A n \in MSHRs : n # m => mshrs'[n] = mshrs[n]
  <2>1. Free \in Slot
    <3>1. 0 \in Versions
      BY DataAssumption DEF DataAssumption, Versions
    <3>2. <<>> \in Seq(Packets \cup {0})
      OBVIOUS
    <3> QED  BY <3>1, <3>2, Zenon DEF Free, Slot, Contexts
  <2> QED  BY <1>1, <1>2, <2>1, Zenon
<1>8. ~Allocated(m)'
  BY <1>3 DEF Allocated, Free
<1>4. FreeOnce'
  <2>1. /\ freeList \in Seq(MSHRs) /\ Len(freeList) \in Nat
        /\ \A i \in 1 .. Len(freeList) : /\ freeList[i] \in MSHRs /\ freeList[i] # m
                                         /\ ~Allocated(freeList[i])
        /\ \A i, j \in 1 .. Len(freeList) : freeList[i] = freeList[j] => i = j
    BY DEF FreeOnce, deallocate
  <2>2. /\ freeList' \in Seq(MSHRs) /\ Len(freeList') = Len(freeList) + 1
        /\ freeList'[1] = m
        /\ \A i \in 2 .. Len(freeList') : /\ freeList'[i] = freeList[i - 1]
                                          /\ i - 1 \in 1 .. Len(freeList)
    BY <1>1, <2>1
  <2>3. \A i \in 1 .. Len(freeList') : i = 1 \/ i \in 2 .. Len(freeList')
    BY <2>1, <2>2
  <2>4. \A i \in 2 .. Len(freeList') : freeList'[i] # m /\ ~Allocated(freeList[i])'
    BY <2>1, <2>2, <1>3 DEF Allocated
  <2>5. \A i \in 1 .. Len(freeList') : ~Allocated(freeList[i])'
    BY <2>2, <2>3, <2>4, <1>8, Zenon
  <2>6. \A i, j \in 2 .. Len(freeList') : freeList'[i] = freeList'[j] => i = j
    <3> SUFFICES ASSUME NEW i \in 2 .. Len(freeList'), NEW j \in 2 .. Len(freeList'),
                        freeList'[i] = freeList'[j]
                 PROVE  i = j
      BY Zenon
    <3>1. i - 1 = j - 1
      BY <2>1, <2>2
    <3> QED  BY <3>1
  <2>7. \A i, j \in 1 .. Len(freeList') : freeList'[i] = freeList'[j] => i = j
    BY <2>2, <2>3, <2>4, <2>6, Zenon
  <2> QED  BY <2>2, <2>5, <2>7, Zenon DEF FreeOnce
<1>5. \A n \in MSHRs : \A c \in Blocks : Serves(n, c)' <=> n # m /\ Serves(n, c)
  BY <1>3, <1>8, BlockNumbers, Zenon DEF Serves, Allocated
<1>6. Waiting(m)' = {}
  <2>1. mshrs'[m].targets = <<>> /\ DOMAIN <<>> = {}
    BY <1>3 DEF Free
  <2> QED  BY <2>1, Zenon DEF Waiting
<1>7. \A n \in MSHRs : n # m => Waiting(n)' = Waiting(n)
  BY <1>3, Zenon DEF Waiting
<1> QED  BY <1>3, <1>4, <1>5, <1>6, <1>7, <1>8, Zenon

\* A step that keeps the entries' blocks keeps what they serve and the free list.
LEMMA SameServes ==
  ASSUME FreeOnce, UNCHANGED freeList,
         \A n \in MSHRs : mshrs'[n].blk = mshrs[n].blk
  PROVE  /\ FreeOnce'
         /\ \A n \in MSHRs : \A c \in Blocks : Serves(n, c)' <=> Serves(n, c)
<1>1. \A i \in 1 .. Len(freeList) : freeList[i] \in MSHRs
  BY DEF FreeOnce
<1> QED  BY <1>1, Zenon DEF FreeOnce, Serves, Allocated

\* allocateTarget adds a packet to an entry.
LEMMA AddsTarget ==
  ASSUME Types, FreeOnce, NEW m \in MSHRs, NEW p \in Packets,
         allocateTarget(m, p)
  PROVE  /\ mshrs' \in [MSHRs -> Slot] /\ FreeOnce'
         /\ \A n \in MSHRs : \A c \in Blocks : Serves(n, c)' <=> Serves(n, c)
         /\ \A n \in MSHRs : Stays(n) /\ mshrs'[n].blk = mshrs[n].blk
         /\ Waiting(m)' = Waiting(m) \cup {p}
         /\ \A n \in MSHRs : n # m => Waiting(n)' = Waiting(n)
<1>1. mshrs[m] \in Slot
  BY Kinds, Zenon DEF KindsOK
<1> DEFINE s == mshrs[m].targets
           e == [mshrs[m] EXCEPT !.targets = Append(s, p)]
<1>2. s \in Seq(Packets \cup {0})
  BY <1>1, Zenon DEF Slot
<1>a. p \in Packets \cup {0}
  BY Zenon
<1> HIDE DEF s
<1>3. /\ Append(s, p) \in Seq(Packets \cup {0}) /\ Append(s, p) # <<>>
      /\ Len(s) \in Nat /\ DOMAIN s = 1 .. Len(s)
      /\ DOMAIN Append(s, p) = 1 .. Len(s) + 1
      /\ \A i \in 1 .. Len(s) : Append(s, p)[i] = s[i]
      /\ Append(s, p)[Len(s) + 1] = p
  <2>1. Extends(Append(s, p), s, p, Packets \cup {0})
    BY <1>2, <1>a, AppendProperties, Zenon
  <2> QED  BY <2>1, Zenon DEF Extends
<1>4. e \in Slot /\ e.blk = mshrs[m].blk /\ e.targets = Append(s, p)
      /\ e.inService = mshrs[m].inService
  BY <1>1, <1>3, Zenon DEF Slot
<1>5. mshrs' = [mshrs EXCEPT ![m] = e] /\ UNCHANGED freeList
  BY Zenon DEF allocateTarget, s
<1> HIDE DEF e
<1>6. mshrs \in [MSHRs -> Slot]
  BY Zenon DEF Types
<1>7. /\ mshrs' \in [MSHRs -> Slot] /\ mshrs'[m] = e
      /\ \A n \in MSHRs : n # m => mshrs'[n] = mshrs[n]
  BY <1>4, <1>5, <1>6, Zenon
<1>8. \A n \in MSHRs : mshrs'[n].blk = mshrs[n].blk
  BY <1>4, <1>7, Zenon
<1>9. /\ FreeOnce'
      /\ \A n \in MSHRs : \A c \in Blocks : Serves(n, c)' <=> Serves(n, c)
  BY <1>5, <1>8, SameServes, Zenon
<1>10. ASSUME NEW n \in MSHRs
       PROVE  Stays(n)
  <2>1. CASE n # m
    BY <2>1, <1>7, Zenon DEF Stays, Sent, Cloned
  <2>2. CASE n = m
    <3>1. Sent(m)' <=> Sent(m)
      BY <1>4, <1>7, Zenon DEF Sent
    <3>2. s # <<>> => 1 \in 1 .. Len(s)
      BY <1>2
    <3>3. s # <<>> => Append(s, p) # <<>> /\ Append(s, p)[1] = s[1]
      BY <1>3, <3>2, Zenon
    <3>4. Cloned(m) => Cloned(m)'
      BY <1>4, <1>7, <3>3, Zenon DEF Cloned, s
    <3> QED  BY <2>2, <3>1, <3>4, Zenon DEF Stays
  <2> QED  BY <2>1, <2>2, Zenon
<1>11. Waiting(m)' = Waiting(m) \cup {p}
  <2>1. Waiting(m)' = {Append(s, p)[i] : i \in DOMAIN Append(s, p)} \ {0}
    BY <1>4, <1>7, Zenon DEF Waiting
  <2>2. Waiting(m) = {s[i] : i \in DOMAIN s} \ {0}
    BY Zenon DEF Waiting, s
  <2>3. p # 0
    BY DataAssumption, Zenon DEF DataAssumption
  <2>4. {Append(s, p)[i] : i \in 1 .. Len(s) + 1} = {s[i] : i \in 1 .. Len(s)} \cup {p}
    BY <1>3
  <2> QED  BY <2>1, <2>2, <2>3, <2>4, <1>3, Zenon
<1>12. \A n \in MSHRs : n # m => Waiting(n)' = Waiting(n)
  BY <1>7, Zenon DEF Waiting
<1> QED  BY <1>7, <1>8, <1>9, <1>10, <1>11, <1>12, Zenon

-----------------------------------------------------------------------------
(***************************************************************************)
(* Packets, targets, parallel accesses and reads: what keeps each part     *)
(***************************************************************************)

\* Step facts about packets: the packet p gets the request r.
LEMMA Accepts ==
  ASSUME Types, NEW p \in Packets, NEW r \in ReadPkt \cup WritePkt,
         pkts' = [pkts EXCEPT ![p] = r]
  PROVE  /\ pkts' \in [Packets -> {NoPkt} \cup ReadPkt \cup WritePkt]
         /\ pkts'[p] = r
         /\ \A q \in Packets : q # p => pkts'[q] = pkts[q]
BY Zenon DEF Types

\* respond() frees the packets of ps.
LEMMA Responds ==
  ASSUME Types, NEW ps, NEW b \in Blocks, NEW v, Respond(ps, b, v)
  PROVE  /\ pkts' \in [Packets -> {NoPkt} \cup ReadPkt \cup WritePkt]
         /\ \A q \in Packets : pkts'[q] = IF q \in ps THEN NoPkt ELSE pkts[q]
         /\ ps = {} => pkts' = pkts
         /\ stale' \in SUBSET Blocks
<1>1. /\ pkts \in [Packets -> {NoPkt} \cup ReadPkt \cup WritePkt]
      /\ stale \in SUBSET Blocks
  BY Zenon DEF Types
<1>2. pkts' = [q \in Packets |-> IF q \in ps THEN NoPkt ELSE pkts[q]]
  BY Zenon DEF Respond
<1>3. stale' \in SUBSET Blocks
  BY <1>1, Zenon DEF Respond
<1>4. /\ pkts' \in [Packets -> {NoPkt} \cup ReadPkt \cup WritePkt]
      /\ \A q \in Packets : pkts'[q] = IF q \in ps THEN NoPkt ELSE pkts[q]
  BY <1>1, <1>2, Zenon
<1>5. ps = {} => pkts' = pkts
  BY <1>1, <1>2, Zenon
<1> QED  BY <1>3, <1>4, <1>5, Zenon

\* The packets that wait in an entry are reads of a block.
LEMMA HeldPackets ==
  ASSUME Types, Held, NEW m \in MSHRs, NEW p \in Waiting(m)
  PROVE  /\ p \in Packets /\ InMSHR(p) /\ pkts[p] \in ReadPkt /\ pkts[p].cmd = "read"
         /\ pkts[p].blk \in Blocks /\ ~QueuedRead(p) /\ pkts[p] # NoPkt
         /\ \A n \in MSHRs : p \in Waiting(n) => n = m
<1>1. p \in Packets /\ InMSHR(p) /\ \A n \in MSHRs : p \in Waiting(n) => n = m
  BY WaitingTargets, Zenon DEF Held
<1>2. pkts[p] \in ReadPkt /\ pkts[p].cmd = "read" /\ pkts[p] # NoPkt
  BY <1>1, Kinds, Zenon DEF KindsOK, InMSHR
<1>3. ~QueuedRead(p)
  BY <1>1 DEF InMSHR, QueuedRead
<1> QED  BY <1>1, <1>2, <1>3, Zenon DEF ReadPkt

\* At the end of a parallel access its targets and the packets of ps are free; a
\* packet in the place of the clone is lost.
LEMMA RespondsTargets ==
  ASSUME Types, Held, NEW m \in MSHRs, NEW ps \in SUBSET Packets, NEW right,
         RespondTargets(ps, m, right)
  PROVE  /\ pkts' \in [Packets -> {NoPkt} \cup ReadPkt \cup WritePkt]
         /\ \A q \in Packets : q \notin ps \cup Waiting(m) => pkts'[q] = pkts[q]
         /\ Cloned(m) => \A q \in Packets :
              pkts'[q] = IF q \in ps \cup Waiting(m) THEN NoPkt ELSE pkts[q]
         /\ stale' \in SUBSET Blocks
<1> DEFINE s == mshrs[m].targets
           r == {s[i] : i \in 2 .. Len(s)}
           x(q) == IF q = s[1] THEN [pkts[q] EXCEPT !.at = "deleted"]
                   ELSE IF q \in ps \cup r THEN NoPkt ELSE pkts[q]
<1>1. /\ s # <<>> /\ pkts' = [q \in Packets |-> x(q)]
      /\ stale' = stale \cup ({b \in Blocks : \E q \in ps \cup r : pkts[q].blk = b} \ right)
  BY Zenon DEF RespondTargets
<1>2. Waiting(m) = ({s[1]} \cup r) \ {0}
  BY <1>1, WaitingTargets, Zenon
<1>3. \A q \in Packets : q # 0
  BY DataAssumption, Zenon DEF DataAssumption
<1>4. stale' \in SUBSET Blocks
  BY <1>1, Zenon DEF Types
<1> HIDE DEF r
<1>5. \A q \in Packets : q \notin ps \cup Waiting(m) => x(q) = pkts[q]
  BY <1>2, <1>3, Zenon
<1>6. Cloned(m) => \A q \in Packets :
        x(q) = IF q \in ps \cup Waiting(m) THEN NoPkt ELSE pkts[q]
  BY <1>2, <1>3, Zenon DEF Cloned
<1>7. ASSUME NEW q \in Packets
      PROVE  x(q) \in {NoPkt} \cup ReadPkt \cup WritePkt
  <2>1. CASE q = s[1]
    <3>1. q \in Waiting(m)
      BY <2>1, <1>2, <1>3, Zenon
    <3>2. pkts[q] \in ReadPkt
      BY <3>1, HeldPackets, Zenon
    <3>3. [pkts[q] EXCEPT !.at = "deleted"] \in ReadPkt
      BY <3>2, Zenon DEF ReadPkt
    <3> QED  BY <2>1, <3>3, Zenon
  <2>2. CASE q # s[1]
    <3>1. pkts[q] \in {NoPkt} \cup ReadPkt \cup WritePkt
      BY Zenon DEF Types
    <3> QED  BY <2>2, <3>1, Zenon
  <2> QED  BY <2>1, <2>2, Zenon
<1> HIDE DEF x
<1>8. /\ pkts' \in [Packets -> {NoPkt} \cup ReadPkt \cup WritePkt]
      /\ \A q \in Packets : pkts'[q] = x(q)
  BY <1>1, <1>7, Zenon
<1> QED  BY <1>4, <1>5, <1>6, <1>8, Zenon

\* Requests that end, or stay with their command and block, leave writes alone.
LEMMA AloneKept ==
  ASSUME Types, Alone, Types',
         \A q \in Packets : \/ pkts'[q] = NoPkt
                            \/ pkts'[q].cmd = pkts[q].cmd /\ pkts'[q].blk = pkts[q].blk
  PROVE  Alone'
<1> SUFFICES ASSUME NEW p \in Packets, NEW q \in Packets, pkts'[p].cmd = "write",
                    pkts'[q] # NoPkt, pkts'[q].blk = pkts'[p].blk
             PROVE  q = p
  BY Zenon DEF Alone
<1>1. pkts'[p] # NoPkt
  BY DEF NoPkt
<1>2. /\ pkts[p].cmd = "write" /\ pkts[p].blk = pkts'[p].blk
      /\ pkts[q].cmd = pkts'[q].cmd /\ pkts[q].blk = pkts'[q].blk
  BY <1>1, Zenon
<1>3. pkts'[q].cmd # "none"
  BY KindsNext, Zenon DEF KindsOK
<1>4. pkts[q] # NoPkt
  BY <1>2, <1>3 DEF NoPkt
<1> QED  BY <1>2, <1>4, Zenon DEF Alone

\* The requester keeps a write alone on its block.
LEMMA AloneAccepts ==
  ASSUME Types, Alone, NEW p \in Packets, NEW b \in Blocks, MayRead(p, b),
         pkts'[p].blk = b,
         \A q \in Packets : q # p => pkts'[q] = pkts[q],
         pkts'[p].cmd = "read" \/ (pkts'[p].cmd = "write" /\ Outstanding(b) = {})
  PROVE  Alone'
<1> SUFFICES ASSUME NEW x \in Packets, NEW y \in Packets, pkts'[x].cmd = "write",
                    pkts'[y] # NoPkt, pkts'[y].blk = pkts'[x].blk, y # x
             PROVE  FALSE
  BY Zenon DEF Alone
<1>1. CASE x # p /\ y # p
  BY <1>1, Zenon DEF Alone
<1>2. CASE x = p
  <2>1. Outstanding(b) = {} /\ pkts[y] # NoPkt /\ pkts[y].blk = b
    BY <1>2, Zenon
  <2> QED  BY <2>1, Zenon DEF Outstanding
<1>3. CASE y = p /\ x # p
  <2>1. pkts[x].cmd = "write" /\ pkts[x].blk = b
    BY <1>3, Zenon
  <2>2. pkts[x] # NoPkt
    BY <2>1 DEF NoPkt
  <2> QED  BY <2>1, <2>2, Zenon DEF MayRead, Outstanding
<1> QED  BY <1>1, <1>2, <1>3, Zenon

\* Packets that still wait in an entry do so for the block they did.
LEMMA TargetsKept ==
  ASSUME Base, Targets,
         \A n \in MSHRs : \A q \in Waiting(n)' :
           q \in Waiting(n) /\ pkts'[q].blk = pkts[q].blk,
         \A n \in MSHRs : \A c \in Blocks :
           Waiting(n)' # {} /\ Serves(n, c) => Serves(n, c)'
  PROVE  Targets'
<1> SUFFICES ASSUME NEW n \in MSHRs, NEW q \in Waiting(n)'
             PROVE  Serves(n, pkts[q].blk)'
  BY Zenon DEF Targets
<1>1. q \in Waiting(n) /\ pkts'[q].blk = pkts[q].blk /\ Serves(n, pkts[q].blk)
  BY Zenon DEF Targets
<1>2. pkts[q].blk \in Blocks
  BY <1>1, HeldPackets, Zenon DEF Base
<1>3. Serves(n, pkts[q].blk)'
  BY <1>1, <1>2, Zenon
<1> QED  BY <1>1, <1>3, Zenon

\* A read joins the entry m of its block, new or not.
LEMMA TargetAdded ==
  ASSUME Base, Targets, NEW m \in MSHRs, NEW b \in Blocks, NEW p \in Packets,
         Waiting(m)' = Waiting(m) \cup {p},
         \A n \in MSHRs : n # m => Waiting(n)' = Waiting(n),
         \A n \in MSHRs : \A c \in Blocks :
           Serves(n, c)' <=> (n = m /\ c = b) \/ Serves(n, c),
         ~InMSHR(p), pkts'[p].blk = b,
         \A q \in Packets : q # p => pkts'[q] = pkts[q]
  PROVE  Targets'
<1> SUFFICES ASSUME NEW n \in MSHRs, NEW q \in Waiting(n)'
             PROVE  Serves(n, pkts[q].blk)'
  BY Zenon DEF Targets
<1>1. CASE n = m /\ q = p
  BY <1>1, Zenon
<1>2. CASE q \in Waiting(n)
  <2>1. q \in Packets /\ InMSHR(q) /\ pkts[q].blk \in Blocks
    BY <1>2, HeldPackets, Zenon DEF Base
  <2>2. Serves(n, pkts[q].blk) /\ pkts'[q] = pkts[q]
    BY <1>2, <2>1, Zenon DEF Targets
  <2>3. Serves(n, pkts[q].blk)'
    BY <2>1, <2>2, Zenon
  <2> QED  BY <2>2, <2>3, Zenon
<1> QED  BY <1>1, <1>2, Zenon

-----------------------------------------------------------------------------
(***************************************************************************)
(* What keeps the base                                                     *)
(***************************************************************************)

\* The parallel access of b is still before its tag check, for the same packet.
KeepsPam(b) ==
  pamQueue[b].isHit = "unknown" => /\ pamQueue'[b].isHit = "unknown"
                                   /\ pamQueue'[b].mshr = pamQueue[b].mshr
                                   /\ pamQueue'[b].pkt = pamQueue[b].pkt

\* The packet may be what an entry is kept for.
Owning(q) == InMSHR(q) \/ (QueuedRead(q) /\ IsPamPacket(q))

\* An entry's read goes on owning it when it, the entry and the parallel access stay.
LEMMA OwnerKept ==
  ASSUME NEW n \in MSHRs, NEW q \in Packets, Owner(n, q),
         mshrs'[n].blk = mshrs[n].blk, pkts'[q] = pkts[q],
         q \in Waiting(n) => q \in Waiting(n)',
         q \in Waiting(n) \/ KeepsPam(mshrs[n].blk)
  PROVE  Owner(n, q)'
BY Zenon DEF Owner, KeepsPam, QueuedRead

\* What an owner is.
LEMMA Owners ==
  ASSUME Base, NEW n \in MSHRs, NEW q \in Packets, Owner(n, q), Allocated(n)
  PROVE  /\ Owning(q) /\ mshrs[n].blk \in Blocks /\ pkts[q].blk = mshrs[n].blk
         /\ \/ q \in Waiting(n) /\ InMSHR(q)
            \/ /\ QueuedRead(q) /\ ~InMSHR(q) /\ IsPamPacket(q)
               /\ pamQueue[mshrs[n].blk].mshr = n /\ pamQueue[mshrs[n].blk].pkt = q
<1>1. mshrs[n].blk \in Blocks /\ pkts[q].blk = mshrs[n].blk
  BY Kinds, Zenon DEF Base, KindsOK, Owner
<1>2. CASE q \in Waiting(n)
  BY <1>1, <1>2, HeldPackets, Zenon DEF Base, Owning
<1>3. CASE q \notin Waiting(n)
  <2>1. /\ QueuedRead(q) /\ pamQueue[mshrs[n].blk].isHit = "unknown"
        /\ pamQueue[mshrs[n].blk].mshr = n /\ pamQueue[mshrs[n].blk].pkt = q
    BY <1>3, Zenon DEF Owner
  <2>2. pamQueue[mshrs[n].blk] # NoPam
    BY <2>1 DEF NoPam
  <2>3. ~InMSHR(q)
    BY <2>1 DEF QueuedRead, InMSHR
  <2> QED  BY <1>1, <2>1, <2>2, <2>3, Zenon DEF IsPamPacket, Owning
<1> QED  BY <1>2, <1>3, Zenon

\* The packets that wait still do, and at most p does so anew, in m.
LEMMA HeldKept ==
  ASSUME Held, NEW m, NEW p,
         \A n \in MSHRs : \A q \in Waiting(n)' :
           /\ InMSHR(q)'
           /\ q \in Waiting(n) \/ (n = m /\ q = p /\ ~InMSHR(p))
  PROVE  Held'
<1> SUFFICES ASSUME NEW n \in MSHRs, NEW q \in Waiting(n)',
                    NEW k \in MSHRs, q \in Waiting(k)'
             PROVE  k = n
  BY Zenon DEF Held
<1>1. /\ q \in Waiting(n) \/ (n = m /\ q = p /\ ~InMSHR(p))
      /\ q \in Waiting(k) \/ (k = m /\ q = p /\ ~InMSHR(p))
  BY Zenon
<1>2. CASE q \in Waiting(n) /\ q \in Waiting(k)
  BY <1>2, Zenon DEF Held
<1>3. CASE q \in Waiting(n) /\ k = m /\ q = p /\ ~InMSHR(p)
  BY <1>3, Zenon DEF Held
<1>4. CASE q \in Waiting(k) /\ n = m /\ q = p /\ ~InMSHR(p)
  BY <1>4, Zenon DEF Held
<1> QED  BY <1>1, <1>2, <1>3, <1>4, Zenon

\* The entries and their targets stay, and so do the packets they are kept for.
LEMMA BaseKept ==
  ASSUME Base, Types', FreeOnce',
         \A n \in MSHRs : mshrs'[n].blk = mshrs[n].blk /\ Waiting(n)' = Waiting(n),
         \A q \in Packets : Owning(q) => pkts'[q] = pkts[q],
         \A c \in Blocks : KeepsPam(c)
  PROVE  Base'
<1>1. Held'
  <2> SUFFICES ASSUME NEW n \in MSHRs, NEW q \in Waiting(n)'
               PROVE  InMSHR(q)' /\ q \in Waiting(n)
    BY HeldKept, Zenon DEF Base
  <2>1. q \in Waiting(n)
    BY Zenon
  <2>2. q \in Packets /\ InMSHR(q)
    BY <2>1, HeldPackets, Zenon DEF Base
  <2> QED  BY <2>1, <2>2, Zenon DEF InMSHR, Owning
<1>2. ASSUME NEW n \in MSHRs, Allocated(n)'
      PROVE  \E q \in Packets : Owner(n, q)'
  <2>1. Allocated(n)
    BY <1>2, Zenon DEF Allocated
  <2>2. PICK q \in Packets : Owner(n, q)
    BY <2>1, Zenon DEF Base, Owned
  <2>3. Owning(q) /\ mshrs[n].blk \in Blocks
    BY <2>1, <2>2, Owners, Zenon
  <2>4. Owner(n, q)'
    BY <2>2, <2>3, OwnerKept, Zenon
  <2> QED  BY <2>4, Zenon
<1> QED  BY <1>1, <1>2, Zenon DEF Base, Owned

\* The packet p joins the entry m, which may be new.
LEMMA BaseJoined ==
  ASSUME Base, Types', FreeOnce', NEW m \in MSHRs, NEW p \in Packets,
         ~InMSHR(p), InMSHR(p)', Waiting(m)' = Waiting(m) \cup {p},
         \A n \in MSHRs : n # m => Waiting(n)' = Waiting(n),
         \A n \in MSHRs : Allocated(n) => mshrs'[n].blk = mshrs[n].blk,
         \A n \in MSHRs : Allocated(n)' =>
           Allocated(n) \/ (n = m /\ pkts'[p].blk = mshrs'[m].blk),
         \A q \in Packets : q # p => pkts'[q] = pkts[q],
         \A n \in MSHRs : Allocated(n) /\ Owner(n, p) =>
           n = m /\ pkts'[p].blk = pkts[p].blk,
         \A c \in Blocks : KeepsPam(c) \/ pamQueue[c].pkt = p
  PROVE  Base'
<1>1. Held'
  <2>1. ASSUME NEW n \in MSHRs, NEW q \in Waiting(n)'
        PROVE  InMSHR(q)' /\ (q \in Waiting(n) \/ (n = m /\ q = p /\ ~InMSHR(p)))
    <3>1. CASE n = m /\ q = p
      BY <3>1, Zenon
    <3>2. CASE q \in Waiting(n)
      <4>1. q \in Packets /\ InMSHR(q)
        BY <3>2, HeldPackets, Zenon DEF Base
      <4>2. pkts'[q] = pkts[q]
        BY <4>1, Zenon
      <4> QED  BY <3>2, <4>1, <4>2, Zenon DEF InMSHR
    <3>3. CASE n = m /\ q # p
      <4>1. q \in Waiting(m)'
        BY <3>3, <2>1, Zenon
      <4>2. q \in Waiting(n)
        BY <3>3, <4>1
      <4> QED  BY <3>2, <4>2, Zenon
    <3>4. CASE n # m
      <4>1. q \in Waiting(n)
        BY <3>4, <2>1, Zenon
      <4> QED  BY <3>2, <4>1, Zenon
    <3> QED  BY <3>1, <3>3, <3>4
  <2>2. Held
    BY Zenon DEF Base
  <2> QED  BY <2>1, <2>2, HeldKept
<1>2. ASSUME NEW n \in MSHRs, Allocated(n)'
      PROVE  \E q \in Packets : Owner(n, q)'
  <2>0. pkts'[p].cmd = "read" /\ p \in Waiting(m)'
    BY Zenon DEF InMSHR
  <2>1. CASE ~Allocated(n)
    <3>1. n = m /\ pkts'[p].blk = mshrs'[m].blk
      BY <1>2, <2>1, Zenon
    <3>2. Owner(m, p)'
      BY <2>0, <3>1, Zenon DEF Owner
    <3> QED  BY <3>1, <3>2, Zenon
  <2>2. CASE Allocated(n)
    <3>1. PICK q \in Packets : Owner(n, q)
      BY <2>2, Zenon DEF Base, Owned
    <3>2. mshrs[n].blk \in Blocks /\ pkts[q].blk = mshrs[n].blk
      BY <2>2, <3>1, Owners, Zenon
    <3>3. CASE q = p
      <4>1. n = m /\ pkts'[p].blk = mshrs'[m].blk
        BY <2>2, <3>1, <3>2, <3>3, Zenon
      <4>2. Owner(m, p)'
        BY <2>0, <4>1, Zenon DEF Owner
      <4> QED  BY <4>1, <4>2, Zenon
    <3>4. CASE q # p
      <4>0. q \in Waiting(n) \/ pamQueue[mshrs[n].blk].pkt = q
        BY <2>2, <3>1, Owners, Zenon
      <4>1. q \in Waiting(n) \/ KeepsPam(mshrs[n].blk)
        BY <4>0, <3>2, <3>4, Zenon
      <4>2. q \in Waiting(n) => q \in Waiting(n)'
        BY Zenon
      <4>3. Owner(n, q)'
        BY <2>2, <3>1, <3>4, <4>1, <4>2, OwnerKept, Zenon
      <4> QED  BY <4>3, Zenon
    <3> QED  BY <3>3, <3>4, Zenon
  <2> QED  BY <2>1, <2>2, Zenon
<1> QED  BY <1>1, <1>2, Zenon DEF Base, Owned

\* The entry m is given back; its targets and the packet of its parallel access
\* may change.
LEMMA BaseCleared ==
  ASSUME Base, Types', NEW m \in MSHRs, deallocate(m), NEW ps,
         \A q \in ps : \/ q \in Waiting(m)
                       \/ /\ QueuedRead(q) /\ pamQueue[pkts[q].blk].mshr = m,
         \A q \in Packets : q \notin ps => pkts'[q] = pkts[q],
         \A c \in Blocks : KeepsPam(c) \/ pamQueue[c].mshr = m
  PROVE  Base'
<1>1. /\ FreeOnce' /\ ~Allocated(m)' /\ Waiting(m)' = {}
      /\ \A n \in MSHRs : n # m => mshrs'[n] = mshrs[n] /\ Waiting(n)' = Waiting(n)
  BY Deallocates, Zenon DEF Base
<1>2. Held'
  <2> SUFFICES ASSUME NEW n \in MSHRs, NEW q \in Waiting(n)'
               PROVE  InMSHR(q)' /\ q \in Waiting(n)
    BY HeldKept, Zenon DEF Base
  <2>1. n # m /\ q \in Waiting(n)
    BY <1>1, Zenon
  <2>2. q \in Packets /\ InMSHR(q) /\ ~QueuedRead(q) /\ q \notin Waiting(m)
    BY <2>1, HeldPackets, Zenon DEF Base
  <2>3. pkts'[q] = pkts[q]
    BY <2>2, Zenon
  <2> QED  BY <2>1, <2>2, <2>3, Zenon DEF InMSHR
<1>3. ASSUME NEW n \in MSHRs, Allocated(n)'
      PROVE  \E q \in Packets : Owner(n, q)'
  <2>1. n # m /\ Allocated(n) /\ mshrs'[n].blk = mshrs[n].blk
    BY <1>1, <1>3, Zenon DEF Allocated
  <2>2. PICK q \in Packets : Owner(n, q)
    BY <2>1, Zenon DEF Base, Owned
  <2>3. /\ mshrs[n].blk \in Blocks /\ pkts[q].blk = mshrs[n].blk
        /\ \/ q \in Waiting(n) /\ InMSHR(q)
           \/ /\ QueuedRead(q) /\ ~InMSHR(q) /\ pamQueue[mshrs[n].blk].mshr = n
    BY <2>1, <2>2, Owners, Zenon
  <2>4. q \notin ps
    <3>1. CASE q \in Waiting(n)
      <4>1. ~QueuedRead(q) /\ q \notin Waiting(m)
        BY <3>1, <2>1, HeldPackets, Zenon DEF Base
      <4> QED  BY <4>1, Zenon
    <3>2. CASE QueuedRead(q) /\ ~InMSHR(q) /\ pamQueue[mshrs[n].blk].mshr = n
      <4>1. q \notin Waiting(m)
        BY <3>2, HeldPackets, Zenon DEF Base
      <4> QED  BY <3>2, <4>1, <2>1, <2>3, Zenon
    <3> QED  BY <2>3, <3>1, <3>2, Zenon
  <2>5. q \in Waiting(n) \/ KeepsPam(mshrs[n].blk)
    BY <2>1, <2>3, Zenon
  <2>6. q \in Waiting(n) => q \in Waiting(n)'
    BY <1>1, <2>1, Zenon
  <2>7. Owner(n, q)'
    BY <2>1, <2>2, <2>4, <2>5, <2>6, OwnerKept, Zenon
  <2> QED  BY <2>7, Zenon
<1> QED  BY <1>1, <1>2, <1>3, Zenon DEF Base, Owned

-----------------------------------------------------------------------------
(***************************************************************************)
(* Facts about the steps                                                   *)
(***************************************************************************)

\* Packets, free list and parallel accesses stay, and so do the entries' targets.
LEMMA BaseSame ==
  ASSUME Base, Types', UNCHANGED <<pkts, freeList, pamQueue>>,
         \A n \in MSHRs : mshrs'[n].blk = mshrs[n].blk /\ Waiting(n)' = Waiting(n)
  PROVE  Base'
<1>1. FreeOnce'
  BY SameServes, Zenon DEF Base
<1>2. \A c \in Blocks : KeepsPam(c)
  BY Zenon DEF KeepsPam
<1> QED  BY <1>1, <1>2, BaseKept, Zenon

\* A step that leaves packets, MSHRs, parallel accesses and reads as they are.
LEMMA SameStructure ==
  ASSUME IInv, Base', UNCHANGED <<pkts, mshrs, pamQueue, memReads>>
  PROVE  IInv'
<1>1. /\ \A n : Waiting(n)' = Waiting(n)
      /\ \A n, c : (Serves(n, c)' <=> Serves(n, c)) /\ (Sent(n)' <=> Sent(n))
      /\ \A n : Stays(n)
      /\ \A c : AtMemory(c)' <=> AtMemory(c)
  BY Zenon DEF Waiting, Serves, Sent, Stays, Cloned, AtMemory, ReadOf
<1>2. OneMSHR' /\ Alone'
  BY <1>1, Zenon DEF IInv, OneMSHR, Alone
<1>3. Targets'
  BY <1>1, TargetsKept, Zenon DEF IInv
<1>4. Pams'
  BY <1>1, PamKept, Zenon DEF IInv, Pams
<1>5. Reads'
  BY <1>1, ReadsKept, Zenon DEF IInv, Base
<1> QED  BY <1>2, <1>3, <1>4, <1>5, Zenon DEF IInv

\* findMatch is the set of entries that serve the block.
LEMMA FindMatch ==
  ASSUME NEW b \in Blocks
  PROVE  \A m \in MSHRs : m \in findMatch(b) <=> Serves(m, b)
BY Zenon DEF findMatch, Serves

\* A read joins the entry of its block, or gets a new one.
Joins(p, b, ctx) ==
  IF findMatch(b) # {} THEN \E m \in findMatch(b) : allocateTarget(m, p)
                       ELSE allocateMissBuffer(b, ctx, p)

\* A read that joins is a target of its block's MSHR; the other entries stay.
LEMMA JoinsEntry ==
  ASSUME Types, FreeOnce, NEW p \in Packets, NEW b \in Blocks, NEW ctx \in Contexts, Joins(p, b, ctx)
  PROVE  /\ mshrs' \in [MSHRs -> Slot] /\ FreeOnce' /\ (OneMSHR => OneMSHR')
         /\ \E m \in MSHRs :
              /\ Serves(m, b)' /\ Waiting(m)' = Waiting(m) \cup {p}
              /\ \A n \in MSHRs : n # m => Waiting(n)' = Waiting(n)
              /\ \A n \in MSHRs : \A c \in Blocks :
                   Serves(n, c)' <=> (n = m /\ c = b) \/ Serves(n, c)
              /\ mshrs'[m].blk = b
              /\ \A n \in MSHRs : Allocated(n) => mshrs'[n].blk = mshrs[n].blk
              /\ \A n \in MSHRs : Allocated(n)' => Allocated(n) \/ n = m
         /\ \A n \in MSHRs : \A c \in Blocks :
              Serves(n, c) => Serves(n, c)' /\ Stays(n)
         /\ \A n \in MSHRs : \A c \in Blocks :
              Serves(n, c)' /\ ~Sent(n)' =>
                \/ Serves(n, c) /\ ~Sent(n)
                \/ \A k \in MSHRs : ~Serves(k, c)
<1>1. CASE findMatch(b) # {}
  <2>1. PICK m \in MSHRs : Serves(m, b) /\ allocateTarget(m, p)
    BY <1>1, FindMatch, Zenon DEF Joins, findMatch
  <2>3. /\ mshrs' \in [MSHRs -> Slot] /\ FreeOnce'
        /\ \A n \in MSHRs : \A c \in Blocks : Serves(n, c)' <=> Serves(n, c)
        /\ \A n \in MSHRs : Stays(n) /\ mshrs'[n].blk = mshrs[n].blk
        /\ Waiting(m)' = Waiting(m) \cup {p}
        /\ \A n \in MSHRs : n # m => Waiting(n)' = Waiting(n)
    BY <2>1, AddsTarget, Zenon
  <2>4. OneMSHR => OneMSHR'
    BY <2>3, OneKept, Zenon
  <2>5. /\ Serves(m, b)'
        /\ \A n \in MSHRs : \A c \in Blocks :
             Serves(n, c)' <=> (n = m /\ c = b) \/ Serves(n, c)
    BY <2>1, <2>3, Zenon
  <2>6. /\ mshrs'[m].blk = b
        /\ \A n \in MSHRs : Allocated(n)' => Allocated(n)
    BY <2>1, <2>3, Zenon DEF Serves, Allocated
  <2>7. \A n \in MSHRs : Sent(n)' <=> Sent(n)
    BY <2>3, Zenon DEF Stays
  <2> QED  BY <2>3, <2>4, <2>5, <2>6, <2>7, Zenon
<1>2. CASE findMatch(b) = {}
  <2>1. allocateMissBuffer(b, ctx, p) /\ p \in Packets \cup {0}
    BY <1>2, Zenon DEF Joins
  <2>2. PICK m \in MSHRs :
           /\ ~Allocated(m) /\ Waiting(m) = {}
           /\ mshrs' \in [MSHRs -> Slot] /\ FreeOnce'
           /\ \A n \in MSHRs : \A c \in Blocks :
                Serves(n, c)' <=> (n = m /\ c = b) \/ Serves(n, c)
           /\ \A n \in MSHRs : n # m => mshrs'[n] = mshrs[n]
           /\ ~Sent(m)' /\ Waiting(m)' = {p} \ {0} /\ mshrs'[m].blk = b
           /\ \A n \in MSHRs : n # m => Waiting(n)' = Waiting(n)
    BY <2>1, Allocates
  <2>3. \A n \in MSHRs : ~Serves(n, b)
    BY <1>2, FindMatch, Zenon
  <2>4. OneMSHR => OneMSHR'
    BY <2>2, <2>3, OneAdded, Zenon
  <2>5. Serves(m, b)' /\ Waiting(m)' = Waiting(m) \cup {p}
    <3>2. p # 0
      BY DataAssumption, Zenon DEF DataAssumption
    <3> QED  BY <2>2, <3>2, Zenon
  <2>6. \A n \in MSHRs : \A c \in Blocks :
          Serves(n, c) => n # m /\ Serves(n, c)' /\ Stays(n) /\ (Sent(n)' <=> Sent(n))
    BY <2>2, BlockNumbers, Zenon DEF Serves, Stays, Sent, Cloned, Allocated
  <2>7. \A n \in MSHRs : \A c \in Blocks :
          Serves(n, c)' /\ ~Sent(n)' =>
            \/ Serves(n, c) /\ ~Sent(n)
            \/ \A k \in MSHRs : ~Serves(k, c)
    BY <2>2, <2>3, <2>6, Zenon
  <2>8. /\ \A n \in MSHRs : Allocated(n) => mshrs'[n].blk = mshrs[n].blk
        /\ \A n \in MSHRs : Allocated(n)' => Allocated(n) \/ n = m
    BY <2>2, Zenon DEF Allocated
  <2> QED  BY <2>2, <2>4, <2>5, <2>6, <2>7, <2>8, Zenon
<1> QED  BY <1>1, <1>2, Zenon

\* The packet of a new request.
LEMMA Idle ==
  ASSUME NEW p \in Packets, NEW b \in Blocks, MayRead(p, b)
  PROVE  ~InMSHR(p) /\ ~QueuedRead(p) /\ pkts[p] = NoPkt /\ pkts[p].cmd = "none"
BY DEF MayRead, NoPkt, InMSHR, QueuedRead

\* What a read that waits for the cache's DRAM is.
LEMMA QueuedTypes ==
  ASSUME Types, NEW p \in Packets, QueuedRead(p)
  PROVE  /\ pkts[p] \in ReadPkt /\ pkts[p].blk \in Blocks /\ pkts[p].ctx \in Contexts
         /\ ~InMSHR(p) /\ pkts[p].cmd = "read" /\ pkts[p] # NoPkt
<1>1. pkts[p] \in ReadPkt /\ pkts[p].cmd = "read"
  BY Kinds, Zenon DEF KindsOK, QueuedRead
<1> QED  BY <1>1 DEF ReadPkt, QueuedRead, InMSHR, NoPkt

\* The packet of a parallel access comes before its tag check is known.
LEMMA PamPacket ==
  ASSUME IInv, NEW p \in Packets, QueuedRead(p), NEW b \in Blocks, pkts[p].blk = b,
         IsPamPacket(p)
  PROVE  /\ pamQueue[b] # NoPam /\ pamQueue[b] \in PamEntry
         /\ pamQueue[b].isHit = "unknown" /\ pamQueue[b].pkt = p
         /\ PamUnknown(b) /\ PamOK(b) /\ MAPI_PREDICTOR
         /\ pamQueue[b].mshr \in MSHRs /\ Serves(pamQueue[b].mshr, b)
         /\ Cloned(pamQueue[b].mshr)
<1>1. /\ pamQueue[b] # NoPam /\ pamQueue[b].pkt = p /\ PamOK(b)
  BY Zenon DEF IInv, Pams, IsPamPacket
<1>2. pamQueue[b] \in PamEntry
  BY <1>1, Kinds, Zenon DEF KindsOK, IInv, Base
<1>3. pamQueue[b].isHit \in {"unknown", "hit", "miss"}
  BY <1>2, Zenon DEF PamEntry
<1>4. ~InMSHR(p) /\ pkts[p] # NoPkt
  BY QueuedTypes, Zenon DEF IInv, Base
<1>5. pamQueue[b].isHit = "unknown"
  BY <1>1, <1>3, <1>4, Zenon DEF PamOK, PamHit, PamMiss
<1>6. PamUnknown(b) /\ MAPI_PREDICTOR
  BY <1>1, <1>5, Zenon DEF PamOK
<1>7. Serves(pamQueue[b].mshr, b) /\ Cloned(pamQueue[b].mshr)
  BY <1>6, Zenon DEF PamUnknown
<1> QED  BY <1>1, <1>2, <1>5, <1>6, <1>7, Zenon DEF Serves

\* The packet of a block's parallel access is of that block until it hits.
LEMMA PamBlock ==
  ASSUME Types, Pams, NEW c \in Blocks, pamQueue[c] # NoPam
  PROVE  /\ pamQueue[c].pkt \in Packets
         /\ pamQueue[c].isHit # "hit" =>
              /\ pkts[pamQueue[c].pkt] # NoPkt /\ pkts[pamQueue[c].pkt].blk = c
              /\ pkts[pamQueue[c].pkt].cmd = "read"
<1>1. pamQueue[c] \in PamEntry /\ PamOK(c)
  BY Kinds, Zenon DEF KindsOK, Pams
<1>2. pamQueue[c].pkt \in Packets /\ pamQueue[c].isHit \in {"unknown", "hit", "miss"}
  BY <1>1, Zenon DEF PamEntry
<1>3. pamQueue[c].isHit # "hit" => /\ pkts[pamQueue[c].pkt].cmd = "read"
                                   /\ pkts[pamQueue[c].pkt].blk = c
  BY <1>1, <1>2, Zenon DEF PamOK, PamUnknown, PamMiss, QueuedRead, InMSHR
<1>4. NoPkt.cmd # "read"
  BY DEF NoPkt
<1> QED  BY <1>2, <1>3, <1>4, Zenon

\* The parallel accesses of other blocks do not notice a step of packets of b.
LEMMA OtherPams ==
  ASSUME Types, Pams, NEW b \in Blocks,
         \A q \in Packets :
           \/ pkts'[q] = pkts[q]
           \/ /\ pkts[q] # NoPkt /\ pkts[q].blk = b
              /\ pkts'[q] = NoPkt \/ pkts'[q].blk = b,
         NEW c \in Blocks, c # b, pamQueue'[c] = pamQueue[c],
         AtMemory(c)' <=> AtMemory(c),
         \A n \in MSHRs : Serves(n, c) => Serves(n, c)' /\ Stays(n)
  PROVE  PamOK(c)'
<1>1. PamOK(c)
  BY Zenon DEF Pams
<1>2. ASSUME pamQueue[c] # NoPam
      PROVE  pkts'[pamQueue[c].pkt] = pkts[pamQueue[c].pkt] \/ StillHit(c)
  <2> DEFINE p == pamQueue[c].pkt
  <2>1. p \in Packets /\ (pamQueue[c].isHit # "hit" => pkts[p].blk = c)
    BY <1>2, PamBlock, Zenon
  <2>2. NoPkt.cmd # "read"
    BY DEF NoPkt
  <2>3. CASE pkts'[p] # pkts[p]
    <3>1. pamQueue[c].isHit = "hit" /\ (pkts'[p] = NoPkt \/ pkts'[p].blk = b)
      BY <2>1, <2>3, Zenon
    <3> QED  BY <2>2, <3>1, Zenon DEF StillHit, QueuedRead
  <2> QED  BY <2>3, Zenon
<1> QED  BY <1>1, <1>2, PamKept, Zenon

\* The packet p goes from the cache's DRAM to the MSHRs.
LEMMA ToMSHR ==
  ASSUME Types, NEW p \in Packets, QueuedRead(p), pkts' = [pkts EXCEPT ![p].at = "mshr"]
  PROVE  /\ pkts' \in [Packets -> {NoPkt} \cup ReadPkt \cup WritePkt]
         /\ InMSHR(p)' /\ ~QueuedRead(p)' /\ pkts'[p].cmd = pkts[p].cmd
         /\ pkts'[p].blk = pkts[p].blk
         /\ \A q \in Packets : q # p => pkts'[q] = pkts[q]
<1> DEFINE r == [pkts[p] EXCEPT !.at = "mshr"]
<1>1. pkts[p] \in ReadPkt
  BY QueuedTypes, Zenon
<1>2. r \in ReadPkt /\ r.at = "mshr" /\ r.cmd = "read" /\ r.blk = pkts[p].blk
  BY <1>1, Zenon DEF ReadPkt
<1>3. pkts' = [pkts EXCEPT ![p] = r] /\ pkts[p].cmd = "read"
  BY <1>1, Zenon DEF ReadPkt
<1> HIDE DEF r
<1>4. /\ pkts' \in [Packets -> {NoPkt} \cup ReadPkt \cup WritePkt]
      /\ pkts'[p] = r
      /\ \A q \in Packets : q # p => pkts'[q] = pkts[q]
  BY <1>2, <1>3, Accepts, Zenon
<1> QED  BY <1>2, <1>3, <1>4, Zenon DEF InMSHR, QueuedRead

-----------------------------------------------------------------------------
(***************************************************************************)
(* The inductive invariant of the data, without the predictor              *)
(***************************************************************************)

Writing(b) == \E p \in Packets : pkts[p].cmd = "write" /\ pkts[p].blk = b

\* Entry i of the write buffer is a write-back of b that is still to be sent.
ToSend(b, i) == Pending(i) /\ writeBuffer[i].blk = b
Queued(b) == \E i \in DOMAIN writeBuffer : ToSend(b, i)

\* The last write-back of b to be sent has the last write.
LastQueued(b) ==
  \E i \in DOMAIN writeBuffer :
    /\ ToSend(b, i) /\ writeBuffer[i].data = latest[b]
    /\ \A j \in DOMAIN writeBuffer : j > i => ~ToSend(b, j)

WriteData ==
  \A p \in Packets : pkts[p].cmd = "write" => pkts[p].data = latest[pkts[p].blk]

\* A block in the cache is current and has no write-back to come.  Of a block
\* that is not being written, the last write-back to come has the last write;
\* the backing store has it when there is none to come, from the buffer or from
\* a write that misses.  A block that main memory is read for has no dirty line,
\* and no write-back to come once the read is sent.
BlockOK(b) ==
  /\ Hit(b) => physMem[b] = latest[b] /\ ~Queued(b)
  /\ ~Writing(b) /\ Queued(b) => LastQueued(b)
  /\ ~Queued(b) /\ ~(Writing(b) /\ ~Hit(b)) => physMem[b] = latest[b]
  /\ \A m \in MSHRs : Serves(m, b) => ~Dirty(b) /\ (Sent(m) => ~Queued(b))

DataInv == WriteData /\ \A b \in Blocks : BlockOK(b)

\* An MSHR has a read of its block outstanding.
LEMMA MissHasRead ==
  ASSUME Base, NEW b \in Blocks, NEW m \in MSHRs, Serves(m, b)
  PROVE  \E p \in Packets : pkts[p].cmd = "read" /\ pkts[p].blk = b
<1>1. Allocated(m) /\ mshrs[m].blk = b
  BY BlockNumbers, Zenon DEF Serves, Allocated
<1> QED  BY <1>1, Zenon DEF Base, Owned, Owner

\* No parallel access without the predictor.
LEMMA NoParallel ==
  ASSUME ~MAPI_PREDICTOR, IInv, NEW b \in Blocks
  PROVE  pamQueue[b] = NoPam
BY Zenon DEF IInv, Pams, PamOK

\* A step that ends or starts no write, evicts at most, and starts no read of b.
LEMMA BlockKept ==
  ASSUME NEW b \in Blocks, BlockOK(b),
         Hit(b)' => Hit(b), Dirty(b)' => Dirty(b), Writing(b)' <=> Writing(b),
         Queued(b)' <=> Queued(b), LastQueued(b) => LastQueued(b)',
         physMem'[b] = physMem[b], latest'[b] = latest[b],
         \A m \in MSHRs : Serves(m, b)' =>
           (Serves(m, b) /\ (Sent(m)' => Sent(m))) \/ (~Dirty(b) /\ ~Sent(m)')
  PROVE  BlockOK(b)'
<1>1. Hit(b)' => physMem'[b] = latest'[b] /\ ~Queued(b)'
  BY Zenon DEF BlockOK
<1>2. ~Writing(b)' /\ Queued(b)' => LastQueued(b)'
  BY Zenon DEF BlockOK
<1>3. ~Queued(b)' /\ ~(Writing(b)' /\ ~Hit(b)') => physMem'[b] = latest'[b]
  BY Zenon DEF BlockOK
<1>4. \A m \in MSHRs : Serves(m, b)' => ~Dirty(b)' /\ (Sent(m)' => ~Queued(b)')
  BY Zenon DEF BlockOK
<1> QED  BY <1>1, <1>2, <1>3, <1>4, Zenon DEF BlockOK

\* What is to be sent depends on the write buffer only.
LEMMA SameBuffer ==
  ASSUME UNCHANGED writeBuffer
  PROVE  \A b : /\ Queued(b)' <=> Queued(b)
                /\ latest'[b] = latest[b] => (LastQueued(b) => LastQueued(b)')
BY Zenon DEF Queued, LastQueued, ToSend, Pending

\* Hits and dirty lines depend on the tags only.
LEMMA SameTags ==
  ASSUME UNCHANGED set
  PROVE  \A b : (Hit(b)' <=> Hit(b)) /\ (Dirty(b)' <=> Dirty(b))
BY Zenon DEF Hit, Dirty

\* Requests that are no writes come and go.
LEMMA SameWrites ==
  ASSUME \A q \in Packets : \/ pkts'[q] = pkts[q]
                            \/ pkts'[q].cmd # "write" /\ pkts[q].cmd # "write",
         UNCHANGED latest, WriteData
  PROVE  WriteData' /\ \A b : Writing(b)' <=> Writing(b)
<1>1. WriteData'
  BY Zenon DEF WriteData
<1>2. \A b : Writing(b)' <=> Writing(b)
  BY Zenon DEF Writing
<1> QED  BY <1>1, <1>2, Zenon

\* A write-back of e joins the buffer.
LEMMA Appended ==
  ASSUME Types, NEW e \in Blocks, NEW v,
         writeBuffer' = Append(writeBuffer, [blk |-> e, data |-> v, inService |-> FALSE])
  PROVE  /\ Queued(e)' /\ (v = latest'[e] => LastQueued(e)')
         /\ \A c \in Blocks : c # e =>
              /\ Queued(c)' <=> Queued(c)
              /\ latest'[c] = latest[c] => (LastQueued(c) => LastQueued(c)')
<1> DEFINE w == [blk |-> e, data |-> v, inService |-> FALSE]
<1> PICK L \in Nat : L = Len(writeBuffer)
  BY DEF Types
<1>1. w.blk = e /\ w.data = v /\ w.inService = FALSE
  BY Zenon
<1>2. /\ DOMAIN writeBuffer = 1 .. L /\ DOMAIN writeBuffer' = 1 .. L + 1
      /\ \A i \in 1 .. L : writeBuffer'[i] = writeBuffer[i]
      /\ writeBuffer'[L + 1] = w
  <2>1. writeBuffer \in Seq(WriteBackEntry)
    BY Zenon DEF Types
  <2> QED  BY <2>1
<1> HIDE DEF w
<1>3. /\ \A i \in 1 .. L : i \in 1 .. L + 1 /\ ~(i > L + 1) /\ ~(L + 1 = i)
      /\ \A i \in 1 .. L + 1 : i \in 1 .. L \/ i = L + 1
      /\ L + 1 \in 1 .. L + 1 /\ \A i \in 1 .. L + 1 : ~(i > L + 1)
  OBVIOUS
<1>4. /\ \A c : \A i \in 1 .. L : ToSend(c, i)' <=> ToSend(c, i)
      /\ \A c : ToSend(c, L + 1)' <=> c = e
  BY <1>1, <1>2, <1>3, Zenon DEF ToSend, Pending
<1>5. Queued(e)' /\ (v = latest'[e] => LastQueued(e)')
  BY <1>1, <1>2, <1>3, <1>4, Zenon DEF Queued, LastQueued
<1>6. \A c \in Blocks : c # e => (Queued(c)' <=> Queued(c))
  BY <1>2, <1>3, <1>4, Zenon DEF Queued
<1>7. ASSUME NEW c \in Blocks, c # e, latest'[c] = latest[c], LastQueued(c)
      PROVE  LastQueued(c)'
  <2>1. PICK i \in 1 .. L : /\ ToSend(c, i) /\ writeBuffer[i].data = latest[c]
                            /\ \A j \in 1 .. L : j > i => ~ToSend(c, j)
    BY <1>2, <1>7, Zenon DEF LastQueued
  <2>2. i \in DOMAIN writeBuffer' /\ ToSend(c, i)' /\ writeBuffer'[i].data = latest'[c]
    BY <1>2, <1>3, <1>4, <1>7, <2>1, Zenon
  <2>3. \A j \in DOMAIN writeBuffer' : j > i => ~ToSend(c, j)'
    BY <1>2, <1>3, <1>4, <1>7, <2>1, Zenon
  <2> QED  BY <2>2, <2>3, Zenon DEF LastQueued
<1> QED  BY <1>5, <1>6, <1>7, Zenon

\* A write has its block for itself, and no MSHR has it.
LEMMA WritingAlone ==
  ASSUME IInv, NEW p \in Packets, NEW b \in Blocks, pkts[p].cmd = "write", pkts[p].blk = b
  PROVE  /\ \A m \in MSHRs : ~Serves(m, b)
         /\ \A q \in Packets : pkts[q] # NoPkt /\ pkts[q].blk = b => q = p
<1>1. \A q \in Packets : pkts[q] # NoPkt /\ pkts[q].blk = b => q = p
  BY Zenon DEF IInv, Alone
<1>2. ASSUME NEW m \in MSHRs, Serves(m, b)
      PROVE  FALSE
  <2>1. PICK q \in Packets : pkts[q].cmd = "read" /\ pkts[q].blk = b
    BY <1>2, MissHasRead, Zenon DEF IInv
  <2>2. q = p
    BY <1>1, <2>1 DEF NoPkt
  <2> QED  BY <2>1, <2>2, Zenon
<1> QED  BY <1>1, <1>2, Zenon

\* A block that is being written has that write outstanding.
LEMMA WritingOutstanding ==
  ASSUME NEW b, Writing(b)
  PROVE  \E p \in Outstanding(b) : pkts[p].cmd = "write"
<1>1. PICK p \in Packets : pkts[p].cmd = "write" /\ pkts[p].blk = b
  BY Zenon DEF Writing
<1>2. NoPkt.cmd # "write"
  BY Zenon DEF NoPkt
<1>3. p \in Outstanding(b)
  BY <1>1, <1>2, Zenon DEF Outstanding
<1> QED  BY <1>1, <1>3, Zenon

\* A block that main memory is being read for is current.
LEMMA ServedCurrent ==
  ASSUME IInv, DataInv, NEW b \in Blocks, NEW m \in MSHRs, Serves(m, b), Sent(m)
  PROVE  physMem[b] = latest[b] /\ ~Queued(b) /\ ~Dirty(b) /\ ~Writing(b)
<1>1. ~Writing(b)
  BY WritingAlone, Zenon DEF Writing
<1> QED  BY <1>1, Zenon DEF DataInv, BlockOK

\* Steps that leave tags, buffer and backing store, and change reads only.
LEMMA DataSame ==
  ASSUME DataInv, UNCHANGED <<set, writeBuffer, physMem, latest>>,
         \A q \in Packets : \/ pkts'[q] = pkts[q]
                            \/ pkts'[q].cmd # "write" /\ pkts[q].cmd # "write",
         \A b \in Blocks : \A m \in MSHRs : Serves(m, b)' =>
           (Serves(m, b) /\ (Sent(m)' => Sent(m))) \/ (~Dirty(b) /\ ~Sent(m)')
  PROVE  DataInv'
<1>1. WriteData' /\ \A b : Writing(b)' <=> Writing(b)
  BY SameWrites, Zenon DEF DataInv
<1>2. ASSUME NEW b \in Blocks
      PROVE  BlockOK(b)'
  <2>1. /\ Hit(b)' => Hit(b)
        /\ Dirty(b)' => Dirty(b)
        /\ Queued(b)' <=> Queued(b)
        /\ LastQueued(b) => LastQueued(b)'
    BY SameTags, SameBuffer, Zenon
  <2>2. BlockOK(b)
    BY Zenon DEF DataInv
  <2> QED  BY <1>1, <2>1, <2>2, BlockKept, Zenon
<1> QED  BY <1>1, <1>2, Zenon DEF DataInv

=============================================================================
