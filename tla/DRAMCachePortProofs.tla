------------------------ MODULE DRAMCachePortProofs ------------------------
(***************************************************************************)
(* The memory-side port keeps its lists sorted and never holds a send      *)
(* event together with an owed retry, and implements MemSideSender, for    *)
(* every set of blocks, latency and buffer size.                           *)
(***************************************************************************)
EXTENDS DRAMCachePort, SequenceTheorems, WellFoundedInduction, TLAPS

---------------------------------------------------------------------------
\* Positions in sequences.

\* A non-empty set of naturals has a least element.
LEMMA LeastElement ==
  ASSUME NEW S \in SUBSET Nat, S # {}
  PROVE  \E n \in S : \A m \in S : n <= m
<1>1. \E n \in S : \A m \in S : <<m, n>> \notin OpToRel(<, Nat)
  BY NatLessThanWellFounded, WFMin, Zenon
<1>2. PICK n \in S : \A m \in S : <<m, n>> \notin OpToRel(<, Nat)
  BY <1>1, Zenon
<1>3. \A m \in S : ~(m < n)
  BY <1>2, Zenon DEF OpToRel
<1> QED
  BY <1>3

\* An interval determines its length.
LEMMA IntervalEnd ==
  ASSUME NEW m \in Nat, NEW n \in Nat, 1 .. m = 1 .. n
  PROVE  m = n
<1>1. m > 0 => m \in 1 .. n
  OBVIOUS
<1>2. n > 0 => n \in 1 .. m
  OBVIOUS
<1> QED
  BY <1>1, <1>2

\* A function on 1 .. n is a sequence of length n.
LEMMA FunctionIsSeq ==
  ASSUME NEW T, NEW n \in Nat, NEW f \in [1 .. n -> T]
  PROVE  f \in Seq(T) /\ Len(f) = n
<1>1. f \in Seq(T)
  BY SeqDef, Zenon
<1>2. Len(f) \in Nat /\ DOMAIN f = 1 .. Len(f)
  BY <1>1, LenProperties, Zenon
<1>3. 1 .. Len(f) = 1 .. n
  BY <1>2, Zenon
<1> QED
  BY <1>1, <1>2, <1>3, IntervalEnd, Zenon

\* Insertion and removal give sequences.
LEMMA InsertType ==
  ASSUME NEW T, NEW s \in Seq(T), NEW e \in T, NEW i \in 1 .. Len(s) + 1
  PROVE  insert(s, i, e) \in Seq(T) /\ Len(insert(s, i, e)) = Len(s) + 1
<1>1. Len(s) \in Nat /\ \A k \in 1 .. Len(s) : s[k] \in T
  BY LenProperties, ElementOfSeq, Zenon
<1>2. \A k \in 1 .. Len(s) + 1 : insert(s, i, e)[k] \in T
  BY <1>1 DEF insert
<1> QED
  BY <1>1, <1>2, IsASeq DEF insert

LEMMA EraseType ==
  ASSUME NEW T, NEW s \in Seq(T), NEW i \in 1 .. Len(s)
  PROVE  erase(s, i) \in Seq(T) /\ Len(erase(s, i)) = Len(s) - 1
<1>1. Len(s) \in Nat /\ \A k \in 1 .. Len(s) : s[k] \in T
  BY LenProperties, ElementOfSeq, Zenon
<1>2. \A k \in 1 .. Len(s) - 1 : erase(s, i)[k] \in T
  BY <1>1 DEF erase
<1>3. Len(s) - 1 \in Nat
  BY <1>1
<1> QED
  BY <1>2, <1>3, IsASeq DEF erase

---------------------------------------------------------------------------
\* The ready lists.

Blks(list) == {list[i].blk : i \in DOMAIN list}
Sorted(list) == \A i, j \in DOMAIN list : i < j => list[i].wait <= list[j].wait
Distinct(list) == \A i, j \in DOMAIN list : list[i].blk = list[j].blk => i = j

\* addToReadyList keeps every entry and a sorted list sorted.
LEMMA AddProperties ==
  ASSUME NEW T, \A x \in T : x.wait \in Int,
         NEW list \in Seq(T), NEW e \in T, Sorted(list)
  PROVE  \E p \in 1 .. Len(list) + 1 :
           LET r == addToReadyList(list, e) IN
             /\ r \in Seq(T) /\ Len(r) = Len(list) + 1
             /\ \A k \in 1 .. Len(list) + 1 :
                  r[k] = IF k < p THEN list[k] ELSE IF k = p THEN e ELSE list[k - 1]
             /\ Sorted(r)
<1> DEFINE r == addToReadyList(list, e)
           later == {i \in DOMAIN list : list[i].wait > e.wait}
<1>0. /\ Len(list) \in Nat /\ DOMAIN list = 1 .. Len(list)
      /\ \A i \in 1 .. Len(list) : list[i] \in T /\ list[i].wait \in Int
      /\ e.wait \in Int
  BY LenProperties, ElementOfSeq, Zenon
<1>1. \E p \in 1 .. Len(list) + 1 :
        /\ r \in Seq(T) /\ Len(r) = Len(list) + 1
        /\ \A k \in 1 .. Len(list) + 1 :
             r[k] = IF k < p THEN list[k] ELSE IF k = p THEN e ELSE list[k - 1]
        /\ \A k \in 1 .. Len(list) : k < p => list[k].wait <= e.wait
        /\ p <= Len(list) => list[p].wait > e.wait
  <2>1. CASE later = {}
    <3>1. r = Append(list, e)
      BY <2>1, Zenon DEF addToReadyList
    <3>2. \A k \in 1 .. Len(list) : list[k].wait <= e.wait
      BY <2>1, <1>0
    <3>3. /\ r \in Seq(T) /\ Len(r) = Len(list) + 1
          /\ \A k \in 1 .. Len(list) : r[k] = list[k]
          /\ r[Len(list) + 1] = e
      BY <3>1, AppendProperties
    <3> HIDE DEF r, later
    <3> WITNESS Len(list) + 1 \in 1 .. Len(list) + 1
    <3> QED
      BY <3>2, <3>3, <1>0
  <2>2. CASE later # {}
    <3> DEFINE p == CHOOSE i \in later : \A j \in later : i <= j
    <3>1. later \in SUBSET Nat
      BY <1>0
    <3>2. p \in later /\ \A j \in later : p <= j
      <4> HIDE DEF later
      <4> QED
        BY <3>1, <2>2, LeastElement, Zenon
    <3>3. r = insert(list, p, e)
      BY <2>2, Zenon DEF addToReadyList
    <3>4. p \in 1 .. Len(list) /\ list[p].wait > e.wait
      BY <3>2, <1>0, Zenon
    <3>5. \A k \in 1 .. Len(list) : k < p => list[k].wait <= e.wait
      <4> SUFFICES ASSUME NEW k \in 1 .. Len(list), k < p, ~(list[k].wait <= e.wait)
                   PROVE  FALSE
        BY Zenon
      <4>1. k \in later
        BY <1>0
      <4> HIDE DEF later, p
      <4>2. p <= k
        BY <4>1, <3>2, Zenon
      <4> QED
        BY <4>2, <3>4, <1>0
    <3> HIDE DEF p, later, r
    <3>6. /\ r \in Seq(T) /\ Len(r) = Len(list) + 1
          /\ \A k \in 1 .. Len(list) + 1 :
               r[k] = IF k < p THEN list[k] ELSE IF k = p THEN e ELSE list[k - 1]
      BY <3>3, <3>4, InsertType DEF insert
    <3>7. p \in 1 .. Len(list) + 1
      BY <3>4, <1>0
    <3> QED
      BY <3>4, <3>5, <3>6, <3>7, Zenon
  <2> QED
    BY <2>1, <2>2, Zenon
<1>2. PICK p \in 1 .. Len(list) + 1 :
        /\ r \in Seq(T) /\ Len(r) = Len(list) + 1
        /\ \A k \in 1 .. Len(list) + 1 :
             r[k] = IF k < p THEN list[k] ELSE IF k = p THEN e ELSE list[k - 1]
        /\ \A k \in 1 .. Len(list) : k < p => list[k].wait <= e.wait
        /\ p <= Len(list) => list[p].wait > e.wait
  BY <1>1, Zenon
<1> HIDE DEF r, later
<1>3. \A k \in p .. Len(list) : list[k].wait > e.wait
  <2> SUFFICES ASSUME NEW k \in p .. Len(list)
               PROVE  list[k].wait > e.wait
    BY Zenon
  <2>1. k \in 1 .. Len(list) /\ p \in 1 .. Len(list) /\ p <= k /\ p <= Len(list)
    BY <1>0
  <2>2. list[p].wait \in Int /\ list[k].wait \in Int
    BY <2>1, <1>0, Zenon
  <2>3. p < k => list[p].wait <= list[k].wait
    BY <2>1, <1>0, Zenon DEF Sorted
  <2>4. list[p].wait > e.wait
    BY <2>1, <1>2, Zenon
  <2> QED
    BY <2>1, <2>2, <2>3, <2>4, <1>0
<1>4. Sorted(r)
  <2> SUFFICES ASSUME NEW i \in 1 .. Len(list) + 1, NEW j \in 1 .. Len(list) + 1, i < j
               PROVE  r[i].wait <= r[j].wait
    BY <1>2, <1>0 DEF Sorted
  <2>0. i \in Int /\ j \in Int /\ p \in Int
    BY <1>0
  <2>1. CASE j < p
    <3>1. r[i] = list[i] /\ r[j] = list[j] /\ i \in 1 .. Len(list) /\ j \in 1 .. Len(list)
      BY <2>0, <2>1, <1>0, <1>2
    <3> QED
      BY <3>1, <1>0, Zenon DEF Sorted
  <2>2. CASE j = p
    <3>1. r[i] = list[i] /\ r[j] = e /\ i \in 1 .. Len(list)
      BY <2>0, <2>2, <1>0, <1>2
    <3> QED
      BY <3>1, <2>2, <1>2, Zenon
  <2>3. CASE j > p
    <3>1. r[j] = list[j - 1] /\ j - 1 \in p .. Len(list) /\ j - 1 \in 1 .. Len(list)
      BY <2>0, <2>3, <1>0, <1>2
    <3>2. CASE i < p
      <4>1. r[i] = list[i] /\ i \in 1 .. Len(list) /\ i < j - 1
        BY <2>0, <2>3, <3>2, <1>0, <1>2
      <4> QED
        BY <3>1, <4>1, <1>0, Zenon DEF Sorted
    <3>3. CASE i = p
      <4>1. r[i] = e
        BY <2>0, <3>3, <1>2
      <4> QED
        BY <3>1, <4>1, <1>3, <1>0
    <3>4. CASE i > p
      <4>1. r[i] = list[i - 1] /\ i - 1 \in 1 .. Len(list) /\ i - 1 < j - 1
        BY <2>0, <2>3, <3>4, <1>0, <1>2
      <4> QED
        BY <3>1, <4>1, <1>0, Zenon DEF Sorted
    <3> QED
      BY <2>0, <3>2, <3>3, <3>4
  <2> QED
    BY <2>0, <2>1, <2>2, <2>3
<1> QED
  BY <1>2, <1>4, Zenon DEF r

\* An added entry is one more block.
LEMMA AddBlocks ==
  ASSUME NEW T, \A x \in T : x.wait \in Int,
         NEW list \in Seq(T), NEW e \in T, Sorted(list)
  PROVE  LET r == addToReadyList(list, e) IN
           /\ Blks(r) = Blks(list) \union {e.blk}
           /\ Distinct(list) /\ e.blk \notin Blks(list) => Distinct(r)
<1> DEFINE r == addToReadyList(list, e)
<1>0. Len(list) \in Nat /\ DOMAIN list = 1 .. Len(list)
  BY LenProperties, Zenon
<1>1. PICK p \in 1 .. Len(list) + 1 :
        /\ r \in Seq(T) /\ Len(r) = Len(list) + 1
        /\ \A k \in 1 .. Len(list) + 1 :
             r[k] = IF k < p THEN list[k] ELSE IF k = p THEN e ELSE list[k - 1]
  BY AddProperties
<1> HIDE DEF r
<1>2. DOMAIN r = 1 .. Len(list) + 1
  BY <1>1, LenProperties, Zenon
<1>3. \A k \in DOMAIN r : \/ k < p /\ k \in DOMAIN list /\ r[k] = list[k]
                          \/ k = p /\ r[k] = e
                          \/ k > p /\ k - 1 \in DOMAIN list /\ r[k] = list[k - 1]
  BY <1>0, <1>1, <1>2
<1>4. r[p] = e /\ p \in DOMAIN r
  BY <1>0, <1>1, <1>2
<1>5. \A k \in DOMAIN list : \E j \in DOMAIN r : r[j] = list[k]
  <2> SUFFICES ASSUME NEW k \in DOMAIN list
               PROVE  \E j \in DOMAIN r : r[j] = list[k]
    BY Zenon
  <2>1. CASE k < p
    BY <2>1, <1>0, <1>1, <1>2
  <2>2. CASE k >= p
    <3>1. k + 1 \in 1 .. Len(list) + 1 /\ ~(k + 1 < p) /\ k + 1 # p /\ (k + 1) - 1 = k
      BY <2>2, <1>0
    <3> QED
      BY <3>1, <1>1, <1>2, Zenon
  <2> QED
    BY <2>1, <2>2, <1>0
<1>6. Blks(r) = Blks(list) \union {e.blk}
  <2>1. Blks(r) \subseteq Blks(list) \union {e.blk}
    BY <1>3, Zenon DEF Blks
  <2>2. Blks(list) \union {e.blk} \subseteq Blks(r)
    BY <1>4, <1>5 DEF Blks
  <2> QED
    BY <2>1, <2>2, Zenon
<1>7. ASSUME Distinct(list), e.blk \notin Blks(list)
      PROVE  Distinct(r)
  <2> SUFFICES ASSUME NEW i \in DOMAIN r, NEW j \in DOMAIN r, r[i].blk = r[j].blk
               PROVE  i = j
    BY Zenon DEF Distinct
  <2>1. i \in Int /\ j \in Int /\ p \in Int
    BY <1>0, <1>2
  <2>2. \A k \in DOMAIN list : list[k].blk # e.blk
    BY <1>7, Zenon DEF Blks
  <2>3. \A k, m \in DOMAIN list : list[k].blk = list[m].blk => k = m
    BY <1>7, Zenon DEF Distinct
  <2> QED
    BY <1>3, <2>1, <2>2, <2>3
<1> QED
  BY <1>6, <1>7, Zenon DEF r

\* An erased entry takes its block along.
LEMMA EraseBlocks ==
  ASSUME NEW T, NEW list \in Seq(T), NEW i \in 1 .. Len(list)
  PROVE  LET r == erase(list, i) IN
           /\ Sorted(list) => Sorted(r)
           /\ Distinct(list) => Distinct(r) /\ Blks(r) = Blks(list) \ {list[i].blk}
<1> DEFINE r == erase(list, i)
<1>0. Len(list) \in Nat /\ DOMAIN list = 1 .. Len(list) /\ i \in Int
  BY LenProperties
<1>1. /\ DOMAIN r = 1 .. Len(list) - 1
      /\ \A k \in DOMAIN r : r[k] = IF k < i THEN list[k] ELSE list[k + 1]
  BY Zenon DEF erase
<1> HIDE DEF r
<1>2. \A k \in DOMAIN r : \/ k < i /\ k \in DOMAIN list /\ r[k] = list[k]
                          \/ k >= i /\ k + 1 \in DOMAIN list /\ r[k] = list[k + 1]
  BY <1>0, <1>1
<1>3. \A k \in DOMAIN r : k \in Int
  BY <1>0, <1>1
<1>4. ASSUME Sorted(list)
      PROVE  Sorted(r)
  <2>1. \A k, m \in DOMAIN list : k < m => list[k].wait <= list[m].wait
    BY <1>4, Zenon DEF Sorted
  <2>2. SUFFICES ASSUME NEW k \in DOMAIN r, NEW m \in DOMAIN r, k < m
                 PROVE  r[k].wait <= r[m].wait
    BY Zenon DEF Sorted
  <2>3. \E a, c \in DOMAIN list : a < c /\ r[k] = list[a] /\ r[m] = list[c]
    <3>1. k \in Int /\ m \in Int
      BY <1>3, Zenon
    <3>2. CASE m < i
      BY <3>1, <3>2, <2>2, <1>0, <1>2
    <3>3. CASE m >= i /\ k < i
      <4>1. m + 1 \in DOMAIN list /\ r[m] = list[m + 1] /\ k \in DOMAIN list /\ r[k] = list[k]
        BY <3>1, <3>3, <1>0, <1>2
      <4> QED
        BY <4>1, <3>1, <2>2
    <3>4. CASE k >= i
      <4>1. /\ m + 1 \in DOMAIN list /\ r[m] = list[m + 1]
            /\ k + 1 \in DOMAIN list /\ r[k] = list[k + 1]
        BY <3>1, <3>4, <2>2, <1>0, <1>2
      <4> QED
        BY <4>1, <3>1, <2>2
    <3> QED
      BY <3>1, <3>2, <3>3, <3>4, <1>0
  <2> QED
    BY <2>1, <2>3, Zenon
<1>5. ASSUME Distinct(list)
      PROVE  Distinct(r) /\ Blks(r) = Blks(list) \ {list[i].blk}
  <2>1. \A k, m \in DOMAIN list : list[k].blk = list[m].blk => k = m
    BY <1>5, Zenon DEF Distinct
  <2>2. Distinct(r)
    <3> SUFFICES ASSUME NEW k \in DOMAIN r, NEW m \in DOMAIN r, r[k].blk = r[m].blk
                 PROVE  k = m
      BY Zenon DEF Distinct
    <3> QED
      BY <1>0, <1>2, <1>3, <2>1
  <2>3. Blks(r) \subseteq Blks(list) \ {list[i].blk}
    BY <1>0, <1>2, <1>3, <2>1 DEF Blks
  <2>4. \A k \in DOMAIN list : k # i => \E m \in DOMAIN r : r[m] = list[k]
    <3> SUFFICES ASSUME NEW k \in DOMAIN list, k # i
                 PROVE  \E m \in DOMAIN r : r[m] = list[k]
      BY Zenon
    <3>1. CASE k < i
      BY <3>1, <1>0, <1>1
    <3>2. CASE k > i
      <4>1. k - 1 \in DOMAIN r /\ ~(k - 1 < i) /\ (k - 1) + 1 = k
        BY <3>2, <1>0, <1>1
      <4> QED
        BY <4>1, <1>1, Zenon
    <3> QED
      BY <3>1, <3>2, <1>0
  <2>5. Blks(list) \ {list[i].blk} \subseteq Blks(r)
    BY <2>4, Zenon DEF Blks
  <2> QED
    BY <2>2, <2>3, <2>5, Zenon
<1> QED
  BY <1>4, <1>5, Zenon DEF r

\* Tail erases the head.
LEMMA TailIsErase ==
  ASSUME NEW T, NEW list \in Seq(T), list # <<>>
  PROVE  Tail(list) = erase(list, 1) /\ 1 \in 1 .. Len(list) /\ Head(list) = list[1]
<1>0. Len(list) \in Nat /\ Len(list) # 0 /\ 1 \in 1 .. Len(list)
  BY LenProperties, EmptySeq
<1>1. erase(list, 1) \in Seq(T) /\ Len(erase(list, 1)) = Len(list) - 1
  BY <1>0, EraseType, Zenon
<1>2. /\ Tail(list) \in Seq(T) /\ Len(Tail(list)) = Len(list) - 1
      /\ \A i \in 1 .. Len(Tail(list)) : Tail(list)[i] = list[i + 1]
  BY HeadTailProperties, Zenon
<1>3. \A i \in 1 .. Len(list) - 1 : erase(list, 1)[i] = list[i + 1]
  BY <1>0 DEF erase
<1>4. Tail(list) = erase(list, 1)
  BY <1>1, <1>2, <1>3, SeqEqual, Zenon
<1> QED
  BY <1>0, <1>4

---------------------------------------------------------------------------
\* The inductive invariant: one MSHR per block is what makes a sent or
\* withdrawn read leave the set of waiting reads.

IInv == TypeOK /\ NeverBoth /\ ReadyListsSorted /\ Distinct(missList)

USE DEF Overdue, Past, MaxTick

\* Waits are numbers.
LEMMA Waits ==
  /\ \A x \in Entry : x.wait \in Int /\ x.blk \in Blocks
  /\ \A x \in WriteEntry : x.wait \in Int /\ x.blk \in Blocks
BY PortAssumption DEF Entry, WriteEntry, PortAssumption

\* Both lists, from the invariant.
LEMMA ListFacts ==
  ASSUME IInv
  PROVE  /\ missList \in Seq(Entry) /\ Sorted(missList) /\ Distinct(missList)
         /\ writeList \in Seq(WriteEntry) /\ Sorted(writeList)
BY Zenon DEF IInv, TypeOK, ReadyListsSorted, Sorted

\* schedSendEvent gives a time or leaves the event alone.
LEMMA SchedType ==
  ASSUME NEW w \in BOOLEAN, NEW event \in 0 .. MaxTick, NEW when \in Past .. MaxTick
  PROVE  schedSendEvent(w, event, when) \in 0 .. MaxTick
BY PortAssumption DEF schedSendEvent, Least, Greatest, PortAssumption

LEMMA ReadyTimeType ==
  ASSUME NEW ml \in Seq(Entry), NEW wl \in Seq(WriteEntry)
  PROVE  nextMSHRReadyTime(ml, wl) \in Past .. MaxTick
<1>1. readyTime(ml) \in Past .. MaxTick
  <2>1. CASE ml = <<>>
    BY <2>1, PortAssumption DEF readyTime, PortAssumption
  <2>2. CASE ml # <<>>
    <3>1. Head(ml) \in Entry
      BY <2>2, HeadTailProperties, Zenon
    <3> QED
      BY <2>2, <3>1, PortAssumption DEF readyTime, Entry, PortAssumption
  <2> QED
    BY <2>1, <2>2, Zenon
<1>2. readyTime(wl) \in Past .. MaxTick
  <2>1. CASE wl = <<>>
    BY <2>1, PortAssumption DEF readyTime, PortAssumption
  <2>2. CASE wl # <<>>
    <3>1. Head(wl) \in WriteEntry
      BY <2>2, HeadTailProperties, Zenon
    <3> QED
      BY <2>2, <3>1, PortAssumption DEF readyTime, WriteEntry, PortAssumption
  <2> QED
    BY <2>1, <2>2, Zenon
<1> QED
  BY <1>1, <1>2, Zenon DEF nextMSHRReadyTime, Least

\* The write-back that is sent is the first of its block.
LEMMA WriteIndexProperties ==
  ASSUME IInv, PickWrite
  PROVE  /\ WriteIndex \in 1 .. Len(writeList)
         /\ \A j \in 1 .. WriteIndex - 1 : writeList[j].blk # writeList[WriteIndex].blk
<1>0. /\ writeList \in Seq(WriteEntry) /\ Len(writeList) \in Nat
      /\ DOMAIN writeList = 1 .. Len(writeList)
  BY ListFacts, LenProperties, Zenon
<1>1. CASE WriteFirst
  <2>1. writeList # <<>>
    BY <1>1, Zenon DEF WriteFirst, HeadReady
  <2>2. WriteIndex = 1 /\ 1 \in 1 .. Len(writeList)
    BY <1>1, <2>1, <1>0, TailIsErase, Zenon DEF WriteIndex
  <2> QED
    BY <2>2
<1>2. CASE ~WriteFirst
  <2> DEFINE b == Head(missList).blk
             P == PendingWrites(b)
  <2>1. P # {}
    BY <1>2, Zenon DEF PickWrite, Conflict
  <2>2. P \in SUBSET Nat /\ P \subseteq 1 .. Len(writeList)
    BY <1>0 DEF PendingWrites
  <2>3. WriteIndex = CHOOSE i \in P : \A j \in P : i <= j
    BY <1>2, Zenon DEF WriteIndex, findPending
  <2>4. WriteIndex \in P /\ \A j \in P : WriteIndex <= j
    <3> HIDE DEF P
    <3> QED
      BY <2>1, <2>2, <2>3, LeastElement, Zenon
  <2>5. \A j \in 1 .. Len(writeList) : writeList[j].blk = b => WriteIndex <= j
    BY <2>4, <1>0, Zenon DEF PendingWrites
  <2>6. writeList[WriteIndex].blk = b
    BY <2>4, Zenon DEF PendingWrites
  <2>7. WriteIndex \in 1 .. Len(writeList)
    BY <2>2, <2>4, Zenon
  <2> HIDE DEF b, P
  <2> QED
    BY <2>5, <2>6, <2>7, <1>0
<1> QED
  BY <1>1, <1>2, Zenon

---------------------------------------------------------------------------
\* Preservation, one lemma per action.

LEMMA InitIInv == Init => IInv
<1> SUFFICES ASSUME Init PROVE IInv
  BY Zenon
<1>1. missList = <<>> /\ writeList = <<>> /\ writeService = <<>>
  BY Zenon DEF Init
<1>2. TypeOK
  <2>1. <<>> \in Seq(Entry) /\ <<>> \in Seq(WriteEntry) /\ <<>> \in Seq(0 .. MemLatency)
    BY EmptySeq, Zenon
  <2>2. MaxTick \in 0 .. MaxTick
    BY PortAssumption DEF PortAssumption
  <2> HIDE DEF MaxTick
  <2> QED
    BY <1>1, <2>1, <2>2, Zenon DEF Init, TypeOK
<1> QED
  BY <1>1, <1>2 DEF Init, IInv, NeverBoth, ReadyListsSorted, Distinct

LEMMA SendMissIInv ==
  ASSUME IInv, SendMiss
  PROVE  IInv'
<1>0. /\ missList \in Seq(Entry) /\ writeList \in Seq(WriteEntry) /\ missList # <<>>
      /\ Sorted(missList) /\ Distinct(missList) /\ Sorted(writeList)
  BY ListFacts, Zenon DEF SendMiss, PickMiss, HeadReady
<1>1. /\ missList' = erase(missList, 1) /\ 1 \in 1 .. Len(missList)
      /\ Head(missList) \in Entry
  BY <1>0, TailIsErase, HeadTailProperties, Zenon DEF SendMiss
<1>2. missList' \in Seq(Entry) /\ Sorted(missList') /\ Distinct(missList')
  BY <1>0, <1>1, EraseType, EraseBlocks, Zenon
<1>3. sendEvent' \in 0 .. MaxTick
  <2>1. nextMSHRReadyTime(missList', writeList) \in Past .. MaxTick
    BY <1>0, <1>2, ReadyTimeType, Zenon
  <2>2. MaxTick \in 0 .. MaxTick /\ FALSE \in BOOLEAN
    BY PortAssumption DEF PortAssumption
  <2> QED
    BY <2>1, <2>2, SchedType, Zenon DEF SendMiss
<1>4. TypeOK'
  BY <1>1, <1>2, <1>3, Waits, Zenon DEF IInv, TypeOK, SendMiss
<1> QED
  BY <1>0, <1>2, <1>4, Zenon DEF IInv, SendMiss, NeverBoth, ReadyListsSorted, Sorted

LEMMA SendWriteIInv ==
  ASSUME IInv, SendWrite
  PROVE  IInv'
<1>0. /\ missList \in Seq(Entry) /\ writeList \in Seq(WriteEntry)
      /\ Sorted(missList) /\ Distinct(missList) /\ Sorted(writeList)
      /\ WriteIndex \in 1 .. Len(writeList)
  BY ListFacts, WriteIndexProperties, Zenon DEF SendWrite
<1>1. writeList' = erase(writeList, WriteIndex)
  BY Zenon DEF SendWrite
<1>2. writeList' \in Seq(WriteEntry) /\ Sorted(writeList')
  BY <1>0, <1>1, EraseType, EraseBlocks, Zenon
<1>3. sendEvent' \in 0 .. MaxTick
  <2>1. nextMSHRReadyTime(missList, writeList') \in Past .. MaxTick
    BY <1>0, <1>2, ReadyTimeType, Zenon
  <2>2. MaxTick \in 0 .. MaxTick /\ FALSE \in BOOLEAN
    BY PortAssumption DEF PortAssumption
  <2> QED
    BY <2>1, <2>2, SchedType, Zenon DEF SendWrite
<1>4. writeService' \in Seq(0 .. MemLatency)
  <2>1. MemLatency \in 0 .. MemLatency
    BY PortAssumption DEF PortAssumption
  <2> QED
    BY <2>1, AppendProperties, Zenon DEF IInv, TypeOK, SendWrite
<1>5. TypeOK'
  BY <1>2, <1>3, <1>4, Zenon DEF IInv, TypeOK, SendWrite
<1> QED
  BY <1>0, <1>2, <1>5, Zenon
     DEF IInv, SendWrite, NeverBoth, ReadyListsSorted, Sorted, Distinct

LEMMA SendOtherIInv ==
  ASSUME IInv, SendRefused \/ SendNothing
  PROVE  IInv'
<1>1. /\ UNCHANGED <<missList, writeList, missService, writeService>>
      /\ sendEvent' = MaxTick /\ waitingOnRetry' \in BOOLEAN
  BY Zenon DEF SendRefused, SendNothing
<1>2. TypeOK'
  BY <1>1, PortAssumption DEF IInv, TypeOK, PortAssumption
<1> QED
  BY <1>1, <1>2, Zenon DEF IInv, NeverBoth, ReadyListsSorted, Distinct

LEMMA AllocMissIInv ==
  ASSUME IInv, NEW kind \in Kinds, NEW b \in Blocks, allocateMissBuffer(kind, b)
  PROVE  IInv'
<1> DEFINE e == [blk |-> b, kind |-> kind, wait |-> WaitOf(kind)]
<1>0. missList \in Seq(Entry) /\ Sorted(missList) /\ Distinct(missList)
  BY ListFacts, Zenon
<1>1. WaitOf(kind) \in Past .. PREDICTION_LATENCY /\ WaitOf(kind) \in Past .. MaxTick
  BY PortAssumption DEF WaitOf, Kinds, PortAssumption
<1>2. e \in Entry
  BY <1>1, Zenon DEF Entry
<1>3. e.blk \notin Blks(missList)
  BY Zenon DEF allocateMissBuffer, Pending, Blks
<1>4. missList' = addToReadyList(missList, e)
  BY Zenon DEF allocateMissBuffer
<1> HIDE DEF e
<1>5. missList' \in Seq(Entry) /\ Sorted(missList')
  BY <1>0, <1>2, <1>4, Waits, AddProperties, Zenon
<1>6. Distinct(missList')
  BY <1>0, <1>2, <1>3, <1>4, Waits, AddBlocks, Zenon
<1>7. sendEvent' \in 0 .. MaxTick
  BY <1>1, SchedType, Zenon DEF allocateMissBuffer, IInv, TypeOK
<1>8. NeverBoth'
  BY Zenon DEF allocateMissBuffer, schedSendEvent, IInv, NeverBoth
<1>9. TypeOK'
  BY <1>5, <1>7, Zenon DEF allocateMissBuffer, IInv, TypeOK
<1> QED
  BY <1>5, <1>6, <1>8, <1>9, Zenon DEF allocateMissBuffer, IInv, ReadyListsSorted, Sorted

LEMMA AllocWriteIInv ==
  ASSUME IInv, NEW b \in Blocks, allocateWriteBuffer(b)
  PROVE  IInv'
<1> DEFINE e == [blk |-> b, wait |-> 1]
<1>0. writeList \in Seq(WriteEntry) /\ Sorted(writeList)
  BY ListFacts, Zenon
<1>1. e \in WriteEntry
  BY DEF WriteEntry
<1>2. writeList' = addToReadyList(writeList, e)
  BY Zenon DEF allocateWriteBuffer
<1> HIDE DEF e
<1>3. writeList' \in Seq(WriteEntry) /\ Sorted(writeList')
  BY <1>0, <1>1, <1>2, Waits, AddProperties, Zenon
<1>4. sendEvent' \in 0 .. MaxTick
  <2>1. 1 \in Past .. MaxTick
    BY PortAssumption DEF PortAssumption
  <2> QED
    BY <2>1, SchedType, Zenon DEF allocateWriteBuffer, IInv, TypeOK
<1>5. NeverBoth'
  BY Zenon DEF allocateWriteBuffer, schedSendEvent, IInv, NeverBoth
<1>6. TypeOK'
  BY <1>3, <1>4, Zenon DEF allocateWriteBuffer, IInv, TypeOK
<1> QED
  BY <1>3, <1>5, <1>6, Zenon
     DEF allocateWriteBuffer, IInv, ReadyListsSorted, Sorted, Distinct

LEMMA PamHitIInv ==
  ASSUME IInv, NEW i \in DOMAIN missList, PamHit(i)
  PROVE  IInv'
<1>0. /\ missList \in Seq(Entry) /\ Sorted(missList) /\ Distinct(missList)
      /\ i \in 1 .. Len(missList)
  BY ListFacts, LenProperties, Zenon
<1>1. missList' = erase(missList, i)
  BY Zenon DEF PamHit
<1>2. missList' \in Seq(Entry) /\ Sorted(missList') /\ Distinct(missList')
  BY <1>0, <1>1, EraseType, EraseBlocks, Zenon
<1>3. TypeOK'
  BY <1>2, Zenon DEF PamHit, IInv, TypeOK
<1> QED
  BY <1>2, <1>3, Zenon DEF PamHit, IInv, NeverBoth, ReadyListsSorted, Sorted

LEMMA DoneIInv ==
  ASSUME IInv, (\E b \in missService : ReadDone(b)) \/ WriteDone
  PROVE  IInv'
<1>1. CASE \E b \in missService : ReadDone(b)
  BY <1>1 DEF ReadDone, IInv, TypeOK, NeverBoth, ReadyListsSorted, Distinct
<1>2. CASE WriteDone
  <2>1. writeService' \in Seq(0 .. MemLatency)
    BY <1>2, HeadTailProperties, Zenon DEF WriteDone, IInv, TypeOK
  <2> QED
    BY <1>2, <2>1, Zenon
       DEF WriteDone, IInv, TypeOK, NeverBoth, ReadyListsSorted, Distinct
<1> QED
  BY <1>1, <1>2, Zenon

LEMMA TickIInv ==
  ASSUME IInv, Tick
  PROVE  /\ IInv'
         /\ Blks(missList') = Blks(missList)
         /\ DOMAIN writeList' = DOMAIN writeList
         /\ \A i \in DOMAIN writeList : writeList'[i].blk = writeList[i].blk
<1>0. /\ missList \in Seq(Entry) /\ Sorted(missList) /\ Distinct(missList)
      /\ writeList \in Seq(WriteEntry) /\ Sorted(writeList)
      /\ writeService \in Seq(0 .. MemLatency)
  BY ListFacts, Zenon DEF IInv, TypeOK
<1>1. /\ Len(missList) \in Nat /\ DOMAIN missList = 1 .. Len(missList)
      /\ Len(writeList) \in Nat /\ DOMAIN writeList = 1 .. Len(writeList)
      /\ Len(writeService) \in Nat /\ DOMAIN writeService = 1 .. Len(writeService)
      /\ \A i \in DOMAIN missList : missList[i] \in Entry
      /\ \A i \in DOMAIN writeList : writeList[i] \in WriteEntry
      /\ \A i \in DOMAIN writeService : writeService[i] \in 0 .. MemLatency
  BY <1>0, LenProperties, ElementOfSeq, Zenon
<1>2. /\ DOMAIN missList' = DOMAIN missList
      /\ \A i \in DOMAIN missList :
           missList'[i] = [missList[i] EXCEPT !.wait = Elapse(@, Overdue)]
  BY Zenon DEF Tick
<1>3. /\ DOMAIN writeList' = DOMAIN writeList
      /\ \A i \in DOMAIN writeList :
           writeList'[i] = [writeList[i] EXCEPT !.wait = Elapse(@, 0)]
  BY Zenon DEF Tick
<1>4. \A i \in DOMAIN missList :
        /\ missList'[i] \in Entry /\ missList'[i].blk = missList[i].blk
        /\ missList'[i].wait = Elapse(missList[i].wait, Overdue)
  <2> SUFFICES ASSUME NEW i \in DOMAIN missList
               PROVE  /\ missList'[i] \in Entry /\ missList'[i].blk = missList[i].blk
                      /\ missList'[i].wait = Elapse(missList[i].wait, Overdue)
    BY Zenon
  <2> DEFINE x == missList[i]
             u == Elapse(x.wait, Overdue)
  <2>1. x \in Entry /\ missList'[i] = [x EXCEPT !.wait = u]
    BY <1>1, <1>2, Zenon
  <2> HIDE DEF x
  <2>2. u \in Past .. PREDICTION_LATENCY
    BY <2>1, PortAssumption DEF Entry, Elapse, PortAssumption
  <2> HIDE DEF u
  <2>3. missList'[i] \in Entry /\ missList'[i].blk = x.blk /\ missList'[i].wait = u
    BY <2>1, <2>2, Zenon DEF Entry
  <2> QED
    BY <2>3, Zenon DEF x, u
<1>5. \A i \in DOMAIN writeList :
        /\ writeList'[i] \in WriteEntry /\ writeList'[i].blk = writeList[i].blk
        /\ writeList'[i].wait = Elapse(writeList[i].wait, 0)
  BY <1>1, <1>3 DEF WriteEntry, Elapse
<1>6. missList' \in Seq(Entry)
  <2>1. missList' \in [1 .. Len(missList) -> Entry]
    BY <1>1, <1>4, Zenon DEF Tick
  <2> QED
    BY <1>1, <2>1, FunctionIsSeq, Zenon
<1>7. writeList' \in Seq(WriteEntry)
  <2>1. writeList' \in [1 .. Len(writeList) -> WriteEntry]
    BY <1>1, <1>5, Zenon DEF Tick
  <2> QED
    BY <1>1, <2>1, FunctionIsSeq, Zenon
<1>8. writeService' \in Seq(0 .. MemLatency)
  <2>1. \A i \in DOMAIN writeService : Elapse(writeService[i], 0) \in 0 .. MemLatency
    BY <1>1, PortAssumption DEF Elapse, PortAssumption
  <2> QED
    BY <1>1, <2>1, IsASeq DEF Tick
<1>9. sendEvent' \in 0 .. MaxTick /\ (sendEvent = MaxTick => sendEvent' = MaxTick)
  BY PortAssumption DEF Tick, IInv, TypeOK, PortAssumption
<1>10. \A a, c, last \in Int : a <= c => Elapse(a, last) <= Elapse(c, last)
  BY DEF Elapse
<1>11. \A i, j \in DOMAIN missList' : i < j => missList'[i].wait <= missList'[j].wait
  <2> SUFFICES ASSUME NEW i \in DOMAIN missList, NEW j \in DOMAIN missList, i < j
               PROVE  missList'[i].wait <= missList'[j].wait
    BY <1>2, Zenon
  <2>1. missList[i].wait \in Int /\ missList[j].wait \in Int /\ Overdue \in Int
    BY <1>1, Waits, PortAssumption DEF PortAssumption
  <2>2. missList[i].wait <= missList[j].wait
    BY <1>0, Zenon DEF Sorted
  <2>3. Elapse(missList[i].wait, Overdue) <= Elapse(missList[j].wait, Overdue)
    BY <2>1, <2>2, <1>10, Zenon
  <2> QED
    BY <2>3, <1>4, Zenon
<1>12. \A i, j \in DOMAIN writeList' : i < j => writeList'[i].wait <= writeList'[j].wait
  <2> SUFFICES ASSUME NEW i \in DOMAIN writeList, NEW j \in DOMAIN writeList, i < j
               PROVE  writeList'[i].wait <= writeList'[j].wait
    BY <1>3, Zenon
  <2>1. writeList[i].wait \in Int /\ writeList[j].wait \in Int
    BY <1>1, Waits, Zenon
  <2>2. writeList[i].wait <= writeList[j].wait
    BY <1>0, Zenon DEF Sorted
  <2>3. Elapse(writeList[i].wait, 0) <= Elapse(writeList[j].wait, 0)
    BY <2>1, <2>2, <1>10
  <2> QED
    BY <2>3, <1>5, Zenon
<1>13. Distinct(missList')
  BY <1>0, <1>2, <1>4, Zenon DEF Distinct
<1>14. Blks(missList') = Blks(missList)
  BY <1>2, <1>4, Zenon DEF Blks
<1>15. TypeOK' /\ NeverBoth'
  BY <1>6, <1>7, <1>8, <1>9, Zenon DEF Tick, IInv, TypeOK, NeverBoth
<1>16. IInv'
  BY <1>11, <1>12, <1>13, <1>15, Zenon DEF IInv, ReadyListsSorted, Distinct
<1> QED
  BY <1>3, <1>5, <1>14, <1>16, Zenon

LEMMA NextIInv == IInv /\ [Next]_vars => IInv'
<1> SUFFICES ASSUME IInv, [Next]_vars PROVE IInv'
  BY Zenon
<1>1. CASE processSendEvent \/ retry
  BY <1>1, SendMissIInv, SendWriteIInv, SendOtherIInv, Zenon
     DEF processSendEvent, retry, sendDeferredPacket
<1>2. CASE \E kind \in Kinds, b \in Blocks : allocateMissBuffer(kind, b)
  BY <1>2, AllocMissIInv, Zenon
<1>3. CASE \E b \in Blocks : allocateWriteBuffer(b)
  BY <1>3, AllocWriteIInv, Zenon
<1>4. CASE \E i \in DOMAIN missList : PamHit(i)
  BY <1>4, PamHitIInv, Zenon
<1>5. CASE (\E b \in missService : ReadDone(b)) \/ WriteDone
  BY <1>5, DoneIInv, Zenon
<1>6. CASE Tick
  BY <1>6, TickIInv, Zenon
<1>7. CASE UNCHANGED vars
  BY <1>7, Zenon DEF vars, IInv, TypeOK, NeverBoth, ReadyListsSorted, Distinct
<1> QED
  BY <1>1, <1>2, <1>3, <1>4, <1>5, <1>6, <1>7, Zenon DEF Next

\* The inductive invariant of the port holds for every number of blocks and
\* every latency.
THEOREM PortInvariant == Spec => []IInv
BY InitIInv, NextIInv, PTL DEF Spec

\* Type correctness of the port.
THEOREM PortTypeOK == Spec => []TypeOK
<1>1. IInv => TypeOK
  BY Zenon DEF IInv
<1> QED
  BY <1>1, PortInvariant, PTL

\* The asserts of schedSendEvent, sendDeferredPacket and retry hold: no send
\* event is scheduled while a retry is owed.
THEOREM PortNeverBoth == Spec => []NeverBoth
<1>1. IInv => NeverBoth
  BY Zenon DEF IInv
<1> QED
  BY <1>1, PortInvariant, PTL

\* The heads that getNextMSHR and nextMSHRReadyTime look at are the earliest
\* entries: both ready lists stay sorted.
THEOREM PortReadyListsSorted == Spec => []ReadyListsSorted
<1>1. IInv => ReadyListsSorted
  BY Zenon DEF IInv
<1> QED
  BY <1>1, PortInvariant, PTL

---------------------------------------------------------------------------
\* Wake-ups.

\* With an entry left, the next ready time is a time.
LEMMA ReadyTimeOfPending ==
  ASSUME NEW ml \in Seq(Entry), NEW wl \in Seq(WriteEntry), ml # <<>> \/ wl # <<>>
  PROVE  schedSendEvent(FALSE, MaxTick, nextMSHRReadyTime(ml, wl)) # MaxTick
<1>1. ml # <<>> => readyTime(ml) \in Past .. PREDICTION_LATENCY
  <2> SUFFICES ASSUME ml # <<>> PROVE Head(ml).wait \in Past .. PREDICTION_LATENCY
    BY Zenon DEF readyTime
  <2>1. Head(ml) \in Entry
    BY HeadTailProperties, Zenon
  <2> QED
    BY <2>1, Zenon DEF Entry
<1>2. wl # <<>> => readyTime(wl) \in Past .. PREDICTION_LATENCY
  <2> SUFFICES ASSUME wl # <<>> PROVE Head(wl).wait \in Past .. PREDICTION_LATENCY
    BY Zenon DEF readyTime
  <2>1. Head(wl) \in WriteEntry
    BY HeadTailProperties, Zenon
  <2> QED
    BY <2>1, PortAssumption DEF WriteEntry, PortAssumption
<1>3. /\ ml = <<>> => readyTime(ml) = MaxTick
      /\ wl = <<>> => readyTime(wl) = MaxTick
  BY Zenon DEF readyTime
<1>4. nextMSHRReadyTime(ml, wl) \in Past .. PREDICTION_LATENCY
  BY <1>1, <1>2, <1>3, PortAssumption DEF nextMSHRReadyTime, Least, PortAssumption
<1> QED
  BY <1>4, PortAssumption DEF schedSendEvent, Least, Greatest, PortAssumption

\* A step leaves entries without a wake-up only by a send that finds nothing.
LEMMA NextStranded ==
  ASSUME IInv, IInv', Next, Stranded'
  PROVE  Stranded \/ (NothingToSend /\ (waitingOnRetry \/ sendEvent = 0))
<1>0. /\ missList' \in Seq(Entry) /\ writeList' \in Seq(WriteEntry)
      /\ sendEvent \in 0 .. MaxTick /\ waitingOnRetry \in BOOLEAN
      /\ HavePending' /\ ~waitingOnRetry' /\ sendEvent' = MaxTick
  BY Zenon DEF IInv, TypeOK, Stranded
<1>1. CASE processSendEvent \/ retry
  <2>0. waitingOnRetry \/ sendEvent = 0
    BY <1>1, Zenon DEF processSendEvent, retry
  <2>1. CASE SendMiss
    <3>1. schedSendEvent(FALSE, MaxTick, nextMSHRReadyTime(missList', writeList')) # MaxTick
      BY <1>0, ReadyTimeOfPending, Zenon DEF HavePending
    <3> QED
      BY <2>1, <3>1, <1>0, Zenon DEF SendMiss
  <2>2. CASE SendWrite
    <3>1. schedSendEvent(FALSE, MaxTick, nextMSHRReadyTime(missList', writeList')) # MaxTick
      BY <1>0, ReadyTimeOfPending, Zenon DEF HavePending
    <3> QED
      BY <2>2, <3>1, <1>0, Zenon DEF SendWrite
  <2>3. CASE SendRefused
    BY <2>3, <1>0, Zenon DEF SendRefused
  <2>4. CASE SendNothing
    BY <2>4, <2>0, Zenon DEF SendNothing
  <2> QED
    BY <1>1, <2>1, <2>2, <2>3, <2>4, Zenon DEF processSendEvent, retry, sendDeferredPacket
<1>2. CASE \E kind \in Kinds, b \in Blocks : allocateMissBuffer(kind, b)
  <2>1. PICK kind \in Kinds, b \in Blocks : allocateMissBuffer(kind, b)
    BY <1>2, Zenon
  <2>2. WaitOf(kind) \in Past .. PREDICTION_LATENCY
    BY PortAssumption DEF WaitOf, Kinds, PortAssumption
  <2>3. sendEvent' = schedSendEvent(waitingOnRetry, sendEvent, WaitOf(kind))
        /\ waitingOnRetry' = waitingOnRetry
    BY <2>1, Zenon DEF allocateMissBuffer
  <2>4. waitingOnRetry = FALSE /\ WaitOf(kind) # MaxTick
    BY <2>2, <2>3, <1>0, PortAssumption DEF PortAssumption
  <2>5. sendEvent' = Least(sendEvent, Greatest(WaitOf(kind), 1))
    BY <2>3, <2>4, Zenon DEF schedSendEvent
  <2> HIDE DEF MaxTick
  <2>6. Greatest(WaitOf(kind), 1) \in 1 .. PREDICTION_LATENCY
    BY <2>2, PortAssumption DEF Greatest, PortAssumption
  <2>7. Least(sendEvent, Greatest(WaitOf(kind), 1)) # MaxTick
    BY <2>6, <1>0, PortAssumption DEF Least, MaxTick, PortAssumption
  <2> QED
    BY <2>5, <2>7, <1>0, Zenon
<1>3. CASE \E b \in Blocks : allocateWriteBuffer(b)
  <2>1. sendEvent' = schedSendEvent(waitingOnRetry, sendEvent, 1)
        /\ waitingOnRetry' = waitingOnRetry
    BY <1>3, Zenon DEF allocateWriteBuffer
  <2> QED
    BY <2>1, <1>0, PortAssumption DEF schedSendEvent, Least, Greatest, PortAssumption
<1>4. CASE \E i \in DOMAIN missList : PamHit(i)
  <2>1. PICK i \in DOMAIN missList : PamHit(i)
    BY <1>4, Zenon
  <2>2. missList # <<>>
    BY <2>1
  <2> QED
    BY <2>1, <2>2, <1>0, Zenon DEF PamHit, Stranded, HavePending
<1>5. CASE (\E b \in missService : ReadDone(b)) \/ WriteDone
  BY <1>5, <1>0, Zenon DEF ReadDone, WriteDone, Stranded, HavePending
<1>6. CASE Tick
  <2>1. (missList' # <<>> => missList # <<>>) /\ (writeList' # <<>> => writeList # <<>>)
    BY <1>6 DEF Tick
  <2>2. sendEvent = MaxTick /\ waitingOnRetry' = waitingOnRetry
    BY <1>6, <1>0, PortAssumption DEF Tick, PortAssumption
  <2> QED
    BY <2>1, <2>2, <1>0, Zenon DEF Stranded, HavePending
<1> QED
  BY <1>1, <1>2, <1>3, <1>4, <1>5, <1>6, Zenon DEF Next

\* Every allocation and every successful send leaves a wake-up behind; only a
\* send attempt that finds nothing ready can strand what waits.
THEOREM PortStranded == Spec => StrandedOnlyByEmptySend
<1>1. IInv /\ IInv' /\ [Next]_vars =>
        [Stranded' =>
           \/ Stranded
           \/ NothingToSend /\ (waitingOnRetry \/ sendEvent = 0)]_vars
  BY NextStranded, Zenon
<1> QED
  BY <1>1, PortInvariant, PTL DEF Spec, StrandedOnlyByEmptySend

---------------------------------------------------------------------------
\* The port implements the sender.

Wbs(list) == [i \in DOMAIN list |-> list[i].blk]

USE DEF Sender!vars

LEMMA InitRefines == Init => Sender!Init
<1>1. Len(<<>>) = 0
  BY EmptySeq, Zenon
<1> QED
  BY <1>1 DEF Init, Sender!Init

\* A read is sent only when no write-back of its block waits.
LEMMA SendMissRefines ==
  ASSUME IInv, SendMiss
  PROVE  Sender!Next
<1>0. missList \in Seq(Entry) /\ missList # <<>> /\ Distinct(missList)
  BY ListFacts, Zenon DEF SendMiss, PickMiss, HeadReady
<1>1. /\ missList' = erase(missList, 1) /\ 1 \in 1 .. Len(missList)
      /\ Head(missList) = missList[1] /\ Head(missList) \in Entry
      /\ DOMAIN missList = 1 .. Len(missList)
  BY <1>0, TailIsErase, HeadTailProperties, LenProperties, Zenon DEF SendMiss
<1> PICK b \in Blocks : b = missList[1].blk
  BY <1>1, Waits, Zenon
<1>2. Blks(missList') = Blks(missList) \ {b} /\ b \in Blks(missList)
  <2>1. b \in Blks(missList)
    BY <1>1, Zenon DEF Blks
  <2> QED
    BY <2>1, <1>0, <1>1, EraseBlocks, Zenon
<1>3. \A i \in DOMAIN writeList : writeList[i].blk # b
  BY <1>1, Zenon DEF SendMiss, PickMiss, Conflict, PendingWrites
<1>5. /\ writeList' = writeList /\ writeService' = writeService
      /\ missService' = missService \union {b}
  BY <1>1, Zenon DEF SendMiss
<1>6. Sender!SendRead(b)
  BY <1>2, <1>3, <1>5, Zenon DEF Sender!SendRead, Blks
<1> QED
  BY <1>6, Zenon DEF Sender!Next

\* A write-back is sent in its turn among those of its block.
LEMMA SendWriteRefines ==
  ASSUME IInv, SendWrite
  PROVE  Sender!Next
<1> PICK i \in 1 .. Len(writeList) : i = WriteIndex
  BY WriteIndexProperties, Zenon DEF SendWrite
<1>0. /\ writeList \in Seq(WriteEntry) /\ Len(writeList) \in Nat
      /\ DOMAIN writeList = 1 .. Len(writeList)
      /\ i \in 1 .. Len(writeList)
      /\ \A j \in 1 .. i - 1 : writeList[j].blk # writeList[i].blk
  BY ListFacts, LenProperties, WriteIndexProperties, Zenon DEF SendWrite
<1>1. /\ writeList' = erase(writeList, i)
      /\ missList' = missList /\ missService' = missService
  BY Zenon DEF SendWrite
<1>8. Len(writeService') = Len(writeService) + 1
  <2>1. MemLatency \in 0 .. MemLatency
    BY PortAssumption DEF PortAssumption
  <2> QED
    BY <2>1, AppendProperties, Zenon DEF IInv, TypeOK, SendWrite
<1> DEFINE w == Wbs(writeList)
<1>2. /\ DOMAIN w = 1 .. Len(writeList)
      /\ \A k \in 1 .. Len(writeList) : w[k] = writeList[k].blk
  BY <1>0, Zenon DEF Wbs
<1>3. w \in Seq(Blocks) /\ Len(w) = Len(writeList)
  <2>1. w \in [1 .. Len(writeList) -> Blocks]
    BY <1>0, ElementOfSeq, Waits, Zenon DEF Wbs
  <2> HIDE DEF w
  <2> QED
    BY <1>0, <2>1, FunctionIsSeq, Zenon
<1>4. Wbs(writeList') = erase(w, i)
  <2>1. /\ DOMAIN writeList' = 1 .. Len(writeList) - 1
        /\ \A k \in 1 .. Len(writeList) - 1 :
             writeList'[k] = IF k < i THEN writeList[k] ELSE writeList[k + 1]
    BY <1>1, Zenon DEF erase
  <2>2. /\ DOMAIN Wbs(writeList') = 1 .. Len(writeList) - 1
        /\ \A k \in 1 .. Len(writeList) - 1 :
             Wbs(writeList')[k] = IF k < i THEN w[k] ELSE w[k + 1]
    BY <2>1, <1>0, <1>2 DEF Wbs
  <2>3. Wbs(writeList') = [k \in 1 .. Len(writeList) - 1 |-> Wbs(writeList')[k]]
    BY <2>2, Zenon DEF Wbs
  <2> HIDE DEF w
  <2> QED
    BY <2>2, <2>3, <1>3, Zenon DEF erase
<1>5. Sender!erase(w, i) = erase(w, i)
  BY Zenon DEF erase, Sender!erase
<1>6. Sender!SendWriteBack(i)
  <2>1. \A j \in 1 .. i - 1 : w[j] # w[i]
    BY <1>0, <1>2
  <2>2. Wbs(writeList') = Sender!erase(w, i)
    BY <1>4, <1>5, Zenon
  <2>3. {missList'[j].blk : j \in DOMAIN missList'}
          = {missList[j].blk : j \in DOMAIN missList}
    BY <1>1, Zenon
  <2> QED
    BY <2>1, <2>2, <2>3, <1>1, <1>8, Zenon DEF Sender!SendWriteBack, Wbs
<1>7. i \in DOMAIN w
  BY <1>0, <1>2, Zenon
<1> QED
  BY <1>6, <1>7, Zenon DEF Sender!Next, Wbs

LEMMA AllocMissRefines ==
  ASSUME IInv, NEW kind \in Kinds, NEW b \in Blocks, allocateMissBuffer(kind, b)
  PROVE  Sender!Next
<1> DEFINE e == [blk |-> b, kind |-> kind, wait |-> WaitOf(kind)]
<1>0. missList \in Seq(Entry) /\ Sorted(missList)
  BY ListFacts, Zenon
<1>1. e \in Entry /\ e.blk = b
  BY PortAssumption DEF WaitOf, Kinds, Entry, PortAssumption
<1>2. /\ missList' = addToReadyList(missList, e)
      /\ UNCHANGED <<writeList, missService, writeService>>
  BY Zenon DEF allocateMissBuffer
<1> HIDE DEF e
<1>3. Blks(missList') = Blks(missList) \union {b}
  BY <1>0, <1>1, <1>2, Waits, AddBlocks, Zenon
<1>4. b \notin Blks(missList) /\ b \notin missService
  BY Zenon DEF allocateMissBuffer, Pending, Blks
<1>5. Sender!AddRead(b)
  BY <1>2, <1>3, <1>4, Zenon DEF Sender!AddRead, Blks
<1> QED
  BY <1>5, Zenon DEF Sender!Next

\* The write buffer is in order of allocation: every entry waits at most the
\* one tick a new entry waits.
LEMMA AllocWriteRefines ==
  ASSUME IInv, NEW b \in Blocks, allocateWriteBuffer(b)
  PROVE  Sender!Next
<1> DEFINE e == [blk |-> b, wait |-> 1]
           w == Wbs(writeList)
<1>0. /\ writeList \in Seq(WriteEntry) /\ Len(writeList) \in Nat
      /\ DOMAIN writeList = 1 .. Len(writeList)
      /\ \A k \in 1 .. Len(writeList) : writeList[k] \in WriteEntry
  BY ListFacts, LenProperties, ElementOfSeq, Zenon
<1>1. e \in WriteEntry /\ e.blk = b
  BY DEF WriteEntry
<1>2. {k \in DOMAIN writeList : writeList[k].wait > e.wait} = {}
  BY <1>0 DEF WriteEntry
<1>3. /\ writeList' = Append(writeList, e)
      /\ UNCHANGED <<missList, missService, writeService>>
  BY <1>2, Zenon DEF allocateWriteBuffer, addToReadyList
<1> HIDE DEF e
<1>4. /\ writeList' \in Seq(WriteEntry) /\ Len(writeList') = Len(writeList) + 1
      /\ \A k \in 1 .. Len(writeList) : writeList'[k] = writeList[k]
      /\ writeList'[Len(writeList) + 1] = e
  BY <1>0, <1>1, <1>3, AppendProperties
<1>5. w \in [1 .. Len(writeList) -> Blocks]
  BY <1>0, Waits, Zenon DEF Wbs
<1>6. \A k \in 1 .. Len(writeList) : w[k] = writeList[k].blk
  BY <1>0, Zenon DEF Wbs
<1>7. DOMAIN writeList' = 1 .. Len(writeList) + 1
  BY <1>4, LenProperties, Zenon
<1>8. /\ Wbs(writeList') \in [1 .. Len(writeList) + 1 -> Blocks]
      /\ \A k \in 1 .. Len(writeList) : Wbs(writeList')[k] = w[k]
      /\ Wbs(writeList')[Len(writeList) + 1] = b
  <2>1. \A k \in 1 .. Len(writeList) + 1 : writeList'[k] \in WriteEntry
    BY <1>4, <1>7, ElementOfSeq, Zenon
  <2>2. \A k \in 1 .. Len(writeList) + 1 : Wbs(writeList')[k] = writeList'[k].blk
    BY <1>7, Zenon DEF Wbs
  <2>3. Wbs(writeList') \in [1 .. Len(writeList) + 1 -> Blocks]
    BY <2>1, <1>7, Waits, Zenon DEF Wbs
  <2>4. Len(writeList) + 1 \in 1 .. Len(writeList) + 1
        /\ \A k \in 1 .. Len(writeList) : k \in 1 .. Len(writeList) + 1
    BY <1>0
  <2> QED
    BY <2>2, <2>3, <2>4, <1>1, <1>4, <1>6, Zenon
<1> HIDE DEF w
<1>9. w \in Seq(Blocks) /\ Len(w) = Len(writeList)
  BY <1>0, <1>5, FunctionIsSeq, Zenon
<1>10. Wbs(writeList') \in Seq(Blocks) /\ Len(Wbs(writeList')) = Len(writeList) + 1
  BY <1>0, <1>8, FunctionIsSeq
<1>11. /\ Append(w, b) \in Seq(Blocks) /\ Len(Append(w, b)) = Len(writeList) + 1
       /\ \A k \in 1 .. Len(writeList) : Append(w, b)[k] = w[k]
       /\ Append(w, b)[Len(writeList) + 1] = b
  BY <1>9, AppendProperties
<1>12. \A k \in 1 .. Len(writeList) + 1 : Wbs(writeList')[k] = Append(w, b)[k]
  BY <1>0, <1>8, <1>11
<1>13. Wbs(writeList') = Append(w, b)
  BY <1>10, <1>11, <1>12, SeqEqual, Zenon
<1>14. Len(w) + Len(writeService) < MaxWriteBacks
  BY <1>9, Zenon DEF allocateWriteBuffer
<1>15. Sender!AddWriteBack(b)
  BY <1>3, <1>13, <1>14, Zenon DEF Sender!AddWriteBack, Wbs, w
<1> QED
  BY <1>15, Zenon DEF Sender!Next

LEMMA PamHitRefines ==
  ASSUME IInv, NEW i \in DOMAIN missList, PamHit(i)
  PROVE  Sender!Next
<1>0. /\ missList \in Seq(Entry) /\ Distinct(missList) /\ i \in 1 .. Len(missList)
      /\ missList[i] \in Entry
  BY ListFacts, LenProperties, ElementOfSeq, Zenon
<1> PICK b \in Blocks : b = missList[i].blk
  BY <1>0, Waits, Zenon
<1>1. /\ missList' = erase(missList, i)
      /\ UNCHANGED <<writeList, missService, writeService>>
  BY Zenon DEF PamHit
<1>2. Blks(missList') = Blks(missList) \ {b} /\ b \in Blks(missList)
  <2>1. b \in Blks(missList)
    BY Zenon DEF Blks
  <2> QED
    BY <2>1, <1>0, <1>1, EraseBlocks, Zenon
<1>3. Sender!Withdraw(b)
  BY <1>1, <1>2, Zenon DEF Sender!Withdraw, Blks
<1> QED
  BY <1>3, Zenon DEF Sender!Next

LEMMA StutterRefines ==
  ASSUME Blks(missList') = Blks(missList), Wbs(writeList') = Wbs(writeList),
         missService' = missService, Len(writeService') = Len(writeService)
  PROVE  UNCHANGED Sender!vars
BY Zenon DEF Blks, Wbs

LEMMA TickRefines ==
  ASSUME IInv, Tick
  PROVE  UNCHANGED Sender!vars
<1>1. /\ Blks(missList') = Blks(missList)
      /\ DOMAIN writeList' = DOMAIN writeList
      /\ \A i \in DOMAIN writeList : writeList'[i].blk = writeList[i].blk
  BY TickIInv, Zenon
<1>2. Wbs(writeList') = Wbs(writeList)
  BY <1>1, Zenon DEF Wbs
<1>3. Len(writeService') = Len(writeService) /\ missService' = missService
  <2>1. Len(writeService) \in Nat /\ DOMAIN writeService = 1 .. Len(writeService)
    BY LenProperties, Zenon DEF IInv, TypeOK
  <2>2. writeService' \in [1 .. Len(writeService) -> Int]
    <3>1. \A i \in 1 .. Len(writeService) : writeService[i] \in 0 .. MemLatency
      BY <2>1, ElementOfSeq, Zenon DEF IInv, TypeOK
    <3>2. \A i \in 1 .. Len(writeService) : Elapse(writeService[i], 0) \in Int
      BY <3>1, PortAssumption DEF Elapse, PortAssumption
    <3> QED
      BY <2>1, <3>2, Zenon DEF Tick
  <2> QED
    BY <2>1, <2>2, FunctionIsSeq, Zenon DEF Tick
<1> QED
  BY <1>1, <1>2, <1>3, StutterRefines, Zenon

\* Main memory's answers are the sender's.
LEMMA DoneRefines ==
  ASSUME IInv, (\E b \in missService : ReadDone(b)) \/ WriteDone
  PROVE  Sender!Next
<1>1. CASE \E b \in missService : ReadDone(b)
  <2>1. PICK b \in missService : ReadDone(b)
    BY <1>1, Zenon
  <2>2. Sender!ReadAnswered(b)
    BY <2>1, Zenon DEF ReadDone, Sender!ReadAnswered
  <2> QED
    BY <2>2, Zenon DEF Sender!Next
<1>2. CASE WriteDone
  <2>1. /\ Len(writeService') = Len(writeService) - 1 /\ Len(writeService) \in Nat
        /\ Len(writeService) > 0
    <3>1. writeService \in Seq(0 .. MemLatency) /\ writeService # <<>>
      BY <1>2, Zenon DEF WriteDone, IInv, TypeOK
    <3>2. 1 \in 1 .. Len(writeService) /\ Len(writeService) \in Nat
      BY <3>1, TailIsErase, LenProperties, Zenon
    <3> QED
      BY <1>2, <3>1, <3>2, HeadTailProperties DEF WriteDone
  <2>2. Sender!WriteAnswered
    BY <1>2, <2>1, Zenon DEF WriteDone, Sender!WriteAnswered
  <2> QED
    BY <2>2, Zenon DEF Sender!Next
<1> QED
  BY <1>1, <1>2, Zenon

LEMMA NextRefines == IInv /\ [Next]_vars => [Sender!Next]_(Sender!vars)
<1> SUFFICES ASSUME IInv, [Next]_vars PROVE [Sender!Next]_(Sender!vars)
  BY Zenon
<1> USE DEF Blks, Wbs
<1>1. CASE SendMiss \/ SendWrite
  BY <1>1, SendMissRefines, SendWriteRefines, Zenon
<1>2. CASE SendRefused \/ SendNothing
  BY <1>2, StutterRefines, Zenon DEF SendRefused, SendNothing
<1>3. CASE \E kind \in Kinds, b \in Blocks : allocateMissBuffer(kind, b)
  BY <1>3, AllocMissRefines, Zenon
<1>4. CASE \E b \in Blocks : allocateWriteBuffer(b)
  BY <1>4, AllocWriteRefines, Zenon
<1>5. CASE \E i \in DOMAIN missList : PamHit(i)
  BY <1>5, PamHitRefines, Zenon
<1>6. CASE (\E b \in missService : ReadDone(b)) \/ WriteDone
  BY <1>6, DoneRefines, Zenon
<1>7. CASE Tick
  BY <1>7, TickRefines, Zenon
<1>8. CASE UNCHANGED vars
  BY <1>8, StutterRefines, Zenon DEF vars
<1> QED
  BY <1>1, <1>2, <1>3, <1>4, <1>5, <1>6, <1>7, <1>8, Zenon
     DEF Next, processSendEvent, retry, sendDeferredPacket

\* The port implements the sender: for any number of blocks and any latencies
\* no read passes a write-back of its block, and the write-backs of a block go
\* out in order.
THEOREM PortImplementsSender == Spec => ImplementsSender
<1>1. Spec => []IInv
  BY PortInvariant, Zenon
<1> QED
  BY <1>1, InitRefines, NextRefines, PTL DEF Spec, ImplementsSender, Sender!Spec
=============================================================================
