--------------------------- MODULE DRAMCachePort ---------------------------
(***************************************************************************)
(* The memory-side port of the DRAM cache: the ready lists of the MSHR     *)
(* queue and of the write buffer, the choice of the next entry to send,    *)
(* and the send event and retry of the packet queue.                       *)
(*                                                                         *)
(* Time is relative: an entry has the ticks left until it is ready, the    *)
(* send event the ticks left until it fires.  An entry that was given an   *)
(* absolute ready time (a bypassed read, curTick forgotten) is Past: it is *)
(* ready and precedes every entry with a time of its own.                  *)
(***************************************************************************)
EXTENDS ReadyLists

CONSTANTS
  Blocks,             \* block addresses
  PREDICTION_LATENCY, \* ticks until a predicted miss may be sent
  AccessLatency,      \* least ticks from then to the answer of its tag check
  WriteBuffers,       \* write buffer entries before isFull
  MaxWriteBacks,      \* write buffer entries, reserve included
  MemLatency          \* least ticks main memory takes to answer a write

ASSUME PortAssumption ==
  /\ PREDICTION_LATENCY \in Nat \ {0} /\ AccessLatency \in Nat \ {0}
  /\ WriteBuffers \in Nat \ {0} /\ MaxWriteBacks \in Nat
  /\ MemLatency \in Nat

VARIABLES
  missList,        \* mshrQueue.readyList: entries not sent, by ready time
  writeList,       \* writeBuffer.readyList
  missService,     \* blocks whose read was sent and not answered
  writeService,    \* ticks left of each write-back in service, oldest first
  sendEvent,       \* ticks until sendEvent fires, or MaxTick
  waitingOnRetry   \* main memory refused a packet and owes a retry

vars == <<missList, writeList, missService, writeService, sendEvent, waitingOnRetry>>

\* MaxTick: nothing ready, or the event not scheduled.
MaxTick == PREDICTION_LATENCY + 1
\* A miss that has been ready for as long as a tag check may take, and one
\* ready since long ago.
Overdue == -AccessLatency
Past == Overdue - 1
Kinds == {"serial", "pam", "bypass"}
Entry == [blk : Blocks, kind : Kinds, wait : Past .. PREDICTION_LATENCY]
WriteEntry == [blk : Blocks, wait : 0 .. 1]

Least(a, b) == IF a <= b THEN a ELSE b
Greatest(a, b) == IF a <= b THEN b ELSE a

Init ==
  /\ missList = <<>> /\ writeList = <<>>
  /\ missService = {} /\ writeService = <<>>
  /\ sendEvent = MaxTick
  /\ waitingOnRetry = FALSE

---------------------------------------------------------------------------
\* MSHRQueue.

\* Mutant: always at the end.
addToReadyListEnd(list, e) == Append(list, e)

\* addToReadyList: behind every entry ready no later.
addToReadyList(list, e) ==
  LET later == {i \in DOMAIN list : list[i].wait > e.wait}
  IN IF later = {} THEN Append(list, e)
     ELSE insert(list, CHOOSE i \in later : \A j \in later : i <= j, e)

\* getNextMSHR of a queue: the head, if its time has come.
HeadReady(list) == list # <<>> /\ Head(list).wait <= 0

readyTime(list) == IF list = <<>> THEN MaxTick ELSE Head(list).wait
nextMSHRReadyTime(ml, wl) == Least(readyTime(ml), readyTime(wl))

writeBufferFull == Len(writeList) + Len(writeService) >= WriteBuffers

\* The entries of the write buffer for a block, and the first of them.
PendingWrites(b) == {i \in DOMAIN writeList : writeList[i].blk = b}
findPending(b) == CHOOSE i \in PendingWrites(b) : \A j \in PendingWrites(b) : i <= j

---------------------------------------------------------------------------
\* The choice of getNextMSHR.  The search of the MSHR queue for an earlier
\* miss asks for a secure entry and there is none.

\* Mutants: a full buffer always goes first; never.
WriteFirstAlways == HeadReady(writeList) /\ (writeBufferFull \/ ~HeadReady(missList))
WriteFirstNever == HeadReady(writeList) /\ ~HeadReady(missList)

WriteFirst ==
  /\ HeadReady(writeList)
  /\ \/ writeBufferFull /\ writeService = <<>>
     \/ ~HeadReady(missList)

\* Mutant: the write buffer is not searched.
ConflictNone == FALSE

\* An earlier write-back of the miss's block, whether or not it is ready.
Conflict == PendingWrites(Head(missList).blk) # {}

PickMiss == ~WriteFirst /\ HeadReady(missList) /\ ~Conflict
PickWrite == WriteFirst \/ (HeadReady(missList) /\ Conflict)
WriteIndex == IF WriteFirst THEN 1 ELSE findPending(Head(missList).blk)
NothingToSend == ~PickMiss /\ ~PickWrite

---------------------------------------------------------------------------
\* PacketQueue.

\* Mutant: a retry does not hold it off.
schedSendEventAnyway(waiting, event, when) ==
  IF when = MaxTick THEN event ELSE Least(event, Greatest(when, 1))

\* schedSendEvent at the given time, from the state of the event and of the
\* retry when it is called.
schedSendEvent(waiting, event, when) ==
  IF waiting \/ when = MaxTick THEN event ELSE Least(event, Greatest(when, 1))

\* Mutant: the next send is not scheduled.
SendMissLast ==
  /\ PickMiss
  /\ missList' = Tail(missList)
  /\ missService' = missService \union {Head(missList).blk}
  /\ sendEvent' = MaxTick
  /\ waitingOnRetry' = FALSE
  /\ UNCHANGED <<writeList, writeService>>

\* markInService(mshr) and the next send, after main memory took the packet.
SendMiss ==
  /\ PickMiss
  /\ missList' = Tail(missList)
  /\ missService' = missService \union {Head(missList).blk}
  /\ sendEvent' = schedSendEvent(FALSE, MaxTick, nextMSHRReadyTime(missList', writeList))
  /\ waitingOnRetry' = FALSE
  /\ UNCHANGED <<writeList, writeService>>

SendWrite ==
  /\ PickWrite
  /\ writeList' = erase(writeList, WriteIndex)
  /\ writeService' = Append(writeService, MemLatency)
  /\ sendEvent' = schedSendEvent(FALSE, MaxTick, nextMSHRReadyTime(missList, writeList'))
  /\ waitingOnRetry' = FALSE
  /\ UNCHANGED <<missList, missService>>

SendRefused ==
  /\ ~NothingToSend
  /\ sendEvent' = MaxTick
  /\ waitingOnRetry' = TRUE
  /\ UNCHANGED <<missList, writeList, missService, writeService>>

\* getTimingPacket returned NULL: nothing is scheduled.
SendNothing ==
  /\ NothingToSend
  /\ sendEvent' = MaxTick
  /\ waitingOnRetry' = FALSE
  /\ UNCHANGED <<missList, writeList, missService, writeService>>

sendDeferredPacket == SendMiss \/ SendWrite \/ SendRefused \/ SendNothing

\* processSendEvent: the event was asserted not to meet a retry.
processSendEvent == sendEvent = 0 /\ ~waitingOnRetry /\ sendDeferredPacket

\* retry(), called by main memory's port.
retry == waitingOnRetry /\ sendDeferredPacket

---------------------------------------------------------------------------
\* DRAMCacheCtrl.

Pending(b) == \E i \in DOMAIN missList : missList[i].blk = b

\* The ready time each caller passes.
WaitOf(kind) ==
  CASE kind = "serial" -> 1
    [] kind = "pam" -> PREDICTION_LATENCY
    [] kind = "bypass" -> Past

\* allocateMissBuffer.  Requests of a block with an MSHR are coalesced.
allocateMissBuffer(kind, b) ==
  /\ ~Pending(b) /\ b \notin missService
  /\ missList' = addToReadyList(missList, [blk |-> b, kind |-> kind, wait |-> WaitOf(kind)])
  /\ sendEvent' = schedSendEvent(waitingOnRetry, sendEvent, WaitOf(kind))
  /\ UNCHANGED <<writeList, missService, writeService, waitingOnRetry>>

\* allocateWriteBuffer, for the eviction of a dirty line or a write miss.
allocateWriteBuffer(b) ==
  /\ Len(writeList) + Len(writeService) < MaxWriteBacks
  /\ writeList' = addToReadyList(writeList, [blk |-> b, wait |-> 1])
  /\ sendEvent' = schedSendEvent(waitingOnRetry, sendEvent, 1)
  /\ UNCHANGED <<missList, missService, writeService, waitingOnRetry>>

\* processRespondEvent: a predicted miss hits before its read was sent.  The
\* tag check is a DRAM access, so its answer comes AccessLatency or more ticks
\* after the read could have been sent.
PamHit(i) ==
  /\ missList[i].kind = "pam" /\ missList[i].wait = Overdue
  /\ missList' = erase(missList, i)
  /\ UNCHANGED <<writeList, missService, writeService, sendEvent, waitingOnRetry>>

\* recvTimingResp of a read, or a parallel access in service that hits.
ReadDone(b) ==
  /\ missService' = missService \ {b}
  /\ UNCHANGED <<missList, writeList, writeService, sendEvent, waitingOnRetry>>

\* recvTimingResp of a write-back.
WriteDone ==
  /\ writeService # <<>> /\ Head(writeService) = 0
  /\ writeService' = Tail(writeService)
  /\ UNCHANGED <<missList, writeList, missService, sendEvent, waitingOnRetry>>

\* Time passes; an event that is due fires first.
Elapse(w, last) == IF w > last THEN w - 1 ELSE w
Tick ==
  /\ sendEvent > 0
  /\ missList' = [i \in DOMAIN missList |-> [missList[i] EXCEPT !.wait = Elapse(@, Overdue)]]
  /\ writeList' = [i \in DOMAIN writeList |-> [writeList[i] EXCEPT !.wait = Elapse(@, 0)]]
  /\ writeService' = [i \in DOMAIN writeService |-> Elapse(writeService[i], 0)]
  /\ sendEvent' = IF sendEvent = MaxTick THEN MaxTick ELSE sendEvent - 1
  /\ UNCHANGED <<missService, waitingOnRetry>>

Next ==
  \/ processSendEvent
  \/ retry
  \/ \E kind \in Kinds, b \in Blocks : allocateMissBuffer(kind, b)
  \/ \E b \in Blocks : allocateWriteBuffer(b)
  \/ \E i \in DOMAIN missList : PamHit(i)
  \/ \E b \in missService : ReadDone(b)
  \/ WriteDone
  \/ Tick

Spec == Init /\ [][Next]_vars

\* Ticks elapse, a due event fires, main memory answers its write-backs and
\* its retries (DRAMCtrl sends one whenever an entry leaves the full queue),
\* and neither its read queue nor its write queue refuses for ever.
Offered == waitingOnRetry \/ sendEvent = 0
Fairness ==
  /\ WF_vars(Tick) /\ WF_vars(processSendEvent) /\ WF_vars(retry)
  /\ WF_vars(WriteDone)
  /\ SF_vars(Offered /\ SendMiss) /\ SF_vars(Offered /\ SendWrite)

FairSpec == Spec /\ Fairness

---------------------------------------------------------------------------
\* Type correctness: entries, waits and the event stay in range.
TypeOK ==
  /\ missList \in Seq(Entry) /\ writeList \in Seq(WriteEntry)
  /\ missService \subseteq Blocks
  /\ writeService \in Seq(0 .. MemLatency)
  /\ sendEvent \in 0 .. MaxTick
  /\ waitingOnRetry \in BOOLEAN

HavePending == missList # <<>> \/ writeList # <<>>
Stranded == HavePending /\ ~waitingOnRetry /\ sendEvent = MaxTick

\* What the asserts of schedSendEvent, sendDeferredPacket and retry need: the
\* send event is never scheduled while a retry is owed.
NeverBoth == waitingOnRetry => sendEvent = MaxTick

\* The ready lists stay sorted although time passes, reads are withdrawn and
\* bypassed reads are inserted with a ready time of long ago: getNextMSHR and
\* nextMSHRReadyTime look at the head only.
ReadyListsSorted ==
  /\ \A i, j \in DOMAIN missList : i < j => missList[i].wait <= missList[j].wait
  /\ \A i, j \in DOMAIN writeList : i < j => writeList[i].wait <= writeList[j].wait

\* allocateBufferInternal "schedule the send": whenever an entry waits to be
\* sent, the send event is scheduled or main memory owes a retry.
SendScheduled == ~Stranded

\* The only step that leaves entries behind with no wake-up is a send attempt
\* that finds nothing ready: sendDeferredPacket schedules nothing in that case.
StrandedOnlyByEmptySend ==
  [][Stranded' =>
       \/ Stranded
       \/ NothingToSend /\ (waitingOnRetry \/ sendEvent = 0)]_vars

\* Every entry of the MSHR queue is sent, withdrawn or left behind by an empty
\* send, unless bypassed reads overtake it for ever or write-backs of a block
\* at the head of the list go first for ever.
MissesSent ==
  \A b \in Blocks :
    \/ Pending(b) ~> ~Pending(b) \/ Stranded
    \/ []<>(\E i \in DOMAIN missList : missList[i].kind = "bypass")
    \/ []<>(missList # <<>> /\ Conflict)

\* A full write buffer blocks the cache, so it does not wait for the misses it
\* normally yields to: a write-back of it is sent, or was already, whatever
\* reads keep arriving.
FullBufferServed == writeBufferFull ~> writeService # <<>> \/ ~writeBufferFull \/ Stranded

\* The port implements the sender: no read passes a write-back of its block,
\* the write-backs of a block keep their order, nothing is sent twice.
Sender == INSTANCE MemSideSender WITH
  reads <- {missList[i].blk : i \in DOMAIN missList},
  wbs <- [i \in DOMAIN writeList |-> writeList[i].blk],
  reading <- missService,
  writing <- Len(writeService)
ImplementsSender == Sender!Spec
=============================================================================
