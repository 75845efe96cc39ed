--------------------------- MODULE DRAMCacheSched ---------------------------
(***************************************************************************)
(* The request scheduler of the DRAM cache controller: its five burst      *)
(* queues, the bus turnaround of processNextReqEvent, the events that keep *)
(* it running, the two queue-full retry promises, refresh and drain.       *)
(*                                                                         *)
(* A queue is the number of bursts in it.  Which burst chooseNext picks is *)
(* left out, so are tags and data: a read that completes is a hit or a     *)
(* miss by choice, and `misses' counts the memory reads outstanding in the *)
(* MSHR queue because each of them may later add bursts to the fill queue. *)
(***************************************************************************)
EXTENDS Naturals

CONSTANTS
  Ranks,               \* ranks of the channel
  ReadBufferSize,      \* readBufferSize, in bursts
  WriteBufferSize,     \* writeBufferSize
  FillBufferSize,      \* fillBufferSize
  WriteHighThreshold,  \* writeHighThreshold
  WriteLowThreshold,   \* writeLowThreshold
  FillHighThreshold,   \* fillHighThreshold
  MinWritesPerSwitch,  \* minWritesPerSwitch
  MaxMisses,           \* bound on outstanding memory reads
  MaxWriteResp         \* bound on writes accessed and not yet answered

ASSUME SchedAssumption ==
  /\ Ranks # {}
  /\ ReadBufferSize \in Nat /\ WriteBufferSize \in Nat /\ FillBufferSize \in Nat
  /\ ReadBufferSize >= 2 /\ WriteBufferSize >= 2
  /\ WriteHighThreshold \in Nat /\ WriteLowThreshold \in Nat
  /\ FillHighThreshold \in Nat /\ MinWritesPerSwitch \in Nat
  /\ MaxMisses \in Nat /\ MaxWriteResp \in Nat \ {0}
  /\ WriteLowThreshold <= WriteHighThreshold
  /\ WriteHighThreshold + 2 <= WriteBufferSize

VARIABLES
  busState,        \* READ, READ_TO_WRITE, WRITE or WRITE_TO_READ
  readQ,           \* bursts in readQueue
  writeQ,          \* bursts in writeQueue
  fillQ,           \* bursts in fillQueue
  respQ,           \* bursts in respQueue
  writeRespQ,      \* bursts in dramPktWriteRespQueue
  writesThisTime,  \* writes and fills since the last turnaround
  nextReqEvent,    \* "scheduled" or "idle"
  retry,           \* the kinds owed a retry: retryRdReq and retryWrReq
  sender,          \* the packet the upstream port holds: "none", "read", "write"
  misses,          \* memory reads outstanding
  refresh,         \* refreshState of each rank
  drainState       \* Running, Draining or Drained

queues == <<readQ, writeQ, fillQ, respQ, writeRespQ>>
retries == <<retry, sender>>
vars == <<busState, queues, writesThisTime, nextReqEvent, retries, misses, refresh,
          drainState>>

\* DRAM_PKT_COUNT: every 128-byte request is two bursts.
PktCount == 2

BusStates == {"READ", "READ_TO_WRITE", "WRITE", "WRITE_TO_READ"}

\* REF_PRE and REF_RUN are one state here: in both the rank is busy and only
\* its own events move it on.
RefreshStates == {"REF_IDLE", "REF_DRAIN", "REF_RUN"}

DrainStates == {"Running", "Draining", "Drained"}

Min(a, b) == IF a <= b THEN a ELSE b

Init ==
  /\ busState = "READ"
  /\ readQ = 0 /\ writeQ = 0 /\ fillQ = 0 /\ respQ = 0 /\ writeRespQ = 0
  /\ writesThisTime = 0
  /\ nextReqEvent = "idle"
  /\ retry = {} /\ sender = "none"
  /\ misses = 0
  /\ refresh = [r \in Ranks |-> "REF_IDLE"]
  /\ drainState = "Running"

-----------------------------------------------------------------------------
(***************************************************************************)
(* Arrival of requests.  The upstream port keeps a refused packet at its   *)
(* head and sends nothing else until it is told to retry.                  *)
(***************************************************************************)

\* Mutant: the response queue is not counted.
readQueueFullNoResp(n) == readQ + n > ReadBufferSize

readQueueFull(n) == readQ + respQ + n > ReadBufferSize
writeQueueFull(n) == writeQ + n > WriteBufferSize
fillQueueFull(n) == fillQ + n > FillBufferSize

\* The port may send a packet of this kind: a new one, or the refused one
\* once its retry has been given.
MaySend(kind) ==
  \/ sender = "none"
  \/ sender = kind /\ retry = {}

\* addToReadQueue: k bursts are pushed, the other bursts were found in the
\* write or fill queue.  With k = 0 the read is answered at once.
addToReadQueue(k) ==
  /\ PktCount - k <= writeQ + fillQ
  /\ readQ' = readQ + k
  /\ nextReqEvent' = IF k > 0 THEN "scheduled" ELSE nextReqEvent
  /\ UNCHANGED <<writeQ, fillQ, respQ, writeRespQ>>

\* addToWriteQueue: both bursts are pushed, nothing is merged.
addToWriteQueue ==
  /\ writeQ' = writeQ + PktCount
  /\ nextReqEvent' = "scheduled"
  /\ UNCHANGED <<readQ, fillQ, respQ, writeRespQ>>

\* addToFillQueue with the other four queues as given: the fill is not
\* inserted (bypass phase), dropped because the queue is full, or n bursts are
\* pushed and the others merged.  Only the drop returns before nextReqEvent is
\* scheduled.
addToFillQueue ==
  \/ fillQ' = fillQ /\ nextReqEvent' = "scheduled"
  \/ fillQueueFull(PktCount) /\ fillQ' = fillQ /\ nextReqEvent' = nextReqEvent
  \/ /\ ~fillQueueFull(PktCount)
     /\ \E n \in 1..PktCount :
          PktCount - n <= fillQ /\ fillQ' = fillQ + n
     /\ nextReqEvent' = "scheduled"

\* recvTimingReq of a read.  A parallel memory access may start with it.
RecvRead ==
  /\ MaySend("read")
  /\ \/ /\ readQueueFull(PktCount)
        /\ retry' = retry \cup {"read"} /\ sender' = "read"
        /\ UNCHANGED <<queues, nextReqEvent, misses>>
     \/ /\ ~readQueueFull(PktCount)
        /\ sender' = "none"
        /\ \E k \in 0..PktCount : addToReadQueue(k)
        /\ \/ UNCHANGED misses
           \/ misses < MaxMisses /\ misses' = misses + 1
        /\ UNCHANGED retry
  /\ UNCHANGED <<busState, writesThisTime, refresh, drainState>>

\* recvTimingReq of a write.
RecvWrite ==
  /\ MaySend("write")
  /\ \/ /\ writeQueueFull(PktCount)
        /\ retry' = retry \cup {"write"} /\ sender' = "write"
        /\ UNCHANGED <<queues, nextReqEvent>>
     \/ /\ ~writeQueueFull(PktCount)
        /\ sender' = "none"
        /\ addToWriteQueue
        /\ UNCHANGED retry
  /\ UNCHANGED <<busState, writesThisTime, misses, refresh, drainState>>

\* recvTimingReq of a read that bypasses the cache queues to the MSHRs.
RecvBypass ==
  /\ MaySend("read")
  /\ misses < MaxMisses
  /\ misses' = misses + 1
  /\ sender' = "none"
  /\ UNCHANGED <<busState, queues, writesThisTime, nextReqEvent, retry,
                 refresh, drainState>>

\* recvTimingResp: memory answers a read miss; a missing block is filled.
RecvTimingResp ==
  /\ misses > 0
  /\ misses' = misses - 1
  /\ \/ addToFillQueue
     \/ UNCHANGED <<fillQ, nextReqEvent>>
  /\ UNCHANGED <<busState, readQ, writeQ, respQ, writeRespQ, writesThisTime,
                 retries, refresh, drainState>>

-----------------------------------------------------------------------------
(***************************************************************************)
(* processNextReqEvent                                                     *)
(***************************************************************************)

\* The bus state once a pending turnaround has been taken.
Turned ==
  CASE busState = "READ_TO_WRITE" -> "WRITE"
    [] busState = "WRITE_TO_READ" -> "READ"
    [] OTHER -> busState

\* isAvailable() of a rank, and whether chooseNext can find a burst: it always
\* does when every rank is available.
isAvailable(r) == refresh[r] = "REF_IDLE"
AllBusy == \A r \in Ranks : ~isAvailable(r)
SomeBusy == \E r \in Ranks : ~isAvailable(r)

\* checkDrainDone of every rank that is not available.
checkDrainDone ==
  refresh' = [r \in Ranks |->
                IF refresh[r] = "REF_DRAIN" THEN "REF_RUN" ELSE refresh[r]]

\* Mutant: no retry is sent.
RescheduleNoRetry == nextReqEvent' = "scheduled" /\ UNCHANGED retry

\* The tail of the handler: reschedule, and retry a refused write if there is
\* room.
Reschedule ==
  /\ nextReqEvent' = "scheduled"
  /\ retry' = IF writeQ' < WriteBufferSize THEN retry \ {"write"} ELSE retry

\* The early returns: nothing is rescheduled and no retry is sent.
StopHere ==
  /\ nextReqEvent' = "idle"
  /\ UNCHANGED <<queues, retry>>

\* Mutant: draining does not trigger writes.
TriggerWritesNoDrain == writeQ + fillQ > WriteLowThreshold

\* With no read waiting: the bus turns to writes above the low threshold, or
\* at all when draining; otherwise the scheduler goes idle.
NothingToRead == readQ = 0
TriggerWrites ==
  /\ writeQ + fillQ > 0
  /\ drainState = "Draining" \/ writeQ + fillQ > WriteLowThreshold

\* Mutant: the write response queue is not looked at.
ReadIdleNoWriteResp ==
  /\ NothingToRead /\ ~TriggerWrites
  /\ busState' = "READ"
  /\ drainState' = IF drainState = "Draining" /\ respQ = 0
                   THEN "Drained" ELSE drainState
  /\ StopHere

ReadIdle ==
  /\ NothingToRead /\ ~TriggerWrites
  /\ busState' = "READ"
  /\ drainState' = IF drainState = "Draining" /\ respQ = 0 /\ writeRespQ = 0
                   THEN "Drained" ELSE drainState
  /\ StopHere

ReadSwitch ==
  /\ NothingToRead /\ TriggerWrites
  /\ busState' = "READ_TO_WRITE"
  /\ UNCHANGED <<queues, drainState>>
  /\ Reschedule

ReadNotFound ==
  /\ ~NothingToRead /\ SomeBusy
  /\ busState' = "READ"
  /\ UNCHANGED drainState
  /\ StopHere

\* Mutant: no switch to writes at the high threshold.
ReadServeNoSwitch ==
  /\ ~NothingToRead
  /\ readQ' = readQ - 1
  /\ respQ' = respQ + 1
  /\ busState' = "READ"
  /\ UNCHANGED <<writeQ, fillQ, writeRespQ, drainState>>
  /\ Reschedule

ReadServe ==
  /\ ~NothingToRead
  /\ readQ' = readQ - 1
  /\ respQ' = respQ + 1
  /\ busState' = IF writeQ + fillQ > WriteHighThreshold
                 THEN "READ_TO_WRITE" ELSE "READ"
  /\ UNCHANGED <<writeQ, fillQ, writeRespQ, drainState>>
  /\ Reschedule

\* The write side serves the write queue unless the fill queue is high and the
\* write queue is not.
ServeWrites ==
  /\ writeQ > 0
  /\ \/ fillQ < FillHighThreshold
     \/ writeQ > Min(WriteHighThreshold, FillHighThreshold)

\* Mutant: the bus stays when reads wait.
TurnBackNoReads(writes) ==
  \/ writeQ' = 0 /\ fillQ' = 0
  \/ /\ writeQ' + fillQ' + MinWritesPerSwitch < WriteLowThreshold
     /\ drainState # "Draining"

\* After a write or a fill the bus turns back when nothing is left, when the
\* queues are well below the low threshold, or when reads wait.
TurnBack(writes) ==
  \/ writeQ' = 0 /\ fillQ' = 0
  \/ /\ writeQ' + fillQ' + MinWritesPerSwitch < WriteLowThreshold
     /\ drainState # "Draining"
  \/ readQ > 0 /\ writes >= MinWritesPerSwitch

\* writesThisTime after one more write, capped where it is last compared.
OneMoreWrite == Min(writesThisTime + 1, MinWritesPerSwitch)

WriteNotFound ==
  /\ SomeBusy
  /\ busState' = "WRITE"
  /\ UNCHANGED <<writesThisTime, drainState>>
  /\ StopHere

WriteServe ==
  /\ IF ServeWrites
     THEN /\ writeRespQ < MaxWriteResp
          /\ writeQ' = writeQ - 1 /\ writeRespQ' = writeRespQ + 1
          /\ UNCHANGED fillQ
     ELSE /\ fillQ > 0
          /\ fillQ' = fillQ - 1
          /\ UNCHANGED <<writeQ, writeRespQ>>
  /\ writesThisTime' = OneMoreWrite
  /\ busState' = IF TurnBack(OneMoreWrite) THEN "WRITE_TO_READ" ELSE "WRITE"
  /\ UNCHANGED <<readQ, respQ, drainState>>
  /\ Reschedule

processNextReqEvent ==
  /\ nextReqEvent = "scheduled"
  /\ checkDrainDone
  /\ \/ /\ AllBusy
        /\ UNCHANGED <<busState, writesThisTime, drainState>>
        /\ StopHere
     \/ /\ ~AllBusy
        /\ Turned = "READ"
        /\ writesThisTime' =
             IF busState = "WRITE_TO_READ" THEN 0 ELSE writesThisTime
        /\ ReadIdle \/ ReadSwitch \/ ReadNotFound \/ ReadServe
     \/ /\ ~AllBusy
        /\ Turned = "WRITE"
        /\ WriteNotFound \/ WriteServe
  /\ UNCHANGED <<sender, misses>>

-----------------------------------------------------------------------------
(***************************************************************************)
(* The two response events                                                 *)
(***************************************************************************)

\* Mutant: the retry is sent only while more responses wait.
processRespondHelperLateRetry ==
  /\ respQ' = respQ - 1
  /\ UNCHANGED drainState
  /\ retry' = IF respQ' > 0 THEN retry \ {"read"} ELSE retry

\* processRespondHelper: signal a drain, and retry a refused read.
processRespondHelper ==
  /\ respQ' = respQ - 1
  /\ drainState' =
       IF drainState = "Draining" /\ respQ' = 0 /\ writeQ = 0 /\ readQ = 0
          /\ writeRespQ = 0
       THEN "Drained" ELSE drainState
  /\ retry' = retry \ {"read"}

\* processRespondEvent: the burst is not the last of its request or the request
\* hits; it misses and an MSHR is allocated; or it misses, its parallel memory
\* read has already returned, and the block is filled.
processRespondEvent ==
  /\ respQ > 0
  /\ processRespondHelper
  /\ \/ UNCHANGED <<fillQ, nextReqEvent, misses>>
     \/ misses < MaxMisses /\ misses' = misses + 1 /\ UNCHANGED <<fillQ, nextReqEvent>>
     \/ misses > 0 /\ misses' = misses - 1 /\ addToFillQueue
  /\ UNCHANGED <<busState, readQ, writeQ, writeRespQ, writesThisTime,
                 sender, refresh>>

\* processWriteRespondEvent.
processWriteRespondEvent ==
  /\ writeRespQ > 0
  /\ writeRespQ' = writeRespQ - 1
  /\ drainState' =
       IF drainState = "Draining" /\ writeRespQ' = 0 /\ writeQ = 0 /\ readQ = 0
          /\ respQ = 0
       THEN "Drained" ELSE drainState
  /\ UNCHANGED <<busState, readQ, writeQ, fillQ, respQ, writesThisTime, nextReqEvent,
                 retries, misses, refresh>>

-----------------------------------------------------------------------------
(***************************************************************************)
(* Refresh of a rank and drain of the controller                           *)
(***************************************************************************)

\* processRefreshEvent of an idle rank.  It waits for the request loop when a
\* request event is scheduled and the rank is the active one; which rank is
\* active is not tracked, so both outcomes are possible then.
RefreshDue(r) ==
  /\ refresh[r] = "REF_IDLE"
  /\ \/ refresh' = [refresh EXCEPT ![r] = "REF_RUN"]
     \/ /\ nextReqEvent = "scheduled"
        /\ refresh' = [refresh EXCEPT ![r] = "REF_DRAIN"]
  /\ UNCHANGED <<busState, queues, writesThisTime, nextReqEvent, retries, misses,
                 drainState>>

\* Mutant: the request loop is not kicked.
RefreshDoneNoKick(r) ==
  /\ refresh[r] = "REF_RUN"
  /\ refresh' = [refresh EXCEPT ![r] = "REF_IDLE"]
  /\ UNCHANGED <<busState, queues, writesThisTime, nextReqEvent, retries, misses,
                 drainState>>

\* processPowerEvent out of PWR_REF: the rank is available and the request loop
\* is kicked into action.
RefreshDone(r) ==
  /\ refresh[r] = "REF_RUN"
  /\ refresh' = [refresh EXCEPT ![r] = "REF_IDLE"]
  /\ nextReqEvent' = "scheduled"
  /\ UNCHANGED <<busState, queues, writesThisTime, retries, misses, drainState>>

\* drain(): the fill queue and the MSHRs are not looked at.
drain ==
  /\ drainState = "Running"
  /\ IF writeQ = 0 /\ readQ = 0 /\ respQ = 0 /\ writeRespQ = 0
     THEN drainState' = "Drained" /\ UNCHANGED nextReqEvent
     ELSE /\ drainState' = "Draining"
          /\ nextReqEvent' = IF writeQ > 0 THEN "scheduled" ELSE nextReqEvent
  /\ UNCHANGED <<busState, queues, writesThisTime, retries, misses, refresh>>

\* dmDrainResume(): the drain manager sets the state back to Running.
drainResume ==
  /\ drainState = "Drained"
  /\ drainState' = "Running"
  /\ UNCHANGED <<busState, queues, writesThisTime, nextReqEvent, retries, misses,
                 refresh>>

-----------------------------------------------------------------------------
Next ==
  \/ RecvRead \/ RecvWrite \/ RecvBypass \/ RecvTimingResp
  \/ processNextReqEvent \/ processRespondEvent \/ processWriteRespondEvent
  \/ \E r \in Ranks : RefreshDue(r) \/ RefreshDone(r)
  \/ drain \/ drainResume

Spec == Init /\ [][Next]_vars

\* A request event that finds a burst of an available rank, or turns the bus.
Found == <<readQ, writeQ, fillQ, busState>>' # <<readQ, writeQ, fillQ, busState>>

\* Every scheduled event is executed, a port that was told to retry sends again,
\* memory answers, a refresh ends.  The refresh interval is much longer than the
\* time between two request events, so the rank a burst waits for is not in
\* refresh at every event that could serve it.
Fairness ==
  /\ WF_vars(processNextReqEvent)
  /\ SF_vars(processNextReqEvent /\ Found)
  /\ WF_vars(processRespondEvent)
  /\ WF_vars(processWriteRespondEvent)
  /\ WF_vars(sender = "read" /\ RecvRead)
  /\ WF_vars(sender = "write" /\ RecvWrite)
  /\ WF_vars(RecvTimingResp)
  /\ \A r \in Ranks : WF_vars(RefreshDone(r))

FairSpec == Spec /\ Fairness

-----------------------------------------------------------------------------
(***************************************************************************)
(* Properties                                                              *)
(***************************************************************************)

TypeOK ==
  /\ busState \in BusStates
  /\ readQ \in Nat /\ writeQ \in Nat /\ fillQ \in Nat
  /\ respQ \in Nat /\ writeRespQ \in Nat
  /\ writesThisTime \in Nat
  /\ nextReqEvent \in {"idle", "scheduled"}
  /\ retry \subseteq {"read", "write"}
  /\ sender \in {"none", "read", "write"}
  /\ misses \in Nat
  /\ refresh \in [Ranks -> RefreshStates]
  /\ drainState \in DrainStates

\* The buffers never hold more than their size, whatever mix of partly serviced
\* reads, unmerged writes and merged fills arrives: the asserts at the pushes in
\* addToReadQueue, addToWriteQueue and addToFillQueue.
BuffersBounded ==
  /\ readQ + respQ <= ReadBufferSize
  /\ writeQ <= WriteBufferSize
  /\ fillQ <= FillBufferSize

\* The request event is scheduled, or a refresh is running that will schedule
\* it when it ends.
Awake == nextReqEvent = "scheduled" \/ \E r \in Ranks : refresh[r] = "REF_RUN"

\* The scheduler never sleeps on work it is obliged to do: while a read waits,
\* or writes and fills are above the low threshold, it is awake.  This covers
\* every early return of processNextReqEvent, the early return of addToFillQueue
\* and a refresh that waits for the request loop.
NoLostWakeup ==
  readQ > 0 \/ writeQ + fillQ > WriteLowThreshold => Awake

\* A draining controller with queued writes is kicked the same way.
NoLostDrain ==
  drainState = "Draining" /\ writeQ > 0 => Awake

\* On the write side of the bus there is always a write or a fill to serve, so
\* chooseNext is never given an empty queue and the fatal() is unreachable.
WriteSideHasWork ==
  busState \in {"READ_TO_WRITE", "WRITE"} => writeQ + fillQ > 0

\* A refused request is owed exactly one retry, and the event that will send it
\* is on its way: a response for a read, the request loop for a write.
RetryIsOwed ==
  /\ "read" \in retry => sender = "read" /\ readQ + respQ > 0
  /\ "write" \in retry => sender = "write" /\ Awake

\* The end of a drain is signalled only when nothing is left in the read, write
\* and response queues, from whichever of the three handlers it comes.
DrainSignalledWhenIdle ==
  [][drainState = "Draining" /\ drainState' = "Drained"
       => readQ' + writeQ' + respQ' + writeRespQ' = 0]_vars

\* A rank that lets the request loop finish before its refresh is not forgotten:
\* the loop it waits for is scheduled.
RefreshNotForgotten ==
  \A r \in Ranks : refresh[r] = "REF_DRAIN" => nextReqEvent = "scheduled"

\* Once no request arrives any more, a drain ends.
DrainCompletes ==
  <>[][~(RecvRead \/ RecvWrite \/ RecvBypass)]_vars
     => (drainState = "Draining" ~> drainState = "Drained")

\* A waiting read is served, however many writes and fills keep arriving.
ReadsProgress == readQ > 0 ~> respQ > 0

\* A refused request is eventually accepted.
RefusedAccepted == sender # "none" ~> sender = "none"

\* Above the high threshold a write or a fill is served.
WritesProgress ==
  writeQ + fillQ > WriteHighThreshold ~> busState \in {"WRITE", "WRITE_TO_READ"}

=============================================================================
