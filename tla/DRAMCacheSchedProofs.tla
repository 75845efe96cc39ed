----------------------- MODULE DRAMCacheSchedProofs -----------------------
(***************************************************************************)
(* The safety invariants of DRAMCacheSched for every buffer size, every    *)
(* threshold and any number of ranks.                                      *)
(*                                                                         *)
(* The invariants are inductive together once it is known that a refused   *)
(* write keeps the write queue within one request of its size.             *)
(***************************************************************************)
EXTENDS DRAMCacheSched, TLAPS

\* A write is owed a retry only while the write queue cannot take two bursts.
RetryWrMeansFull == "write" \in retry => writeQ + PktCount > WriteBufferSize

Safety ==
  /\ BuffersBounded
  /\ NoLostWakeup
  /\ NoLostDrain
  /\ WriteSideHasWork
  /\ RetryIsOwed
  /\ RefreshNotForgotten

IInv == TypeOK /\ Safety /\ RetryWrMeansFull

-----------------------------------------------------------------------------
\* The initial state: empty queues, nothing scheduled, nothing owed.
LEMMA InitIInv == Init => IInv
<1> SUFFICES ASSUME Init PROVE IInv
  BY Zenon DEF BusStates, RefreshStates, DrainStates
<1>1. TypeOK
  BY Zenon DEF Init, TypeOK, BusStates, RefreshStates, DrainStates
<1>2. BuffersBounded
  BY SchedAssumption DEF Init, BuffersBounded, SchedAssumption
<1>3. NoLostWakeup
  BY SchedAssumption DEF Init, NoLostWakeup, SchedAssumption
<1>4. NoLostDrain /\ WriteSideHasWork
  BY Zenon DEF Init, NoLostDrain, WriteSideHasWork
<1>5. RetryIsOwed /\ RetryWrMeansFull
  BY Zenon DEF Init, RetryIsOwed, RetryWrMeansFull
<1>6. RefreshNotForgotten
  BY Zenon DEF Init, RefreshNotForgotten
<1> QED
  BY <1>1, <1>2, <1>3, <1>4, <1>5, <1>6, Zenon DEF IInv, Safety

-----------------------------------------------------------------------------
(***************************************************************************)
(* Every step preserves the invariant.  processNextReqEvent is split into  *)
(* its early return and its cases on the two sides of the bus.             *)
(***************************************************************************)

\* The loop that finds a busy rank leaves it refreshing, and its end will wake
\* the scheduler.
LEMMA BusyAwake == TypeOK /\ SomeBusy /\ checkDrainDone => Awake'
<1> SUFFICES ASSUME TypeOK, SomeBusy, checkDrainDone PROVE Awake'
  BY Zenon
<1>1. PICK r \in Ranks : refresh[r] # "REF_IDLE"
  BY Zenon DEF SomeBusy, isAvailable
<1>2. refresh[r] \in {"REF_DRAIN", "REF_RUN"}
  BY <1>1, Zenon DEF TypeOK, RefreshStates
<1>3. refresh'[r] = "REF_RUN"
  BY <1>2, Zenon DEF checkDrainDone
<1> QED
  BY <1>3, Zenon DEF Awake

AllBusyCase ==
  /\ nextReqEvent = "scheduled"
  /\ checkDrainDone
  /\ AllBusy
  /\ UNCHANGED <<busState, writesThisTime, drainState, sender, misses>>
  /\ StopHere

ReadCase(A) ==
  /\ nextReqEvent = "scheduled"
  /\ checkDrainDone
  /\ Turned = "READ"
  /\ writesThisTime' = IF busState = "WRITE_TO_READ" THEN 0 ELSE writesThisTime
  /\ A
  /\ UNCHANGED <<sender, misses>>

WriteCase(A) ==
  /\ nextReqEvent = "scheduled"
  /\ checkDrainDone
  /\ Turned = "WRITE"
  /\ A
  /\ UNCHANGED <<sender, misses>>

\* A read arrives: refused, or pushed with some of its bursts already found.
LEMMA RecvReadStep == IInv /\ RecvRead => IInv'
<1> SUFFICES ASSUME IInv, RecvRead PROVE IInv'
  BY Zenon
<1> USE SchedAssumption
    DEF SchedAssumption, IInv, Safety, TypeOK, PktCount, queues, retries
<1> USE DEF RecvRead, MaySend, readQueueFull, addToReadQueue
<1>1. TypeOK'
  <2>1. /\ readQ' \in Nat /\ writeQ' \in Nat /\ fillQ' \in Nat
        /\ respQ' \in Nat /\ writeRespQ' \in Nat
        /\ misses' \in Nat /\ writesThisTime' \in Nat
    OBVIOUS
  <2>2. nextReqEvent' \in {"idle", "scheduled"} /\ retry' \subseteq {"read", "write"}
    BY Zenon
  <2>3. sender' \in {"none", "read", "write"}
    BY Zenon
  <2>4. busState' \in BusStates /\ drainState' \in DrainStates
    BY Zenon DEF BusStates, DrainStates
  <2>5. refresh' \in [Ranks -> RefreshStates]
    BY Zenon DEF RefreshStates
  <2> QED
    BY <2>1, <2>2, <2>3, <2>4, <2>5, Zenon
<1>2. BuffersBounded'
  BY DEF BuffersBounded
<1>3. WriteSideHasWork'
  BY Zenon DEF WriteSideHasWork
<1>4. NoLostWakeup'
  BY DEF NoLostWakeup, Awake
<1>5. NoLostDrain'
  BY Zenon DEF NoLostDrain, Awake
<1>6. RefreshNotForgotten'
  BY Zenon DEF RefreshNotForgotten
<1>7. RetryWrMeansFull'
  BY DEF RetryWrMeansFull
<1>8. RetryIsOwed'
  BY DEF RetryIsOwed, Awake, RetryWrMeansFull, NoLostWakeup
<1> QED
  BY <1>1, <1>2, <1>3, <1>4, <1>5, <1>6, <1>7, <1>8, Zenon

\* A write arrives: refused, or both of its bursts pushed.
LEMMA RecvWriteStep == IInv /\ RecvWrite => IInv'
<1> SUFFICES ASSUME IInv, RecvWrite PROVE IInv'
  BY Zenon
<1> USE SchedAssumption
    DEF SchedAssumption, IInv, Safety, TypeOK, PktCount, queues, retries
<1> USE DEF RecvWrite, MaySend, writeQueueFull, addToWriteQueue
<1>1. TypeOK'
  <2>1. /\ readQ' \in Nat /\ writeQ' \in Nat /\ fillQ' \in Nat
        /\ respQ' \in Nat /\ writeRespQ' \in Nat
        /\ misses' \in Nat /\ writesThisTime' \in Nat
    OBVIOUS
  <2>2. nextReqEvent' \in {"idle", "scheduled"} /\ retry' \subseteq {"read", "write"}
    BY Zenon
  <2>3. sender' \in {"none", "read", "write"}
    BY Zenon
  <2>4. busState' \in BusStates /\ drainState' \in DrainStates
    BY Zenon DEF BusStates, DrainStates
  <2>5. refresh' \in [Ranks -> RefreshStates]
    BY Zenon DEF RefreshStates
  <2> QED
    BY <2>1, <2>2, <2>3, <2>4, <2>5, Zenon
<1>2. BuffersBounded'
  BY DEF BuffersBounded
<1>3. WriteSideHasWork'
  BY DEF WriteSideHasWork
<1>4. NoLostWakeup'
  BY Zenon DEF NoLostWakeup, Awake
<1>5. NoLostDrain'
  BY Zenon DEF NoLostDrain, Awake
<1>6. RefreshNotForgotten'
  BY Zenon DEF RefreshNotForgotten
<1>7. RetryWrMeansFull'
  BY Zenon DEF RetryWrMeansFull
<1>8. RetryIsOwed'
  BY DEF RetryIsOwed, Awake, RetryWrMeansFull, NoLostWakeup
<1> QED
  BY <1>1, <1>2, <1>3, <1>4, <1>5, <1>6, <1>7, <1>8, Zenon

\* A read bypasses the queues.
LEMMA RecvBypassStep == IInv /\ RecvBypass => IInv'
<1> SUFFICES ASSUME IInv, RecvBypass PROVE IInv'
  BY Zenon
<1> USE SchedAssumption
    DEF SchedAssumption, IInv, Safety, TypeOK, PktCount, queues, retries
<1> USE DEF RecvBypass, MaySend
<1>1. TypeOK'
  <2>1. /\ readQ' \in Nat /\ writeQ' \in Nat /\ fillQ' \in Nat
        /\ respQ' \in Nat /\ writeRespQ' \in Nat
        /\ misses' \in Nat /\ writesThisTime' \in Nat
    OBVIOUS
  <2>2. nextReqEvent' \in {"idle", "scheduled"} /\ retry' \subseteq {"read", "write"}
    BY Zenon
  <2>3. sender' \in {"none", "read", "write"}
    BY Zenon
  <2>4. busState' \in BusStates /\ drainState' \in DrainStates
    BY Zenon DEF BusStates, DrainStates
  <2>5. refresh' \in [Ranks -> RefreshStates]
    BY Zenon DEF RefreshStates
  <2> QED
    BY <2>1, <2>2, <2>3, <2>4, <2>5, Zenon
<1>2. BuffersBounded'
  BY Zenon DEF BuffersBounded
<1>3. WriteSideHasWork'
  BY Zenon DEF WriteSideHasWork
<1>4. NoLostWakeup'
  BY Zenon DEF NoLostWakeup, Awake
<1>5. NoLostDrain'
  BY Zenon DEF NoLostDrain, Awake
<1>6. RefreshNotForgotten'
  BY Zenon DEF RefreshNotForgotten
<1>7. RetryWrMeansFull'
  BY Zenon DEF RetryWrMeansFull
<1>8. RetryIsOwed'
  BY Zenon DEF RetryIsOwed, Awake, RetryWrMeansFull, NoLostWakeup
<1> QED
  BY <1>1, <1>2, <1>3, <1>4, <1>5, <1>6, <1>7, <1>8, Zenon

\* Memory answers and the block may be filled.
LEMMA RecvTimingRespStep == IInv /\ RecvTimingResp => IInv'
<1> SUFFICES ASSUME IInv, RecvTimingResp PROVE IInv'
  BY Zenon
<1> USE SchedAssumption
    DEF SchedAssumption, IInv, Safety, TypeOK, PktCount, queues, retries
<1> USE DEF RecvTimingResp, addToFillQueue, fillQueueFull
<1>1. TypeOK'
  <2>1. /\ readQ' \in Nat /\ writeQ' \in Nat /\ fillQ' \in Nat
        /\ respQ' \in Nat /\ writeRespQ' \in Nat
        /\ misses' \in Nat /\ writesThisTime' \in Nat
    OBVIOUS
  <2>2. nextReqEvent' \in {"idle", "scheduled"} /\ retry' \subseteq {"read", "write"}
    BY Zenon
  <2>3. sender' \in {"none", "read", "write"}
    BY Zenon
  <2>4. busState' \in BusStates /\ drainState' \in DrainStates
    BY Zenon DEF BusStates, DrainStates
  <2>5. refresh' \in [Ranks -> RefreshStates]
    BY Zenon DEF RefreshStates
  <2> QED
    BY <2>1, <2>2, <2>3, <2>4, <2>5, Zenon
<1>2. BuffersBounded'
  BY DEF BuffersBounded
<1>3. WriteSideHasWork'
  BY DEF WriteSideHasWork
<1>4. NoLostWakeup'
  BY Zenon DEF NoLostWakeup, Awake
<1>5. NoLostDrain'
  BY Zenon DEF NoLostDrain, Awake
<1>6. RefreshNotForgotten'
  BY Zenon DEF RefreshNotForgotten
<1>7. RetryWrMeansFull'
  BY Zenon DEF RetryWrMeansFull
<1>8. RetryIsOwed'
  BY Zenon DEF RetryIsOwed, Awake, RetryWrMeansFull, NoLostWakeup
<1> QED
  BY <1>1, <1>2, <1>3, <1>4, <1>5, <1>6, <1>7, <1>8, Zenon

\* The request event when every rank is refreshing.
LEMMA AllBusyStep == IInv /\ AllBusyCase => IInv'
<1> SUFFICES ASSUME IInv, AllBusyCase PROVE IInv'
  BY Zenon
<1> USE SchedAssumption
    DEF SchedAssumption, IInv, Safety, TypeOK, PktCount, queues, retries
<1> USE DEF AllBusyCase, AllBusy, isAvailable, checkDrainDone, StopHere
<1>1. TypeOK'
  <2>1. /\ readQ' \in Nat /\ writeQ' \in Nat /\ fillQ' \in Nat
        /\ respQ' \in Nat /\ writeRespQ' \in Nat
        /\ misses' \in Nat /\ writesThisTime' \in Nat
    BY Zenon
  <2>2. nextReqEvent' \in {"idle", "scheduled"} /\ retry' \subseteq {"read", "write"}
    BY Zenon
  <2>3. sender' \in {"none", "read", "write"}
    BY Zenon
  <2>4. busState' \in BusStates /\ drainState' \in DrainStates
    BY Zenon DEF BusStates, DrainStates
  <2>5. refresh' \in [Ranks -> RefreshStates]
    BY Zenon DEF RefreshStates
  <2> QED
    BY <2>1, <2>2, <2>3, <2>4, <2>5, Zenon
<1>2. BuffersBounded'
  BY Zenon DEF BuffersBounded
<1>3. WriteSideHasWork'
  BY Zenon DEF WriteSideHasWork
<1>a. Awake'
  <2>1. SomeBusy
    BY Zenon DEF SomeBusy
  <2> QED
    BY <2>1, BusyAwake, Zenon
<1>4. NoLostWakeup'
  BY <1>a, Zenon DEF NoLostWakeup
<1>5. NoLostDrain'
  BY <1>a, Zenon DEF NoLostDrain
<1>6. RefreshNotForgotten'
  BY Zenon DEF RefreshNotForgotten
<1>7. RetryWrMeansFull'
  BY Zenon DEF RetryWrMeansFull
<1>8. RetryIsOwed'
  BY <1>a, Zenon DEF RetryIsOwed
<1> QED
  BY <1>1, <1>2, <1>3, <1>4, <1>5, <1>6, <1>7, <1>8, Zenon

\* The request event on the read side with nothing to do.
LEMMA ReadIdleStep == IInv /\ ReadCase(ReadIdle) => IInv'
<1> SUFFICES ASSUME IInv, ReadCase(ReadIdle) PROVE IInv'
  BY Zenon
<1> USE SchedAssumption
    DEF SchedAssumption, IInv, Safety, TypeOK, PktCount, queues, retries
<1> USE DEF ReadCase, checkDrainDone, Turned, ReadIdle,
            StopHere, NothingToRead, TriggerWrites
<1>1. TypeOK'
  <2>1. /\ readQ' \in Nat /\ writeQ' \in Nat /\ fillQ' \in Nat
        /\ respQ' \in Nat /\ writeRespQ' \in Nat
        /\ misses' \in Nat /\ writesThisTime' \in Nat
    BY Zenon
  <2>2. nextReqEvent' \in {"idle", "scheduled"} /\ retry' \subseteq {"read", "write"}
    BY Zenon
  <2>3. sender' \in {"none", "read", "write"}
    BY Zenon
  <2>4. busState' \in BusStates /\ drainState' \in DrainStates
    BY Zenon DEF BusStates, DrainStates
  <2>5. refresh' \in [Ranks -> RefreshStates]
    BY Zenon DEF RefreshStates
  <2> QED
    BY <2>1, <2>2, <2>3, <2>4, <2>5, Zenon
<1>2. BuffersBounded'
  BY Zenon DEF BuffersBounded
<1>3. WriteSideHasWork'
  BY Zenon DEF WriteSideHasWork
<1>4. NoLostWakeup'
  BY DEF NoLostWakeup, Awake
<1>5. NoLostDrain'
  BY DEF NoLostDrain, Awake
<1>6. RefreshNotForgotten'
  BY Zenon DEF RefreshNotForgotten
<1>7. RetryWrMeansFull'
  BY Zenon DEF RetryWrMeansFull
<1>8. RetryIsOwed'
  BY DEF RetryIsOwed, Awake, RetryWrMeansFull, NoLostWakeup
<1> QED
  BY <1>1, <1>2, <1>3, <1>4, <1>5, <1>6, <1>7, <1>8, Zenon

\* The request event turning the bus to writes with no read waiting.
LEMMA ReadSwitchStep == IInv /\ ReadCase(ReadSwitch) => IInv'
<1> SUFFICES ASSUME IInv, ReadCase(ReadSwitch) PROVE IInv'
  BY Zenon
<1> USE SchedAssumption
    DEF SchedAssumption, IInv, Safety, TypeOK, PktCount, queues, retries
<1> USE DEF ReadCase, checkDrainDone, Turned,
            ReadSwitch, Reschedule, NothingToRead, TriggerWrites
<1>1. TypeOK'
  <2>1. /\ readQ' \in Nat /\ writeQ' \in Nat /\ fillQ' \in Nat
        /\ respQ' \in Nat /\ writeRespQ' \in Nat
        /\ misses' \in Nat /\ writesThisTime' \in Nat
    BY Zenon
  <2>2. nextReqEvent' \in {"idle", "scheduled"} /\ retry' \subseteq {"read", "write"}
    BY Zenon
  <2>3. sender' \in {"none", "read", "write"}
    BY Zenon
  <2>4. busState' \in BusStates /\ drainState' \in DrainStates
    BY Zenon DEF BusStates, DrainStates
  <2>5. refresh' \in [Ranks -> RefreshStates]
    BY Zenon DEF RefreshStates
  <2> QED
    BY <2>1, <2>2, <2>3, <2>4, <2>5, Zenon
<1>2. BuffersBounded'
  BY Zenon DEF BuffersBounded
<1>3. WriteSideHasWork'
  BY Zenon DEF WriteSideHasWork
<1>4. NoLostWakeup'
  BY Zenon DEF NoLostWakeup, Awake
<1>5. NoLostDrain'
  BY Zenon DEF NoLostDrain, Awake
<1>6. RefreshNotForgotten'
  BY Zenon DEF RefreshNotForgotten
<1>7. RetryWrMeansFull'
  BY Zenon DEF RetryWrMeansFull
<1>8. RetryIsOwed'
  BY Zenon DEF RetryIsOwed, Awake, RetryWrMeansFull, NoLostWakeup
<1> QED
  BY <1>1, <1>2, <1>3, <1>4, <1>5, <1>6, <1>7, <1>8, Zenon

\* The request event finding no read to an available rank.
LEMMA ReadNotFoundStep == IInv /\ ReadCase(ReadNotFound) => IInv'
<1> SUFFICES ASSUME IInv, ReadCase(ReadNotFound) PROVE IInv'
  BY Zenon
<1> USE SchedAssumption
    DEF SchedAssumption, IInv, Safety, TypeOK, PktCount, queues, retries
<1> USE DEF ReadCase, Turned,
            ReadNotFound, StopHere, NothingToRead
<1>1. TypeOK'
  <2>1. /\ readQ' \in Nat /\ writeQ' \in Nat /\ fillQ' \in Nat
        /\ respQ' \in Nat /\ writeRespQ' \in Nat
        /\ misses' \in Nat /\ writesThisTime' \in Nat
    BY Zenon
  <2>2. nextReqEvent' \in {"idle", "scheduled"} /\ retry' \subseteq {"read", "write"}
    BY Zenon
  <2>3. sender' \in {"none", "read", "write"}
    BY Zenon
  <2>4. busState' \in BusStates /\ drainState' \in DrainStates
    BY Zenon DEF BusStates, DrainStates
  <2>5. refresh' \in [Ranks -> RefreshStates]
    BY Zenon DEF RefreshStates, checkDrainDone
  <2> QED
    BY <2>1, <2>2, <2>3, <2>4, <2>5, Zenon
<1>2. BuffersBounded'
  BY Zenon DEF BuffersBounded
<1>3. WriteSideHasWork'
  BY Zenon DEF WriteSideHasWork
<1>a. Awake'
  BY BusyAwake, Zenon
<1>4. NoLostWakeup'
  BY <1>a, Zenon DEF NoLostWakeup
<1>5. NoLostDrain'
  BY <1>a, Zenon DEF NoLostDrain
<1>6. RefreshNotForgotten'
  BY Zenon DEF RefreshNotForgotten, checkDrainDone
<1>7. RetryWrMeansFull'
  BY Zenon DEF RetryWrMeansFull
<1>8. RetryIsOwed'
  BY <1>a, Zenon DEF RetryIsOwed
<1> QED
  BY <1>1, <1>2, <1>3, <1>4, <1>5, <1>6, <1>7, <1>8, Zenon

\* The request event serving a read.
LEMMA ReadServeStep == IInv /\ ReadCase(ReadServe) => IInv'
<1> SUFFICES ASSUME IInv, ReadCase(ReadServe) PROVE IInv'
  BY Zenon
<1> USE SchedAssumption
    DEF SchedAssumption, IInv, Safety, TypeOK, PktCount, queues, retries
<1> USE DEF ReadCase, checkDrainDone, Turned, ReadServe,
            Reschedule, NothingToRead
<1>1. TypeOK'
  <2>1. /\ readQ' \in Nat /\ writeQ' \in Nat /\ fillQ' \in Nat
        /\ respQ' \in Nat /\ writeRespQ' \in Nat
        /\ misses' \in Nat /\ writesThisTime' \in Nat
    OBVIOUS
  <2>2. nextReqEvent' \in {"idle", "scheduled"} /\ retry' \subseteq {"read", "write"}
    BY Zenon
  <2>3. sender' \in {"none", "read", "write"}
    BY Zenon
  <2>4. busState' \in BusStates /\ drainState' \in DrainStates
    BY Zenon DEF BusStates, DrainStates
  <2>5. refresh' \in [Ranks -> RefreshStates]
    BY Zenon DEF RefreshStates
  <2> QED
    BY <2>1, <2>2, <2>3, <2>4, <2>5, Zenon
<1>2. BuffersBounded'
  BY DEF BuffersBounded
<1>3. WriteSideHasWork'
  BY DEF WriteSideHasWork
<1>4. NoLostWakeup'
  BY Zenon DEF NoLostWakeup, Awake
<1>5. NoLostDrain'
  BY Zenon DEF NoLostDrain, Awake
<1>6. RefreshNotForgotten'
  BY Zenon DEF RefreshNotForgotten
<1>7. RetryWrMeansFull'
  BY Zenon DEF RetryWrMeansFull
<1>8. RetryIsOwed'
  BY DEF RetryIsOwed, Awake, RetryWrMeansFull, NoLostWakeup
<1> QED
  BY <1>1, <1>2, <1>3, <1>4, <1>5, <1>6, <1>7, <1>8, Zenon

\* The request event finding no write to an available rank.
LEMMA WriteNotFoundStep == IInv /\ WriteCase(WriteNotFound) => IInv'
<1> SUFFICES ASSUME IInv, WriteCase(WriteNotFound) PROVE IInv'
  BY Zenon
<1> USE SchedAssumption
    DEF SchedAssumption, IInv, Safety, TypeOK, PktCount, queues, retries
<1> USE DEF WriteCase, Turned,
            WriteNotFound, StopHere
<1>1. TypeOK'
  <2>1. /\ readQ' \in Nat /\ writeQ' \in Nat /\ fillQ' \in Nat
        /\ respQ' \in Nat /\ writeRespQ' \in Nat
        /\ misses' \in Nat /\ writesThisTime' \in Nat
    BY Zenon
  <2>2. nextReqEvent' \in {"idle", "scheduled"} /\ retry' \subseteq {"read", "write"}
    BY Zenon
  <2>3. sender' \in {"none", "read", "write"}
    BY Zenon
  <2>4. busState' \in BusStates /\ drainState' \in DrainStates
    BY Zenon DEF BusStates, DrainStates
  <2>5. refresh' \in [Ranks -> RefreshStates]
    BY Zenon DEF RefreshStates, checkDrainDone
  <2> QED
    BY <2>1, <2>2, <2>3, <2>4, <2>5, Zenon
<1>2. BuffersBounded'
  BY Zenon DEF BuffersBounded
<1>3. WriteSideHasWork'
  BY Zenon DEF WriteSideHasWork
<1>a. Awake'
  BY BusyAwake, Zenon
<1>4. NoLostWakeup'
  BY <1>a, Zenon DEF NoLostWakeup
<1>5. NoLostDrain'
  BY <1>a, Zenon DEF NoLostDrain
<1>6. RefreshNotForgotten'
  BY Zenon DEF RefreshNotForgotten, checkDrainDone
<1>7. RetryWrMeansFull'
  BY Zenon DEF RetryWrMeansFull
<1>8. RetryIsOwed'
  BY <1>a, Zenon DEF RetryIsOwed
<1> QED
  BY <1>1, <1>2, <1>3, <1>4, <1>5, <1>6, <1>7, <1>8, Zenon

\* The request event serving a write or a fill.
LEMMA WriteServeStep == IInv /\ WriteCase(WriteServe) => IInv'
<1> SUFFICES ASSUME IInv, WriteCase(WriteServe) PROVE IInv'
  BY Zenon
<1> USE SchedAssumption
    DEF SchedAssumption, IInv, Safety, TypeOK, PktCount, queues, retries
<1> USE DEF WriteCase, checkDrainDone, Turned,
            WriteServe, ServeWrites, OneMoreWrite, TurnBack, Reschedule, Min
<1>1. TypeOK'
  <2>1. /\ readQ' \in Nat /\ writeQ' \in Nat /\ fillQ' \in Nat
        /\ respQ' \in Nat /\ writeRespQ' \in Nat
        /\ misses' \in Nat /\ writesThisTime' \in Nat
    OBVIOUS
  <2>2. nextReqEvent' \in {"idle", "scheduled"} /\ retry' \subseteq {"read", "write"}
    BY Zenon
  <2>3. sender' \in {"none", "read", "write"}
    BY Zenon
  <2>4. busState' \in BusStates /\ drainState' \in DrainStates
    BY Zenon DEF BusStates, DrainStates
  <2>5. refresh' \in [Ranks -> RefreshStates]
    BY Zenon DEF RefreshStates
  <2> QED
    BY <2>1, <2>2, <2>3, <2>4, <2>5, Zenon
<1>2. BuffersBounded'
  BY DEF BuffersBounded
<1>3. WriteSideHasWork'
  BY DEF WriteSideHasWork
<1>4. NoLostWakeup'
  BY Zenon DEF NoLostWakeup, Awake
<1>5. NoLostDrain'
  BY Zenon DEF NoLostDrain, Awake
<1>6. RefreshNotForgotten'
  BY Zenon DEF RefreshNotForgotten
<1>7. RetryWrMeansFull'
  BY DEF RetryWrMeansFull
<1>8. RetryIsOwed'
  BY Zenon DEF RetryIsOwed, Awake, RetryWrMeansFull, NoLostWakeup
<1> QED
  BY <1>1, <1>2, <1>3, <1>4, <1>5, <1>6, <1>7, <1>8, Zenon

\* A read burst is answered.
LEMMA RespondStep == IInv /\ processRespondEvent => IInv'
<1> SUFFICES ASSUME IInv, processRespondEvent PROVE IInv'
  BY Zenon
<1> USE SchedAssumption
    DEF SchedAssumption, IInv, Safety, TypeOK, PktCount, queues, retries
<1> USE DEF processRespondEvent, processRespondHelper, addToFillQueue,
            fillQueueFull
<1>1. TypeOK'
  <2>1. /\ readQ' \in Nat /\ writeQ' \in Nat /\ fillQ' \in Nat
        /\ respQ' \in Nat /\ writeRespQ' \in Nat
        /\ misses' \in Nat /\ writesThisTime' \in Nat
    OBVIOUS
  <2>2. nextReqEvent' \in {"idle", "scheduled"} /\ retry' \subseteq {"read", "write"}
    BY Zenon
  <2>3. sender' \in {"none", "read", "write"}
    BY Zenon
  <2>4. busState' \in BusStates /\ drainState' \in DrainStates
    BY Zenon DEF BusStates, DrainStates
  <2>5. refresh' \in [Ranks -> RefreshStates]
    BY Zenon DEF RefreshStates
  <2> QED
    BY <2>1, <2>2, <2>3, <2>4, <2>5, Zenon
<1>2. BuffersBounded'
  BY DEF BuffersBounded
<1>3. WriteSideHasWork'
  BY DEF WriteSideHasWork
<1>4. NoLostWakeup'
  BY Zenon DEF NoLostWakeup, Awake
<1>5. NoLostDrain'
  BY Zenon DEF NoLostDrain, Awake
<1>6. RefreshNotForgotten'
  BY Zenon DEF RefreshNotForgotten
<1>7. RetryWrMeansFull'
  BY Zenon DEF RetryWrMeansFull
<1>8. RetryIsOwed'
  BY Zenon DEF RetryIsOwed, Awake, RetryWrMeansFull, NoLostWakeup
<1> QED
  BY <1>1, <1>2, <1>3, <1>4, <1>5, <1>6, <1>7, <1>8, Zenon

\* A write burst is answered.
LEMMA WriteRespondStep == IInv /\ processWriteRespondEvent => IInv'
<1> SUFFICES ASSUME IInv, processWriteRespondEvent PROVE IInv'
  BY Zenon
<1> USE SchedAssumption
    DEF SchedAssumption, IInv, Safety, TypeOK, PktCount, queues, retries
<1> USE DEF processWriteRespondEvent
<1>1. TypeOK'
  <2>1. /\ readQ' \in Nat /\ writeQ' \in Nat /\ fillQ' \in Nat
        /\ respQ' \in Nat /\ writeRespQ' \in Nat
        /\ misses' \in Nat /\ writesThisTime' \in Nat
    OBVIOUS
  <2>2. nextReqEvent' \in {"idle", "scheduled"} /\ retry' \subseteq {"read", "write"}
    BY Zenon
  <2>3. sender' \in {"none", "read", "write"}
    BY Zenon
  <2>4. busState' \in BusStates /\ drainState' \in DrainStates
    BY Zenon DEF BusStates, DrainStates
  <2>5. refresh' \in [Ranks -> RefreshStates]
    BY Zenon DEF RefreshStates
  <2> QED
    BY <2>1, <2>2, <2>3, <2>4, <2>5, Zenon
<1>2. BuffersBounded'
  BY Zenon DEF BuffersBounded
<1>3. WriteSideHasWork'
  BY Zenon DEF WriteSideHasWork
<1>4. NoLostWakeup'
  BY Zenon DEF NoLostWakeup, Awake
<1>5. NoLostDrain'
  BY Zenon DEF NoLostDrain, Awake
<1>6. RefreshNotForgotten'
  BY Zenon DEF RefreshNotForgotten
<1>7. RetryWrMeansFull'
  BY Zenon DEF RetryWrMeansFull
<1>8. RetryIsOwed'
  BY Zenon DEF RetryIsOwed, Awake, RetryWrMeansFull, NoLostWakeup
<1> QED
  BY <1>1, <1>2, <1>3, <1>4, <1>5, <1>6, <1>7, <1>8, Zenon

\* A refresh starts or ends.
LEMMA RefreshStep == IInv /\ (\E r \in Ranks : RefreshDue(r) \/ RefreshDone(r)) => IInv'
<1> SUFFICES ASSUME IInv, (\E r \in Ranks : RefreshDue(r) \/ RefreshDone(r)) PROVE IInv'
  BY Zenon
<1> USE SchedAssumption
    DEF SchedAssumption, IInv, Safety, TypeOK, PktCount, queues, retries
<1> USE DEF RefreshDue, RefreshDone
<1>1. TypeOK'
  <2>1. /\ readQ' \in Nat /\ writeQ' \in Nat /\ fillQ' \in Nat
        /\ respQ' \in Nat /\ writeRespQ' \in Nat
        /\ misses' \in Nat /\ writesThisTime' \in Nat
    BY Zenon
  <2>2. nextReqEvent' \in {"idle", "scheduled"} /\ retry' \subseteq {"read", "write"}
    BY Zenon
  <2>3. sender' \in {"none", "read", "write"}
    BY Zenon
  <2>4. busState' \in BusStates /\ drainState' \in DrainStates
    BY Zenon DEF BusStates, DrainStates
  <2>5. refresh' \in [Ranks -> RefreshStates]
    BY Zenon DEF RefreshStates
  <2> QED
    BY <2>1, <2>2, <2>3, <2>4, <2>5, Zenon
<1>2. BuffersBounded'
  BY Zenon DEF BuffersBounded
<1>3. WriteSideHasWork'
  BY Zenon DEF WriteSideHasWork
<1>4. NoLostWakeup'
  BY Zenon DEF NoLostWakeup, Awake
<1>5. NoLostDrain'
  BY Zenon DEF NoLostDrain, Awake
<1>6. RefreshNotForgotten'
  BY Zenon DEF RefreshNotForgotten
<1>7. RetryWrMeansFull'
  BY Zenon DEF RetryWrMeansFull
<1>8. RetryIsOwed'
  BY Zenon DEF RetryIsOwed, Awake, RetryWrMeansFull, NoLostWakeup
<1> QED
  BY <1>1, <1>2, <1>3, <1>4, <1>5, <1>6, <1>7, <1>8, Zenon

\* A drain starts or is resumed from.
LEMMA DrainStep == IInv /\ (drain \/ drainResume) => IInv'
<1> SUFFICES ASSUME IInv, (drain \/ drainResume) PROVE IInv'
  BY Zenon
<1> USE SchedAssumption
    DEF SchedAssumption, IInv, Safety, TypeOK, PktCount, queues, retries
<1> USE DEF drain, drainResume
<1>1. TypeOK'
  <2>1. /\ readQ' \in Nat /\ writeQ' \in Nat /\ fillQ' \in Nat
        /\ respQ' \in Nat /\ writeRespQ' \in Nat
        /\ misses' \in Nat /\ writesThisTime' \in Nat
    BY Zenon
  <2>2. nextReqEvent' \in {"idle", "scheduled"} /\ retry' \subseteq {"read", "write"}
    BY Zenon
  <2>3. sender' \in {"none", "read", "write"}
    BY Zenon
  <2>4. busState' \in BusStates /\ drainState' \in DrainStates
    BY Zenon DEF BusStates, DrainStates
  <2>5. refresh' \in [Ranks -> RefreshStates]
    BY Zenon DEF RefreshStates
  <2> QED
    BY <2>1, <2>2, <2>3, <2>4, <2>5, Zenon
<1>2. BuffersBounded'
  BY Zenon DEF BuffersBounded
<1>3. WriteSideHasWork'
  BY Zenon DEF WriteSideHasWork
<1>4. NoLostWakeup'
  BY Zenon DEF NoLostWakeup, Awake
<1>5. NoLostDrain'
  BY Zenon DEF NoLostDrain, Awake
<1>6. RefreshNotForgotten'
  BY Zenon DEF RefreshNotForgotten
<1>7. RetryWrMeansFull'
  BY Zenon DEF RetryWrMeansFull
<1>8. RetryIsOwed'
  BY Zenon DEF RetryIsOwed, Awake, RetryWrMeansFull, NoLostWakeup
<1> QED
  BY <1>1, <1>2, <1>3, <1>4, <1>5, <1>6, <1>7, <1>8, Zenon

\* Nothing changes.
LEMMA StutterStep == IInv /\ UNCHANGED vars => IInv'
<1> SUFFICES ASSUME IInv, UNCHANGED vars PROVE IInv'
  BY Zenon
<1> USE SchedAssumption
    DEF SchedAssumption, IInv, Safety, TypeOK, PktCount, queues, retries
<1> USE DEF vars
<1>1. TypeOK'
  <2>1. /\ readQ' \in Nat /\ writeQ' \in Nat /\ fillQ' \in Nat
        /\ respQ' \in Nat /\ writeRespQ' \in Nat
        /\ misses' \in Nat /\ writesThisTime' \in Nat
    BY Zenon
  <2>2. nextReqEvent' \in {"idle", "scheduled"} /\ retry' \subseteq {"read", "write"}
    BY Zenon
  <2>3. sender' \in {"none", "read", "write"}
    BY Zenon
  <2>4. busState' \in BusStates /\ drainState' \in DrainStates
    BY Zenon DEF BusStates, DrainStates
  <2>5. refresh' \in [Ranks -> RefreshStates]
    BY Zenon DEF RefreshStates
  <2> QED
    BY <2>1, <2>2, <2>3, <2>4, <2>5, Zenon
<1>2. BuffersBounded'
  BY Zenon DEF BuffersBounded
<1>3. WriteSideHasWork'
  BY Zenon DEF WriteSideHasWork
<1>4. NoLostWakeup'
  BY Zenon DEF NoLostWakeup, Awake
<1>5. NoLostDrain'
  BY Zenon DEF NoLostDrain, Awake
<1>6. RefreshNotForgotten'
  BY Zenon DEF RefreshNotForgotten
<1>7. RetryWrMeansFull'
  BY Zenon DEF RetryWrMeansFull
<1>8. RetryIsOwed'
  BY Zenon DEF RetryIsOwed, Awake, RetryWrMeansFull, NoLostWakeup
<1> QED
  BY <1>1, <1>2, <1>3, <1>4, <1>5, <1>6, <1>7, <1>8, Zenon

-----------------------------------------------------------------------------
\* The request event is one of the cases above.
LEMMA NextReqCases ==
  processNextReqEvent =>
    \/ AllBusyCase
    \/ ReadCase(ReadIdle) \/ ReadCase(ReadSwitch)
    \/ ReadCase(ReadNotFound) \/ ReadCase(ReadServe)
    \/ WriteCase(WriteNotFound) \/ WriteCase(WriteServe)
  BY Zenon DEF processNextReqEvent, AllBusyCase, ReadCase, WriteCase

\* Every step of the scheduler preserves the invariant.
LEMMA NextIInv == IInv /\ [Next]_vars => IInv'
<1> SUFFICES ASSUME IInv, [Next]_vars PROVE IInv'
  BY Zenon
<1>1. CASE RecvRead
  BY <1>1, RecvReadStep, Zenon
<1>2. CASE RecvWrite
  BY <1>2, RecvWriteStep, Zenon
<1>3. CASE RecvBypass
  BY <1>3, RecvBypassStep, Zenon
<1>4. CASE RecvTimingResp
  BY <1>4, RecvTimingRespStep, Zenon
<1>5. CASE processNextReqEvent
  BY <1>5, NextReqCases, AllBusyStep, ReadIdleStep, ReadSwitchStep,
     ReadNotFoundStep, ReadServeStep, WriteNotFoundStep, WriteServeStep, Zenon
<1>6. CASE processRespondEvent
  BY <1>6, RespondStep, Zenon
<1>7. CASE processWriteRespondEvent
  BY <1>7, WriteRespondStep, Zenon
<1>8. CASE \E r \in Ranks : RefreshDue(r) \/ RefreshDone(r)
  BY <1>8, RefreshStep, Zenon
<1>9. CASE drain \/ drainResume
  BY <1>9, DrainStep, Zenon
<1>10. CASE UNCHANGED vars
  BY <1>10, StutterStep, Zenon
<1> QED
  BY <1>1, <1>2, <1>3, <1>4, <1>5, <1>6, <1>7, <1>8, <1>9, <1>10, Zenon DEF Next

\* The inductive invariant holds in every state of the scheduler.
THEOREM Invariance == Spec => []IInv
<1> QED
  BY InitIInv, NextIInv, PTL DEF Spec

\* For any buffer sizes, thresholds and ranks: no queue outgrows its buffer, no
\* wake-up of the request event is lost, the write side is never entered with
\* nothing to write, every refused request is owed a retry that is on its way.
THEOREM SchedSafety ==
  Spec => [](/\ TypeOK /\ BuffersBounded /\ NoLostWakeup /\ NoLostDrain
             /\ WriteSideHasWork /\ RetryIsOwed /\ RefreshNotForgotten)
<1>1. IInv => /\ TypeOK /\ BuffersBounded /\ NoLostWakeup /\ NoLostDrain
              /\ WriteSideHasWork /\ RetryIsOwed /\ RefreshNotForgotten
  BY Zenon DEF IInv, Safety
<1> QED
  BY <1>1, Invariance, PTL

\* Type correctness of the scheduler, for any parameters.
THEOREM SchedTypeOK == Spec => []TypeOK
BY SchedSafety, PTL

\* For any sizes and thresholds, no queue outgrows its buffer: the asserts at the
\* pushes in addToReadQueue, addToWriteQueue and addToFillQueue hold.
THEOREM SchedBuffersBounded == Spec => []BuffersBounded
BY SchedSafety, PTL

\* For any parameters, no wake-up of the request event is lost.
THEOREM SchedNoLostWakeup == Spec => []NoLostWakeup
BY SchedSafety, PTL

\* For any parameters, a drain that waits for queued writes is awake.
THEOREM SchedNoLostDrain == Spec => []NoLostDrain
BY SchedSafety, PTL

\* For any thresholds, the bus is never turned to an empty write queue.
THEOREM SchedWriteSideHasWork == Spec => []WriteSideHasWork
BY SchedSafety, PTL

\* For any parameters, a refused request is owed a retry that is on its way.
THEOREM SchedRetryIsOwed == Spec => []RetryIsOwed
BY SchedSafety, PTL

\* For any number of ranks, a rank whose refresh is due is not forgotten.
THEOREM SchedRefreshNotForgotten == Spec => []RefreshNotForgotten
BY SchedSafety, PTL

\* For any parameters: the end of a drain is signalled only with the read, write
\* and response queues empty.
THEOREM DrainSafety == Spec => DrainSignalledWhenIdle
<1> DEFINE Signal == drainState = "Draining" /\ drainState' = "Drained"
           Idle == readQ' + writeQ' + respQ' + writeRespQ' = 0
<1>1. ASSUME IInv, Next, Signal PROVE Idle
  <2> USE DEF IInv, TypeOK, queues, retries
  <2>1. CASE processNextReqEvent
    BY <1>1, <2>1 DEF processNextReqEvent, ReadIdle, ReadSwitch, ReadNotFound,
       ReadServe, WriteNotFound, WriteServe, StopHere, NothingToRead,
       TriggerWrites
  <2>2. CASE processRespondEvent
    BY <1>1, <2>2 DEF processRespondEvent, processRespondHelper
  <2>3. CASE processWriteRespondEvent
    BY <1>1, <2>3 DEF processWriteRespondEvent
  <2>4. ~RecvRead /\ ~RecvWrite /\ ~RecvBypass /\ ~RecvTimingResp
    BY <1>1, Zenon DEF RecvRead, RecvWrite, RecvBypass, RecvTimingResp
  <2>5. ~\E r \in Ranks : RefreshDue(r) \/ RefreshDone(r)
    BY <1>1, Zenon DEF RefreshDue, RefreshDone
  <2>6. ~drain /\ ~drainResume
    BY <1>1, Zenon DEF drain, drainResume
  <2> QED
    BY <1>1, <2>1, <2>2, <2>3, <2>4, <2>5, <2>6, Zenon DEF Next
<1>2. IInv /\ [Next]_vars => [Signal => Idle]_vars
  BY <1>1, Zenon
<1> QED
  BY <1>2, Invariance, PTL DEF Spec, DrainSignalledWhenIdle
=============================================================================
