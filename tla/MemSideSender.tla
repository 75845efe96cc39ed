--------------------------- MODULE MemSideSender ---------------------------
(***************************************************************************)
(* What the DRAM cache's memory side promises, with no ticks, no ready     *)
(* lists, no send event and no retries: reads and write-backs wait, each   *)
(* is sent once, and main memory answers what was sent.  A read of a block *)
(* is never sent past a write-back of the block, and the write-backs of a  *)
(* block go out in order.  A read may be withdrawn before it is sent (a    *)
(* parallel access that hits).                                             *)
(***************************************************************************)
EXTENDS ReadyLists

CONSTANTS
  Blocks,        \* block addresses
  MaxWriteBacks  \* bound on the write-backs that wait

VARIABLES
  reads,    \* blocks whose read waits to be sent
  reading,  \* blocks whose read was sent and not answered
  wbs,      \* blocks of the write-backs that wait, oldest first
  writing   \* write-backs sent and not answered

vars == <<reads, reading, wbs, writing>>

Init == reads = {} /\ reading = {} /\ wbs = <<>> /\ writing = 0

AddRead(b) ==
  /\ b \notin reads \union reading
  /\ reads' = reads \union {b}
  /\ UNCHANGED <<reading, wbs, writing>>

AddWriteBack(b) ==
  /\ Len(wbs) + writing < MaxWriteBacks
  /\ wbs' = Append(wbs, b)
  /\ UNCHANGED <<reads, reading, writing>>

Withdraw(b) ==
  /\ b \in reads
  /\ reads' = reads \ {b}
  /\ UNCHANGED <<reading, wbs, writing>>

\* Memory reads what was written back: no write-back of the block waits.
SendRead(b) ==
  /\ b \in reads
  /\ \A i \in DOMAIN wbs : wbs[i] # b
  /\ reads' = reads \ {b}
  /\ reading' = reading \union {b}
  /\ UNCHANGED <<wbs, writing>>

SendWriteBack(i) ==
  /\ \A j \in 1 .. i - 1 : wbs[j] # wbs[i]
  /\ wbs' = erase(wbs, i)
  /\ writing' = writing + 1
  /\ UNCHANGED <<reads, reading>>

ReadAnswered(b) ==
  /\ reading' = reading \ {b}
  /\ UNCHANGED <<reads, wbs, writing>>

WriteAnswered ==
  /\ writing > 0
  /\ writing' = writing - 1
  /\ UNCHANGED <<reads, reading, wbs>>

Next ==
  \/ \E b \in Blocks : AddRead(b)
  \/ \E b \in Blocks : AddWriteBack(b)
  \/ \E b \in Blocks : Withdraw(b)
  \/ \E b \in Blocks : SendRead(b)
  \/ \E i \in DOMAIN wbs : SendWriteBack(i)
  \/ \E b \in reading : ReadAnswered(b)
  \/ WriteAnswered

Spec == Init /\ [][Next]_vars
=============================================================================
