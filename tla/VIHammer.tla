------------------------------ MODULE VIHammer ------------------------------
(***************************************************************************)
(* The VI_hammer coherence protocol on one block: the private caches of    *)
(* the CPUs, the GPU's shared L2 with the L1s above it, the directory with *)
(* memory behind it, and the copy engine's DMA controller (VI-ce.sm).  The *)
(* transition tables are HammerCache's and HammerDirectory's; this module  *)
(* has the state they act on, the networks, and what each entry of a row   *)
(* does.                                                                   *)
(*                                                                         *)
(* Data.  The block's contents are abstracted to one bit per copy: `fresh' *)
(* says that the copy holds the value written last.  A store makes the     *)
(* writer's copy the only fresh one, wherever the others are (a cache, a   *)
(* message, the directory's TBE, memory).  A cache entry and its TBE hold  *)
(* one copy, since no transition lets them differ.                         *)
(*                                                                         *)
(* Networks.  Messages of one block are delivered in any order and never   *)
(* lost.  A request of a client or of the copy engine is issued and first  *)
(* handled in one step, and again after a wake-up when it stalled.  A      *)
(* request for another block that wants this one's place is Victim; where  *)
(* its row says "stall" nothing of this block changes.                     *)
(***************************************************************************)
EXTENDS HammerDirectory, FiniteSets

CONSTANTS
  CPUs,         \* CPUs, each with its private L1 and L2
  GPU,          \* the GPU's L2
  GPUL1s,       \* the L1s of the GPU's cores
  Dir,          \* the directory, also the name of memory as a writer
  None,
  CPURequests,  \* what each CPU asks for: Load, Store, Flush_line
  GPURequests,  \* what the GPU's cores ask for: Load, BypassLoad, Store, Atomic
  DmaRequests,  \* what the copy engine asks for: DMA_READ, DMA_WRITE
  Crowded       \* the caches in which other blocks compete for the frame

Caches == CPUs \cup {GPU}
Clients == CPUs \cup GPUL1s

ASSUME HammerAssumption ==
  /\ Cardinality(Caches) > 1
  /\ GPU \notin CPUs /\ GPUL1s \cap Caches = {}
  /\ Dir \notin Caches /\ None \notin Caches \cup {Dir}
  /\ CPURequests \in [CPUs -> SUBSET {"Load", "Store", "Flush_line"}]
  /\ GPURequests \subseteq {"Load", "BypassLoad", "Store", "Atomic"}
  /\ DmaRequests \subseteq {"DMA_READ", "DMA_WRITE"}
  /\ Crowded \subseteq Caches

\* machineCount(L1Cache) + machineCount(GPUL2Cache)
machineCount == Cardinality(Caches)

VARIABLES
  cache,  \* a cache's entry and TBE
  l1,     \* a GPU L1's state
  op,     \* a client's request and where it is
  reqs,   \* a cache's request to the directory
  fwd,    \* messages of the forward network
  resp,   \* messages of the response network, to caches and directory
  unb,    \* messages of the unblock network
  dir,    \* the directory's state and TBE
  mem,    \* memory is fresh
  dma     \* the copy engine's request

vars == <<cache, l1, op, reqs, fwd, resp, unb, dir, mem, dma>>

Idle == [type |-> "none", at |-> "idle"]

\* States without data of their own.
NoData == {"I", "IT", "IR", "II", "IM", "IS", "IM_F"}

Triggers == {"none", "All_acks", "All_acks_owner", "All_acks_no_sharers",
             "All_Unblocks"}

NoTBE == [pend |-> 0, sharers |-> FALSE, owner |-> None, trig |-> "none"]

Invalid == [st |-> "I", loc |-> "none", fresh |-> FALSE, dirty |-> FALSE,
            tbe |-> NoTBE]

NoDirTBE == [pend |-> 0, sharers |-> FALSE, owned |-> FALSE, req |-> None,
             type |-> "none", fresh |-> FALSE, cacheDirty |-> FALSE,
             getS |-> {}, trig |-> "none"]

\* Nothing is cached and the directory owns the block (DirectoryMemory's
\* default state E).
Init ==
  /\ cache = [c \in Caches |-> Invalid]
  /\ l1 = [k \in GPUL1s |-> "I"]
  /\ op = [k \in Clients |-> Idle]
  /\ reqs = [c \in Caches |-> Idle]
  /\ fwd = {} /\ resp = {} /\ unb = {}
  /\ dir = [st |-> "E", tbe |-> NoDirTBE]
  /\ mem = TRUE
  /\ dma = Idle

-----------------------------------------------------------------------------
(***************************************************************************)
(* Parts the handlers share.                                               *)
(***************************************************************************)

GPUMandatoryAt == Index(GPUMandatory)
CPUMandatoryAt == Index(CPUMandatory)
GPUVictimAt == Index(GPUVictim)
CPUVictimAt == Index(CPUVictim)
GPUForwardAt == Index(GPUForward)
CPUForwardAt == Index(CPUForward)
GPUResponseAt == Index(GPUResponse)
CPUResponseAt == Index(CPUResponse)
GPUAllAcksAt == Index(GPUAllAcks)
CPUAllAcksAt == Index(CPUAllAcks)
DirRequestsAt == Index(DirRequests)
DirDmaRequestsAt == Index(DirDmaRequests)
DirUnblocksAt == Index(DirUnblocks)
DirMemoryAt == Index(DirMemory)
DirResponsesAt == Index(DirResponses)
DirTriggersAt == Index(DirTriggers)
GPUL1MandatoryAt == Index(GPUL1Mandatory)
GPUL1ResponseAt == Index(GPUL1Response)

\* The rows of cache c in its present state.
MandatoryRows(c, e) ==
  At(IF c = GPU THEN GPUMandatoryAt ELSE CPUMandatoryAt, cache[c].st, e)
VictimRows(c, e) ==
  At(IF c = GPU THEN GPUVictimAt ELSE CPUVictimAt, cache[c].st, e)
ForwardRows(c, e) ==
  At(IF c = GPU THEN GPUForwardAt ELSE CPUForwardAt, cache[c].st, e)
ResponseRows(c, e) ==
  At(IF c = GPU THEN GPUResponseAt ELSE CPUResponseAt, cache[c].st, e)
AllAcksRows(c, e) ==
  At(IF c = GPU THEN GPUAllAcksAt ELSE CPUAllAcksAt, cache[c].st, e)

CacheOf(k) == IF k \in CPUs THEN k ELSE GPU
ClientsOf(c) == IF c = GPU THEN GPUL1s ELSE {c}

\* A cache record in its canonical form: no data in a state without data.
Entry(q) ==
  IF q.st \in NoData THEN [q EXCEPT !.fresh = FALSE, !.dirty = FALSE] ELSE q

\* The new copies, once w (None: nobody) has stored into its own.
Copies(w, cs, rs, us, d, m) ==
  /\ cache' = [c \in Caches |->
                 [Entry(cs[c]) EXCEPT !.fresh = @ /\ w \in {None, c}]]
  /\ resp' = {[x EXCEPT !.fresh = @ /\ w = None] : x \in rs}
  /\ unb' = {[x EXCEPT !.fresh = @ /\ w = None] : x \in us}
  /\ dir' = [d EXCEPT !.tbe.fresh = @ /\ w = None]
  /\ mem' = (m /\ w \in {None, Dir})

\* wakeUpBuffers: what cache c has stalled goes back into its queue.
Woken(o, c, r) ==
  [k \in Clients |-> IF "wake" \in r.does /\ k \in ClientsOf(c)
                       /\ o[k].at = "stalled" THEN [o[k] EXCEPT !.at = "awake"]
                     ELSE o[k]]

\* The request of client k is served: a CPU's at once, a GPU core's when the
\* answer reaches its L1.
Served(o, K) ==
  [k \in Clients |-> IF k \notin K THEN o[k]
                     ELSE IF k \in CPUs THEN Idle
                     ELSE [o[k] EXCEPT !.at = "answered"]]

\* The client whose request cache c has sent to the directory.
Requestor(c) == {k \in ClientsOf(c) : op[k].at = "sent"}

\* o_checkForCompletion of a cache and of the directory.
Checked(t) ==
  [t EXCEPT !.trig = IF t.pend # 0 THEN "none"
                     ELSE IF t.sharers THEN "All_acks" ELSE "All_acks_no_sharers"]
DirChecked(t) ==
  [t EXCEPT !.trig = IF t.pend # 0 THEN "none"
                     ELSE IF ~t.sharers THEN "All_acks_no_sharers"
                     ELSE IF t.owned THEN "All_acks_owner" ELSE "All_acks"]

-----------------------------------------------------------------------------
(***************************************************************************)
(* A request of type t of client k at its cache.                           *)
(***************************************************************************)

\* The block is in the CPU's L2: Trigger_L2_to_L1 starts the move into the L1
\* and the request waits for its end.
InL2(c) == cache[c].loc = "L2"

TriggerL2toL1(k, t) ==
  /\ InL2(CacheOf(k))
  /\ cache' = [cache EXCEPT ![k].st = Moving[@], ![k].loc = "L1"]
  /\ op' = [op EXCEPT ![k] = [type |-> t, at |-> "stalled"]]
  /\ UNCHANGED <<reqs, resp, unb, dir, mem>>

\* zz_stallAndWait: the request waits for a wake-up of this block.
StallRequest(k, t) ==
  /\ ~InL2(CacheOf(k))
  /\ \E r \in MandatoryRows(CacheOf(k), t) : "stall" \in r.does
  /\ op' = [op EXCEPT ![k] = [type |-> t, at |-> "stalled"]]
  /\ UNCHANGED <<cache, reqs, resp, unb, dir, mem>>

\* h_load_hit, hh_store_hit.
Hit(k, t) ==
  LET c == CacheOf(k)
      w == IF t = "Store" THEN c ELSE None IN
  /\ ~InL2(c)
  /\ \E r \in MandatoryRows(c, t) :
       /\ "hit" \in r.does
       /\ op' = Woken(Served([op EXCEPT ![k].type = t], {k}), c, r)
       /\ Copies(w, [cache EXCEPT ![c].st = r.to,
                                  ![c].fresh = @ \/ t = "Store",
                                  ![c].dirty = @ \/ t = "Store"],
                 resp, unb, dir, mem)
  /\ UNCHANGED reqs

\* a_issueGETS, b_issueGETX, bf_issueGETF: one answer is expected of every
\* other cache and one of memory.  A flush gives up the L1 entry it finds.
IssueRequest(k, t) ==
  LET c == CacheOf(k) IN
  /\ ~InL2(c)
  /\ \E r \in MandatoryRows(c, t) : \E q \in r.does \cap {"GETS", "GETX", "GETF"} :
       LET loc == CASE c = GPU -> "none"
                    [] q # "GETF" -> "L1"
                    [] cache[c].st \in {"I", "IR"} -> cache[c].loc
                    [] OTHER -> "none"
           due == machineCount - (IF "own" \in r.does THEN 1 ELSE 0) IN
       /\ cache' = [cache EXCEPT ![c] =
                      Entry([@ EXCEPT !.st = r.to, !.loc = loc,
                                      !.tbe = [NoTBE EXCEPT !.pend = due]])]
       /\ reqs' = [reqs EXCEPT ![c] = [type |-> q, at |-> "sent"]]
  /\ op' = [op EXCEPT ![k] = [type |-> t, at |-> "sent"]]
  /\ UNCHANGED <<resp, unb, dir, mem>>

Mandatory(k, t) ==
  /\ \/ TriggerL2toL1(k, t)
     \/ StallRequest(k, t)
     \/ Hit(k, t)
     \/ IssueRequest(k, t)
  /\ UNCHANGED <<fwd, dma>>

\* A Flush_line comes from RubySystem's cool-down, after the copy engine has
\* drained.  (NO_F has no transition for a DMA request.)
Flushing == \E k \in CPUs : op[k].type = "Flush_line"

\* A CPU's sequencer has one request for the block at a time.
CPURequest(k) ==
  /\ k \in CPUs
  /\ op[k] = Idle
  /\ \E t \in CPURequests[k] :
       /\ t = "Flush_line" => dma = Idle
       /\ Mandatory(k, t)
  /\ UNCHANGED l1

\* A GPU core's request that its L1 sends on to the L2.
GPURequest(k) ==
  /\ k \in GPUL1s
  /\ op[k] = Idle
  /\ \E e \in GPURequests :
       \E r \in At(GPUL1MandatoryAt, l1[k], e) : \E t \in r.does :
         /\ l1' = [l1 EXCEPT ![k] = r.to]
         /\ Mandatory(k, t)

\* A request that has been woken up is handled again.
Retry(k) ==
  /\ op[k].at = "awake"
  /\ Mandatory(k, op[k].type)
  /\ UNCHANGED l1

\* The L1 drops its copy: a Replacement, a Flush_line or a FlashInv.
L1Drop(k) ==
  /\ \E e \in {"Replacement", "Flush_line", "FlashInv"} :
       \E r \in At(GPUL1MandatoryAt, l1[k], e) : l1' = [l1 EXCEPT ![k] = r.to]
  /\ UNCHANGED <<cache, op, reqs, fwd, resp, unb, dir, mem, dma>>

\* The L2's answer reaches the L1.
L1Answer(k) ==
  /\ op[k].at = "answered"
  /\ \E r \in At(GPUL1ResponseAt, l1[k], op[k].type) :
       l1' = [l1 EXCEPT ![k] = r.to]
  /\ op' = [op EXCEPT ![k] = Idle]
  /\ UNCHANGED <<cache, reqs, fwd, resp, unb, dir, mem, dma>>

-----------------------------------------------------------------------------
(***************************************************************************)
(* The other events of a cache.                                            *)
(***************************************************************************)

\* Complete_L2_to_L1: the move into the L1 is over.
CompleteL2toL1(c) ==
  /\ cache[c].st \in Transfer
  /\ cache' = [cache EXCEPT ![c].st = Ready[@]]
  /\ op' = Woken(op, c, [does |-> {"wake"}])
  /\ UNCHANGED <<l1, reqs, fwd, resp, unb, dir, mem, dma>>

\* A request for another block needs this one's frame.
VictimEvent(c) == IF c = GPU \/ InL2(c) THEN "L2_Replacement" ELSE "L1_to_L2"
HasEntry(c) == c = GPU \/ cache[c].loc # "none"

Victim(c) ==
  /\ c \in Crowded
  /\ HasEntry(c)
  /\ \E r \in VictimRows(c, VictimEvent(c)) :
       /\ "stall" \notin r.does
       /\ cache' = [cache EXCEPT ![c] =
                      Entry([@ EXCEPT !.st = r.to,
                                      !.loc = IF "move" \in r.does THEN "L2" ELSE "none"])]
       /\ reqs' = IF "PUT" \in r.does
                    THEN [reqs EXCEPT ![c] = [type |-> "PUT", at |-> "sent"]] ELSE reqs
       /\ op' = Woken(op, c, r)
  /\ UNCHANGED <<l1, fwd, resp, unb, dir, mem, dma>>

\* The events of a message m of the forward network.  A CPU may have written
\* an MM block with an atomic (Other_GETS_No_Mig).
ForwardEvents(m) ==
  CASE m.type \in {"GETX", "GETF"} -> {"Other_GETX"}
    [] m.type = "MERGED_GETS" -> {"Merged_GETS"}
    [] m.type = "GETS" -> {"Other_GETS"} \cup
         (IF m.to \in CPUs /\ cache[m.to].st = "MM" THEN {"Other_GETS_No_Mig"} ELSE {})
    [] m.type = "WB_ACK" -> {"Writeback_Ack"}
    [] m.type = "WB_NACK" -> {"Writeback_Nack"}

Replies == {"ACK", "ACK_SHARED", "DATA", "DATA_SHARED", "DATA_EXCLUSIVE"}
DataReplies == {"DATA", "DATA_SHARED", "DATA_EXCLUSIVE"}

\* Acks of an answer: data stands for memory's answer too, and the data of a
\* merged GETS for everyone's.
Acks(m, t) ==
  IF m.type = "MERGED_GETS" THEN machineCount ELSE IF t \in DataReplies THEN 2 ELSE 1

\* Mutant: the write-back of an O block counts as clean.
WriteBackClean(r, dirty) ==
  CASE "UNBLOCK" \in r.does -> "UNBLOCK"
    [] "WB" \in r.does -> "WB_CLEAN"
    [] OTHER -> IF dirty THEN "WB_EXCLUSIVE_DIRTY" ELSE "WB_EXCLUSIVE_CLEAN"

\* qq_sendDataFromTBEToMemory, and u_sendUnblock when the block has gone.
WriteBack(r, dirty) ==
  CASE "UNBLOCK" \in r.does -> "UNBLOCK"
    [] "WB" \in r.does -> IF dirty THEN "WB_DIRTY" ELSE "WB_CLEAN"
    [] OTHER -> IF dirty THEN "WB_EXCLUSIVE_DIRTY" ELSE "WB_EXCLUSIVE_CLEAN"

\* z_stall: while a block moves, and until the request that asked for the
\* move is served, messages of other caches stay at the head of the queue.
Snooping(c) == cache[c].st \notin Transfer \cup Locked

\* Mutant: a block on its way out is answered from its emptied entry.
DataOfEntry(q) == q.fresh /\ q.st \notin WriteBackStates

\* The data of an answer comes from the entry, or from the TBE once the entry
\* has been given up.
DataOf(q) == q.fresh

\* The answer of a cache with record q to the request m, to each requestor.
Answer(q, m, r) ==
  {[to |-> x, from |-> m.to, type |-> t, acks |-> Acks(m, t),
    fresh |-> DataOf(q) /\ t \in DataReplies,
    dirty |-> q.dirty /\ t \in DataReplies] : x \in m.who, t \in r.does \cap Replies}

Forwarded(m) ==
  LET c == m.to
      q == cache[c] IN
  /\ Snooping(c)
  /\ fwd' = fwd \ {m}
  /\ \E e \in ForwardEvents(m) : \E r \in ForwardRows(c, e) :
       /\ cache' = [cache EXCEPT ![c] =
             Entry([q EXCEPT !.st = r.to,
                             !.tbe.pend = @ + (IF "more" \in r.does THEN 1 ELSE 0)])]
       /\ resp' = resp \cup Answer(q, m, r)
       /\ unb' = unb \cup
             {[from |-> c, type |-> WriteBack(r, q.dirty), owner |-> None,
               fresh |-> q.fresh] : t \in r.does \cap {"WB", "WB_EXCLUSIVE", "UNBLOCK"}}
       /\ op' = Woken(IF q.st = "MI_F" THEN Served(op, {c}) ELSE op, c, r)
  /\ UNCHANGED <<l1, reqs, dir, mem, dma>>

\* An answer to the cache's own request.
Responded(m) ==
  LET c == m.to
      q == cache[c] IN
  \E r \in ResponseRows(c, m.type) :
    LET w == IF "store" \in r.does THEN c ELSE None
        counted == [q.tbe EXCEPT !.pend = @ - m.acks,
                                 !.sharers = @ \/ "shared" \in r.does,
                                 !.owner = IF r.to = "SS" /\ m.type \in DataReplies
                                             THEN m.from ELSE @]
        data == m.type \in DataReplies
        done == r.does \cap {"load", "store"} # {} IN
    /\ op' = Woken(IF done THEN Served(op, Requestor(c)) ELSE op, c, r)
    /\ Copies(w, [cache EXCEPT ![c] =
                    [q EXCEPT !.st = r.to, !.tbe = Checked(counted),
                              !.fresh = IF data THEN m.fresh \/ w = c ELSE @,
                              !.dirty = IF data THEN m.dirty \/ w = c
                                                  \/ ("verify" \in r.does /\ @)
                                        ELSE @]],
              resp \ {m}, unb, dir, mem)
    /\ UNCHANGED <<l1, reqs, fwd, dma>>

\* The last answer has been counted.
AllAcks(c) ==
  LET q == cache[c] IN
  /\ q.tbe.trig # "none"
  /\ \E r \in AllAcksRows(c, q.tbe.trig) :
       LET w == IF "store" \in r.does THEN c ELSE None IN
       /\ op' = Woken(IF w = c THEN Served(op, Requestor(c)) ELSE op, c, r)
       /\ reqs' = IF "PUTF" \in r.does
                    THEN [reqs EXCEPT ![c] = [type |-> "PUTF", at |-> "sent"]] ELSE reqs
       /\ Copies(w, [cache EXCEPT ![c] =
                       [q EXCEPT !.st = r.to, !.tbe = NoTBE,
                                 !.fresh = @ \/ w = c, !.dirty = @ \/ w = c]],
                 resp,
                 unb \cup {[from |-> c, type |-> t, owner |-> q.tbe.owner,
                            fresh |-> FALSE] :
                              t \in r.does \cap {"UNBLOCKS", "UNBLOCKM"}},
                 dir, mem)
  /\ UNCHANGED <<l1, fwd, dma>>

-----------------------------------------------------------------------------
(***************************************************************************)
(* The directory.                                                          *)
(***************************************************************************)

\* Mutant: a PUT that was stalled is not woken.
WokenAllButPut(R, r) ==
  [c \in Caches |-> IF "wake" \in r.does /\ R[c].at = "stalled" /\ R[c].type # "PUT"
                      THEN [R[c] EXCEPT !.at = "sent"] ELSE R[c]]

\* k_wakeUpDependents: requests and the DMA request leave the stall queue.
WokenAll(R, r) ==
  [c \in Caches |-> IF "wake" \in r.does /\ R[c].at = "stalled"
                      THEN [R[c] EXCEPT !.at = "sent"] ELSE R[c]]

\* Mutant: only the requests of caches are woken.
WokenDmaNever(d, r) == d

WokenDma(d, r) ==
  IF "wake" \in r.does /\ d.at = "stalled" THEN [d EXCEPT !.at = "awake"] ELSE d

Broadcast(type, who, to) == {[to |-> c, type |-> type, who |-> who] : c \in to}

\* A request of cache c.  It is stalled, merged or taken out of the queue.
DirRequest(c) ==
  /\ reqs[c].at = "sent"
  /\ \E r \in At(DirRequestsAt, dir.st, reqs[c].type) :
       LET fetch == r.does \cap {"fetch", "fetchX"} # {}
           type == IF "fetchX" \in r.does THEN "DATA_EXCLUSIVE" ELSE "DATA" IN
       /\ dir' = [st |-> r.to,
                  tbe |-> IF fetch THEN [NoDirTBE EXCEPT !.req = c, !.type = type]
                          ELSE IF "merge" \in r.does
                            THEN [dir.tbe EXCEPT !.getS = @ \cup {c}]
                          ELSE dir.tbe]
       /\ reqs' = [reqs EXCEPT ![c] = IF "stall" \in r.does
                                        THEN [@ EXCEPT !.at = "stalled"] ELSE Idle]
       /\ fwd' = fwd \cup
            (IF fetch \/ "forward" \in r.does
               THEN Broadcast(reqs[c].type, {c}, Caches \ {c}) ELSE {}) \cup
            {[to |-> c, type |-> t, who |-> {}] : t \in r.does \cap {"WB_ACK", "WB_NACK"}}
  /\ UNCHANGED <<cache, l1, op, resp, unb, mem, dma>>

\* A request of the copy engine, new or woken, which has one at a time
\* (BUSY_RD, BUSY_WR).  It is forwarded to every cache.
DmaRequest ==
  \E t \in (IF dma = Idle THEN DmaRequests ELSE {dma.type}) :
    /\ dma.at \in {"idle", "awake"} /\ ~Flushing
    /\ \E r \in At(DirDmaRequestsAt, dir.st, t) :
         IF "stall" \in r.does
           THEN /\ dma' = [type |-> t, at |-> "stalled"]
                /\ UNCHANGED <<dir, fwd>>
           ELSE /\ dma' = [type |-> t, at |-> "taken"]
                /\ dir' = [st |-> r.to, tbe |-> [NoDirTBE EXCEPT !.pend = machineCount]]
                /\ fwd' = fwd \cup UNION {Broadcast(q, {Dir}, Caches) : q \in r.does}
    /\ UNCHANGED <<cache, l1, op, reqs, resp, unb, mem>>

\* Mutant: the merged requests are not counted.
MergedPendingNone == 0

\* The merged requests, each of which will send an unblock.
MergedPending == Cardinality(dir.tbe.getS)

\* A message of the unblock network.
DirUnblock(m) ==
  \E r \in At(DirUnblocksAt, dir.st, m.type) :
    LET merged == "forwardMerged" \in r.does
        owner == IF m.type = "UNBLOCKS" THEN m.owner ELSE m.from
        left == dir.tbe.pend - 1 IN
    /\ unb' = unb \ {m}
    /\ dir' = [st |-> r.to,
               tbe |-> CASE merged ->
                              [NoDirTBE EXCEPT !.pend = MergedPending]
                         [] "count" \in r.does ->
                              [NoDirTBE EXCEPT !.pend = left,
                                 !.trig = IF left = 0 THEN "All_Unblocks" ELSE "none"]
                         [] OTHER -> dir.tbe]
    /\ fwd' = fwd \cup (IF merged THEN Broadcast("MERGED_GETS", dir.tbe.getS, {owner})
                        ELSE {})
    /\ mem' = IF "memory" \in r.does THEN m.fresh ELSE mem
    /\ reqs' = WokenAll(reqs, r)
    /\ dma' = WokenDma(dma, r)
    /\ UNCHANGED <<cache, l1, op, resp>>

\* Memory has answered.  A read is answered to the requestor or kept in the
\* TBE for the copy engine, unless a cache has supplied the data before.
DirMemoryAnswer ==
  \E e \in {"Memory_Data", "Memory_Ack"} : \E r \in At(DirMemoryAt, dir.st, e) :
    LET record == "record" \in r.does
        t == dir.tbe IN
    /\ dir' = [st |-> r.to,
               tbe |-> IF record
                         THEN DirChecked([t EXCEPT !.fresh = IF t.cacheDirty THEN @ ELSE mem])
                         ELSE NoDirTBE]
    /\ resp' = IF "send" \in r.does /\ ~record
                 THEN resp \cup {[to |-> t.req, from |-> Dir, type |-> t.type, acks |-> 1,
                                  fresh |-> mem, dirty |-> FALSE]}
                 ELSE resp
    /\ reqs' = WokenAll(reqs, r)
    /\ dma' = IF (record /\ "send" \in r.does) \/ "ack" \in r.does
                THEN Idle ELSE WokenDma(dma, r)
    /\ UNCHANGED <<cache, l1, op, fwd, unb, mem>>

\* Mutant: the cache's data is not recorded.
RecordCacheDataNot(t, m) == [t EXCEPT !.cacheDirty = TRUE]

\* r_recordCacheData: the TBE takes the data of the cache that owns the block.
RecordCacheData(t, m) == [t EXCEPT !.cacheDirty = TRUE, !.fresh = m.fresh]

\* A cache's answer to a DMA request counts once, whatever its acks.
DirResponse(m) ==
  \E r \in At(DirResponsesAt, dir.st, m.type) :
    LET counted == [dir.tbe EXCEPT
                      !.pend = @ - 1,
                      !.sharers = @ \/ m.type \in {"ACK_SHARED", "DATA_SHARED"},
                      !.owned = @ \/ m.type = "DATA_SHARED"]
        t == IF m.type \in DataReplies THEN RecordCacheData(counted, m) ELSE counted IN
    /\ resp' = resp \ {m}
    /\ dir' = [st |-> r.to, tbe |-> IF "check" \in r.does THEN DirChecked(t) ELSE t]
    /\ UNCHANGED <<cache, l1, op, reqs, fwd, unb, mem, dma>>

\* Every answer has come.
DirTrigger ==
  /\ dir.tbe.trig # "none"
  /\ \E r \in At(DirTriggersAt, dir.st, dir.tbe.trig) :
       LET w == IF "dma" \in r.does THEN Dir ELSE None IN
       /\ Copies(w, cache, resp, unb, [st |-> r.to, tbe |-> NoDirTBE],
                 IF "memory" \in r.does THEN dir.tbe.fresh ELSE mem \/ w = Dir)
       /\ reqs' = WokenAll(reqs, r)
       /\ dma' = IF "send" \in r.does THEN Idle ELSE WokenDma(dma, r)
  /\ UNCHANGED <<l1, op, fwd>>

-----------------------------------------------------------------------------
ClientStart == \E k \in Clients :
  \/ CPURequest(k)
  \/ GPURequest(k)

ClientStep(k) ==
  \/ Retry(k)
  \/ k \in GPUL1s /\ L1Answer(k)

CacheStep(c) ==
  \/ CompleteL2toL1(c)
  \/ AllAcks(c)
  \/ \E m \in fwd : m.to = c /\ Forwarded(m)
  \/ \E m \in resp : m.to = c /\ Responded(m)

DirStep ==
  \/ \E m \in unb : DirUnblock(m)
  \/ \E m \in resp : m.to = Dir /\ DirResponse(m)
  \/ DirMemoryAnswer
  \/ DirTrigger

Next ==
  \/ ClientStart
  \/ \E k \in GPUL1s : L1Drop(k)
  \/ \E c \in Caches : Victim(c)
  \/ \E k \in Clients : ClientStep(k)
  \/ \E c \in Caches : CacheStep(c)
  \/ DirStep
  \/ \E c \in Caches : DirRequest(c)
  \/ DmaRequest

Spec == Init /\ [][Next]_vars

(***************************************************************************)
(* Fairness.  Every controller polls its queues, so each ends its own work *)
(* and handles the answers that have come.  A forwarded request that       *)
(* z_stall holds back is polled before the CPU's own requests (rank 1      *)
(* before rank 0), so it does not miss every moment between two moves of   *)
(* the block: strong fairness.  A request that is woken goes back into its *)
(* queue ahead of later ones (MessageBuffer::reanalyzeMessages), so it     *)
(* does not find the directory or the cache busy for ever: strong fairness *)
(* of the steps that do more than stall it again.  No client has to ask    *)
(* for anything and no block has to be a victim.                           *)
(***************************************************************************)
PutAnswers == {"WB_ACK", "WB_NACK"}
Answered(c) ==
  \/ CompleteL2toL1(c)
  \/ AllAcks(c)
  \/ \E m \in resp : m.to = c /\ Responded(m)
  \/ \E m \in fwd : m.to = c /\ m.type \in PutAnswers /\ Forwarded(m)
Snooped(c) == \E m \in fwd : m.to = c /\ m.type \notin PutAnswers /\ Forwarded(m)
DirTake(c) == DirRequest(c) /\ reqs'[c] = Idle
DmaTake == dma # Idle /\ DmaRequest /\ dma'.at = "taken"
RetryTaken(k) == Retry(k) /\ (cache' # cache \/ op'[k].at # "stalled")

Fairness ==
  /\ WF_vars(DirStep)
  /\ SF_vars(DmaTake)
  /\ \A c \in Caches : WF_vars(Answered(c)) /\ SF_vars(Snooped(c)) /\ SF_vars(DirTake(c))
  /\ \A k \in GPUL1s : WF_vars(L1Answer(k))
  /\ \A k \in Clients : SF_vars(RetryTaken(k))

FairSpec == Spec /\ Fairness

-----------------------------------------------------------------------------
Locations == {"idle", "stalled", "awake", "sent", "taken", "answered"}

\* Every variable keeps its type; in particular the counters of expected
\* messages (NumPendingMsgs) never become negative nor exceed what may come.
TypeOK ==
  /\ \A c \in Caches :
       /\ cache[c].st \in (IF c = GPU THEN GPUStates ELSE CPUStates)
       /\ cache[c].loc \in {"none", "L1", "L2"}
       /\ {cache[c].fresh, cache[c].dirty, cache[c].tbe.sharers} \subseteq BOOLEAN
       /\ cache[c].tbe.pend \in 0..machineCount
       /\ cache[c].tbe.owner \in Caches \cup {Dir, None}
       /\ cache[c].tbe.trig \in Triggers
       /\ reqs[c].at \in Locations
  /\ l1 \in [GPUL1s -> GPUL1States]
  /\ \A k \in Clients : op[k].at \in Locations
  /\ dir.st \in DirStates
  /\ dir.tbe.pend \in 0..machineCount
  /\ dir.tbe.getS \subseteq Caches
  /\ dir.tbe.trig \in Triggers
  /\ mem \in BOOLEAN
  /\ dma.at \in Locations

\* SLICC's generated code stops the simulation at an event whose state has no
\* transition.  No message, trigger, request or victim ever meets one.
NoInvalidTransition ==
  /\ \A m \in fwd : Snooping(m.to) => \A e \in ForwardEvents(m) : ForwardRows(m.to, e) # {}
  /\ \A m \in resp : IF m.to = Dir THEN At(DirResponsesAt, dir.st, m.type) # {}
                     ELSE ResponseRows(m.to, m.type) # {}
  /\ \A m \in unb : At(DirUnblocksAt, dir.st, m.type) # {}
  /\ \A c \in Caches :
       /\ cache[c].tbe.trig # "none" => AllAcksRows(c, cache[c].tbe.trig) # {}
       /\ reqs[c].at = "sent" => At(DirRequestsAt, dir.st, reqs[c].type) # {}
       /\ HasEntry(c) => VictimRows(c, VictimEvent(c)) # {}
  /\ dir.tbe.trig # "none" => At(DirTriggersAt, dir.st, dir.tbe.trig) # {}
  /\ ~Flushing => \A t \in DmaRequests : At(DirDmaRequestsAt, dir.st, t) # {}
  /\ \A k \in Clients :
       /\ op[k].at = "awake" => \/ InL2(CacheOf(k))
                                \/ MandatoryRows(CacheOf(k), op[k].type) # {}
       /\ op[k].at = "answered" => At(GPUL1ResponseAt, l1[k], op[k].type) # {}

\* A cache that may store without asking is the only one that may be read:
\* M_W and MM_W give this right before every acknowledgement has come.
SingleWriter ==
  \A c, d \in Caches :
    c # d /\ cache[c].st \in Writable => cache[d].st \notin Readable

\* Whatever a cache may give to a processor is the value written last.
ReadableIsLatest == \A c \in Caches : cache[c].st \in Readable => cache[c].fresh

\* When the directory owns the block, memory holds the value written last: no
\* clean write-back, Writeback_Nack or DMA request has lost a store.
MemoryLatest == dir.st \in DirOwner => mem

\* The data the copy engine is about to be sent is the value written last, and
\* a_assertCacheData holds where the code asserts it.
DmaReadsLatest ==
  dir.tbe.trig # "none" /\ dir.st \in {"NO_DR_B", "NO_DR_B_D"} =>
    /\ dir.tbe.fresh
    /\ dir.st = "NO_DR_B_D" => dir.tbe.cacheDirty

\* Data on its way to a cache or to the copy engine's request is the value
\* written last, whatever has happened since it was sent.  With
\* ReadableIsLatest this is the assertion of v_writeDataToCacheVerify: data
\* that reaches a cache with a shared copy equals that copy.
DataLatest == \A m \in resp : m.type \in DataReplies => m.fresh

\* No wake-up is lost: a request waits in a stall queue only while something
\* is in progress that will end and wake it.
NoLostWakeup ==
  /\ \A c \in Caches : reqs[c].at = "stalled" => dir.st \notin NotOwner \cup DirOwner
  /\ dma.at = "stalled" => dir.st \notin NotOwner \cup DirOwner
  /\ \A k \in Clients : op[k].at = "stalled" => cache[CacheOf(k)].st \notin Base \cup Locked

\* With nothing in flight the directory knows who owns the block.
Quiet == fwd = {} /\ resp = {} /\ unb = {} /\ \A c \in Caches : reqs[c] = Idle
DirectoryAgrees ==
  Quiet /\ dir.st \in NotOwner \cup DirOwner =>
    (dir.st \in NotOwner <=> \E c \in Caches : cache[c].st \in
        {"O", "M", "MM", "OT", "MT", "MMT", "OR", "MR", "MMR"})

\* Every request is served: a CPU's and a GPU core's, however the caches, the
\* copy engine and victims compete for the block.
RequestsServed == \A k \in Clients : op[k] # Idle ~> op[k] = Idle

\* Every request of the copy engine is answered.
DmaServed == dma # Idle ~> dma = Idle

=============================================================================
