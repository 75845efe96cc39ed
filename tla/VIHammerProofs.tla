--------------------------- MODULE VIHammerProofs ---------------------------
(***************************************************************************)
(* No wake-up is lost in the VI_hammer protocol, for every number of CPUs  *)
(* and GPU cores and whatever they ask for: every way out of a state that  *)
(* makes others wait wakes them.                                           *)
(***************************************************************************)
EXTENDS VIHammer, TLAPS

\* Nothing is in progress at the directory; at a cache.
Stable == NotOwner \cup DirOwner
Resting == Base \cup Locked

IsRequest(q) == q = [type |-> q.type, at |-> q.at]
IsEntry(q) ==
  q = [st |-> q.st, loc |-> q.loc, fresh |-> q.fresh, dirty |-> q.dirty, tbe |-> q.tbe]

\* A block in the L2 array of a CPU has nothing in progress, so that a request
\* can start the move; a client waits for something that is in progress.
CInv ==
  /\ cache = [c \in Caches |-> cache[c]] /\ op = [k \in Clients |-> op[k]]
  /\ \A c \in Caches : IsEntry(cache[c])
  /\ \A k \in Clients : IsRequest(op[k])
  /\ \A c \in Caches : cache[c].loc = "L2" => c # GPU /\ cache[c].st \in Base
  /\ \A k \in Clients : op[k].at = "stalled" => cache[CacheOf(k)].st \notin Resting

\* A request waits at the directory for something that is in progress.
DInv ==
  /\ reqs = [c \in Caches |-> reqs[c]] /\ dir = [st |-> dir.st, tbe |-> dir.tbe]
  /\ \A c \in Caches : IsRequest(reqs[c])
  /\ IsRequest(dma)
  /\ \A c \in Caches : reqs[c].at = "stalled" => dir.st \notin Stable
  /\ dma.at = "stalled" => dir.st \notin Stable

-----------------------------------------------------------------------------
(***************************************************************************)
(* The tables                                                              *)
(***************************************************************************)

\* What a row of Rows is.
LEMMA RowOf ==
  ASSUME NEW S, NEW E, NEW to, NEW does, NEW r \in Rows(S, E, to, does)
  PROVE  r.st \in S /\ r.to = (IF to = Same THEN r.st ELSE to) /\ r.does = does
BY DEF Rows

\* The rows found in a table are rows of it, for the state they are asked for.
LEMMA AtRow ==
  ASSUME NEW T, NEW s, NEW e, NEW r \in At(Index(T), s, e)
  PROVE  r \in T /\ r.st = s
BY Zenon DEF At, Index

\* A row that ends what was in progress at the directory wakes those who wait.
DirWakes(T) ==
  \A r \in T : r.to \in Stable /\ r.st \notin Stable => "wake" \in r.does

\* The ends of transactions at the directory.
LEMMA DirTables ==
  /\ DirWakes(DirUnblocks) /\ DirWakes(DirMemory) /\ DirWakes(DirTriggers)
  /\ \A r \in DirResponses : r.to = r.st
<1> USE RowOf DEF DirWakes, Stable, NotOwner, DirOwner, Same
<1>1. DirWakes(WriteBackUnblocks)
  BY DEF WriteBackUnblocks
<1>2. DirWakes(DirUnblocks)
  BY <1>1 DEF DirUnblocks
<1>3. DirWakes(DirMemory)
  BY DEF DirMemory
<1>4. \A r \in DirResponses : r.to = r.st
  BY DEF DirResponses
<1>5. DirWakes(DirTriggers)
  BY DEF DirTriggers
<1> QED  BY <1>2, <1>3, <1>4, <1>5, Zenon

\* A request makes nobody wait at a directory with nothing in progress.
LEMMA DirRequestTables ==
  /\ \A r \in DirRequests : /\ r.to \in Stable => r.st \in Stable
                            /\ "stall" \in r.does => r.to \notin Stable
  /\ \A r \in DirDmaRequests : /\ r.to \notin Stable
                               /\ "stall" \in r.does => r.st \notin Stable
<1> USE RowOf DEF Stable, NotOwner, DirOwner, Blocked, Same
<1>1. \A r \in DirRequests : /\ r.to \in Stable => r.st \in Stable
                             /\ "stall" \in r.does => r.to \notin Stable
  BY DEF DirRequests
<1>2. \A r \in DirDmaRequests : /\ r.to \notin Stable
                                /\ "stall" \in r.does => r.st \notin Stable
  BY DEF DirDmaRequests
<1> QED  BY <1>1, <1>2, Zenon

\* Requests of a processor stall only at a block with something in progress, a
\* hit that ends a move wakes, and a request to the directory starts something.
MandatoryOK(T) ==
  \A r \in T :
    /\ "stall" \in r.does => r.st \notin Resting
    /\ "hit" \in r.does => (r.to \in Resting /\ r.st \notin Resting => "wake" \in r.does)
    /\ r.does \cap {"GETS", "GETX", "GETF"} # {} => r.to \notin Resting

\* The rows for processors' requests.
LEMMA MandatoryTables == MandatoryOK(GPUMandatory) /\ MandatoryOK(CPUMandatory)
<1> USE RowOf DEF MandatoryOK, Resting, Base, Locked, Transfer, Same
<1>1. MandatoryOK(GPUMandatory)
  BY DEF GPUMandatory
<1>2. MandatoryOK(CPUMandatory)
  BY DEF CPUMandatory
<1> QED  BY <1>1, <1>2, Zenon

\* A victim that is not refused has nothing in progress, and only a CPU's block
\* moves to its L2 array.
LEMMA VictimTables ==
  /\ \A r \in GPUVictim : "stall" \notin r.does => r.st \in Base /\ "move" \notin r.does
  /\ \A r \in CPUVictim : "stall" \notin r.does =>
       r.st \in Base /\ ("move" \in r.does => r.to \in Base)
<1> USE RowOf DEF Base, Same
<1>1. \A r \in StableVictim : r.st \in Base /\ "move" \notin r.does
  BY DEF StableVictim
<1>2. \A r \in GPUVictim : "stall" \notin r.does => r.st \in Base /\ "move" \notin r.does
  BY <1>1 DEF GPUVictim
<1>3. \A r \in CPUVictim : "stall" \notin r.does =>
        r.st \in Base /\ ("move" \in r.does => r.to \in Base)
  BY <1>1 DEF CPUVictim
<1> QED  BY <1>2, <1>3, Zenon

\* A message of the forward network that ends a write-back wakes, and leaves a
\* block at rest at rest.
ForwardOK(T) ==
  \A r \in T : /\ r.to \in Resting /\ r.st \notin Resting => "wake" \in r.does
               /\ r.st \in Base => r.to \in Base

\* The rows for messages of the forward network.
LEMMA ForwardTables == ForwardOK(GPUForward) /\ ForwardOK(CPUForward)
<1> USE RowOf DEF ForwardOK, Resting, Base, Locked, Same
<1>1. ForwardOK(SharedForward)
  BY DEF SharedForward
<1>2. ForwardOK(GPUForward)
  BY <1>1 DEF GPUForward
<1>3. ForwardOK(CPUForward)
  BY <1>2 DEF CPUForward
<1> QED  BY <1>2, <1>3, Zenon

\* Answers come to a block with a request in progress, and the one that ends it
\* wakes.
AnswerOK(T) ==
  \A r \in T : /\ r.to \in Resting => "wake" \in r.does
               /\ r.st \notin Base

\* The rows for answers and for the last of them.
LEMMA AnswerTables ==
  /\ AnswerOK(GPUResponse) /\ AnswerOK(CPUResponse)
  /\ AnswerOK(GPUAllAcks) /\ AnswerOK(CPUAllAcks)
<1> USE RowOf DEF AnswerOK, Resting, Base, Locked, Same
<1>1. AnswerOK(Response)
  BY DEF Response, UpgradeResponse
<1>2. AnswerOK(GPUResponse)
  BY <1>1 DEF GPUResponse
<1>3. AnswerOK(CPUResponse)
  BY <1>1 DEF CPUResponse
<1>4. AnswerOK(GPUAllAcks)
  BY DEF GPUAllAcks
<1>5. AnswerOK(CPUAllAcks)
  BY <1>4 DEF CPUAllAcks
<1> QED  BY <1>2, <1>3, <1>4, <1>5, Zenon

-----------------------------------------------------------------------------
(***************************************************************************)
(* What the parts the handlers share do                                    *)
(***************************************************************************)

\* A client is one of its cache's, and of no other.
LEMMA CacheOfClient ==
  ASSUME NEW k \in Clients
  PROVE  /\ CacheOf(k) \in Caches
         /\ \A c \in Caches : k \in ClientsOf(c) <=> CacheOf(k) = c
         /\ CacheOf(k) # GPU => k = CacheOf(k)
BY HammerAssumption, Zenon DEF Clients, Caches, CacheOf, ClientsOf

\* Woken leaves no client of c stalled when it wakes them, and stalls none.
LEMMA WokenClients ==
  ASSUME NEW o, NEW c \in Caches, NEW r, \A k \in Clients : IsRequest(o[k])
  PROVE  /\ Woken(o, c, r) = [k \in Clients |-> Woken(o, c, r)[k]]
         /\ \A k \in Clients : IsRequest(Woken(o, c, r)[k])
         /\ \A k \in Clients : Woken(o, c, r)[k].at = "stalled" =>
              o[k].at = "stalled" /\ ("wake" \in r.does => CacheOf(k) # c)
<1>1. Woken(o, c, r) = [k \in Clients |-> Woken(o, c, r)[k]]
  BY Zenon DEF Woken
<1>2. ASSUME NEW k \in Clients
      PROVE  /\ IsRequest(Woken(o, c, r)[k])
             /\ Woken(o, c, r)[k].at = "stalled" =>
                  o[k].at = "stalled" /\ ("wake" \in r.does => CacheOf(k) # c)
  <2>1. k \in ClientsOf(c) <=> CacheOf(k) = c
    BY CacheOfClient, Zenon
  <2>2. CASE "wake" \in r.does /\ k \in ClientsOf(c) /\ o[k].at = "stalled"
    <3>1. Woken(o, c, r)[k] = [o[k] EXCEPT !.at = "awake"]
      BY <2>2, Zenon DEF Woken
    <3> QED  BY <3>1, Zenon DEF IsRequest
  <2>3. CASE ~("wake" \in r.does /\ k \in ClientsOf(c) /\ o[k].at = "stalled")
    <3>1. Woken(o, c, r)[k] = o[k]
      BY <2>3, Zenon DEF Woken
    <3> QED  BY <3>1, <2>1, <2>3, Zenon
  <2> QED  BY <2>2, <2>3, Zenon
<1> QED  BY <1>1, <1>2, Zenon

\* The requests after a step that wakes cache c's clients as row r says.
LEMMA OpWoken ==
  ASSUME NEW o, NEW c \in Caches, NEW r, op' = Woken(o, c, r),
         \A k \in Clients : IsRequest(o[k]) /\ (o[k].at = "stalled" => op[k].at = "stalled")
  PROVE  /\ op' = [k \in Clients |-> op'[k]]
         /\ \A k \in Clients : IsRequest(op'[k])
         /\ \A k \in Clients : op'[k].at = "stalled" =>
              op[k].at = "stalled" /\ ("wake" \in r.does => CacheOf(k) # c)
<1>1. /\ Woken(o, c, r) = [k \in Clients |-> Woken(o, c, r)[k]]
      /\ \A k \in Clients : IsRequest(Woken(o, c, r)[k])
      /\ \A k \in Clients : Woken(o, c, r)[k].at = "stalled" =>
           o[k].at = "stalled" /\ ("wake" \in r.does => CacheOf(k) # c)
  BY WokenClients, Zenon
<1> QED  BY <1>1, Zenon

\* Served stalls no client.
LEMMA ServedClients ==
  ASSUME NEW o, NEW K, \A k \in Clients : IsRequest(o[k])
  PROVE  \A k \in Clients :
           /\ IsRequest(Served(o, K)[k])
           /\ Served(o, K)[k].at = "stalled" => o[k].at = "stalled" /\ k \notin K
<1> TAKE k \in Clients
<1>1. CASE k \notin K
  BY <1>1, Zenon DEF Served
<1>2. CASE k \in K /\ k \in CPUs
  <2>1. Served(o, K)[k] = Idle
    BY <1>2, Zenon DEF Served
  <2> QED  BY <2>1 DEF Idle, IsRequest
<1>3. CASE k \in K /\ k \notin CPUs
  <2>1. Served(o, K)[k] = [o[k] EXCEPT !.at = "answered"]
    BY <1>3, Zenon DEF Served
  <2> QED  BY <2>1, Zenon DEF IsRequest
<1> QED  BY <1>1, <1>2, <1>3, Zenon

\* The canonical form has the same state and place.
LEMMA EntryKept ==
  ASSUME NEW q, IsEntry(q)
  PROVE  IsEntry(Entry(q)) /\ Entry(q).st = q.st /\ Entry(q).loc = q.loc
BY Zenon DEF IsEntry, Entry

\* A cache record after the assignments of a victim, of another cache's request,
\* of a hit, of a request that is sent and of an answer.
AfterVictim(q, s, l) == [q EXCEPT !.st = s, !.loc = l]
AfterForward(q, s, n) == [q EXCEPT !.st = s, !.tbe.pend = @ + n]
AfterHit(q, s, f, d) == [q EXCEPT !.st = s, !.fresh = f, !.dirty = d]
AfterIssue(q, s, l, t) == [q EXCEPT !.st = s, !.loc = l, !.tbe = t]
AfterAnswer(q, s, t, f, d) == [q EXCEPT !.st = s, !.tbe = t, !.fresh = f, !.dirty = d]

\* A victim leaves a cache record.
LEMMA EntryVictim ==
  ASSUME NEW q, IsEntry(q), NEW s, NEW l
  PROVE  /\ IsEntry(AfterVictim(q, s, l))
         /\ AfterVictim(q, s, l).st = s /\ AfterVictim(q, s, l).loc = l
<1> DEFINE q1 == [q EXCEPT !.st = s]
           q2 == [q1 EXCEPT !.loc = l]
<1>1. q1 = [st |-> s, loc |-> q.loc, fresh |-> q.fresh, dirty |-> q.dirty, tbe |-> q.tbe]
  BY DEF IsEntry
<1> HIDE DEF q1
<1>2. q2 = [st |-> s, loc |-> l, fresh |-> q.fresh, dirty |-> q.dirty, tbe |-> q.tbe]
  BY <1>1
<1> HIDE DEF q2
<1>3. AfterVictim(q, s, l) = q2
  BY Zenon DEF AfterVictim, q1, q2
<1> QED  BY <1>2, <1>3 DEF IsEntry

\* Another cache's request leaves a cache record.
LEMMA EntryForward ==
  ASSUME NEW q, IsEntry(q), NEW s, NEW n
  PROVE  /\ IsEntry(AfterForward(q, s, n))
         /\ AfterForward(q, s, n).st = s /\ AfterForward(q, s, n).loc = q.loc
<1> DEFINE t == [q.tbe EXCEPT !.pend = @ + n]
           q1 == [q EXCEPT !.st = s]
           q2 == [q1 EXCEPT !.tbe = t]
<1>1. q1 = [st |-> s, loc |-> q.loc, fresh |-> q.fresh, dirty |-> q.dirty, tbe |-> q.tbe]
  BY DEF IsEntry
<1>2. AfterForward(q, s, n) = q2
  <2>1. AfterForward(q, s, n) = [q1 EXCEPT !.tbe.pend = @ + n]
    BY Zenon DEF AfterForward
  <2>2. q1.tbe = q.tbe
    BY <1>1, Zenon
  <2> HIDE DEF q1
  <2> QED  BY <2>1, <2>2, Zenon
<1> HIDE DEF q1, t
<1>3. q2 = [st |-> s, loc |-> q.loc, fresh |-> q.fresh, dirty |-> q.dirty, tbe |-> t]
  BY <1>1
<1> HIDE DEF q2
<1> QED  BY <1>2, <1>3 DEF IsEntry

\* A hit leaves a cache record.
LEMMA EntryHit ==
  ASSUME NEW q, IsEntry(q), NEW s, NEW f, NEW d
  PROVE  /\ IsEntry(AfterHit(q, s, f, d))
         /\ AfterHit(q, s, f, d).st = s /\ AfterHit(q, s, f, d).loc = q.loc
<1> DEFINE q1 == [q EXCEPT !.st = s]
           q2 == [q1 EXCEPT !.fresh = f]
           q3 == [q2 EXCEPT !.dirty = d]
<1>1. q1 = [st |-> s, loc |-> q.loc, fresh |-> q.fresh, dirty |-> q.dirty, tbe |-> q.tbe]
  BY DEF IsEntry
<1> HIDE DEF q1
<1>2. q2 = [st |-> s, loc |-> q.loc, fresh |-> f, dirty |-> q.dirty, tbe |-> q.tbe]
  BY <1>1
<1> HIDE DEF q2
<1>3. q3 = [st |-> s, loc |-> q.loc, fresh |-> f, dirty |-> d, tbe |-> q.tbe]
  BY <1>2
<1> HIDE DEF q3
<1>4. AfterHit(q, s, f, d) = q3
  BY Zenon DEF AfterHit, q1, q2, q3
<1> QED  BY <1>3, <1>4 DEF IsEntry

\* A request that is sent leaves a cache record.
LEMMA EntryIssue ==
  ASSUME NEW q, IsEntry(q), NEW s, NEW l, NEW t
  PROVE  /\ IsEntry(AfterIssue(q, s, l, t))
         /\ AfterIssue(q, s, l, t).st = s /\ AfterIssue(q, s, l, t).loc = l
<1> DEFINE q1 == [q EXCEPT !.st = s]
           q2 == [q1 EXCEPT !.loc = l]
           q3 == [q2 EXCEPT !.tbe = t]
<1>1. q1 = [st |-> s, loc |-> q.loc, fresh |-> q.fresh, dirty |-> q.dirty, tbe |-> q.tbe]
  BY DEF IsEntry
<1> HIDE DEF q1
<1>2. q2 = [st |-> s, loc |-> l, fresh |-> q.fresh, dirty |-> q.dirty, tbe |-> q.tbe]
  BY <1>1
<1> HIDE DEF q2
<1>3. q3 = [st |-> s, loc |-> l, fresh |-> q.fresh, dirty |-> q.dirty, tbe |-> t]
  BY <1>2
<1> HIDE DEF q3
<1>4. AfterIssue(q, s, l, t) = q3
  BY Zenon DEF AfterIssue, q1, q2, q3
<1> QED  BY <1>3, <1>4 DEF IsEntry

\* An answer leaves a cache record.
LEMMA EntryAnswer ==
  ASSUME NEW q, IsEntry(q), NEW s, NEW t, NEW f, NEW d
  PROVE  /\ IsEntry(AfterAnswer(q, s, t, f, d))
         /\ AfterAnswer(q, s, t, f, d).st = s /\ AfterAnswer(q, s, t, f, d).loc = q.loc
<1> DEFINE q1 == [q EXCEPT !.st = s]
           q2 == [q1 EXCEPT !.tbe = t]
           q3 == [q2 EXCEPT !.fresh = f]
           q4 == [q3 EXCEPT !.dirty = d]
<1>1. q1 = [st |-> s, loc |-> q.loc, fresh |-> q.fresh, dirty |-> q.dirty, tbe |-> q.tbe]
  BY DEF IsEntry
<1> HIDE DEF q1
<1>2. q2 = [st |-> s, loc |-> q.loc, fresh |-> q.fresh, dirty |-> q.dirty, tbe |-> t]
  BY <1>1
<1> HIDE DEF q2
<1>3. q3 = [st |-> s, loc |-> q.loc, fresh |-> f, dirty |-> q.dirty, tbe |-> t]
  BY <1>2
<1> HIDE DEF q3
<1>4. q4 = [st |-> s, loc |-> q.loc, fresh |-> f, dirty |-> d, tbe |-> t]
  BY <1>3
<1> HIDE DEF q4
<1>5. AfterAnswer(q, s, t, f, d) = q4
  BY Zenon DEF AfterAnswer, q1, q2, q3, q4
<1> QED  BY <1>4, <1>5 DEF IsEntry

\* A store changes no state and no place.
LEMMA CopiesKept ==
  ASSUME NEW w, NEW cs, NEW rs, NEW us, NEW d, NEW m, Copies(w, cs, rs, us, d, m),
         \A c \in Caches : IsEntry(cs[c]), d = [st |-> d.st, tbe |-> d.tbe]
  PROVE  /\ cache' = [c \in Caches |-> cache'[c]]
         /\ \A c \in Caches :
              IsEntry(cache'[c]) /\ cache'[c].st = cs[c].st /\ cache'[c].loc = cs[c].loc
         /\ dir'.st = d.st /\ dir' = [st |-> dir'.st, tbe |-> dir'.tbe]
<1>1. cache' = [c \in Caches |-> cache'[c]]
  BY Zenon DEF Copies
<1>2. ASSUME NEW c \in Caches
      PROVE  IsEntry(cache'[c]) /\ cache'[c].st = cs[c].st /\ cache'[c].loc = cs[c].loc
  <2>1. cache'[c] = [Entry(cs[c]) EXCEPT !.fresh = @ /\ w \in {None, c}]
    BY Zenon DEF Copies
  <2>2. IsEntry(Entry(cs[c])) /\ Entry(cs[c]).st = cs[c].st /\ Entry(cs[c]).loc = cs[c].loc
    BY EntryKept, Zenon
  <2> QED  BY <2>1, <2>2, Zenon DEF IsEntry
<1>3. dir'.st = d.st /\ dir' = [st |-> dir'.st, tbe |-> dir'.tbe]
  <2>1. dir' = [d EXCEPT !.tbe.fresh = @ /\ w = None]
    BY Zenon DEF Copies
  <2> QED  BY <2>1, Zenon
<1> QED  BY <1>1, <1>2, <1>3, Zenon

-----------------------------------------------------------------------------
(***************************************************************************)
(* What keeps the two halves of the invariant                              *)
(***************************************************************************)

\* A step at cache c that leaves none of c's clients stalled at rest.
LEMMA CacheKept ==
  ASSUME CInv, NEW c \in Caches,
         cache' = [d \in Caches |-> cache'[d]], op' = [k \in Clients |-> op'[k]],
         IsEntry(cache'[c]), \A d \in Caches : d # c =>
           IsEntry(cache'[d]) /\ cache'[d].st = cache[d].st /\ cache'[d].loc = cache[d].loc,
         \A k \in Clients : IsRequest(op'[k]),
         cache'[c].loc = "L2" => c # GPU /\ cache'[c].st \in Base,
         \A k \in Clients : op'[k].at = "stalled" =>
           IF CacheOf(k) = c THEN cache'[c].st \notin Resting ELSE op[k].at = "stalled"
  PROVE  CInv'
<1>1. ASSUME NEW d \in Caches
      PROVE  IsEntry(cache'[d]) /\ (cache'[d].loc = "L2" => d # GPU /\ cache'[d].st \in Base)
  BY Zenon DEF CInv
<1>2. ASSUME NEW k \in Clients, op'[k].at = "stalled"
      PROVE  cache'[CacheOf(k)].st \notin Resting
  <2>1. CacheOf(k) \in Caches
    BY CacheOfClient, Zenon
  <2>2. CASE CacheOf(k) = c
    BY <1>2, <2>2, Zenon
  <2>3. CASE CacheOf(k) # c
    BY <1>2, <2>1, <2>3, Zenon DEF CInv
  <2> QED  BY <2>2, <2>3, Zenon
<1> QED  BY <1>1, <1>2, Zenon DEF CInv, IsEntry, IsRequest

\* A step that changes no cache's state and no client's request.
LEMMA CacheSame ==
  ASSUME CInv, op' = op, cache' = [c \in Caches |-> cache'[c]],
         \A c \in Caches :
           IsEntry(cache'[c]) /\ cache'[c].st = cache[c].st /\ cache'[c].loc = cache[c].loc
  PROVE  CInv'
<1>1. \A k \in Clients : CacheOf(k) \in Caches
  BY CacheOfClient, Zenon
<1> QED  BY <1>1, Zenon DEF CInv, IsEntry, IsRequest

\* A step that leaves the directory's state and sends at most one request.
LEMMA DirKept ==
  ASSUME DInv, dma' = dma, dir'.st = dir.st, dir' = [st |-> dir'.st, tbe |-> dir'.tbe],
         NEW c \in Caches, NEW t,
         reqs' = reqs \/ reqs' = [reqs EXCEPT ![c] = [type |-> t, at |-> "sent"]]
  PROVE  DInv'
<1>1. CASE reqs' = reqs
  BY <1>1, Zenon DEF DInv, IsRequest
<1>2. CASE reqs' = [reqs EXCEPT ![c] = [type |-> t, at |-> "sent"]]
  <2>1. reqs' = [d \in Caches |-> reqs'[d]]
    BY <1>2, Zenon DEF DInv
  <2>2. \A d \in Caches : reqs'[d] = IF d = c THEN [type |-> t, at |-> "sent"] ELSE reqs[d]
    BY <1>2, Zenon DEF DInv
  <2>3. \A d \in Caches : IsRequest(reqs'[d]) /\ (reqs'[d].at = "stalled" => reqs[d].at = "stalled")
    BY <2>2 DEF DInv, IsRequest
  <2> QED  BY <2>1, <2>3, Zenon DEF DInv, IsRequest
<1> QED  BY <1>1, <1>2, Zenon

\* A step of the directory that wakes those who wait when it ends what was in
\* progress.
LEMMA DirWoken ==
  ASSUME DInv, NEW r, r.st = dir.st, dir'.st = r.to, dir' = [st |-> dir'.st, tbe |-> dir'.tbe],
         r.to \in Stable /\ r.st \notin Stable => "wake" \in r.does,
         reqs' = WokenAll(reqs, r), dma' = Idle \/ dma' = WokenDma(dma, r)
  PROVE  DInv'
<1>1. reqs' = [c \in Caches |-> reqs'[c]]
  BY Zenon DEF WokenAll
<1>2. ASSUME NEW c \in Caches
      PROVE  /\ IsRequest(reqs'[c])
             /\ reqs'[c].at = "stalled" => reqs[c].at = "stalled" /\ "wake" \notin r.does
  <2>1. reqs'[c] = IF "wake" \in r.does /\ reqs[c].at = "stalled"
                     THEN [reqs[c] EXCEPT !.at = "sent"] ELSE reqs[c]
    BY Zenon DEF WokenAll
  <2> QED  BY <2>1, Zenon DEF DInv, IsRequest
<1>3. /\ IsRequest(dma')
      /\ dma'.at = "stalled" => dma.at = "stalled" /\ "wake" \notin r.does
  BY DEF DInv, IsRequest, Idle, WokenDma
<1> QED  BY <1>1, <1>2, <1>3, Zenon DEF DInv, IsRequest

-----------------------------------------------------------------------------
(***************************************************************************)
(* The rows of a cache                                                     *)
(***************************************************************************)

\* What the tables say of the row a processor's request takes.
LEMMA MandatoryRow ==
  ASSUME NEW c, NEW e, NEW r \in MandatoryRows(c, e)
  PROVE  /\ r.st = cache[c].st
         /\ "stall" \in r.does => r.st \notin Resting
         /\ "hit" \in r.does => (r.to \in Resting /\ r.st \notin Resting => "wake" \in r.does)
         /\ r.does \cap {"GETS", "GETX", "GETF"} # {} => r.to \notin Resting
<1>1. CASE c = GPU
  <2>1. r \in GPUMandatory /\ r.st = cache[c].st
    BY <1>1, AtRow, Zenon DEF MandatoryRows, GPUMandatoryAt
  <2> QED  BY <2>1, MandatoryTables, Zenon DEF MandatoryOK
<1>2. CASE c # GPU
  <2>1. r \in CPUMandatory /\ r.st = cache[c].st
    BY <1>2, AtRow, Zenon DEF MandatoryRows, CPUMandatoryAt
  <2> QED  BY <2>1, MandatoryTables, Zenon DEF MandatoryOK
<1> QED  BY <1>1, <1>2, Zenon

\* What they say of the row a victim takes.
LEMMA VictimRow ==
  ASSUME NEW c, NEW e, NEW r \in VictimRows(c, e), "stall" \notin r.does
  PROVE  /\ r.st = cache[c].st /\ r.st \in Base
         /\ "move" \in r.does => c # GPU /\ r.to \in Base
<1>1. CASE c = GPU
  <2>1. r \in GPUVictim /\ r.st = cache[c].st
    BY <1>1, AtRow, Zenon DEF VictimRows, GPUVictimAt
  <2> QED  BY <2>1, VictimTables, Zenon
<1>2. CASE c # GPU
  <2>1. r \in CPUVictim /\ r.st = cache[c].st
    BY <1>2, AtRow, Zenon DEF VictimRows, CPUVictimAt
  <2> QED  BY <2>1, <1>2, VictimTables, Zenon
<1> QED  BY <1>1, <1>2, Zenon

\* What they say of the row a message of the forward network takes.
LEMMA ForwardRow ==
  ASSUME NEW c, NEW e, NEW r \in ForwardRows(c, e)
  PROVE  /\ r.st = cache[c].st
         /\ r.to \in Resting /\ r.st \notin Resting => "wake" \in r.does
         /\ r.st \in Base => r.to \in Base
<1>1. CASE c = GPU
  <2>1. r \in GPUForward /\ r.st = cache[c].st
    BY <1>1, AtRow, Zenon DEF ForwardRows, GPUForwardAt
  <2> QED  BY <2>1, ForwardTables, Zenon DEF ForwardOK
<1>2. CASE c # GPU
  <2>1. r \in CPUForward /\ r.st = cache[c].st
    BY <1>2, AtRow, Zenon DEF ForwardRows, CPUForwardAt
  <2> QED  BY <2>1, ForwardTables, Zenon DEF ForwardOK
<1> QED  BY <1>1, <1>2, Zenon

\* What they say of the row an answer, or the last one, takes.
LEMMA AnswerRow ==
  ASSUME NEW c, NEW e, NEW r \in ResponseRows(c, e) \cup AllAcksRows(c, e)
  PROVE  /\ r.st = cache[c].st /\ r.st \notin Base
         /\ r.to \in Resting => "wake" \in r.does
<1>1. CASE r \in ResponseRows(c, e) /\ c = GPU
  <2>1. r \in GPUResponse /\ r.st = cache[c].st
    BY <1>1, AtRow, Zenon DEF ResponseRows, GPUResponseAt
  <2> QED  BY <2>1, AnswerTables, Zenon DEF AnswerOK
<1>2. CASE r \in ResponseRows(c, e) /\ c # GPU
  <2>1. r \in CPUResponse /\ r.st = cache[c].st
    BY <1>2, AtRow, Zenon DEF ResponseRows, CPUResponseAt
  <2> QED  BY <2>1, AnswerTables, Zenon DEF AnswerOK
<1>3. CASE r \in AllAcksRows(c, e) /\ c = GPU
  <2>1. r \in GPUAllAcks /\ r.st = cache[c].st
    BY <1>3, AtRow, Zenon DEF AllAcksRows, GPUAllAcksAt
  <2> QED  BY <2>1, AnswerTables, Zenon DEF AnswerOK
<1>4. CASE r \in AllAcksRows(c, e) /\ c # GPU
  <2>1. r \in CPUAllAcks /\ r.st = cache[c].st
    BY <1>4, AtRow, Zenon DEF AllAcksRows, CPUAllAcksAt
  <2> QED  BY <2>1, AnswerTables, Zenon DEF AnswerOK
<1> QED  BY <1>1, <1>2, <1>3, <1>4, Zenon

-----------------------------------------------------------------------------
(***************************************************************************)
(* The steps of a client                                                   *)
(***************************************************************************)

\* The move into the L1 starts from a block at rest, and the request waits for
\* its end.
LEMMA TriggerL2toL1Wakes ==
  ASSUME CInv, NEW k \in Clients, NEW t, TriggerL2toL1(k, t)
  PROVE  CInv'
<1>1. k \in Caches /\ CacheOf(k) = k /\ cache[k].st \in Base
  BY CacheOfClient DEF CInv, TriggerL2toL1, InL2
<1>2. Moving[cache[k].st] \notin Resting
  BY <1>1 DEF Moving, Base, Resting, Locked
<1>3. /\ cache' = [c \in Caches |-> cache'[c]] /\ op' = [j \in Clients |-> op'[j]]
      /\ cache'[k] = [cache[k] EXCEPT !.st = Moving[cache[k].st], !.loc = "L1"]
      /\ \A c \in Caches : c # k => cache'[c] = cache[c]
      /\ op'[k] = [type |-> t, at |-> "stalled"] /\ \A j \in Clients : j # k => op'[j] = op[j]
  BY <1>1, Zenon DEF TriggerL2toL1, CInv
<1>4. IsEntry(cache'[k]) /\ cache'[k].st = Moving[cache[k].st] /\ cache'[k].loc = "L1"
  BY <1>1, <1>3 DEF IsEntry, CInv
<1>5. \A j \in Clients : IsRequest(op'[j])
  BY <1>3, Zenon DEF IsRequest, CInv
<1>6. \A j \in Clients : op'[j].at = "stalled" =>
        IF CacheOf(j) = k THEN cache'[k].st \notin Resting ELSE op[j].at = "stalled"
  BY <1>1, <1>2, <1>3, <1>4, Zenon
<1> QED  BY <1>1, <1>3, <1>4, <1>5, <1>6, CacheKept, Zenon DEF CInv

\* A request is stalled at a block with something in progress.
LEMMA StallRequestWakes ==
  ASSUME CInv, NEW k \in Clients, NEW t, StallRequest(k, t)
  PROVE  CInv'
<1> DEFINE c == CacheOf(k)
<1>1. c \in Caches
  BY CacheOfClient, Zenon
<1>2. PICK r \in MandatoryRows(c, t) : "stall" \in r.does
  BY Zenon DEF StallRequest
<1>3. cache[c].st \notin Resting
  BY <1>2, MandatoryRow, Zenon
<1>4. /\ cache' = cache /\ op' = [j \in Clients |-> op'[j]]
      /\ op'[k] = [type |-> t, at |-> "stalled"] /\ \A j \in Clients : j # k => op'[j] = op[j]
  BY Zenon DEF StallRequest, CInv
<1>5. \A j \in Clients : IsRequest(op'[j])
  BY <1>4, Zenon DEF IsRequest, CInv
<1>6. \A j \in Clients : op'[j].at = "stalled" =>
        IF CacheOf(j) = c THEN cache'[c].st \notin Resting ELSE op[j].at = "stalled"
  BY <1>3, <1>4, Zenon
<1> QED  BY <1>1, <1>4, <1>5, <1>6, CacheKept, Zenon DEF CInv

\* A hit that ends the block's move wakes the others.
LEMMA HitWakes ==
  ASSUME CInv, DInv, NEW k \in Clients, NEW t, Hit(k, t)
  PROVE  CInv' /\ dir'.st = dir.st /\ dir' = [st |-> dir'.st, tbe |-> dir'.tbe]
<1> DEFINE c == CacheOf(k)
           w == IF t = "Store" THEN c ELSE None
           o == [op EXCEPT ![k].type = t]
<1>1. c \in Caches /\ cache[c].loc # "L2"
  BY CacheOfClient, Zenon DEF Hit, InL2
<1>2. PICK r \in MandatoryRows(c, t) :
        /\ "hit" \in r.does
        /\ op' = Woken(Served(o, {k}), c, r)
        /\ Copies(w, [cache EXCEPT ![c].st = r.to, ![c].fresh = @ \/ t = "Store",
                                   ![c].dirty = @ \/ t = "Store"], resp, unb, dir, mem)
  BY Zenon DEF Hit
<1> DEFINE cs == [cache EXCEPT ![c].st = r.to, ![c].fresh = @ \/ t = "Store",
                               ![c].dirty = @ \/ t = "Store"]
<1>3. \A j \in Clients : IsRequest(o[j]) /\ o[j].at = op[j].at
  BY DEF CInv, IsRequest
<1>4. /\ IsEntry(cs[c]) /\ cs[c].st = r.to /\ cs[c].loc = cache[c].loc
      /\ \A d \in Caches : d # c => cs[d] = cache[d]
  <2> DEFINE f == cache[c].fresh \/ t = "Store"
             g == cache[c].dirty \/ t = "Store"
  <2>1. IsEntry(cache[c])
    BY <1>1, Zenon DEF CInv
  <2>2. /\ cs[c] = AfterHit(cache[c], r.to, f, g)
        /\ \A d \in Caches : d # c => cs[d] = cache[d]
    BY <1>1, <2>1, Zenon DEF CInv, IsEntry, AfterHit
  <2> HIDE DEF cs, f, g
  <2> QED  BY <2>1, <2>2, EntryHit
<1>5. \A d \in Caches : IsEntry(cs[d])
  BY <1>4, Zenon DEF CInv
<1>6. dir = [st |-> dir.st, tbe |-> dir.tbe]
  BY Zenon DEF DInv
<1> HIDE DEF cs, o, w
<1>7. /\ cache' = [d \in Caches |-> cache'[d]]
      /\ \A d \in Caches :
           IsEntry(cache'[d]) /\ cache'[d].st = cs[d].st /\ cache'[d].loc = cs[d].loc
      /\ dir'.st = dir.st /\ dir' = [st |-> dir'.st, tbe |-> dir'.tbe]
  <2>1. Copies(w, cs, resp, unb, dir, mem)
    BY <1>2, Zenon DEF cs, w
  <2> QED  BY <2>1, <1>5, <1>6, CopiesKept, Zenon
<1>8. \A j \in Clients : /\ IsRequest(Served(o, {k})[j])
                         /\ Served(o, {k})[j].at = "stalled" => op[j].at = "stalled"
  BY <1>3, ServedClients
<1>9. /\ op' = [j \in Clients |-> op'[j]]
      /\ \A j \in Clients : IsRequest(op'[j])
      /\ \A j \in Clients : op'[j].at = "stalled" =>
           op[j].at = "stalled" /\ ("wake" \in r.does => CacheOf(j) # c)
  <2> HIDE DEF c
  <2> DEFINE s == Served(o, {k})
  <2>1. op' = Woken(s, c, r)
    BY <1>2, Zenon
  <2>2. \A j \in Clients : IsRequest(s[j]) /\ (s[j].at = "stalled" => op[j].at = "stalled")
    BY <1>8, Zenon
  <2> HIDE DEF s
  <2> QED  BY <2>1, <2>2, <1>1, OpWoken, Zenon
<1>10. \A j \in Clients : op'[j].at = "stalled" =>
         IF CacheOf(j) = c THEN cache'[c].st \notin Resting ELSE op[j].at = "stalled"
  <2>1. cache'[c].st = r.to /\ r.st = cache[c].st
    BY <1>1, <1>2, <1>4, <1>7, MandatoryRow, Zenon
  <2>2. r.to \in Resting /\ r.st \notin Resting => "wake" \in r.does
    BY <1>2, MandatoryRow, Zenon
  <2> QED  BY <2>1, <2>2, <1>9, Zenon DEF CInv
<1>11. CInv'
  <2> HIDE DEF c
  <2>1. \A d \in Caches : d # c =>
          IsEntry(cache'[d]) /\ cache'[d].st = cache[d].st /\ cache'[d].loc = cache[d].loc
    BY <1>4, <1>7, Zenon
  <2>2. cache'[c].loc # "L2" /\ IsEntry(cache'[c])
    BY <1>1, <1>4, <1>7, Zenon
  <2> QED  BY <2>1, <2>2, <1>1, <1>7, <1>9, <1>10, CacheKept, Zenon
<1> QED  BY <1>7, <1>11, Zenon

\* A request that is sent leaves the block in a state that makes others wait.
LEMMA IssueRequestWakes ==
  ASSUME CInv, NEW k \in Clients, NEW t, IssueRequest(k, t)
  PROVE  CInv' /\ \E q : reqs' = [reqs EXCEPT ![CacheOf(k)] = [type |-> q, at |-> "sent"]]
<1> DEFINE c == CacheOf(k)
<1>1. c \in Caches /\ cache[c].loc # "L2"
  BY CacheOfClient, Zenon DEF IssueRequest, InL2
<1>2. PICK r \in MandatoryRows(c, t) : \E q \in r.does \cap {"GETS", "GETX", "GETF"} :
        /\ \E loc, tbe :
             /\ loc # "L2"
             /\ cache' = [cache EXCEPT ![c] = Entry([@ EXCEPT !.st = r.to, !.loc = loc,
                                                              !.tbe = tbe])]
        /\ reqs' = [reqs EXCEPT ![c] = [type |-> q, at |-> "sent"]]
  <2> HIDE DEF c
  <2> DEFINE loc(q) == CASE c = GPU -> "none"
                         [] q # "GETF" -> "L1"
                         [] cache[c].st \in {"I", "IR"} -> cache[c].loc
                         [] OTHER -> "none"
             tbe(r) == [NoTBE EXCEPT !.pend = machineCount - (IF "own" \in r.does THEN 1 ELSE 0)]
  <2>1. \A q : loc(q) # "L2"
    BY <1>1, Zenon
  <2>2. \E r \in MandatoryRows(c, t) : \E q \in r.does \cap {"GETS", "GETX", "GETF"} :
          /\ cache' = [cache EXCEPT ![c] = Entry([@ EXCEPT !.st = r.to, !.loc = loc(q),
                                                           !.tbe = tbe(r)])]
          /\ reqs' = [reqs EXCEPT ![c] = [type |-> q, at |-> "sent"]]
    BY Zenon DEF IssueRequest, c
  <2> HIDE DEF loc, tbe
  <2> QED  BY <2>1, <2>2, Zenon
<1>3. PICK loc, tbe :
        /\ loc # "L2"
        /\ cache' = [cache EXCEPT ![c] = Entry([cache[c] EXCEPT !.st = r.to, !.loc = loc,
                                                                !.tbe = tbe])]
  BY <1>2, Zenon
<1> DEFINE e == AfterIssue(cache[c], r.to, loc, tbe)
<1>4. IsEntry(e) /\ e.st = r.to /\ e.loc = loc
  <2>1. IsEntry(cache[c])
    BY <1>1, Zenon DEF CInv
  <2> QED  BY <2>1, EntryIssue
<1>5. r.to \notin Resting
  BY <1>2, MandatoryRow, Zenon
<1> HIDE DEF e, c
<1>6. /\ cache' = [d \in Caches |-> cache'[d]]
      /\ cache'[c] = Entry(e) /\ \A d \in Caches : d # c => cache'[d] = cache[d]
  BY <1>1, <1>3, Zenon DEF e, CInv, AfterIssue
<1>7. IsEntry(cache'[c]) /\ cache'[c].st = r.to /\ cache'[c].loc # "L2"
  BY <1>3, <1>4, <1>6, EntryKept, Zenon
<1>8. /\ op' = [j \in Clients |-> op'[j]]
      /\ \A j \in Clients : op'[j] = IF j = k THEN [type |-> t, at |-> "sent"] ELSE op[j]
  BY Zenon DEF IssueRequest, CInv
<1>9. \A j \in Clients : IsRequest(op'[j]) /\ (op'[j].at = "stalled" => op[j].at = "stalled")
  BY <1>8 DEF CInv, IsRequest
<1>10. CInv'
  BY <1>1, <1>5, <1>6, <1>7, <1>8, <1>9, CacheKept, Zenon DEF CInv
<1> QED  BY <1>2, <1>10, Zenon DEF c

\* A request of a client.
LEMMA MandatoryWakes ==
  ASSUME CInv, DInv, NEW k \in Clients, NEW t, Mandatory(k, t)
  PROVE  CInv' /\ DInv'
<1>0. CacheOf(k) \in Caches /\ dma' = dma /\ dir = [st |-> dir.st, tbe |-> dir.tbe]
  BY CacheOfClient, Zenon DEF Mandatory, DInv
<1>1. CASE TriggerL2toL1(k, t)
  <2>1. reqs' = reqs /\ dir' = dir
    BY <1>1, Zenon DEF TriggerL2toL1
  <2> QED  BY <1>0, <1>1, <2>1, TriggerL2toL1Wakes, DirKept, Zenon
<1>2. CASE StallRequest(k, t)
  <2>1. reqs' = reqs /\ dir' = dir
    BY <1>2, Zenon DEF StallRequest
  <2> QED  BY <1>0, <1>2, <2>1, StallRequestWakes, DirKept, Zenon
<1>3. CASE Hit(k, t)
  <2>1. reqs' = reqs
    BY <1>3, Zenon DEF Hit
  <2> QED  BY <1>0, <1>3, <2>1, HitWakes, DirKept, Zenon
<1>4. CASE IssueRequest(k, t)
  <2>1. dir' = dir
    BY <1>4, Zenon DEF IssueRequest
  <2>2. PICK q : reqs' = [reqs EXCEPT ![CacheOf(k)] = [type |-> q, at |-> "sent"]]
    BY <1>4, IssueRequestWakes, Zenon
  <2> QED  BY <1>0, <1>4, <2>1, <2>2, IssueRequestWakes, DirKept, Zenon
<1> QED  BY <1>1, <1>2, <1>3, <1>4, Zenon DEF Mandatory

\* The answer reaches a GPU core.
LEMMA L1AnswerWakes ==
  ASSUME CInv, DInv, NEW k \in Clients, L1Answer(k)
  PROVE  CInv' /\ DInv'
<1>1. CacheOf(k) \in Caches
  BY CacheOfClient, Zenon
<1>2. /\ op' = [j \in Clients |-> op'[j]] /\ cache' = cache
      /\ \A j \in Clients : op'[j] = IF j = k THEN Idle ELSE op[j]
  BY Zenon DEF L1Answer, CInv
<1>3. \A j \in Clients : IsRequest(op'[j]) /\ (op'[j].at = "stalled" => op[j].at = "stalled")
  BY <1>2 DEF CInv, IsRequest, Idle
<1>4. CInv'
  BY <1>1, <1>2, <1>3, CacheKept, Zenon DEF CInv
<1> QED  BY <1>4, Zenon DEF DInv, L1Answer, IsRequest

-----------------------------------------------------------------------------
(***************************************************************************)
(* The steps of a cache                                                    *)
(***************************************************************************)

\* The end of a move wakes the request that asked for it.
LEMMA CompleteL2toL1Wakes ==
  ASSUME CInv, DInv, NEW c \in Caches, CompleteL2toL1(c)
  PROVE  CInv' /\ DInv'
<1> DEFINE r == [does |-> {"wake"}]
<1>1. cache[c].loc # "L2" /\ IsEntry(cache[c])
  BY Zenon DEF CInv, CompleteL2toL1, Transfer, Base
<1>2. /\ cache' = [d \in Caches |-> cache'[d]]
      /\ cache'[c] = [cache[c] EXCEPT !.st = Ready[cache[c].st]]
      /\ \A d \in Caches : d # c => cache'[d] = cache[d]
  BY Zenon DEF CompleteL2toL1, CInv
<1>3. IsEntry(cache'[c]) /\ cache'[c].loc = cache[c].loc
  BY <1>1, <1>2, Zenon DEF IsEntry
<1>4. /\ op' = [j \in Clients |-> op'[j]]
      /\ \A j \in Clients : IsRequest(op'[j])
      /\ \A j \in Clients : op'[j].at = "stalled" => op[j].at = "stalled" /\ CacheOf(j) # c
  <2>1. op' = Woken(op, c, r) /\ \A j \in Clients : IsRequest(op[j])
    BY Zenon DEF CompleteL2toL1, CInv
  <2>2. "wake" \in r.does
    BY Zenon
  <2> HIDE DEF r
  <2> QED  BY <2>1, <2>2, OpWoken, Zenon
<1>5. CInv'
  BY <1>1, <1>2, <1>3, <1>4, CacheKept, Zenon DEF CInv
<1> QED  BY <1>5, Zenon DEF DInv, CompleteL2toL1, IsRequest

\* Nobody waits for a block that is a victim.
LEMMA VictimWakes ==
  ASSUME CInv, DInv, NEW c \in Caches, Victim(c)
  PROVE  CInv' /\ DInv'
<1>1. PICK r \in VictimRows(c, VictimEvent(c)) :
        /\ "stall" \notin r.does
        /\ cache' = [cache EXCEPT ![c] =
                       Entry([@ EXCEPT !.st = r.to,
                                       !.loc = IF "move" \in r.does THEN "L2" ELSE "none"])]
        /\ reqs' = IF "PUT" \in r.does
                     THEN [reqs EXCEPT ![c] = [type |-> "PUT", at |-> "sent"]] ELSE reqs
        /\ op' = Woken(op, c, r)
  BY Zenon DEF Victim
<1> DEFINE l == IF "move" \in r.does THEN "L2" ELSE "none"
           e == AfterVictim(cache[c], r.to, l)
<1>2. /\ cache[c].st \in Base
      /\ l = "L2" => c # GPU /\ r.to \in Base
  BY <1>1, VictimRow, Zenon
<1>3. IsEntry(cache[c])
  BY Zenon DEF CInv
<1> HIDE DEF l
<1>4. IsEntry(e) /\ e.st = r.to /\ e.loc = l
  BY <1>3, EntryVictim
<1>5. /\ cache' = [d \in Caches |-> cache'[d]]
      /\ cache'[c] = Entry(e) /\ \A d \in Caches : d # c => cache'[d] = cache[d]
  BY <1>1, Zenon DEF CInv, l, AfterVictim
<1> HIDE DEF e
<1>6. IsEntry(cache'[c]) /\ cache'[c].st = r.to /\ cache'[c].loc = l
  BY <1>4, <1>5, EntryKept, Zenon
<1>7. /\ op' = [j \in Clients |-> op'[j]]
      /\ \A j \in Clients : IsRequest(op'[j])
      /\ \A j \in Clients : op'[j].at = "stalled" => op[j].at = "stalled"
  <2>1. \A j \in Clients : IsRequest(op[j])
    BY Zenon DEF CInv
  <2> QED  BY <2>1, <1>1, OpWoken, Zenon
<1>8. \A j \in Clients : op'[j].at = "stalled" => CacheOf(j) # c
  BY <1>2, <1>7, Zenon DEF CInv, Resting
<1>9. CInv'
  BY <1>2, <1>5, <1>6, <1>7, <1>8, CacheKept, Zenon DEF CInv
<1>10. dma' = dma /\ dir' = dir /\ dir = [st |-> dir.st, tbe |-> dir.tbe]
  BY Zenon DEF Victim, DInv
<1> QED  BY <1>1, <1>9, <1>10, DirKept, Zenon

\* The answer to a PUT, which ends the write-back, wakes those who wait.
LEMMA ForwardedWakes ==
  ASSUME CInv, DInv, NEW m, m.to \in Caches, Forwarded(m)
  PROVE  CInv' /\ DInv'
<1> DEFINE c == m.to
           q == cache[c]
           more(r) == IF "more" \in r.does THEN 1 ELSE 0
           o == IF q.st = "MI_F" THEN Served(op, {c}) ELSE op
<1>1. PICK ev \in ForwardEvents(m) : \E r \in ForwardRows(c, ev) :
        /\ cache' = [cache EXCEPT ![c] =
                       Entry(AfterForward(q, r.to, more(r)))]
        /\ op' = Woken(o, c, r)
  BY Zenon DEF Forwarded, AfterForward
<1>2. PICK r \in ForwardRows(c, ev) :
        /\ cache' = [cache EXCEPT ![c] =
                       Entry(AfterForward(q, r.to, more(r)))]
        /\ op' = Woken(o, c, r)
  BY <1>1, Zenon
<1> DEFINE n == more(r)
           e == AfterForward(q, r.to, n)
<1>3. IsEntry(q)
  BY Zenon DEF CInv
<1> HIDE DEF more
<1>4. IsEntry(e) /\ e.st = r.to /\ e.loc = q.loc
  BY <1>3, EntryForward
<1>5. /\ cache' = [d \in Caches |-> cache'[d]]
      /\ cache'[c] = Entry(e) /\ \A d \in Caches : d # c => cache'[d] = cache[d]
  BY <1>2, Zenon DEF CInv
<1> HIDE DEF e, n
<1>6. IsEntry(cache'[c]) /\ cache'[c].st = r.to /\ cache'[c].loc = q.loc
  BY <1>4, <1>5, EntryKept, Zenon
<1>7. \A j \in Clients : IsRequest(o[j]) /\ (o[j].at = "stalled" => op[j].at = "stalled")
  <2>1. \A j \in Clients : IsRequest(op[j])
    BY Zenon DEF CInv
  <2>2. CASE q.st = "MI_F"
    BY <2>1, <2>2, ServedClients
  <2>3. CASE q.st # "MI_F"
    BY <2>1, <2>3, Zenon
  <2> QED  BY <2>2, <2>3, Zenon
<1>8. /\ op' = [j \in Clients |-> op'[j]]
      /\ \A j \in Clients : IsRequest(op'[j])
      /\ \A j \in Clients : op'[j].at = "stalled" =>
           op[j].at = "stalled" /\ ("wake" \in r.does => CacheOf(j) # c)
  <2> HIDE DEF o
  <2> QED  BY <1>2, <1>7, OpWoken, Zenon
<1>9. /\ r.st = q.st
      /\ r.to \in Resting /\ r.st \notin Resting => "wake" \in r.does
      /\ r.st \in Base => r.to \in Base
  BY ForwardRow, Zenon
<1> HIDE DEF o
<1>10. \A j \in Clients : op'[j].at = "stalled" =>
         IF CacheOf(j) = c THEN cache'[c].st \notin Resting ELSE op[j].at = "stalled"
  BY <1>6, <1>8, <1>9, Zenon DEF CInv
<1>11. CInv'
  BY <1>5, <1>6, <1>8, <1>9, <1>10, CacheKept DEF CInv
<1> QED  BY <1>11, Zenon DEF DInv, Forwarded, IsRequest

\* What a step has to do that takes an answer's row r at cache c.
LEMMA AnswerKept ==
  ASSUME CInv, DInv, NEW c \in Caches, NEW ev,
         NEW r \in ResponseRows(c, ev) \cup AllAcksRows(c, ev),
         NEW w, NEW t, NEW f, NEW g, NEW rs, NEW us, NEW K, NEW o,
         o = op \/ o = Served(op, K), op' = Woken(o, c, r),
         Copies(w, [cache EXCEPT ![c] = AfterAnswer(cache[c], r.to, t, f, g)],
                rs, us, dir, mem)
  PROVE  CInv' /\ dir'.st = dir.st /\ dir' = [st |-> dir'.st, tbe |-> dir'.tbe]
<1> DEFINE e == AfterAnswer(cache[c], r.to, t, f, g)
           cs == [cache EXCEPT ![c] = e]
<1>1. IsEntry(e) /\ e.st = r.to /\ e.loc = cache[c].loc
  <2>1. IsEntry(cache[c])
    BY Zenon DEF CInv
  <2> QED  BY <2>1, EntryAnswer
<1> HIDE DEF e
<1>2. cs[c] = e /\ \A d \in Caches : d # c => cs[d] = cache[d]
  BY Zenon DEF CInv
<1>3. \A d \in Caches : IsEntry(cs[d])
  BY <1>1, <1>2, Zenon DEF CInv
<1>4. Copies(w, cs, rs, us, dir, mem)
  BY Zenon DEF e
<1> HIDE DEF cs
<1>5. /\ cache' = [d \in Caches |-> cache'[d]]
      /\ \A d \in Caches :
           IsEntry(cache'[d]) /\ cache'[d].st = cs[d].st /\ cache'[d].loc = cs[d].loc
      /\ dir'.st = dir.st /\ dir' = [st |-> dir'.st, tbe |-> dir'.tbe]
  <2>1. dir = [st |-> dir.st, tbe |-> dir.tbe]
    BY Zenon DEF DInv
  <2> QED  BY <2>1, <1>3, <1>4, CopiesKept, Zenon
<1>6. \A j \in Clients : IsRequest(o[j]) /\ (o[j].at = "stalled" => op[j].at = "stalled")
  <2>1. \A j \in Clients : IsRequest(op[j])
    BY Zenon DEF CInv
  <2> QED  BY <2>1, ServedClients
<1>7. /\ op' = [j \in Clients |-> op'[j]]
      /\ \A j \in Clients : IsRequest(op'[j])
      /\ \A j \in Clients : op'[j].at = "stalled" =>
           op[j].at = "stalled" /\ ("wake" \in r.does => CacheOf(j) # c)
  BY <1>6, OpWoken, Zenon
<1>8. cache[c].st \notin Base /\ (r.to \in Resting => "wake" \in r.does)
  BY AnswerRow, Zenon
<1>9. \A j \in Clients : op'[j].at = "stalled" =>
        IF CacheOf(j) = c THEN cache'[c].st \notin Resting ELSE op[j].at = "stalled"
  BY <1>1, <1>2, <1>5, <1>7, <1>8, Zenon
<1>10. cache'[c].loc # "L2"
  BY <1>1, <1>2, <1>5, <1>8, Zenon DEF CInv
<1>11. \A d \in Caches : d # c =>
         IsEntry(cache'[d]) /\ cache'[d].st = cache[d].st /\ cache'[d].loc = cache[d].loc
  BY <1>2, <1>5, Zenon
<1>12. CInv'
  BY <1>5, <1>7, <1>9, <1>10, <1>11, CacheKept, Zenon
<1> QED  BY <1>5, <1>12, Zenon

\* An answer to the cache's own request.
LEMMA RespondedWakes ==
  ASSUME CInv, DInv, NEW m, m.to \in Caches, Responded(m)
  PROVE  CInv' /\ DInv'
<1> DEFINE c == m.to
           q == cache[c]
           w(r) == IF "store" \in r.does THEN c ELSE None
           counted(r) == [q.tbe EXCEPT !.pend = @ - m.acks,
                                       !.sharers = @ \/ "shared" \in r.does,
                                       !.owner = IF r.to = "SS" /\ m.type \in DataReplies
                                                   THEN m.from ELSE @]
           data == m.type \in DataReplies
           f(r) == IF data THEN m.fresh \/ w(r) = c ELSE q.fresh
           g(r) == IF data THEN m.dirty \/ w(r) = c \/ ("verify" \in r.does /\ q.dirty)
                   ELSE q.dirty
           o(r) == IF r.does \cap {"load", "store"} # {} THEN Served(op, Requestor(c)) ELSE op
<1>1. PICK r \in ResponseRows(c, m.type) :
        /\ op' = Woken(o(r), c, r)
        /\ Copies(w(r), [cache EXCEPT ![c] = [q EXCEPT !.st = r.to, !.tbe = Checked(counted(r)),
                                                       !.fresh = f(r), !.dirty = g(r)]],
                  resp \ {m}, unb, dir, mem)
        /\ UNCHANGED <<l1, reqs, fwd, dma>>
  BY Zenon DEF Responded
<1>2. Copies(w(r), [cache EXCEPT ![c] = AfterAnswer(q, r.to, Checked(counted(r)), f(r), g(r))],
             resp \ {m}, unb, dir, mem)
  BY <1>1, Zenon DEF AfterAnswer
<1>3. o(r) = op \/ o(r) = Served(op, Requestor(c))
  BY Zenon
<1> HIDE DEF w, counted, f, g, o
<1>4. CInv' /\ dir'.st = dir.st /\ dir' = [st |-> dir'.st, tbe |-> dir'.tbe]
  BY <1>1, <1>2, <1>3, AnswerKept, Zenon
<1>5. reqs' = reqs /\ dma' = dma
  BY <1>1, Zenon
<1> QED  BY <1>4, <1>5, DirKept, Zenon

\* The last answer.
LEMMA AllAcksWakes ==
  ASSUME CInv, DInv, NEW c \in Caches, AllAcks(c)
  PROVE  CInv' /\ DInv'
<1> DEFINE q == cache[c]
           w(r) == IF "store" \in r.does THEN c ELSE None
           f(r) == q.fresh \/ w(r) = c
           g(r) == q.dirty \/ w(r) = c
           o(r) == IF w(r) = c THEN Served(op, Requestor(c)) ELSE op
           us(r) == unb \cup {[from |-> c, type |-> t, owner |-> q.tbe.owner,
                               fresh |-> FALSE] :
                                 t \in r.does \cap {"UNBLOCKS", "UNBLOCKM"}}
<1>1. PICK r \in AllAcksRows(c, q.tbe.trig) :
        /\ op' = Woken(o(r), c, r)
        /\ reqs' = IF "PUTF" \in r.does
                     THEN [reqs EXCEPT ![c] = [type |-> "PUTF", at |-> "sent"]] ELSE reqs
        /\ Copies(w(r), [cache EXCEPT ![c] = [q EXCEPT !.st = r.to, !.tbe = NoTBE,
                                                       !.fresh = f(r), !.dirty = g(r)]],
                  resp, us(r), dir, mem)
  BY Zenon DEF AllAcks
<1>2. Copies(w(r), [cache EXCEPT ![c] = AfterAnswer(q, r.to, NoTBE, f(r), g(r))],
             resp, us(r), dir, mem)
  BY <1>1, Zenon DEF AfterAnswer
<1>3. o(r) = op \/ o(r) = Served(op, Requestor(c))
  BY Zenon
<1> HIDE DEF w, f, g, o, us
<1>4. CInv' /\ dir'.st = dir.st /\ dir' = [st |-> dir'.st, tbe |-> dir'.tbe]
  BY <1>1, <1>2, <1>3, AnswerKept, Zenon
<1>5. \/ reqs' = reqs
      \/ reqs' = [reqs EXCEPT ![c] = [type |-> "PUTF", at |-> "sent"]]
  BY <1>1, Zenon
<1>6. dma' = dma
  BY Zenon DEF AllAcks
<1> QED  BY <1>4, <1>5, <1>6, DirKept, Zenon

-----------------------------------------------------------------------------
(***************************************************************************)
(* The steps of the directory                                              *)
(***************************************************************************)

\* A request of a cache waits only for something that is in progress.
LEMMA DirRequestWakes ==
  ASSUME CInv, DInv, NEW c \in Caches, DirRequest(c)
  PROVE  CInv' /\ DInv'
<1>1. PICK r \in At(DirRequestsAt, dir.st, reqs[c].type) :
        /\ \E t : dir' = [st |-> r.to, tbe |-> t]
        /\ reqs' = [reqs EXCEPT ![c] = IF "stall" \in r.does
                                         THEN [@ EXCEPT !.at = "stalled"] ELSE Idle]
  BY Zenon DEF DirRequest
<1>2. /\ r.st = dir.st /\ (r.to \in Stable => r.st \in Stable)
      /\ "stall" \in r.does => r.to \notin Stable
  <2>1. r \in DirRequests /\ r.st = dir.st
    BY AtRow, Zenon DEF DirRequestsAt
  <2> QED  BY <2>1, DirRequestTables, Zenon
<1>3. dir' = [st |-> dir'.st, tbe |-> dir'.tbe] /\ dir'.st = r.to
  BY <1>1
<1>4. /\ reqs' = [d \in Caches |-> reqs'[d]]
      /\ reqs'[c] = IF "stall" \in r.does THEN [reqs[c] EXCEPT !.at = "stalled"] ELSE Idle
      /\ \A d \in Caches : d # c => reqs'[d] = reqs[d]
  BY <1>1, Zenon DEF DInv
<1>5. IsRequest(reqs'[c]) /\ (reqs'[c].at = "stalled" => "stall" \in r.does)
  BY <1>4 DEF DInv, IsRequest, Idle
<1>6. DInv'
  <2>1. dma' = dma
    BY Zenon DEF DirRequest
  <2> QED  BY <2>1, <1>2, <1>3, <1>4, <1>5, Zenon DEF DInv, IsRequest
<1> QED  BY <1>6, Zenon DEF CInv, DirRequest, IsEntry, IsRequest

\* So does the copy engine's.
LEMMA DmaRequestWakes ==
  ASSUME CInv, DInv, DmaRequest
  PROVE  CInv' /\ DInv'
<1>1. PICK t : \E r \in At(DirDmaRequestsAt, dir.st, t) :
        IF "stall" \in r.does
          THEN dma' = [type |-> t, at |-> "stalled"] /\ dir' = dir
          ELSE /\ dma' = [type |-> t, at |-> "taken"]
               /\ dir' = [st |-> r.to, tbe |-> [NoDirTBE EXCEPT !.pend = machineCount]]
  BY Zenon DEF DmaRequest
<1>2. PICK r \in At(DirDmaRequestsAt, dir.st, t) :
        IF "stall" \in r.does
          THEN dma' = [type |-> t, at |-> "stalled"] /\ dir' = dir
          ELSE /\ dma' = [type |-> t, at |-> "taken"]
               /\ dir' = [st |-> r.to, tbe |-> [NoDirTBE EXCEPT !.pend = machineCount]]
  BY <1>1, Zenon
<1>3. r \in DirDmaRequests /\ r.st = dir.st
  BY AtRow, Zenon DEF DirDmaRequestsAt
<1>4. r.to \notin Stable /\ ("stall" \in r.does => r.st \notin Stable)
  BY <1>3, DirRequestTables, Zenon
<1>5. /\ dir' = [st |-> dir'.st, tbe |-> dir'.tbe] /\ dir'.st \notin Stable
      /\ IsRequest(dma')
  <2>1. CASE "stall" \in r.does
    BY <1>2, <1>3, <1>4, <2>1 DEF DInv, IsRequest
  <2>2. CASE "stall" \notin r.does
    BY <1>2, <1>4, <2>2 DEF IsRequest
  <2> QED  BY <2>1, <2>2, Zenon
<1>6. UNCHANGED <<cache, op, reqs>>
  BY Zenon DEF DmaRequest
<1> QED  BY <1>5, <1>6, Zenon DEF CInv, DInv, IsEntry, IsRequest

\* The end of a transaction or of a write-back.
LEMMA DirUnblockWakes ==
  ASSUME CInv, DInv, NEW m, DirUnblock(m)
  PROVE  CInv' /\ DInv'
<1>1. PICK r \in At(DirUnblocksAt, dir.st, m.type) :
        /\ \E t : dir' = [st |-> r.to, tbe |-> t]
        /\ reqs' = WokenAll(reqs, r) /\ dma' = WokenDma(dma, r)
        /\ UNCHANGED <<cache, l1, op, resp>>
  BY Zenon DEF DirUnblock
<1>2. r.st = dir.st /\ (r.to \in Stable /\ r.st \notin Stable => "wake" \in r.does)
  <2>1. r \in DirUnblocks /\ r.st = dir.st
    BY AtRow, Zenon DEF DirUnblocksAt
  <2> QED  BY <2>1, DirTables, Zenon DEF DirWakes
<1>3. dir' = [st |-> dir'.st, tbe |-> dir'.tbe] /\ dir'.st = r.to
  BY <1>1
<1>4. DInv'
  BY <1>1, <1>2, <1>3, DirWoken, Zenon
<1> QED  BY <1>1, <1>4, Zenon DEF CInv, IsEntry, IsRequest

\* Memory's answer.
LEMMA DirMemoryAnswerWakes ==
  ASSUME CInv, DInv, DirMemoryAnswer
  PROVE  CInv' /\ DInv'
<1>1. PICK e : \E r \in At(DirMemoryAt, dir.st, e) :
        /\ \E t : dir' = [st |-> r.to, tbe |-> t]
        /\ reqs' = WokenAll(reqs, r) /\ (dma' = Idle \/ dma' = WokenDma(dma, r))
        /\ UNCHANGED <<cache, l1, op, fwd, unb, mem>>
  BY Zenon DEF DirMemoryAnswer
<1>2. PICK r \in At(DirMemoryAt, dir.st, e) :
        /\ \E t : dir' = [st |-> r.to, tbe |-> t]
        /\ reqs' = WokenAll(reqs, r) /\ (dma' = Idle \/ dma' = WokenDma(dma, r))
        /\ UNCHANGED <<cache, l1, op, fwd, unb, mem>>
  BY <1>1, Zenon
<1>3. r.st = dir.st /\ (r.to \in Stable /\ r.st \notin Stable => "wake" \in r.does)
  <2>1. r \in DirMemory /\ r.st = dir.st
    BY AtRow, Zenon DEF DirMemoryAt
  <2> QED  BY <2>1, DirTables, Zenon DEF DirWakes
<1>4. dir' = [st |-> dir'.st, tbe |-> dir'.tbe] /\ dir'.st = r.to
  BY <1>2
<1>5. DInv'
  BY <1>2, <1>3, <1>4, DirWoken, Zenon
<1> QED  BY <1>2, <1>5, Zenon DEF CInv, IsEntry, IsRequest

\* An answer to a DMA request changes no state.
LEMMA DirResponseWakes ==
  ASSUME CInv, DInv, NEW m, DirResponse(m)
  PROVE  CInv' /\ DInv'
<1>1. PICK r \in At(DirResponsesAt, dir.st, m.type) : \E t : dir' = [st |-> r.to, tbe |-> t]
  BY Zenon DEF DirResponse
<1>2. r.st = dir.st /\ r.to = r.st
  <2>1. r \in DirResponses /\ r.st = dir.st
    BY AtRow, Zenon DEF DirResponsesAt
  <2> QED  BY <2>1, DirTables, Zenon
<1>3. dir' = [st |-> dir'.st, tbe |-> dir'.tbe] /\ dir'.st = dir.st
  BY <1>1, <1>2
<1>4. UNCHANGED <<cache, op, reqs, dma>>
  BY Zenon DEF DirResponse
<1> QED  BY <1>3, <1>4, Zenon DEF CInv, DInv, IsEntry, IsRequest

\* The last answer to a DMA request, and the last unblock of merged requests.
LEMMA DirTriggerWakes ==
  ASSUME CInv, DInv, DirTrigger
  PROVE  CInv' /\ DInv'
<1>1. PICK r \in At(DirTriggersAt, dir.st, dir.tbe.trig) :
        /\ \E w, x : Copies(w, cache, resp, unb, [st |-> r.to, tbe |-> NoDirTBE], x)
        /\ reqs' = WokenAll(reqs, r) /\ (dma' = Idle \/ dma' = WokenDma(dma, r))
  BY Zenon DEF DirTrigger
<1>2. r.st = dir.st /\ (r.to \in Stable /\ r.st \notin Stable => "wake" \in r.does)
  <2>1. r \in DirTriggers /\ r.st = dir.st
    BY AtRow, Zenon DEF DirTriggersAt
  <2> QED  BY <2>1, DirTables, Zenon DEF DirWakes
<1>3. /\ cache' = [c \in Caches |-> cache'[c]]
      /\ \A c \in Caches :
           IsEntry(cache'[c]) /\ cache'[c].st = cache[c].st /\ cache'[c].loc = cache[c].loc
      /\ dir'.st = r.to /\ dir' = [st |-> dir'.st, tbe |-> dir'.tbe]
  <2> DEFINE d == [st |-> r.to, tbe |-> NoDirTBE]
  <2>1. d.st = r.to /\ d = [st |-> d.st, tbe |-> d.tbe]
    BY Zenon
  <2>2. \A c \in Caches : IsEntry(cache[c])
    BY Zenon DEF CInv
  <2>3. PICK w, x : Copies(w, cache, resp, unb, d, x)
    BY <1>1, Zenon
  <2> HIDE DEF d
  <2> QED  BY <2>1, <2>2, <2>3, CopiesKept
<1>4. DInv'
  BY <1>1, <1>2, <1>3, DirWoken, Zenon
<1>5. op' = op
  BY Zenon DEF DirTrigger
<1> QED  BY <1>3, <1>4, <1>5, CacheSame, Zenon

-----------------------------------------------------------------------------
(***************************************************************************)
(* The theorem                                                             *)
(***************************************************************************)

\* The invariant holds at the start, where nothing is cached.
LEMMA WakesInit == Init => CInv /\ DInv
<1> SUFFICES ASSUME Init PROVE CInv /\ DInv
  BY Zenon
<1>1. \A k \in Clients : CacheOf(k) \in Caches
  BY CacheOfClient, Zenon
<1> QED  BY <1>1, Zenon DEF Init, CInv, DInv, IsEntry, IsRequest, Idle, Invalid

\* Every step keeps it.
LEMMA WakesStep ==
  ASSUME CInv, DInv, [Next]_vars
  PROVE  CInv' /\ DInv'
<1>1. CASE ClientStart
  <2>1. PICK k \in Clients : CPURequest(k) \/ GPURequest(k)
    BY <1>1, Zenon DEF ClientStart
  <2>2. \E t : Mandatory(k, t)
    BY <2>1, Zenon DEF CPURequest, GPURequest
  <2> QED  BY <2>2, MandatoryWakes, Zenon
<1>2. CASE \E k \in GPUL1s : L1Drop(k)
  <2>1. UNCHANGED <<cache, op, reqs, dir, dma>>
    BY <1>2, Zenon DEF L1Drop
  <2> QED  BY <2>1, Zenon DEF CInv, DInv, IsEntry, IsRequest
<1>3. CASE \E c \in Caches : Victim(c)
  BY <1>3, VictimWakes, Zenon
<1>4. CASE \E k \in Clients : ClientStep(k)
  <2>1. PICK k \in Clients : ClientStep(k)
    BY <1>4, Zenon
  <2>2. CASE Retry(k)
    BY <2>2, MandatoryWakes, Zenon DEF Retry
  <2>3. CASE L1Answer(k)
    BY <2>3, L1AnswerWakes, Zenon
  <2> QED  BY <2>1, <2>2, <2>3, Zenon DEF ClientStep
<1>5. CASE \E c \in Caches : CacheStep(c)
  BY <1>5, CompleteL2toL1Wakes, AllAcksWakes, ForwardedWakes, RespondedWakes, Zenon
  DEF CacheStep
<1>6. CASE DirStep
  BY <1>6, DirUnblockWakes, DirResponseWakes, DirMemoryAnswerWakes, DirTriggerWakes, Zenon
  DEF DirStep
<1>7. CASE \E c \in Caches : DirRequest(c)
  BY <1>7, DirRequestWakes, Zenon
<1>8. CASE DmaRequest
  BY <1>8, DmaRequestWakes, Zenon
<1>9. CASE UNCHANGED vars
  BY <1>9, Zenon DEF vars, CInv, DInv, IsEntry, IsRequest
<1> QED  BY <1>1, <1>2, <1>3, <1>4, <1>5, <1>6, <1>7, <1>8, <1>9, Zenon DEF Next

\* No wake-up is lost: a request of a client, of a cache or of the copy engine
\* is in a stall queue only while something is in progress where it waits.
THEOREM HammerNoLostWakeup == Spec => []NoLostWakeup
<1>1. CInv /\ DInv => NoLostWakeup
  BY Zenon DEF CInv, DInv, NoLostWakeup, Stable, Resting
<1>2. Init => CInv /\ DInv
  BY WakesInit, Zenon
<1>3. CInv /\ DInv /\ [Next]_vars => CInv' /\ DInv'
  BY WakesStep, Zenon
<1> QED  BY <1>1, <1>2, <1>3, PTL DEF Spec
=============================================================================
