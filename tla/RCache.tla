------------------------------- MODULE RCache -------------------------------
(* The read cache of one partition (RCache, RCacheManager, RCacheEvict) and the read path of
   Cache that fills it.  Data is appended to a memory flow, moved to a disk flow by one
   eviction worker and dropped from there by another.  A flow can only be truncated from its
   front, so a worker evicts chunks strictly in the order of their offsets, whatever the
   order in which the threads that reserved the offsets insert their chunks.
   A chunk is as long as its object and is named by the memory offset it was created at; the
   flows take whole segments from their medium.                                              *)
EXTENDS Integers, Sequences, FiniteSets

CONSTANTS Thread,     \* threads serving Get, Load and Delete, and write-cache eviction
          Key, Length,           \* keys; the length of the object under each
          MaxOff, MaxOps,        \* bounds on memory offsets and on operations
          Segment, Ahead,        \* the unit of a flow; what the disk flow preloads
          MemCap, MemWater, DiskCap, DiskWater,   \* capacities and eviction levels
          MaxFaults              \* bound on failures, restarts and ExpiredClear

VARIABLES flow,    \* per tier: next offset, mDataTruncOffset, truncated offset, truncateQ
          chunk,   \* chunk -> [key, tier, off, len, dead, val]; created by Put and Load
          index,   \* key -> chunk, or NoChunk
          lock,    \* chunk -> the thread holding its lock, or Free
          under,   \* the underlying file system: key -> version, 0 when absent
          th,      \* per thread: what it is doing
          ev,      \* per tier: the worker's needEvictData and haveEvictData; need 0: idle
          life,    \* of the RCache object: "normal", "deleting" (SetDelete), "none"
          left,    \* operations and faults that may still happen
          hist     \* offsets lost by an abandoned insertion; whether a copy failed

vars == <<flow, chunk, index, lock, under, th, ev, life, left, hist>>

Tier == {"mem", "disk"}
Chunk == 0..(MaxOff - 1)
NoChunk == MaxOff
Free == "free"
Idle == [pc |-> "idle"]
NoChunkYet == [key |-> "none"]
EmptyFlow == [next |-> 0, trunc |-> 0, cut |-> 0, q |-> <<>>]

(* GetCacheResource: the segments a tier's flow holds, from the one truncated last to the one
   preloaded last.  FlowManager counts those of all partitions together; here there is one. *)
Segments(bytes) == (bytes + Segment - 1) \div Segment
Preloaded(t) ==
  CASE flow[t].next = 0 -> 0
    [] flow[t].next > 0 /\ t = "mem" -> Segments(flow[t].next)
    [] flow[t].next > 0 /\ t = "disk" -> Segments(flow[t].next + Ahead)
Used(t) == (Preloaded(t) - flow[t].cut \div Segment) * Segment

(* GetEvictDataByTier: what exceeds the tier's eviction level. *)
GetEvictDataByTier(t) ==
  LET over == Used(t) - (IF t = "mem" THEN MemWater ELSE DiskWater)
  IN IF over > 0 THEN over ELSE 0

(* RCache::Initialize: two flows without data, an empty index and empty queues. *)
Initialize == [flow |-> [t \in Tier |-> EmptyFlow], chunk |-> [n \in Chunk |-> NoChunkYet],
               index |-> [k \in Key |-> NoChunk]]

Init ==
  /\ flow = Initialize.flow /\ chunk = Initialize.chunk /\ index = Initialize.index
  /\ hist = [lost |-> {}, failed |-> FALSE]
  /\ lock = [c \in Chunk |-> Free]
  /\ under = [k \in Key |-> 1]
  /\ th = [p \in Thread |-> Idle]
  /\ ev = [t \in Tier |-> [need |-> 0, have |-> 0]]
  /\ life = "normal"
  /\ left = [ops |-> MaxOps, faults |-> MaxFaults]

-----------------------------------------------------------------------------
\* mutant: the new chunk is put at the head whatever its index
AddToTruncateListFront(q, cs, c) == Append(q, c)

(* AddToTruncateList: the queue is ordered by indexInFlow; End(), the next to be evicted, is
   the last element of the sequence. *)
AddToTruncateList(q, cs, c) ==
  LET after == SelectSeq(q, LAMBDA d : cs[d].off > cs[c].off)
      before == SelectSeq(q, LAMBDA d : cs[d].off < cs[c].off)
  IN after \o <<c>> \o before

Head0(t) == flow[t].q[Len(flow[t].q)]
WithoutHead(q) == SubSeq(q, 1, Len(q) - 1)

\* mutant: the head of the queue is evicted without comparing it with the truncation offset
EvictableAnyHead(t, need, have) == flow[t].q # <<>> /\ chunk[Head0(t)].len + have <= need

(* The tests of EvictMemDataImpl and EvictDiskDataImpl before a chunk is taken: the queue is
   not empty, its head is the chunk at the truncation offset ("RCache evict stuck"), and the
   round does not exceed with it what it was to evict. *)
Evictable(t, need, have) ==
  /\ flow[t].q # <<>>
  /\ chunk[Head0(t)].off = flow[t].trunc
  /\ chunk[Head0(t)].len + have <= need

CheckEnoughResource == Used("mem") < MemCap /\ Used("disk") < DiskCap

-----------------------------------------------------------------------------
(* A thread begins an operation.  Get finds the key in the index or goes on to GetExternal;
   Delete finds the chunk to mark or goes on to the underlying file system. *)
Get(p, k) ==
  /\ th[p] = Idle /\ left.ops > 0 /\ life = "normal"
  /\ left' = [left EXCEPT !.ops = @ - 1]
  /\ th' = [th EXCEPT ![p] = IF index[k] = NoChunk THEN [pc |-> "external", key |-> k]
                             ELSE [pc |-> "hit", key |-> k, c |-> index[k]]]
  /\ UNCHANGED <<flow, chunk, index, lock, under, ev, life, hist>>

(* GetSliceFromChunkIO: the place the data is read from, by the chunk's present tier. *)
GetSliceFromChunkIO(c) ==
  [pc |-> "read", c |-> c, tier |-> chunk[c].tier, off |-> chunk[c].off]

(* RCache::Get on a chunk: taken under the chunk's lock, which is kept until the data is written out.
   A deleted chunk is a miss. *)
LockChunk(p) ==
  /\ th[p].pc = "hit"
  /\ LET c == th[p].c
     IN  /\ lock[c] = Free
         /\ IF chunk[c].dead
            THEN /\ th' = [th EXCEPT ![p] = [pc |-> "external", key |-> th[p].key]]
                 /\ lock' = lock
            ELSE /\ th' = [th EXCEPT ![p] = GetSliceFromChunkIO(c)]
                 /\ lock' = [lock EXCEPT ![c] = p]
  /\ UNCHANGED <<flow, chunk, index, under, ev, life, left, hist>>

ReadDone(p) ==
  /\ th[p].pc = "read"
  /\ lock' = [lock EXCEPT ![th[p].c] = Free]
  /\ th' = [th EXCEPT ![p] = Idle]
  /\ UNCHANGED <<flow, chunk, index, under, ev, life, left, hist>>

(* RCacheFlow::AllocOffset: the flow grows by the length of the chunk. *)
AllocOffset(t, len) == [flow EXCEPT ![t].next = @ + len]

(* AllocResources: the memory space a thread reserves; the bound on offsets is a guard. *)
AllocResources(k) ==
  /\ flow["mem"].next + Length[k] <= MaxOff
  /\ flow' = AllocOffset("mem", Length[k])

(* GetExternal: the key is looked up in the underlying file system; when the read cache has
   room an offset is reserved in it.  Without room, when the flow gets no segment, or when
   the key does not exist, the read cache is not filled. *)
GetExternal(p) ==
  /\ th[p].pc = "external"
  /\ \/ /\ under[th[p].key] # 0 /\ CheckEnoughResource
        /\ th' = [th EXCEPT ![p] = [pc |-> "fetch", key |-> th[p].key,
                                    off |-> flow["mem"].next]]
        /\ AllocResources(th[p].key)
     \/ th' = [th EXCEPT ![p] = Idle] /\ flow' = flow
  /\ UNCHANGED <<chunk, index, lock, under, ev, life, left, hist>>

(* GetFromUnderFS into the reserved space.  When the key has gone meanwhile the operation
   returns and nothing gives the offset back. *)
GetFromUnderFS(p) ==
  /\ th[p].pc = "fetch"
  /\ IF under[th[p].key] # 0
     THEN /\ th' = [th EXCEPT ![p] = [pc |-> "put", key |-> th[p].key, off |-> th[p].off,
                                      val |-> under[th[p].key]]]
          /\ hist' = hist
     ELSE /\ th' = [th EXCEPT ![p] = Idle]
          /\ hist' = [hist EXCEPT !.lost = @ \cup {th[p].off}]
  /\ UNCHANGED <<flow, chunk, index, lock, under, ev, life, left>>

(* Load: the data is read from the underlying file system first, the offset reserved after. *)
Load(p, k) ==
  /\ th[p] = Idle /\ left.ops > 0 /\ life = "normal"
  /\ Used("mem") < MemCap /\ under[k] # 0
  /\ left' = [left EXCEPT !.ops = @ - 1]
  /\ th' = [th EXCEPT ![p] = [pc |-> "load", key |-> k, val |-> under[k]]]
  /\ UNCHANGED <<flow, chunk, index, lock, under, ev, life, hist>>

LoadAlloc(p) ==
  /\ th[p].pc = "load"
  /\ \/ /\ th' = [th EXCEPT ![p] = [pc |-> "put", key |-> th[p].key, val |-> th[p].val,
                                    off |-> flow["mem"].next]]
        /\ AllocResources(th[p].key)
     \/ th' = [th EXCEPT ![p] = Idle] /\ flow' = flow
  /\ UNCHANGED <<chunk, index, lock, under, ev, life, left, hist>>

(* EvictToRcache: a slice the write cache has written back is kept in the read cache. *)
EvictToRcache(p, k) ==
  /\ th[p] = Idle /\ left.ops > 0 /\ life = "normal"
  /\ CheckEnoughResource /\ under[k] # 0
  /\ left' = [left EXCEPT !.ops = @ - 1]
  /\ th' = [th EXCEPT ![p] = [pc |-> "put", key |-> k, val |-> under[k],
                              off |-> flow["mem"].next]]
  /\ AllocResources(k)
  /\ UNCHANGED <<chunk, index, lock, under, ev, life, hist>>

(* AllocChunk: the chunk a thread makes for the offset it reserved. *)
AllocChunk(p) ==
  [key |-> th[p].key, tier |-> "mem", off |-> th[p].off, len |-> Length[th[p].key],
   dead |-> FALSE, val |-> th[p].val]

(* InsertToIndex: an existing entry is replaced. *)
InsertToIndex(k, c) == [index EXCEPT ![k] = c]

(* RCache::Put, and the end of Load: the chunk is made, replaces what the index holds for the
   key and enters the truncation queue, all under the new chunk's lock. *)
Put(p) ==
  /\ th[p].pc = "put"
  /\ LET c == th[p].off
         cs == [chunk EXCEPT ![c] = AllocChunk(p)]
     IN  /\ chunk' = cs
         /\ flow' = [flow EXCEPT !["mem"].q = AddToTruncateList(@, cs, c)]
         /\ index' = InsertToIndex(th[p].key, c)
  /\ th' = [th EXCEPT ![p] = Idle]
  /\ UNCHANGED <<lock, under, ev, life, left, hist>>

(* The chunk cannot be made, or the data not be copied to the reserved space or to the
   reader: the operation returns and nothing gives the offset back. *)
PutFails(p) ==
  /\ th[p].pc = "put" /\ left.faults > 0
  /\ left' = [left EXCEPT !.faults = @ - 1]
  /\ hist' = [hist EXCEPT !.lost = @ \cup {th[p].off}]
  /\ th' = [th EXCEPT ![p] = Idle]
  /\ UNCHANGED <<flow, chunk, index, lock, under, ev, life>>

(* Cache::Delete on its way through the read cache and the underlying file system. *)
Delete(p, k) ==
  /\ th[p] = Idle /\ left.ops > 0 /\ under[k] # 0 /\ life = "normal"
  /\ left' = [left EXCEPT !.ops = @ - 1]
  /\ th' = [th EXCEPT ![p] = IF index[k] = NoChunk THEN [pc |-> "remove", key |-> k]
                             ELSE [pc |-> "mark", key |-> k, c |-> index[k]]]
  /\ UNCHANGED <<flow, chunk, index, lock, under, ev, life, hist>>

(* The chunk is only marked: its index entry and its space stay until it is evicted. *)
MarkDeleted(p) ==
  /\ th[p].pc = "mark" /\ lock[th[p].c] = Free
  /\ chunk' = [chunk EXCEPT ![th[p].c].dead = TRUE]
  /\ th' = [th EXCEPT ![p] = [pc |-> "remove", key |-> th[p].key]]
  /\ UNCHANGED <<flow, index, lock, under, ev, life, left, hist>>

RemoveUnder(p) ==
  /\ th[p].pc = "remove"
  /\ under' = [under EXCEPT ![th[p].key] = 0]
  /\ th' = [th EXCEPT ![p] = Idle]
  /\ UNCHANGED <<flow, chunk, index, lock, ev, life, left, hist>>

-----------------------------------------------------------------------------
(* EvictOneRCacheHandle of the worker of a tier: what exceeds the eviction level.  A round
   that would take no chunk changes nothing and is left out. *)
EvictStart(t) ==
  /\ ev[t].need = 0 /\ life = "normal" /\ GetEvictDataByTier(t) > 0
  /\ Evictable(t, GetEvictDataByTier(t), 0)
  /\ ev' = [ev EXCEPT ![t] = [need |-> GetEvictDataByTier(t), have |-> 0]]
  /\ UNCHANGED <<flow, chunk, index, lock, under, th, life, left, hist>>

Evicting(t) ==
  /\ life = "normal" /\ ev[t].have < ev[t].need
  /\ Evictable(t, ev[t].need, ev[t].have)

(* One turn of the loop of EvictMemDataImpl: under the chunk's lock an offset of the disk flow
   is reserved, the data copied, the chunk moved to the disk tier and the memory flow's
   truncation offset set from the chunk's new (disk) offset. *)
EvictMemDataImpl ==
  /\ Evicting("mem")
  /\ LET c == Head0("mem")
         off == flow["disk"].next
         end == off + chunk[c].len
         cs == [chunk EXCEPT ![c].tier = "disk", ![c].off = off]
     IN  /\ lock[c] = Free
         /\ chunk' = cs
         /\ flow' = [flow EXCEPT !["mem"].q = WithoutHead(@),
                                 !["mem"].trunc = end,
                                 !["disk"].next = end,
                                 !["disk"].q = AddToTruncateList(@, cs, c)]
  /\ ev' = [ev EXCEPT !["mem"].have = @ + chunk[Head0("mem")].len]
  /\ UNCHANGED <<index, lock, under, th, life, left, hist>>

(* The worker returns at once, without truncating the memory flow: no space on disk, or the
   copy to disk fails, and the disk offset is not given back. *)
EvictMemFails ==
  /\ Evicting("mem") /\ left.faults > 0 /\ lock[Head0("mem")] = Free
  /\ ev' = [ev EXCEPT !["mem"] = [need |-> 0, have |-> 0]]
  /\ left' = [left EXCEPT !.faults = @ - 1]
  /\ \/ flow' = flow /\ hist' = hist
     \/ /\ flow' = AllocOffset("disk", chunk[Head0("mem")].len)
        /\ hist' = [hist EXCEPT !.failed = TRUE]
  /\ UNCHANGED <<chunk, index, lock, under, th, life>>

(* DeleteFromIndex: only when the index still holds this very chunk. *)
DeleteFromIndex(c) ==
  IF index[chunk[c].key] = c THEN [index EXCEPT ![chunk[c].key] = NoChunk] ELSE index

(* One turn of the loop of EvictDiskDataImpl: the chunk is dropped. *)
EvictDiskDataImpl ==
  /\ Evicting("disk")
  /\ LET c == Head0("disk")
     IN  /\ lock[c] = Free
         /\ chunk' = [chunk EXCEPT ![c].dead = TRUE]
         /\ index' = DeleteFromIndex(c)
         /\ flow' = [flow EXCEPT !["disk"].q = WithoutHead(@),
                                 !["disk"].trunc = chunk[c].off + chunk[c].len]
  /\ ev' = [ev EXCEPT !["disk"].have = @ + chunk[Head0("disk")].len]
  /\ UNCHANGED <<lock, under, th, life, left, hist>>

(* TruncateOffset of the data flow to the truncation offset. *)
Truncated(t) == [flow EXCEPT ![t].cut = flow[t].trunc]

(* The loop ends, by what it evicted or for want of an evictable chunk, and the flow is
   truncated; a worker that finds the object being deleted in its next turn just returns. *)
EvictEnd(t) ==
  /\ ev[t].need > 0 /\ ~Evicting(t)
  /\ flow' = IF ev[t].have > 0 /\ (life = "normal" \/ ev[t].have = ev[t].need)
             THEN Truncated(t) ELSE flow
  /\ ev' = [ev EXCEPT ![t] = [need |-> 0, have |-> 0]]
  /\ UNCHANGED <<chunk, index, lock, under, th, life, left, hist>>

-----------------------------------------------------------------------------
(* ExpiredClear for a newer version of the partition: SetDelete, the object leaves the
   workers' lists. *)
ExpiredClear ==
  /\ life = "normal" /\ left.faults > 0
  /\ life' = "deleting"
  /\ left' = [left EXCEPT !.faults = @ - 1]
  /\ UNCHANGED <<flow, chunk, index, lock, under, th, ev, hist>>

(* RCache::Destroy: the index is emptied, the flows destroyed, the queues drained. *)
Destroy ==
  /\ flow' = Initialize.flow /\ chunk' = Initialize.chunk /\ index' = Initialize.index
  /\ hist' = [lost |-> {}, failed |-> FALSE]
  /\ lock' = [c \in Chunk |-> Free]
  /\ ev' = [t \in Tier |-> [need |-> 0, have |-> 0]]

(* DeleteRCache.  ExpiredClear waits for the workers (IsEmptyEvict), for a second at most, and
   for no reader.  What is still under way is left without flows and followed no further: it
   returns an error, touches segments given back, or ends the process (Restart).  A Delete
   goes on to the underlying file system. *)
DeleteRCache ==
  /\ life = "deleting"
  /\ life' = "none"
  /\ Destroy
  /\ th' = [p \in Thread |-> IF th[p].pc \in {"mark", "remove"}
                             THEN [pc |-> "remove", key |-> th[p].key] ELSE Idle]
  /\ UNCHANGED <<under, left>>

(* A restart: RecoverCache seals and destroys the flows it finds, nothing of the read cache
   is kept. *)
Restart ==
  /\ left.faults > 0
  /\ left' = [left EXCEPT !.faults = @ - 1]
  /\ Destroy
  /\ th' = [p \in Thread |-> Idle]
  /\ life' = "none"
  /\ UNCHANGED under

(* RCacheManager::CreateRCache *)
CreateRCache ==
  /\ life = "none" /\ life' = "normal"
  /\ UNCHANGED <<flow, chunk, index, lock, under, th, ev, left, hist>>

-----------------------------------------------------------------------------
ThreadStep(p) ==
  \/ LockChunk(p) \/ ReadDone(p) \/ GetExternal(p) \/ GetFromUnderFS(p)
  \/ LoadAlloc(p) \/ Put(p) \/ PutFails(p) \/ MarkDeleted(p) \/ RemoveUnder(p)

Worker ==
  \/ \E t \in Tier : EvictStart(t) \/ EvictEnd(t)
  \/ EvictMemDataImpl \/ EvictDiskDataImpl

Next ==
  \/ \E p \in Thread, k \in Key : Get(p, k) \/ Load(p, k) \/ EvictToRcache(p, k) \/ Delete(p, k)
  \/ \E p \in Thread : ThreadStep(p)
  \/ Worker \/ EvictMemFails
  \/ ExpiredClear \/ DeleteRCache \/ CreateRCache \/ Restart

Spec == Init /\ [][Next]_vars

-----------------------------------------------------------------------------
TypeOK ==
  /\ flow \in [Tier -> [next : 0..(2 * MaxOff), trunc : 0..(2 * MaxOff),
                        cut : 0..(2 * MaxOff), q : Seq(Chunk)]]
  /\ index \in [Key -> 0..MaxOff]
  /\ lock \in [Chunk -> Thread \cup {Free}]
  /\ life \in {"normal", "deleting", "none"}

(* What the index serves is still there: a chunk that is not deleted, and whatever a reader
   is copying out, lies inside the part of its tier's flow that has not been truncated, and
   no two live chunks share a place; as long as every copy to disk succeeded.  Rests on
   the order of eviction, on the chunk locks, and on the memory truncation offset being set
   from the disk offset (rcache.cpp:757).  A reader whose object ExpiredClear destroyed is
   not followed. *)
ServedInWindow ==
  ~hist.failed =>
    /\ \A k \in Key : index[k] # NoChunk /\ ~chunk[index[k]].dead =>
         LET c == chunk[index[k]]
         IN  /\ flow[c.tier].cut <= c.off /\ c.off + c.len <= flow[c.tier].next
             /\ c.key = k
             /\ \A j \in Key \ {k} : index[j] # NoChunk =>
                  \/ chunk[index[j]].dead
                  \/ chunk[index[j]].tier # c.tier
                  \/ c.off + c.len <= chunk[index[j]].off
                  \/ chunk[index[j]].off + chunk[index[j]].len <= c.off
    /\ \A p \in Thread : th[p].pc = "read" =>
         th[p].off \in flow[th[p].tier].cut .. (flow[th[p].tier].next - 1)

(* What a worker has left over the eviction level is less than the next chunk, which the round
   may not take, or there is nothing to evict; unless a read that failed after reserving an
   offset lost it, or a copy to disk failed, which stops the workers for good. *)
Relieved ==
  hist.failed \/ hist.lost # {} \/ \A t \in Tier :
    flow[t].q = <<>> \/ GetEvictDataByTier(t) < chunk[Head0(t)].len
=============================================================================
