------------------------------- MODULE WCache -------------------------------
(* One write-cache flow on the master of its partition (cache/write/wcache,   *)
(* wcache_tier, wcache_index, flow/slice.h).  A slice put by a client waits   *)
(* for the eviction negotiation, then is copied from the memory tier to the   *)
(* disk tier and from there to the under file system, each time swapping the  *)
(* slice its reference points to once no reader holds it.  Clients read and   *)
(* delete, write-through puts evict in the foreground, a view change flushes, *)
(* and the process may crash and rebuild the flow from the disk tier.         *)
EXTENDS Integers, Sequences, FiniteSets, SequencesExt

CONSTANTS N,        \* slices of the flow
          Keys, KeyOf, \* the keys put, and the key of each slice
          Clients,
          MemPool, DiskPool, \* threads of the two eviction executors
          Through,  \* strategies used: subset of {"mem", "disk", "underfs"}
          Readable, Deletable, \* the keys clients read and delete
          Events,   \* what may happen besides puts, reads and background eviction
          MaxViews, Crashes \* bounds on changes of the disk's status and on restarts

ASSUME WCacheAssumption ==
    /\ N \in Nat \ {0} /\ KeyOf \in [0 .. N - 1 -> Keys]
    /\ MaxViews \in Nat /\ Crashes \in Nat
    /\ MemPool \cap DiskPool = {} /\ Clients \cap (MemPool \cup DiskPool) = {}
    /\ Through \subseteq {"mem", "disk", "underfs"}
    /\ Readable \subseteq Keys /\ Deletable \subseteq Keys
    /\ Events \subseteq {"copy", "underfs", "execute", "flush", "role"}

VARIABLES ref,      \* WCacheSliceRef: loc (mSlice), pend (mNewSlice), holders (mRef), lock, valid
          meta,     \* WFlowSliceMeta per tier: "none", "live" or "evicted" (hasEvict)
          evicted,  \* per tier, the slices given to the truncate cursor
          base,     \* the slices below the truncate offset found at a restart
          nego,     \* mEvictNegotiateMap
          queue,    \* mEvictSliceQueue of each tier
          index,    \* WCacheIndex
          underfs,  \* external: the slice whose value the key has in the under file system
          evictRef, \* mEvictRef of each tier
          tasks,    \* tasks waiting in each executor: evict and flush; lost: one ended with mEvictRef set
          retry,    \* mRetryManager entries of each tier
          frame,    \* the call each client and each executor thread is in
          forced, normal, phase, \* mIsForced, the disk's status, mIsNormal and what became of the flow
          gc, negotiating, \* where ScanOldCache is; mIsMasterStartEvictNegotiate
          acked, deleting, deleted, \* puts that returned; keys deletes began and finished on
          views, crashes
pipeline == <<nego, queue, evictRef, tasks, retry>>
store == <<meta, evicted, base, underfs>>
history == <<acked, deleting, deleted>>
mode == <<forced, normal, phase, gc, negotiating, views, crashes>>
vars == <<ref, meta, evicted, base, nego, queue, index, underfs, evictRef, tasks, retry, frame,
          forced, normal, phase, gc, negotiating, acked, deleting, deleted, views, crashes>>

Slices == 0 .. N - 1
Tiers == {"mem", "disk"}
Workers == MemPool \cup DiskPool
Actors == Clients \cup Workers
Pool(w) == IF w \in MemPool THEN "mem" ELSE "disk"
None == N
NoTasks == [evict |-> 0, flush |-> 0, lost |-> FALSE]
Idle == [pc |-> "idle", run |-> "none", tier |-> "mem", slice |-> 0, own |-> 0, through |-> "mem"]

Init ==
    /\ ref = [i \in Slices |-> [loc |-> "unborn", pend |-> "none", holders |-> {}, lock |-> FALSE, valid |-> TRUE]]
    /\ meta = [t \in Tiers |-> [i \in Slices |-> "none"]]
    /\ evicted = [t \in Tiers |-> {}] /\ base = {}
    /\ nego = {} /\ queue = [t \in Tiers |-> <<>>]
    /\ index = [k \in Keys |-> None] /\ underfs = [k \in Keys |-> None]
    /\ evictRef = [t \in Tiers |-> FALSE]
    /\ tasks = [t \in Tiers |-> NoTasks]
    /\ retry = [t \in Tiers |-> 0]
    /\ frame = [a \in Actors |-> Idle]
    /\ forced = FALSE /\ normal = TRUE /\ phase = "open" /\ gc = "idle" /\ negotiating = FALSE
    /\ acked = {} /\ deleting = {} /\ deleted = {} /\ views = 0 /\ crashes = 0

\* mutant: a gap does not stop the cursor
TruncatedPastGap(t) == {i \in Slices : \E j \in evicted[t] : i <= j}

\* GetTruncateSlice: only the evicted slices that follow one another from the
\* first are truncated; the cursor of a restarted flow is at 0 again.
Truncated(t) == (IF t = "disk" THEN base ELSE {}) \cup {i \in Slices : \A j \in 0 .. i : j \in evicted[t]}

At(a, pc) == frame[a].pc = pc
Goto(a, pc) == frame' = [frame EXCEPT ![a] = IF pc = "idle" THEN Idle ELSE [@ EXCEPT !.pc = pc]]
Done(a) == frame' = [frame EXCEPT ![a] = Idle]

\* StartEvictTask: at most one task per tier, unless the disk left the view.
StartEvictTask(t) ==
    \/ ~normal /\ evictRef' = [evictRef EXCEPT ![t] = FALSE] /\ UNCHANGED tasks
    \/ normal /\ evictRef[t] /\ UNCHANGED <<evictRef, tasks>>
    \/ /\ normal /\ ~evictRef[t]
       /\ evictRef' = [evictRef EXCEPT ![t] = TRUE]
       /\ tasks' = [tasks EXCEPT ![t].evict = @ + 1]
    \/ normal /\ ~evictRef[t] /\ "execute" \in Events /\ UNCHANGED <<evictRef, tasks>>

-----------------------------------------------------------------------------
(* WCacheManager::Put.                                                       *)

\* GetWCache finds the flow while it is open.
Put(c, i, through) ==
    /\ At(c, "idle") /\ phase = "open" /\ crashes = 0
    /\ ref[i].loc = "unborn" /\ \A d \in Clients : frame[d].run = "front" => frame[d].own # i
    /\ frame' = [frame EXCEPT ![c] = [Idle EXCEPT !.pc = "write", !.run = "front", !.own = i, !.through = through]]
    /\ UNCHANGED <<ref, store, pipeline, index, mode, history>>

\* The slice is written to the memory tier and awaits negotiation; from here
\* on the put counts in mOnFlyRef.
PutWrite(c) ==
    LET i == frame[c].own IN
    /\ At(c, "write")
    /\ meta' = [meta EXCEPT !["mem"][i] = "live"]
    /\ ref' = [ref EXCEPT ![i].loc = "mem"]
    /\ nego' = nego \cup {i}
    /\ Goto(c, "strategy")
    /\ UNCHANGED <<evicted, base, underfs, queue, index, evictRef, tasks, retry, mode, history>>

PutBack(c) ==
    /\ At(c, "strategy") /\ frame[c].through = "mem"
    /\ StartEvictTask("mem")
    /\ Goto(c, "insert")
    /\ UNCHANGED <<ref, store, nego, queue, index, retry, mode, history>>

\* Write through: whatever slice is next in the tier's queue is evicted here.
AfterFront(f, t) == IF t = "mem" /\ f.through = "underfs" THEN "front" ELSE "insert"
PutThrough(c) ==
    \E t \in Tiers :
      /\ frame[c].through # "mem" /\ At(c, IF t = "mem" THEN "strategy" ELSE "front")
      /\ \/ queue[t] = <<>> /\ Goto(c, AfterFront(frame[c], t)) /\ UNCHANGED queue
         \/ /\ queue[t] # <<>>
            /\ queue' = [queue EXCEPT ![t] = Tail(@)]
            /\ frame' = [frame EXCEPT ![c].pc = IF t = "mem" THEN "copy" ELSE "check",
                                      ![c].tier = t, ![c].slice = Head(queue[t])]
      /\ UNCHANGED <<ref, store, nego, index, evictRef, tasks, retry, mode, history>>

\* WCacheIndex::Insert does not replace an entry.
PutInsert(c) ==
    /\ At(c, "insert")
    /\ LET k == KeyOf[frame[c].own]
       IN  index' = [index EXCEPT ![k] = IF @ = None THEN frame[c].own ELSE @]
    /\ acked' = acked \cup {frame[c].own}
    /\ Done(c)
    /\ UNCHANGED <<ref, store, pipeline, mode, deleting, deleted>>

\* MasterEvictNegotiate: the replica asks to evict slices it has too.
NegotiateBegin ==
    /\ phase = "open" /\ crashes = 0 /\ ~negotiating /\ nego # {}
    /\ negotiating' = TRUE
    /\ UNCHANGED <<ref, store, pipeline, index, frame, forced, normal, phase, gc, views, crashes, history>>

\* UpdateNegotiateState
Negotiated(i) ==
    /\ negotiating /\ i \in nego
    /\ nego' = nego \ {i}
    /\ queue' = [queue EXCEPT !["mem"] = Append(@, i)]
    /\ UNCHANGED <<ref, store, index, evictRef, tasks, retry, frame, mode, history>>

NegotiateEnd ==
    /\ negotiating
    /\ negotiating' = FALSE
    /\ StartEvictTask("mem")
    /\ UNCHANGED <<ref, store, nego, queue, index, retry, frame, forced, normal, phase, gc, views, crashes, history>>

-----------------------------------------------------------------------------
(* The executor tasks: EvictAllMemSliceToDisk, EvictAllDiskSliceToUnderFs,    *)
(* FlushMem and FlushDisk.                                                   *)

TakeTask(w, run) ==
    LET t == Pool(w) IN
    /\ At(w, "idle") /\ tasks[t][run] > 0
    /\ tasks' = [tasks EXCEPT ![t][run] = @ - 1]
    /\ frame' = [frame EXCEPT ![w] = [Idle EXCEPT !.pc = "start", !.run = run, !.tier = t]]
    /\ UNCHANGED <<ref, store, nego, queue, index, evictRef, retry, mode, history>>

\* FlushMem takes over what is being negotiated; the disk task may find the
\* disk below its water level and leave itself to be retried.  When mLocRole
\* fails it returns: nothing retries it and mEvictRef stays set.
StartTask(w) ==
    /\ At(w, "start")
    /\ \/ /\ frame[w].run = "flush" /\ frame[w].tier = "mem" /\ ~negotiating
          /\ \E s \in SetToSeqs(nego) : queue' = [queue EXCEPT !["mem"] = @ \o s]
          /\ nego' = {}
          /\ Goto(w, "top") /\ UNCHANGED <<retry, tasks>>
       \/ /\ ~(frame[w].run = "flush" /\ frame[w].tier = "mem")
          /\ Goto(w, "top") /\ UNCHANGED <<nego, queue, retry, tasks>>
       \/ /\ frame[w].run = "evict" /\ frame[w].tier = "disk" /\ ~forced
          /\ retry' = [retry EXCEPT !["disk"] = @ + 1]
          /\ Done(w) /\ UNCHANGED <<nego, queue, tasks>>
       \/ /\ frame[w].run = "evict" /\ frame[w].tier = "disk" /\ "role" \in Events
          /\ tasks' = [tasks EXCEPT !["disk"].lost = TRUE]
          /\ Done(w) /\ UNCHANGED <<nego, queue, retry>>
    /\ UNCHANGED <<ref, store, index, evictRef, mode, history>>

\* GetEvictSlice, while above the water level or forced.
NextSlice(w) ==
    LET t == frame[w].tier IN
    /\ At(w, "top")
    /\ \/ /\ queue[t] = <<>> \/ (frame[w].run = "evict" /\ ~forced)
          /\ Goto(w, "finish") /\ UNCHANGED queue
       \/ /\ queue[t] # <<>>
          /\ queue' = [queue EXCEPT ![t] = Tail(@)]
          /\ frame' = [frame EXCEPT ![w].pc = "lock", ![w].slice = Head(queue[t])]
    /\ UNCHANGED <<ref, store, nego, index, evictRef, tasks, retry, mode, history>>

\* mutant: mEvictRef is not reset
FinishTaskStuck(w) ==
    /\ At(w, "finish")
    /\ Done(w)
    /\ UNCHANGED <<ref, store, pipeline, index, mode, history>>

FinishTask(w) ==
    /\ At(w, "finish")
    /\ evictRef' = [evictRef EXCEPT ![frame[w].tier] = FALSE]
    /\ Done(w)
    /\ UNCHANGED <<ref, store, nego, queue, index, tasks, retry, mode, history>>

\* mutant: the lock is not looked at
OpLockBlind(w) ==
    LET i == frame[w].slice IN
    /\ At(w, "lock")
    /\ ref' = [ref EXCEPT ![i].lock = TRUE]
    /\ Goto(w, IF frame[w].tier = "mem" THEN "copy" ELSE "check")
    /\ UNCHANGED <<store, pipeline, index, mode, history>>

OpLock(w) ==
    LET i == frame[w].slice IN
    /\ At(w, "lock")
    /\ \/ /\ ~ref[i].lock
          /\ ref' = [ref EXCEPT ![i].lock = TRUE]
          /\ Goto(w, IF frame[w].tier = "mem" THEN "copy" ELSE "check")
       \/ ref[i].lock /\ Goto(w, "requeue") /\ UNCHANGED ref
    /\ UNCHANGED <<store, pipeline, index, mode, history>>

-----------------------------------------------------------------------------
(* EvictFromMemToDiskImpl and EvictFromDiskToUnderFsImpl, in an executor      *)
(* thread or in a write-through put.                                         *)

CopyToDisk(a) ==
    LET i == frame[a].slice IN
    /\ At(a, "copy")
    /\ \/ meta' = [meta EXCEPT !["disk"][i] = meta["mem"][i]] /\ Goto(a, "set")
       \/ "copy" \in Events /\ Goto(a, "failed") /\ UNCHANGED meta
    /\ UNCHANGED <<ref, evicted, base, underfs, pipeline, index, mode, history>>

CheckState(a) ==
    /\ At(a, "check")
    /\ Goto(a, IF ref[frame[a].slice].valid THEN "put" ELSE "mark")
    /\ UNCHANGED <<ref, store, pipeline, index, mode, history>>

UnderFsPut(a) ==
    LET i == frame[a].slice IN
    /\ At(a, "put")
    /\ \/ underfs' = [underfs EXCEPT ![KeyOf[i]] = i] /\ Goto(a, "mark")
       \/ "underfs" \in Events /\ Goto(a, "failed") /\ UNCHANGED underfs
    /\ UNCHANGED <<ref, meta, evicted, base, pipeline, index, mode, history>>

MarkEvicted(a) ==
    /\ At(a, "mark")
    /\ meta' = [meta EXCEPT !["disk"][frame[a].slice] = "evicted"]
    /\ Goto(a, "set")
    /\ UNCHANGED <<ref, evicted, base, underfs, pipeline, index, mode, history>>

\* mutant: the readers are not waited for
SetSliceNow(a) ==
    LET i == frame[a].slice IN
    /\ At(a, "set")
    /\ ref' = [ref EXCEPT ![i].loc = IF frame[a].tier = "mem" THEN "disk" ELSE "null"]
    /\ Goto(a, "callback")
    /\ UNCHANGED <<store, pipeline, index, mode, history>>

\* The reference is swapped now, or by the last reader.
SetSlice(a) ==
    LET i == frame[a].slice
        target == IF frame[a].tier = "mem" THEN "disk" ELSE "null"
    IN
    /\ At(a, "set")
    /\ \/ /\ ref[i].holders = {}
          /\ ref' = [ref EXCEPT ![i].loc = target] /\ Goto(a, "callback")
       \/ /\ ref[i].holders # {}
          /\ ref' = [ref EXCEPT ![i].pend = target] /\ Goto(a, "unlock")
    /\ UNCHANGED <<store, pipeline, index, mode, history>>

\* mutant: the slice is not queued for the next tier
EvictCallbackDropped(a, pc) ==
    LET i == frame[a].slice
        t == frame[a].tier
    IN
    /\ evicted' = [evicted EXCEPT ![t] = @ \cup {i}]
    /\ \/ t = "mem" /\ StartEvictTask("disk") /\ UNCHANGED <<queue, index>>
       \/ /\ t = "disk"
          /\ index' = [k \in Keys |-> IF ref[i].valid /\ index[k] = i /\ k = KeyOf[i] THEN None ELSE index[k]]
          /\ UNCHANGED <<queue, evictRef, tasks>>
    /\ Goto(a, pc)
    /\ UNCHANGED <<ref, meta, base, underfs, nego, retry, mode, history>>

\* The callbacks of SetSlice: the space of the old slice is released, and the
\* slice goes on to the disk tier's queue or, with its index entry, away.
EvictCallback(a, pc) ==
    LET i == frame[a].slice
        t == frame[a].tier
    IN
    /\ evicted' = [evicted EXCEPT ![t] = @ \cup {i}]
    /\ \/ /\ t = "mem"
          /\ queue' = [queue EXCEPT !["disk"] = Append(@, i)]
          /\ StartEvictTask("disk") /\ UNCHANGED index
       \/ /\ t = "disk"
          /\ index' = [k \in Keys |-> IF ref[i].valid /\ index[k] = i /\ k = KeyOf[i] THEN None ELSE index[k]]
          /\ UNCHANGED <<queue, evictRef, tasks>>
    /\ Goto(a, pc)
    /\ UNCHANGED <<ref, meta, base, underfs, nego, retry, mode, history>>

Swapped(a) == At(a, "callback") /\ EvictCallback(a, "unlock")

\* A foreground eviction did not take the lock, but releases it.
OpUnLock(a) ==
    LET f == frame[a] IN
    /\ f.pc \in {"unlock", "failed"}
    /\ ref' = [ref EXCEPT ![f.slice].lock = FALSE]
    /\ Goto(a, IF f.pc = "failed" THEN "requeue" ELSE IF a \in Workers THEN "top" ELSE AfterFront(f, f.tier))
    /\ UNCHANGED <<store, pipeline, index, mode, history>>

\* RetryEvictQueue: the slice goes back to the front; the put fails, the flush
\* task ends, the evict task is left to the retry thread.
Requeue(a) ==
    LET f == frame[a] IN
    /\ At(a, "requeue")
    /\ queue' = [queue EXCEPT ![f.tier] = <<f.slice>> \o @]
    /\ retry' = [retry EXCEPT ![f.tier] = IF f.run = "evict" THEN @ + 1 ELSE @]
    /\ evictRef' = [evictRef EXCEPT ![f.tier] = IF f.run = "flush" THEN FALSE ELSE @]
    /\ Done(a)
    /\ UNCHANGED <<ref, store, nego, index, tasks, mode, history>>

\* RetryEvictTask, from RetryEvictThread.
RetryEvictTask(t) ==
    /\ retry[t] > 0
    /\ retry' = [retry EXCEPT ![t] = @ - 1]
    /\ \/ /\ queue[t] = <<>> \/ ~normal \/ "execute" \in Events
          /\ evictRef' = [evictRef EXCEPT ![t] = FALSE] /\ UNCHANGED tasks
       \/ queue[t] # <<>> /\ normal /\ tasks' = [tasks EXCEPT ![t].evict = @ + 1] /\ UNCHANGED evictRef
    /\ UNCHANGED <<ref, store, nego, queue, index, frame, mode, history>>

-----------------------------------------------------------------------------
(* WCacheManager::Get, Stat and Delete, and Cache::Delete.                    *)

Aquirable(k) == index[k] # None /\ ref[index[k]].loc # "null" /\ ref[index[k]].valid

Aquire(c, k, pc) ==
    /\ ref' = [ref EXCEPT ![index[k]].holders = @ \cup {c}]
    /\ frame' = [frame EXCEPT ![c] = [Idle EXCEPT !.pc = pc, !.slice = index[k], !.own = index[k]]]

\* A miss goes on to the read cache and the under file system.
Get(c, k) ==
    /\ At(c, "idle") /\ k \in Readable /\ Aquirable(k)
    /\ Aquire(c, k, "reading")
    /\ UNCHANGED <<store, pipeline, index, mode, history>>

\* Release: the last holder completes a swap that waits for it.
Release(c, pc) ==
    LET i == frame[c].slice
        last == ref[i].holders = {c} /\ ref[i].pend # "none"
    IN
    /\ ref' = [ref EXCEPT ![i].holders = @ \ {c},
                          ![i].loc = IF last THEN ref[i].pend ELSE @,
                          ![i].pend = IF last THEN "none" ELSE @]
    /\ IF last
       THEN frame' = [frame EXCEPT ![c].pc = "swapped", ![c].tier = ref[i].loc, ![c].run = pc]
       ELSE Goto(c, pc)
    /\ UNCHANGED <<store, pipeline, index, mode, history>>

GetDone(c) == At(c, "reading") /\ Release(c, "idle")
ReleaseCallback(c) == At(c, "swapped") /\ EvictCallback(c, frame[c].run)

Delete(c, k) ==
    /\ At(c, "idle") /\ k \in Deletable \ deleting
    /\ \E i \in acked : KeyOf[i] = k
    /\ deleting' = deleting \cup {k}
    /\ \/ Aquirable(k) /\ Aquire(c, k, "deletelock")
       \/ /\ ~Aquirable(k) /\ UNCHANGED ref
          /\ \E i \in Slices : KeyOf[i] = k /\ frame' = [frame EXCEPT ![c] = [Idle EXCEPT !.pc = "deleteunder", !.own = i]]
    /\ UNCHANGED <<store, pipeline, index, mode, acked, deleted>>

\* The slice is being moved: the client retries.
DeleteLock(c) ==
    LET i == frame[c].slice IN
    /\ At(c, "deletelock")
    /\ \/ ~ref[i].lock /\ ref' = [ref EXCEPT ![i].lock = TRUE] /\ Goto(c, "deletewcache")
       \/ ref[i].lock /\ Goto(c, "deleteretry") /\ UNCHANGED ref
    /\ UNCHANGED <<store, pipeline, index, mode, history>>

\* GetWCache: and so it does when the flow is being flushed.
DeleteGetWCache(c) ==
    /\ At(c, "deletewcache")
    /\ Goto(c, IF phase = "open" THEN "deletemark" ELSE "deleteabort")
    /\ UNCHANGED <<ref, store, pipeline, index, mode, history>>

\* WCache::Delete marks the record of the tier the slice is in now.
DeleteMark(c) ==
    LET i == frame[c].slice IN
    /\ At(c, "deletemark")
    /\ meta' = [meta EXCEPT ![ref[i].loc][i] = "evicted"]
    /\ Goto(c, "deleteindex")
    /\ UNCHANGED <<ref, evicted, base, underfs, pipeline, index, mode, history>>

\* The entry may already be gone: then the state of the slice is left alone.
DeleteIndex(c) ==
    LET k == KeyOf[frame[c].slice] IN
    /\ At(c, "deleteindex")
    /\ index' = [index EXCEPT ![k] = IF @ = frame[c].slice THEN None ELSE @]
    /\ Goto(c, IF index[k] = frame[c].slice THEN "deletestate" ELSE "deleteunlock")
    /\ UNCHANGED <<ref, store, pipeline, mode, history>>

\* SetState and OpUnLock.
DeleteState(c) ==
    /\ At(c, "deletestate")
    /\ ref' = [ref EXCEPT ![frame[c].slice].valid = FALSE, ![frame[c].slice].lock = FALSE]
    /\ Goto(c, "deleterelease")
    /\ UNCHANGED <<store, pipeline, index, mode, history>>

DeleteUnlock(c) ==
    /\ frame[c].pc \in {"deleteunlock", "deleteabort"}
    /\ ref' = [ref EXCEPT ![frame[c].slice].lock = FALSE]
    /\ Goto(c, IF At(c, "deleteabort") THEN "deleteretry" ELSE "deleterelease")
    /\ UNCHANGED <<store, pipeline, index, mode, history>>

DeleteRelease(c) ==
    \/ At(c, "deleterelease") /\ Release(c, "deleteunder")
    \/ At(c, "deleteretry") /\ Release(c, "deletefailed")

\* Cache::Delete ends with the under file system.
DeleteUnder(c) ==
    LET k == KeyOf[frame[c].own] IN
    /\ At(c, "deleteunder")
    /\ underfs' = [underfs EXCEPT ![k] = None]
    /\ deleted' = deleted \cup {k}
    /\ Done(c)
    /\ UNCHANGED <<ref, meta, evicted, base, pipeline, index, mode, acked, deleting>>

DeleteFailed(c) ==
    /\ At(c, "deletefailed")
    /\ deleting' = deleting \ {KeyOf[frame[c].own]}
    /\ Done(c)
    /\ UNCHANGED <<ref, store, pipeline, index, mode, acked, deleted>>

-----------------------------------------------------------------------------
(* WCacheManager::Flush, in the thread that handles a view change.            *)

\* IncFlyIo ... DecFlyIo: before the index is updated, after GetWCache.
OnFly == {c \in Clients : frame[c].run = "front" /\ frame[c].pc \notin {"write", "insert"}}
IsEmptyEvict(t) == OnFly = {} /\ queue[t] = <<>> /\ ~evictRef[t]
IsEmptyNegotiate == OnFly = {} /\ nego = {} /\ ~negotiating

ScanOldCache ==
    /\ "flush" \in Events /\ gc = "idle" /\ phase # "flushed"
    /\ phase' = "closed" /\ gc' = "mem"
    /\ UNCHANGED <<ref, store, pipeline, index, frame, forced, normal, negotiating, views, crashes, history>>

ScanCheck ==
    /\ \/ gc = "mem" /\ gc' = (IF IsEmptyEvict("mem") THEN "nego" ELSE "flush") /\ UNCHANGED phase
       \/ gc = "nego" /\ gc' = (IF IsEmptyNegotiate THEN "disk" ELSE "flush") /\ UNCHANGED phase
       \/ /\ gc = "disk"
          /\ gc' = (IF IsEmptyEvict("disk") THEN "idle" ELSE "flush")
          /\ phase' = (IF IsEmptyEvict("disk") THEN "flushed" ELSE phase)
    /\ UNCHANGED <<ref, store, pipeline, index, frame, forced, normal, negotiating, views, crashes, history>>

Flush ==
    /\ gc = "flush" /\ gc' = "idle" /\ forced' = TRUE
    /\ \E started \in SUBSET {t \in Tiers : ~evictRef[t]} :
          /\ "execute" \in Events \/ started = {t \in Tiers : ~evictRef[t]}
          /\ evictRef' = [t \in Tiers |-> evictRef[t] \/ t \in started]
          /\ tasks' = [t \in Tiers |-> [tasks[t] EXCEPT !.flush = IF t \in started THEN @ + 1 ELSE @]]
    /\ UNCHANGED <<ref, store, nego, queue, index, retry, frame, normal, phase, negotiating, views, crashes, history>>

\* external: the partition view changes the status GetLocDiskStatus reports.
DiskStatus ==
    /\ views < MaxViews /\ views' = views + 1
    /\ normal' = ~normal
    /\ UNCHANGED <<ref, store, pipeline, index, frame, forced, phase, gc, negotiating, crashes, history>>

\* The process restarts: WCache::Recover reads the disk tier's records in the
\* window it finds, in order.  Space is given back in whole chunks, so the window
\* may still have the last of the truncated slices.  A slice still in memory is
\* the replica's to keep; one that had left it must be found again.
Windows == {gone \in SUBSET Truncated("disk") : \A i \in gone : 0 .. i \subseteq gone}
Recovered(gone) == {i \in Slices : meta["disk"][i] # "none" /\ i \notin gone}
Restart == \E gone \in Windows :
    LET found == Recovered(gone)
        Live(i) == i \in found /\ meta["disk"][i] = "live"
    IN
    /\ crashes < Crashes /\ crashes' = crashes + 1
    /\ ref' = [i \in Slices |-> [loc |-> IF i \in found THEN "disk" ELSE "null", pend |-> "none",
                                 holders |-> {}, lock |-> FALSE, valid |-> Live(i)]]
    /\ meta' = [meta EXCEPT !["mem"] = [i \in Slices |-> "none"]]
    /\ base' = gone /\ evicted' = [t \in Tiers |-> {}]
    /\ nego' = {} /\ queue' = [t \in Tiers |-> IF t = "mem" THEN <<>> ELSE SetToSortSeq(found, <)]
    /\ index' = [k \in Keys |->
                   LET is == {i \in Slices : KeyOf[i] = k /\ Live(i)}
                   IN  IF is = {} THEN None ELSE Min(is)]
    /\ evictRef' = [t \in Tiers |-> FALSE] /\ retry' = [t \in Tiers |-> 0]
    /\ tasks' = [t \in Tiers |-> NoTasks]
    /\ frame' = [a \in Actors |-> Idle]
    /\ forced' = FALSE /\ phase' = "open" /\ gc' = "idle" /\ negotiating' = FALSE
    /\ acked' = {i \in acked : ref[i].loc # "mem"}
    /\ UNCHANGED <<underfs, normal, views, deleting, deleted>>

-----------------------------------------------------------------------------
ClientStep(c) ==
    \/ PutWrite(c) \/ PutBack(c) \/ PutThrough(c) \/ PutInsert(c)
    \/ GetDone(c) \/ ReleaseCallback(c)
    \/ DeleteLock(c) \/ DeleteGetWCache(c) \/ DeleteMark(c) \/ DeleteIndex(c)
    \/ DeleteState(c) \/ DeleteUnlock(c) \/ DeleteRelease(c) \/ DeleteUnder(c) \/ DeleteFailed(c)
WorkerStep(w) ==
    \/ TakeTask(w, "evict") \/ TakeTask(w, "flush")
    \/ StartTask(w) \/ NextSlice(w) \/ FinishTask(w) \/ OpLock(w)
EvictStep(a) ==
    \/ CopyToDisk(a) \/ CheckState(a) \/ UnderFsPut(a) \/ MarkEvicted(a)
    \/ SetSlice(a) \/ Swapped(a) \/ OpUnLock(a) \/ Requeue(a)
Next ==
    \/ \E c \in Clients : \/ \E i \in Slices, through \in Through : Put(c, i, through)
                           \/ \E k \in Keys : Get(c, k) \/ Delete(c, k)
                           \/ ClientStep(c)
    \/ \E w \in Workers : WorkerStep(w)
    \/ \E a \in Actors : EvictStep(a)
    \/ NegotiateBegin \/ (\E i \in Slices : Negotiated(i)) \/ NegotiateEnd
    \/ \E t \in Tiers : RetryEvictTask(t)
    \/ ScanOldCache \/ ScanCheck \/ Flush
    \/ DiskStatus \/ Restart

Spec == Init /\ [][Next]_vars

\* Threads that are in a call go on, the negotiation and retry threads and the
\* view change handler come round again; nothing forces new client calls.
Fairness ==
    /\ \A c \in Clients : WF_vars(ClientStep(c) \/ EvictStep(c))
    /\ \A w \in Workers : WF_vars(WorkerStep(w) \/ EvictStep(w))
    /\ WF_vars(NegotiateEnd) /\ \A t \in Tiers : WF_vars(RetryEvictTask(t))
    /\ WF_vars(ScanOldCache \/ ScanCheck \/ Flush)
FairSpec == Spec /\ Fairness

-----------------------------------------------------------------------------
(* Properties.                                                               *)

Pcs == {"idle", "write", "strategy", "front", "insert", "start", "top", "finish", "lock", "copy", "check", "put",
        "mark", "set", "callback", "unlock", "failed", "requeue", "reading", "swapped", "deletelock",
        "deletewcache", "deletemark", "deleteindex", "deletestate", "deleteunlock", "deleteabort",
        "deleterelease", "deleteretry", "deletefailed", "deleteunder"}

\* Every variable keeps the type its field has in the code.
TypeOK ==
    /\ ref \in [Slices -> [loc : {"unborn", "mem", "disk", "null"}, pend : {"none", "disk", "null"},
                           holders : SUBSET Clients, lock : BOOLEAN, valid : BOOLEAN]]
    /\ meta \in [Tiers -> [Slices -> {"none", "live", "evicted"}]]
    /\ evicted \in [Tiers -> SUBSET Slices] /\ base \subseteq Slices /\ nego \subseteq Slices
    /\ \A t \in Tiers : Len(queue[t]) <= N /\ \A n \in 1 .. Len(queue[t]) : queue[t][n] \in Slices
    /\ index \in [Keys -> 0 .. N] /\ underfs \in [Keys -> 0 .. N]
    /\ evictRef \in [Tiers -> BOOLEAN] /\ retry \in [Tiers -> Nat]
    /\ \A t \in Tiers : tasks[t] \in [evict : Nat, flush : Nat, lost : BOOLEAN]
    /\ \A a \in Actors : frame[a].pc \in Pcs /\ frame[a].tier \in Tiers /\ frame[a].slice \in Slices
    /\ phase \in {"open", "closed", "flushed"} /\ gc \in {"idle", "mem", "nego", "disk", "flush"}
    /\ acked \subseteq Slices /\ deleting \subseteq Keys /\ deleted \subseteq Keys

\* The actors a slice is in the hands of: between leaving one queue and being
\* in the next, or out of the cache.
Moving == {"lock", "copy", "check", "put", "mark", "set", "callback", "failed", "requeue", "swapped"}
Hands(i) == {a \in Actors : frame[a].pc \in Moving /\ frame[a].slice = i}
Times(i, q) == Cardinality({n \in 1 .. Len(q) : q[n] = i})

\* No slice is lost or duplicated on its way through the tiers: one still in
\* the cache is exactly once in the negotiation map, a queue, an actor's hands
\* or a swap that waits for readers, whatever is retried or flushed when.
PlacedOnce ==
    \A i \in Slices :
      LET times == (IF i \in nego THEN 1 ELSE 0) + Times(i, queue["mem"]) + Times(i, queue["disk"])
                   + Cardinality(Hands(i)) + (IF ref[i].pend # "none" THEN 1 ELSE 0)
      IN  /\ ref[i].loc \in {"mem", "disk"} => times = 1
          /\ ref[i].loc = "unborn" => times = 0
          /\ times <= 1

\* The space a reader is reading is not truncated under it: SetSlice leaves the
\* truncation to the last Release.
ReadersSafe ==
    \A i \in Slices : ref[i].holders # {} => ref[i].loc \in Tiers /\ i \notin Truncated(ref[i].loc)

\* A put that returned can be read: from the tier its index entry points to, or
\* from the under file system, unless a delete of the key began and has not failed.
AckedReadable ==
    \A i \in acked :
      LET k == KeyOf[i] IN
      \/ k \in deleting
      \/ underfs[k] = i
      \/ index[k] = i /\ ref[i].valid /\ ref[i].loc \in Tiers /\ i \notin Truncated(ref[i].loc)

\* A key whose delete returned is found neither in the write cache nor in the
\* under file system (no key is put twice here).
DeletedStaysDeleted == \A k \in deleted : underfs[k] = None /\ ~Aquirable(k)

\* While a flow is being flushed, no slice in it is left behind by a task that
\* ended, a task that was not started or a task that gave up: it leaves the
\* cache, unless the flush has already been declared complete or a disk task
\* ended because mLocRole failed: then the flush is waited for in vain.
FlushEvictsAll ==
    \A i \in Slices :
      (phase = "closed" /\ ref[i].loc \in Tiers)
        ~> (ref[i].loc = "null" \/ phase = "flushed" \/ tasks["disk"].lost)
=============================================================================
