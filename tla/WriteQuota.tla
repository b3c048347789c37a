----------------------------- MODULE WriteQuota -----------------------------
(***************************************************************************)
(* Flow control of writes in BoostIO: the permits and the quota of a       *)
(* client (sdk/bio_qos.h, sdk/bio_qos.cpp), the write loop around them     *)
(* (sdk/mirror_client.cpp) and the quota of the servers                    *)
(* (cache_overload_ctrl.h, server/mirror_server.cpp).  A client takes      *)
(* quota in large pieces from every copy of a partition and spends it      *)
(* write by write; a server gets it back when the memory of the data is    *)
(* freed, or when the client is gone.                                      *)
(***************************************************************************)
EXTENDS Integers, Sequences, FiniteSets, FiniteSetsExt, SequencesExt, Functions

CONSTANTS
  Server,      \* node numbers
  Pt,          \* the partitions: a sequence of sequences of nodes, their copies
  Thread, Size,
  mLimitWriteQuota, InitPreload, QUOTA_MIN_PRELOAD_SIZE, Expected,
  mOriConcur, MaxHeld,
  LocalNid,    \* the client's node
  Budgets      \* what may still happen: rounds, lost messages, tasks that cannot
               \* start, failing puts, ends of the process; and MAX_IO_HANG_COUNT

VARIABLES
  mWriteQuota, \* per server
  mHolders,    \* per server: client -> quota it holds
  flow,        \* per server: the memory of the write cache's data
  client,      \* the number of the client's process
  thread, mCurConcur, mIoQueue,
  mQuotaMgr, mIoQueueMap, mTaskRunFlag, mPreloadSize,   \* the client's, by node set
  tasks,       \* the tasks of mQuotaAllocExecutor
  task,        \* the task that runs
  storing,     \* puts that a server has stored and not yet released
  late,        \* requests of a process that ended, still to be handled
  slack,       \* per server: what is in use without quota
  left

vars == <<mWriteQuota, mHolders, flow, client, thread, mCurConcur, mIoQueue, mQuotaMgr,
          mIoQueueMap, mTaskRunFlag, mPreloadSize, tasks, task, storing, late, slack, left>>

server == <<mWriteQuota, mHolders, flow, slack>>
local == <<mQuotaMgr, mIoQueueMap, mTaskRunFlag, mPreloadSize, tasks, task>>
concur == <<mCurConcur, mIoQueue>>
away == <<client, storing, late>>

Idle == [at |-> "idle", pt |-> 0, size |-> 0, todo |-> {}]
NoTask == [at |-> "none", pt |-> 0, set |-> 0, size |-> 0, node |-> 0]

(* GenerateNodeSet: the key of a partition's quota, from its copies. *)
GenerateNodeSet(pt) ==
  LET nodes == SortSeq(Pt[pt], <) IN
  FoldFunctionOnSet(LAMBDA x, acc : acc + x, 0,
                    [i \in DOMAIN nodes |-> nodes[i] * (i - 1) * 10], DOMAIN nodes) % 65536

NodeSet == {GenerateNodeSet(pt) : pt \in DOMAIN Pt}
Held(n, c) == IF c \in DOMAIN mHolders[n] THEN mHolders[n][c] ELSE 0
SumSizes(rs) == FoldSet(LAMBDA r, acc : acc + r.size, 0, rs)
Used(n) == mWriteQuota[n] + FoldFunction(LAMBDA x, acc : acc + x, 0, mHolders[n]) + flow[n]
           - SumSizes({r \in storing : r.node = n})

FreshClient ==
  /\ thread = [t \in Thread |-> Idle]
  /\ mCurConcur = 0 /\ mIoQueue = <<>>
  /\ mQuotaMgr = [s \in NodeSet |-> 0]
  /\ mIoQueueMap = [s \in NodeSet |-> <<>>]
  /\ mTaskRunFlag = [s \in NodeSet |-> FALSE]
  /\ mPreloadSize = InitPreload
  /\ tasks = <<>> /\ task = NoTask

Init ==
  /\ mWriteQuota = [n \in Server |-> mLimitWriteQuota]
  /\ mHolders = [n \in Server |-> <<>>]
  /\ flow = [n \in Server |-> 0]
  /\ slack = [n \in Server |-> 0]
  /\ client = 1
  /\ FreshClient
  /\ storing = {} /\ late = {}
  /\ left \in Budgets

-----------------------------------------------------------------------------
(* Put or AllocSpace begins a round: ApplyConcur, a permit or a wait. *)
ApplyConcur(t, pt, size) ==
  /\ thread[t] = Idle /\ left.rounds > 0
  /\ left' = [left EXCEPT !.rounds = @ - 1]
  /\ IF mCurConcur < mOriConcur
     THEN /\ mCurConcur' = mCurConcur + 1
          /\ thread' = [thread EXCEPT ![t] = [at |-> "quota", pt |-> pt, size |-> size, todo |-> {}]]
          /\ UNCHANGED mIoQueue
     ELSE /\ mIoQueue' = Append(mIoQueue, t)
          /\ thread' = [thread EXCEPT ![t] = [at |-> "permit", pt |-> pt, size |-> size, todo |-> {}]]
          /\ UNCHANGED mCurConcur
  /\ UNCHANGED <<server, local, away>>

(* ReleaseConcur: the permit goes to the first that waits. *)
Released(t, th) ==
  IF mIoQueue = <<>> THEN [cur |-> mCurConcur - 1, queue |-> mIoQueue, thread |-> th]
  ELSE [cur |-> mCurConcur, queue |-> Tail(mIoQueue), thread |-> [th EXCEPT ![Head(mIoQueue)].at = "quota"]]

(* The round ends with the permit released; whether the loop goes on,      *)
(* after FailHandler, is a new round.                                      *)
EndsRound(t) ==
  LET r == Released(t, [thread EXCEPT ![t] = Idle]) IN
  mCurConcur' = r.cur /\ mIoQueue' = r.queue /\ thread' = r.thread

(* The quota manager's lock is held by a task that wakes the queue. *)
Unlocked == task.at # "wake"

(* WakeForce: every waiting write of the node set fails and tries again. *)
WakeForce(set, th, queues) ==
  /\ thread' = [t \in Thread |-> IF t \in Range(queues[set]) THEN [th[t] EXCEPT !.at = "failed"] ELSE th[t]]
  /\ mIoQueueMap' = [queues EXCEPT ![set] = <<>>]
  /\ mTaskRunFlag' = [mTaskRunFlag EXCEPT ![set] = FALSE]

(* AllocQuota from what the client holds ... *)
AllocQuota(t) ==
  /\ thread[t].at = "quota" /\ Unlocked
  /\ LET set == GenerateNodeSet(thread[t].pt) IN
     /\ mQuotaMgr[set] >= thread[t].size
     /\ mQuotaMgr' = [mQuotaMgr EXCEPT ![set] = @ - thread[t].size]
  /\ thread' = [thread EXCEPT ![t].at = "put", ![t].todo = Range(Pt[thread[t].pt])]
  /\ UNCHANGED <<server, concur, mIoQueueMap, mTaskRunFlag, mPreloadSize, tasks, task, away, left>>

(* ... or HangIO with ExecutePreloadTask; a task is not started twice, and *)
(* one that cannot be started wakes everybody.                             *)
HangIO(t) ==
  /\ thread[t].at = "quota" /\ Unlocked
  /\ LET set == GenerateNodeSet(thread[t].pt)
         th == [thread EXCEPT ![t].at = "hung"]
         queues == [mIoQueueMap EXCEPT ![set] = Append(@, t)] IN
     /\ mQuotaMgr[set] < thread[t].size
     /\ \/ /\ Len(mIoQueueMap[set]) >= left.room
           /\ thread' = [thread EXCEPT ![t].at = "failed"]
           /\ UNCHANGED <<mIoQueueMap, mTaskRunFlag, tasks, left>>
        \/ /\ Len(mIoQueueMap[set]) < left.room /\ mTaskRunFlag[set]
           /\ mIoQueueMap' = queues /\ thread' = th
           /\ UNCHANGED <<mTaskRunFlag, tasks, left>>
        \/ /\ Len(mIoQueueMap[set]) < left.room /\ ~mTaskRunFlag[set]
           /\ mIoQueueMap' = queues /\ thread' = th
           /\ mTaskRunFlag' = [mTaskRunFlag EXCEPT ![set] = TRUE]
           /\ tasks' = Append(tasks, [pt |-> thread[t].pt, set |-> set])
           /\ UNCHANGED left
        \/ /\ Len(mIoQueueMap[set]) < left.room /\ ~mTaskRunFlag[set] /\ left.full > 0
           /\ WakeForce(set, th, queues)
           /\ left' = [left EXCEPT !.full = @ - 1]
           /\ UNCHANGED tasks
  /\ UNCHANGED <<server, concur, mQuotaMgr, mPreloadSize, task, away>>

ApplyFails(t) ==
  /\ thread[t].at = "failed"
  /\ EndsRound(t)
  /\ UNCHANGED <<server, local, away, left>>

-----------------------------------------------------------------------------
(* PutImpl and the server's Put on one copy: the data is stored, then the  *)
(* holder's quota released.                                                *)
ServerStores(t, n) ==
  /\ thread[t].at = "put" /\ n \in thread[t].todo
  /\ ~\E r \in storing : r.thread = t /\ r.node = n
  /\ flow' = [flow EXCEPT ![n] = @ + thread[t].size]
  /\ storing' = storing \cup {[thread |-> t, node |-> n, client |-> client, size |-> thread[t].size]}
  /\ UNCHANGED <<mWriteQuota, mHolders, slack, concur, thread, local, client, late, left>>

(* ReleaseQuota takes no more than the holder has, and nothing without one. *)
Charged(n, c, size) ==
  IF c \in DOMAIN mHolders[n]
  THEN [mHolders EXCEPT ![n][c] = IF @ > size THEN @ - size ELSE 0]
  ELSE mHolders

Short(n, c, size) == IF Held(n, c) >= size THEN 0 ELSE size - Held(n, c)

ServerReleases(r) ==
  /\ r \in storing
  /\ storing' = storing \ {r}
  /\ mHolders' = Charged(r.node, r.client, r.size)
  /\ slack' = [slack EXCEPT ![r.node] = @ + Short(r.node, r.client, r.size)]
  /\ thread' = IF r.client = client THEN [thread EXCEPT ![r.thread].todo = @ \ {r.node}] ELSE thread
  /\ UNCHANGED <<mWriteQuota, flow, concur, local, client, late, left>>

PutDone(t) ==
  /\ thread[t].at = "put" /\ thread[t].todo = {}
  /\ EndsRound(t)
  /\ UNCHANGED <<server, local, away, left>>

(* A put that fails on a copy after its memory was taken; the quota stays  *)
(* with the holder.                                                        *)
PutFails(t, n) ==
  /\ thread[t].at = "put" /\ n \in thread[t].todo /\ left.put > 0
  /\ ~\E r \in storing : r.thread = t
  /\ flow' = [flow EXCEPT ![n] = @ + thread[t].size]
  /\ slack' = [slack EXCEPT ![n] = @ + thread[t].size]
  /\ left' = [left EXCEPT !.put = @ - 1]
  /\ EndsRound(t)
  /\ UNCHANGED <<mWriteQuota, mHolders, local, away>>

(* FreeQuota *)
FreeQuota(n, size) == mWriteQuota' = [mWriteQuota EXCEPT ![n] = Min({@ + size, mLimitWriteQuota})]

(* MediaFree: evicted data gives its memory and its quota back. *)
Evict(n, size) ==
  /\ flow[n] >= size
  /\ flow' = [flow EXCEPT ![n] = @ - size]
  /\ FreeQuota(n, size)
  /\ UNCHANGED <<mHolders, slack, concur, thread, local, away, left>>

-----------------------------------------------------------------------------
(* AsyncPreloadQuota: one piece from every copy, in their order ... *)
PreloadStarts ==
  /\ task.at = "none" /\ tasks # <<>>
  /\ task' = [at |-> "alloc", pt |-> Head(tasks).pt, set |-> Head(tasks).set, size |-> mPreloadSize, node |-> 1]
  /\ tasks' = Tail(tasks)
  /\ UNCHANGED <<server, concur, thread, mQuotaMgr, mIoQueueMap, mTaskRunFlag, mPreloadSize, away, left>>

(* AllocQuota of a server; the number of holders is not bounded here. *)
Take(n, c, size) ==
  /\ mWriteQuota' = [mWriteQuota EXCEPT ![n] = @ - size]
  /\ mHolders' = [mHolders EXCEPT ![n] = (c :> Held(n, c) + size) @@ @]

ServerAllocs ==
  /\ task.at = "alloc" /\ task.node <= Len(Pt[task.pt])
  /\ LET n == Pt[task.pt][task.node] IN
     /\ mWriteQuota[n] >= task.size
     /\ Held(n, client) + task.size <= MaxHeld
     /\ Take(n, client, task.size)
     /\ \/ task' = [task EXCEPT !.node = @ + 1] /\ UNCHANGED left
        \/ /\ left.lost > 0       \* the answer is lost
           /\ task' = [task EXCEPT !.at = "rollback", !.node = @ - 1]
           /\ left' = [left EXCEPT !.lost = @ - 1]
  /\ UNCHANGED <<flow, slack, concur, thread, mQuotaMgr, mIoQueueMap, mTaskRunFlag, mPreloadSize, tasks, away>>

ServerRefuses ==
  /\ task.at = "alloc" /\ task.node <= Len(Pt[task.pt])
  /\ mWriteQuota[Pt[task.pt][task.node]] < task.size
  /\ task' = [task EXCEPT !.at = "rollback", !.node = @ - 1]
  /\ UNCHANGED <<server, concur, thread, mQuotaMgr, mIoQueueMap, mTaskRunFlag, mPreloadSize, tasks, away, left>>

(* ... RollbackAllocQuotaReq gives back what was granted before a failure, *)
(* FreeCacheQuota of a server ...                                          *)
Rollback ==
  /\ task.at = "rollback" /\ task.node > 0
  /\ task' = [task EXCEPT !.node = @ - 1]
  /\ LET n == Pt[task.pt][task.node] IN
     \/ mHolders' = Charged(n, client, task.size) /\ FreeQuota(n, task.size) /\ UNCHANGED left
     \/ /\ left.lost > 0
        /\ left' = [left EXCEPT !.lost = @ - 1]
        /\ UNCHANGED <<mWriteQuota, mHolders>>
  /\ UNCHANGED <<flow, slack, concur, thread, mQuotaMgr, mIoQueueMap, mTaskRunFlag, mPreloadSize, tasks, away>>

(* ... and the writes that wait are woken to try again. *)
PreloadFails ==
  /\ task.at = "rollback" /\ task.node = 0
  /\ task' = NoTask
  /\ mPreloadSize' = QUOTA_MIN_PRELOAD_SIZE
  /\ WakeForce(task.set, thread, mIoQueueMap)
  /\ UNCHANGED <<server, concur, mQuotaMgr, tasks, away, left>>

(* UpdateQuotaRes, under the lock: the quota arrives, the flag falls ... *)
UpdateQuotaRes ==
  /\ task.at = "alloc" /\ task.node > Len(Pt[task.pt])
  /\ mQuotaMgr' = [mQuotaMgr EXCEPT ![task.set] = @ + task.size]
  /\ mTaskRunFlag' = [mTaskRunFlag EXCEPT ![task.set] = FALSE]
  /\ mPreloadSize' \in Expected
  /\ task' = [task EXCEPT !.at = "wake"]
  /\ UNCHANGED <<server, concur, thread, mIoQueueMap, tasks, away, left>>

(* ... the queue is served from its head, one that waited too long with a  *)
(* failure ...                                                             *)
WakeNext ==
  /\ task.at = "wake" /\ mIoQueueMap[task.set] # <<>>
  /\ LET t == Head(mIoQueueMap[task.set]) IN
     /\ mIoQueueMap' = [mIoQueueMap EXCEPT ![task.set] = Tail(@)]
     /\ \/ thread' = [thread EXCEPT ![t].at = "failed"] /\ UNCHANGED mQuotaMgr
        \/ /\ mQuotaMgr[task.set] >= thread[t].size
           /\ mQuotaMgr' = [mQuotaMgr EXCEPT ![task.set] = @ - thread[t].size]
           /\ thread' = [thread EXCEPT ![t].at = "put", ![t].todo = Range(Pt[thread[t].pt])]
  /\ UNCHANGED <<server, concur, mTaskRunFlag, mPreloadSize, tasks, task, away, left>>

(* ... until it is empty or the quota does not suffice: then the task is   *)
(* started again, unless its flag is set.                                  *)
WakeEnds ==
  /\ task.at = "wake"
  /\ task' = NoTask
  /\ \/ /\ mIoQueueMap[task.set] = <<>>
        /\ UNCHANGED <<thread, mIoQueueMap, mTaskRunFlag, tasks, left>>
     \/ /\ mIoQueueMap[task.set] # <<>>
        /\ mQuotaMgr[task.set] < thread[Head(mIoQueueMap[task.set])].size
        /\ \/ /\ tasks' = IF mTaskRunFlag[task.set] THEN tasks
                          ELSE Append(tasks, [pt |-> task.pt, set |-> task.set])
              /\ mTaskRunFlag' = [mTaskRunFlag EXCEPT ![task.set] = TRUE]
              /\ UNCHANGED <<thread, mIoQueueMap, left>>
           \/ /\ ~mTaskRunFlag[task.set] /\ left.full > 0
              /\ WakeForce(task.set, thread, mIoQueueMap)
              /\ left' = [left EXCEPT !.full = @ - 1]
              /\ UNCHANGED tasks
  /\ UNCHANGED <<server, concur, mQuotaMgr, mPreloadSize, away>>

-----------------------------------------------------------------------------
(* The client's process ends; a request of its task may still be under     *)
(* way.  The next process is another holder.                               *)
ClientExits ==
  /\ left.exit > 0
  /\ left' = [left EXCEPT !.exit = @ - 1]
  /\ client' = client + 1
  /\ LET asked == [at |-> task.at, client |-> client, size |-> task.size,
                   node |-> IF task.node \in DOMAIN Pt[task.pt] THEN Pt[task.pt][task.node] ELSE 0] IN
     late' \in {late \cup {[at |-> "recycle", client |-> client, size |-> 0, node |-> n] : n \in Server} \cup m :
                m \in {{}} \cup IF task.at \in {"alloc", "rollback"} /\ asked.node \in Server THEN {{asked}} ELSE {}}
  /\ thread' = [t \in Thread |-> Idle]
  /\ mCurConcur' = 0 /\ mIoQueue' = <<>>
  /\ mQuotaMgr' = [s \in NodeSet |-> 0]
  /\ mIoQueueMap' = [s \in NodeSet |-> <<>>]
  /\ mTaskRunFlag' = [s \in NodeSet |-> FALSE]
  /\ mPreloadSize' = InitPreload
  /\ tasks' = <<>> /\ task' = NoTask
  /\ UNCHANGED <<server, storing>>

Without(f, c) == [d \in DOMAIN f \ {c} |-> f[d]]

\* mutant: the record of the holder stays
RecycleQuotaKeeps(n, c) ==
  /\ mWriteQuota' = [mWriteQuota EXCEPT ![n] = @ + Held(n, c)]
  /\ UNCHANGED mHolders

(* RecycleQuota, the channel's end *)
RecycleQuota(n, c) ==
  /\ mWriteQuota' = [mWriteQuota EXCEPT ![n] = @ + Held(n, c)]
  /\ mHolders' = [mHolders EXCEPT ![n] = Without(@, c)]

Gone(n, c) == ~\E m \in late : m.at = "recycle" /\ m.client = c /\ m.node = n

(* A request handled after its client's end; quota is granted to a remote  *)
(* client only while its channel exists.                                   *)
LateRequest(m) ==
  /\ m \in late
  /\ late' = late \ {m}
  /\ \/ m.at = "recycle" /\ RecycleQuota(m.node, m.client) /\ UNCHANGED slack
     \/ /\ m.at = "alloc"
        /\ IF mWriteQuota[m.node] >= m.size /\ (m.node = LocalNid \/ ~Gone(m.node, m.client))
           THEN Take(m.node, m.client, m.size)
           ELSE UNCHANGED <<mWriteQuota, mHolders>>
        /\ UNCHANGED slack
     \/ /\ m.at = "rollback"
        /\ mHolders' = Charged(m.node, m.client, m.size)
        /\ slack' = [slack EXCEPT ![m.node] = @ + Short(m.node, m.client, m.size)]
        /\ FreeQuota(m.node, m.size)
  /\ UNCHANGED <<flow, concur, thread, local, client, storing, left>>

Next ==
  \/ \E t \in Thread :
       \/ \E pt \in DOMAIN Pt, size \in Size : ApplyConcur(t, pt, size)
       \/ AllocQuota(t) \/ HangIO(t) \/ ApplyFails(t) \/ PutDone(t)
       \/ \E n \in Server : ServerStores(t, n) \/ PutFails(t, n)
  \/ \E r \in storing : ServerReleases(r)
  \/ \E n \in Server, size \in Size : Evict(n, size)
  \/ PreloadStarts \/ ServerAllocs \/ ServerRefuses \/ Rollback \/ PreloadFails
  \/ UpdateQuotaRes \/ WakeNext \/ WakeEnds
  \/ ClientExits
  \/ \E m \in late : LateRequest(m)

Spec == Init /\ [][Next]_vars

-----------------------------------------------------------------------------
(* A server never promises or holds more than the limit of its write cache,*)
(* but for the data of puts that failed or that outlived their client, and *)
(* of returns that arrived twice: quota free, quota held by clients and    *)
(* memory in use add up to no more (AllocQuota, ReleaseQuota, FreeQuota    *)
(* and RecycleQuota of CacheOverloadCtrl with the client's rollback).  A   *)
(* put that is stored and not yet released counts once.                    *)
QuotaBounded == \A n \in Server : Used(n) <= mLimitWriteQuota + slack[n]

(* A write that waits for quota is waited for: its node set's task is      *)
(* queued or runs, whatever failed, was woken or arrived in between; and   *)
(* one that waits for a permit does so only while all permits are with     *)
(* writes that will release theirs (HangIO, ExecutePreloadTask,            *)
(* UpdateQuotaRes, WakeForce, ReleaseConcur).                              *)
WaitersAreServed ==
  /\ \A s \in NodeSet : mIoQueueMap[s] # <<>> =>
       \/ task.at # "none" /\ task.set = s
       \/ \E i \in DOMAIN tasks : tasks[i].set = s
  /\ mCurConcur = Cardinality({t \in Thread : thread[t].at \in {"quota", "hung", "failed", "put"}})
  /\ mIoQueue # <<>> => mCurConcur = mOriConcur
  /\ \A t \in Thread : thread[t].at = "hung" => t \in Range(mIoQueueMap[GenerateNodeSet(thread[t].pt)])
=============================================================================
