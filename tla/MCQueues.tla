------------------------------- MODULE MCQueues ------------------------------
(* Queues, pools and what hands work from one thread to another, for TLC: the   *)
(* ring buffer ("ring"), the executors ("exec"), the cluster manager's thread   *)
(* pool ("pool") and the network's block pool ("blocks"), with MemStore's       *)
(* copies of the four ("mmsring", ...); asynchronous device I/O ("aio");        *)
(* MemStore's notifications through shared memory ("shm") and their dispatcher  *)
(* ("disp"); the write quota ("quota") and the overload statistics ("over").    *)
(* A part has its variables in v1, v2, ...                                      *)
EXTENDS Integers, Sequences, FiniteSets, TLC

VARIABLES part, v1, v2, v3, v4, v5, v6, v7, v8, v9, v10, v11, v12, v13, v14, v15, v16, v17

vars == <<part, v1, v2, v3, v4, v5, v6, v7, v8, v9, v10, v11, v12, v13, v14, v15, v16, v17>>

\* The variables from a place on that a part has no use for.
Rest17 == v17 = 0
Rest16 == v16 = 0 /\ Rest17
Rest15 == v15 = 0 /\ Rest16
Rest14 == v14 = 0 /\ Rest15
Rest13 == v13 = 0 /\ Rest14
Rest12 == v12 = 0 /\ Rest13
Rest11 == v11 = 0 /\ Rest12
Rest10 == v10 = 0 /\ Rest11
Rest9 == v9 = 0 /\ Rest10
Rest8 == v8 = 0 /\ Rest9
Rest7 == v7 = 0 /\ Rest8
Rest6 == v6 = 0 /\ Rest7
Rest5 == v5 = 0 /\ Rest6
Rest4 == v4 = 0 /\ Rest5
Rest3 == v3 = 0 /\ Rest4

\* What may happen to the quota: rounds, lost messages, tasks that cannot start,
\* failing puts, ends of the process; and MAX_IO_HANG_COUNT.
Budget(r, l, f, p, e, h) == [rounds |-> r, lost |-> l, full |-> f, put |-> p, exit |-> e, room |-> h]
Budgets == {Budget(3, 1, 0, 0, 0, 2), Budget(3, 0, 1, 0, 0, 2), Budget(2, 0, 0, 1, 0, 1), Budget(2, 1, 0, 0, 1, 2)}

\* A ring of three places.
Ring == INSTANCE RingQueue WITH
         Capacity <- 3, NoItem <- 0, Item <- {1, 2}, MaxN <- 3, ring <- v1, queue <- v2

\* Two threads serve two callers through a ring of two places.
Exec == INSTANCE Executor WITH
         Capacity <- 2, NoItem <- -1, Worker <- {"w1", "w2"}, Client <- {"c1", "c2"},
         MaxTask <- 3, CpuNums <- {0, 1, 2}, svc <- v1, ring <- v2, sem <- v3, worker <- v4,
         posting <- v5, stops <- v6, next <- v7, ref <- v8, runs <- v9

\* Two threads and one more task than the queue holds.
Pool == INSTANCE CmThreadPool WITH
         Thread <- {"t1", "t2"}, QueueSize <- 3, MaxTask <- 4, exit <- v1, queue <- v2,
         thread <- v3, ran <- v4, added <- v5, owner <- v6

\* Two users of three blocks in two buckets.
Blocks == INSTANCE NetBlockPool WITH
         User <- {"u1", "u2"}, Block <- {1, 2, 3}, BUCKET_COUNT <- 2, MaxCount <- 2,
         MaxCalls <- 3, mIsStarted <- v1, mBuckets <- v2, mPopRRIdx <- v3, mPushRRIdx <- v4,
         user <- v5, held <- v6, calls <- v7

\* Three requests, batches of two, each fault once.
Aio == INSTANCE BdmAio WITH
         Io <- {"i1", "i2", "i3"}, Worker <- {1}, BDM_BATCH_HANDLE_NUM <- 2,
         BDM_IOCTX_EVENTS_NUM <- 2, BDM_IO_RETRY_NUM <- 1, QueueSize <- 3, MaxShort <- 1,
         MaxError <- 2, MaxBusy <- 1, index <- v1, queue <- v2, thread <- v3, batch <- v4,
         kernel <- v5, done <- v6, signal <- v7, edge <- v8, events <- v9, taken <- v10,
         io <- v11, faults <- v12, left <- v13

\* Two producers, a queue of two events, a client that stops or restarts.
Shm == INSTANCE NotifyShm WITH
         Producer <- {"p1", "p2"}, Depth <- 2, BatchNum <- 2, MaxEvent <- 3, MaxSession <- 2,
         Modes <- BOOLEAN, MaxCrash <- 1, MaxStop <- 1, MaxSendFail <- 1, busyPolling <- v1,
         queue <- v2, mActiveSession <- v3, producer <- v4, accept <- v5, client <- v6,
         owner <- v7, process <- v8, next <- v9, placed <- v10, delivered <- v11, left <- v12

\* Three request threads, a queue of two events, a callback registered twice.
Disp == INSTANCE NotifyDispatcher WITH
         Thread <- {"t1", "t2", "t3"}, QUEUE_CAPACITY <- 2, BATCH_EVENT_NUM <- 2, MaxEvent <- 3,
         MaxStart <- 2, callback <- v1, mRunning <- v2, mStop <- v3, mFreeSlots <- v4,
         mUsedSlots <- v5, mQueue <- v6, mHead <- v7, mTail <- v8, mCount <- v9, thread <- v10,
         worker <- v11, owner <- v12, next <- v13, starts <- v14, accepted <- v15, handled <- v16

\* Three puts of a client on two servers that grant two units each.
Quota == INSTANCE WriteQuota WITH
         Server <- {0, 1}, Pt <- << <<1, 0>> >>, Thread <- {"t1", "t2", "t3"}, Size <- {1},
         mLimitWriteQuota <- 2, InitPreload <- 1, QUOTA_MIN_PRELOAD_SIZE <- 2, Expected <- {1},
         mOriConcur <- 2, MaxHeld <- 4, LocalNid <- 0, Budgets <- Budgets, mWriteQuota <- v1,
         mHolders <- v2, flow <- v3, client <- v4, thread <- v5, mCurConcur <- v6,
         mIoQueue <- v7, mQuotaMgr <- v8, mIoQueueMap <- v9, mTaskRunFlag <- v10,
         mPreloadSize <- v11, tasks <- v12, task <- v13, storing <- v14, late <- v15,
         slack <- v16, left <- v17

\* Three periods of traffic in a ring of four.
Over == INSTANCE OverloadCtrl WITH
         MAX_OVERLOAD_STAT_CYCLE_NUM <- 4, CycleNum <- 2, Count <- {1, 4}, MaxTotal <- 5,
         MaxPeriod <- 3, NO_100 <- 4, Page <- 2, MAX_PRELOAD_QUOTA_SIZE <- 16,
         MIN_PRELOAD_QUOTA_SIZE <- 8, Available <- {0, 20}, bwStatObj <- v1, reading <- v2,
         mAdjustWQuota <- v3, isAdjust <- v4, added <- v5, period <- v6

ASSUME Exec!ExecutorConstants /\ Shm!NotifyConstants /\ IsFiniteSet({"t1", "t2"})

Init ==
    \/ part = "ring" /\ Ring!Init /\ Rest3
    \/ part = "mmsring" /\ Ring!MmsInit /\ Rest3
    \/ part = "exec" /\ Exec!Init /\ Rest10
    \/ part = "mmsexec" /\ Exec!MmsInit /\ Rest10
    \/ part = "pool" /\ Pool!Init /\ Rest7
    \/ part = "mmspool" /\ Pool!MmsInit /\ Rest7
    \/ part = "blocks" /\ Blocks!Init /\ Rest8
    \/ part = "mmsblocks" /\ Blocks!MmsStart /\ Rest8
    \/ part = "aio" /\ Aio!Init /\ Rest14
    \/ part = "shm" /\ Shm!Init /\ Rest13
    \/ part = "disp" /\ Disp!Init /\ Rest17
    \/ part = "quota" /\ Quota!Init
    \/ part = "over" /\ Over!Init /\ Rest7

Next ==
    /\ UNCHANGED part
    /\ \/ part = "ring" /\ Ring!Next /\ UNCHANGED <<v3, v4, v5, v6, v7, v8, v9, v10, v11, v12, v13, v14, v15, v16, v17>>
       \/ part = "mmsring" /\ Ring!MmsNext /\ UNCHANGED <<v3, v4, v5, v6, v7, v8, v9, v10, v11, v12, v13, v14, v15, v16, v17>>
       \/ part = "exec" /\ Exec!Next /\ UNCHANGED <<v10, v11, v12, v13, v14, v15, v16, v17>>
       \/ part = "mmsexec" /\ Exec!MmsNext /\ UNCHANGED <<v10, v11, v12, v13, v14, v15, v16, v17>>
       \/ part = "pool" /\ Pool!Next /\ UNCHANGED <<v7, v8, v9, v10, v11, v12, v13, v14, v15, v16, v17>>
       \/ part = "mmspool" /\ Pool!MmsNext /\ UNCHANGED <<v7, v8, v9, v10, v11, v12, v13, v14, v15, v16, v17>>
       \/ part = "blocks" /\ Blocks!Next /\ UNCHANGED <<v8, v9, v10, v11, v12, v13, v14, v15, v16, v17>>
       \/ part = "mmsblocks" /\ Blocks!MmsNext /\ UNCHANGED <<v8, v9, v10, v11, v12, v13, v14, v15, v16, v17>>
       \/ part = "aio" /\ Aio!Next /\ UNCHANGED <<v14, v15, v16, v17>>
       \/ part = "shm" /\ Shm!Next /\ UNCHANGED <<v13, v14, v15, v16, v17>>
       \/ part = "disp" /\ Disp!Next /\ UNCHANGED <<v17>>
       \/ part = "quota" /\ Quota!Next
       \/ part = "over" /\ Over!Next /\ UNCHANGED <<v7, v8, v9, v10, v11, v12, v13, v14, v15, v16, v17>>

Spec == Init /\ [][Next]_vars
-----------------------------------------------------------------------------
\* Nothing that was handed over is lost, invented, doubled or out of order: a ring
\* holds what its caller put in; a block is free or held by one user; an event in
\* shared memory is delivered as it was placed; the dispatcher deals with what it
\* accepted; the bytes reported to the overload control are counted in a period; a
\* device request is called back exactly once, whatever is submitted in part,
\* retried or failed (bdm_disk.c).
NothingLost ==
    /\ part \in {"ring", "mmsring"} => Ring!RingIsQueue
    /\ part \in {"blocks", "mmsblocks"} => Blocks!BlocksKept
    /\ part = "shm" => Shm!NotifyIntact
    /\ part = "disp" => Disp!EventsKept
    /\ part = "over" => Over!TrafficCounted
    /\ part = "aio" => Aio!CalledBackOnce

\* Nobody sleeps over work: a task in the ring has a post or a thread that will
\* take it, a task of the cluster manager's pool a thread that is awake, a
\* completion an events thread that will see it, and a put that waits for quota a
\* task that will serve it.
NothingStranded ==
    /\ part \in {"exec", "mmsexec"} => Exec!NoTaskStranded
    /\ part \in {"pool", "mmspool"} => Pool!QueuedIsAttended
    /\ part = "aio" => Aio!CompletionSeen
    /\ part = "quota" => Quota!WaitersAreServed

\* What a server has granted and stored stays within its limit, but for what is
\* in use without quota (write_quota.cpp).
QuotaBounded == part = "quota" => Quota!QuotaBounded

\* An event placed in a session's queue reaches the callback of the client the
\* session was made for, once nothing is under way.
AllNotified == part = "shm" => Shm!AllNotified
=============================================================================
