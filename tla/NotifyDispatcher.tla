-------------------------- MODULE NotifyDispatcher --------------------------
(***************************************************************************)
(* Data-change notifications inside the server process of MemStore         *)
(* (server/mms_notify.cpp): request threads put events into a bounded ring *)
(* guarded by two semaphores, one worker takes them out in batches and     *)
(* calls the registered callback.                                          *)
(***************************************************************************)
EXTENDS Integers, Sequences, FiniteSets

CONSTANTS Thread, QUEUE_CAPACITY, BATCH_EVENT_NUM, MaxEvent, MaxStart

VARIABLES
  callback,    \* mCallback is set
  mRunning, mStop,
  mFreeSlots, mUsedSlots,
  mQueue, mHead, mTail, mCount,
  thread,      \* per request thread: its place in Notify, and its event
  worker,      \* the worker: its place and its batch
  owner,       \* who registers and stops: "idle", "post", "join"
  next, starts,
  accepted,    \* the events pushed since the worker was started
  handled      \* the events the worker has dealt with since then

vars == <<callback, mRunning, mStop, mFreeSlots, mUsedSlots, mQueue, mHead, mTail, mCount,
          thread, worker, owner, next, starts, accepted, handled>>

ring == <<mQueue, mHead, mTail, mCount>>
life == <<callback, mRunning, mStop, owner, starts>>

Idle == [at |-> "idle", event |-> 0]
Gone == [at |-> "gone", batch |-> <<>>]

Init ==
  /\ callback = FALSE /\ mRunning = FALSE /\ mStop = FALSE
  /\ mFreeSlots = 0 /\ mUsedSlots = 0
  /\ mQueue = [i \in 0 .. QUEUE_CAPACITY - 1 |-> 0]
  /\ mHead = 0 /\ mTail = 0 /\ mCount = 0
  /\ thread = [t \in Thread |-> Idle]
  /\ worker = Gone
  /\ owner = "idle"
  /\ next = 1 /\ starts = 0
  /\ accepted = <<>> /\ handled = <<>>

-----------------------------------------------------------------------------
(* RegisterCallback with StartWorkerLocked; a running worker is kept.  A   *)
(* start while a request of the time before is still inside PushEvent,     *)
(* where it uses semaphores that were destroyed, is left out.              *)
RegisterCallback ==
  /\ owner = "idle" /\ starts < MaxStart /\ ~mRunning
  /\ \A t \in Thread : thread[t] = Idle
  /\ starts' = starts + 1
  /\ callback' = TRUE
  /\ mRunning' = TRUE /\ mStop' = FALSE
  /\ mFreeSlots' = QUEUE_CAPACITY /\ mUsedSlots' = 0
  /\ mHead' = 0 /\ mTail' = 0 /\ mCount' = 0
  /\ worker' = [at |-> "wait", batch |-> <<>>]
  /\ accepted' = <<>> /\ handled' = <<>>
  /\ UNCHANGED <<mQueue, thread, owner, next>>

(* RegisterCallback(nullptr), or Stop: StopWorker posts a whole capacity of *)
(* free slots for the threads that wait, then one used slot, and joins.     *)
StopWorker ==
  /\ owner = "idle" /\ mRunning
  /\ callback' \in {FALSE, callback}
  /\ mStop' = TRUE
  /\ mFreeSlots' = mFreeSlots + QUEUE_CAPACITY
  /\ owner' = "post"
  /\ UNCHANGED <<mRunning, mUsedSlots, ring, thread, worker, next, starts, accepted, handled>>

StopPosts ==
  /\ owner = "post"
  /\ mUsedSlots' = mUsedSlots + 1
  /\ owner' = "join"
  /\ UNCHANGED <<callback, mRunning, mStop, mFreeSlots, ring, thread, worker, next, starts, accepted, handled>>

StopJoins ==
  /\ owner = "join" /\ worker.at = "gone"
  /\ mRunning' = FALSE
  /\ owner' = "idle"
  /\ UNCHANGED <<callback, mStop, mFreeSlots, mUsedSlots, ring, thread, worker, next, starts, accepted, handled>>

-----------------------------------------------------------------------------
(* Notify and PushEvent: a free slot, waited for if there is none ... *)
Notify(t) ==
  /\ thread[t] = Idle /\ mRunning /\ next <= MaxEvent
  /\ thread' = [thread EXCEPT ![t] = [at |-> "slot", event |-> next]]
  /\ next' = next + 1
  /\ UNCHANGED <<life, mFreeSlots, mUsedSlots, ring, worker, accepted, handled>>

TakeSlot(t) ==
  /\ thread[t].at = "slot" /\ mFreeSlots > 0
  /\ mFreeSlots' = mFreeSlots - 1
  /\ thread' = [thread EXCEPT ![t].at = "check"]
  /\ UNCHANGED <<life, mUsedSlots, ring, worker, next, accepted, handled>>

(* ... which goes back if the dispatcher is stopping ... *)
CheckStop(t) ==
  /\ thread[t].at = "check"
  /\ IF mStop THEN mFreeSlots' = mFreeSlots + 1 /\ thread' = [thread EXCEPT ![t] = Idle]
              ELSE UNCHANGED mFreeSlots /\ thread' = [thread EXCEPT ![t].at = "push"]
  /\ UNCHANGED <<life, mUsedSlots, ring, worker, next, accepted, handled>>

(* ... the event under the spin lock ... *)
PushEvent(t) ==
  /\ thread[t].at = "push"
  /\ mQueue' = [mQueue EXCEPT ![mTail] = thread[t].event]
  /\ mTail' = (mTail + 1) % QUEUE_CAPACITY
  /\ mCount' = mCount + 1
  /\ accepted' = Append(accepted, thread[t].event)
  /\ thread' = [thread EXCEPT ![t].at = "post"]
  /\ UNCHANGED <<life, mFreeSlots, mUsedSlots, mHead, worker, next, handled>>

(* ... and the used slot. *)
PostUsed(t) ==
  /\ thread[t].at = "post"
  /\ mUsedSlots' = mUsedSlots + 1
  /\ thread' = [thread EXCEPT ![t] = Idle]
  /\ UNCHANGED <<life, mFreeSlots, ring, worker, next, accepted, handled>>

-----------------------------------------------------------------------------
Pop ==
  /\ mHead' = (mHead + 1) % QUEUE_CAPACITY
  /\ mCount' = mCount - 1
  /\ UNCHANGED <<mQueue, mTail>>

(* WaitEvent: the first event of a batch; none means the end. *)
WaitEvent ==
  /\ worker.at = "wait" /\ mUsedSlots > 0
  /\ mUsedSlots' = mUsedSlots - 1
  /\ IF mCount = 0 THEN worker' = Gone /\ UNCHANGED <<ring, mFreeSlots>>
     ELSE /\ Pop
          /\ mFreeSlots' = mFreeSlots + 1
          /\ worker' = [at |-> "more", batch |-> <<mQueue[mHead]>>]
  /\ UNCHANGED <<life, thread, next, accepted, handled>>

(* WorkerLoop, more events without waiting; a used slot without an event,  *)
(* the stop's, is given back.                                              *)
MoreEvents ==
  /\ worker.at = "more" /\ mUsedSlots > 0 /\ Len(worker.batch) < BATCH_EVENT_NUM
  /\ IF mCount = 0 THEN worker' = [worker EXCEPT !.at = "handle"] /\ UNCHANGED <<ring, mUsedSlots, mFreeSlots>>
     ELSE /\ Pop
          /\ mUsedSlots' = mUsedSlots - 1 /\ mFreeSlots' = mFreeSlots + 1
          /\ worker' = [worker EXCEPT !.batch = Append(@, mQueue[mHead])]
  /\ UNCHANGED <<life, thread, next, accepted, handled>>

(* HandleEventBatch *)
HandleEventBatch ==
  /\ \/ worker.at = "handle"
     \/ worker.at = "more" /\ (mUsedSlots = 0 \/ Len(worker.batch) = BATCH_EVENT_NUM)
  /\ handled' = handled \o worker.batch
  /\ worker' = [at |-> "wait", batch |-> <<>>]
  /\ UNCHANGED <<life, mFreeSlots, mUsedSlots, ring, thread, next, accepted>>

Next ==
  \/ RegisterCallback \/ StopWorker \/ StopPosts \/ StopJoins
  \/ \E t \in Thread : Notify(t) \/ TakeSlot(t) \/ CheckStop(t) \/ PushEvent(t) \/ PostUsed(t)
  \/ WaitEvent \/ MoreEvents \/ HandleEventBatch

Spec == Init /\ [][Next]_vars

-----------------------------------------------------------------------------
(* Every event pushed since the start is handled, in the worker's batch or *)
(* in the ring, in the order of the pushes: the slots a stopping           *)
(* dispatcher hands out for nothing never let a push overwrite the ring.   *)
(* The worker ends only when it was told to, and not before a used slot    *)
(* stands for nothing else than the stop: while it runs there is one used  *)
(* slot, posted or to be posted, for every event in the ring (PushEvent,   *)
(* WaitEvent, WorkerLoop, StopWorker).                                     *)
EventsKept ==
  /\ mCount <= QUEUE_CAPACITY
  /\ accepted = handled \o worker.batch \o [i \in 1 .. mCount |-> mQueue[(mHead + i - 1) % QUEUE_CAPACITY]]
  /\ mRunning => \/ worker.at # "gone"
                 \/ mStop
  /\ worker.at # "gone" =>
       mUsedSlots + Cardinality({t \in Thread : thread[t].at = "post"})
         = mCount + IF owner = "join" THEN 1 ELSE 0
=============================================================================
