---------------------------- MODULE CmThreadPool ----------------------------
(***************************************************************************)
(* The thread pool of the cluster manager (cluster/common/cm_threadpool.c):*)
(* a ring of tasks under mutexQueue and a condition variable the threads   *)
(* sleep on.  Destroy holds mutexPool only, so it can run between a        *)
(* thread's look at the queue and its sleep.                               *)
(***************************************************************************)
EXTENDS Integers, Sequences, FiniteSets, FiniteSetTheorems, TLAPS

CONSTANTS Thread, QueueSize, MaxTask

VARIABLES
  exit,     \* pool->exit
  queue,    \* the tasks from queueHead to queueTail
  thread,   \* per thread: "none", "top", "sleep" (looked, still holds the
            \*   mutex), "wait", "run", "gone"
  ran,      \* the tasks whose callback was called
  added,    \* the number of tasks handed in
  owner     \* the thread that creates, fills and destroys the pool

vars == <<exit, queue, thread, ran, added, owner>>

Init ==
  /\ exit = "RUNNING"
  /\ queue = <<>>
  /\ thread = [t \in Thread |-> "none"]
  /\ ran = {}
  /\ added = 0
  /\ owner = "creating"

At(s) == {t \in Thread : thread[t] = s}
QueueMutexFree == At("sleep") = {}

-----------------------------------------------------------------------------
(* CmThreadPoolCreate: a thread that cannot be made takes the pool down    *)
(* again, with flags 0.                                                    *)
CreateThread(t) ==
  /\ owner = "creating"
  /\ thread[t] = "none"
  /\ thread' = [thread EXCEPT ![t] = "top"]
  /\ UNCHANGED <<exit, queue, ran, added, owner>>

Created ==
  /\ owner = "creating"
  /\ At("none") = {}
  /\ owner' = "using"
  /\ UNCHANGED <<exit, queue, thread, ran, added>>

-----------------------------------------------------------------------------

(* CmThreadPoolAdd with ThreadPoolEnqueue: retried until there is room;    *)
(* the signal wakes one sleeper, if there is one.                          *)
Enqueue ==
  /\ owner = "using" /\ QueueMutexFree /\ added < MaxTask /\ Len(queue) + 1 < QueueSize
  /\ added' = added + 1
  /\ queue' = Append(queue, added')
  /\ IF At("wait") = {} THEN UNCHANGED thread
     ELSE \E t \in At("wait") : thread' = [thread EXCEPT ![t] = "top"]
  /\ UNCHANGED <<exit, ran, owner>>

-----------------------------------------------------------------------------
(* CmThreadPoolDestroy(flags): the flag decides how the threads leave;     *)
(* the broadcast reaches the threads that already sleep.                   *)
CmThreadPoolDestroy(flags) ==
  /\ exit' = IF flags = 0 THEN "EXIT_DELAY" ELSE "EXIT_IMMEDIATELY"
  /\ thread' = [t \in Thread |-> IF thread[t] = "wait" THEN "top" ELSE thread[t]]
  /\ owner' = "joining"
  /\ UNCHANGED <<queue, ran, added>>

CreateFails == owner = "creating" /\ At("none") # {} /\ CmThreadPoolDestroy(0)

(* The schedules of client and server pass THREAD_POOL_EXIT_DELAY, 1. *)
ScheduleExit == owner = "using" /\ CmThreadPoolDestroy(1)

Joined ==
  /\ owner = "joining"
  /\ \A t \in Thread : thread[t] \in {"none", "gone"}
  /\ owner' = "done"
  /\ queue' = <<>>
  /\ UNCHANGED <<exit, thread, ran, added>>

-----------------------------------------------------------------------------
(* ThreadPoolThread, from the lock of mutexQueue on. *)
Look(t) ==
  /\ thread[t] = "top" /\ QueueMutexFree
  /\ thread' = [thread EXCEPT ![t] =
       IF exit = "RUNNING" /\ queue = <<>> THEN "sleep"
       ELSE IF exit = "EXIT_IMMEDIATELY" \/ queue = <<>> THEN "gone" ELSE "run"]
  /\ IF exit # "EXIT_IMMEDIATELY" /\ queue # <<>>
       THEN queue' = Tail(queue) /\ ran' = ran \cup {Head(queue)}
       ELSE UNCHANGED <<queue, ran>>
  /\ UNCHANGED <<exit, added, owner>>

Sleep(t) ==
  /\ thread[t] = "sleep"
  /\ thread' = [thread EXCEPT ![t] = "wait"]
  /\ UNCHANGED <<exit, queue, ran, added, owner>>

Returned(t) ==
  /\ thread[t] = "run"
  /\ thread' = [thread EXCEPT ![t] = "top"]
  /\ UNCHANGED <<exit, queue, ran, added, owner>>

ThreadPoolThread(t) == Look(t) \/ Sleep(t) \/ Returned(t)

Next ==
  \/ Created \/ Enqueue \/ CreateFails \/ ScheduleExit \/ Joined
  \/ \E t \in Thread : CreateThread(t) \/ ThreadPoolThread(t)

Spec == Init /\ [][Next]_vars

-----------------------------------------------------------------------------
(* While a thread of the pool sleeps, every queued task has a thread that  *)
(* is awake and on its way to the queue: a signal is never spent on a      *)
(* thread that another task keeps busy (ThreadPoolEnqueue and the wait of  *)
(* ThreadPoolThread).                                                      *)
QueuedIsAttended == At("wait") # {} => Len(queue) <= Cardinality(At("top"))

-----------------------------------------------------------------------------
(* MemStore's copy of the pool.  Its FreeRes destroys the mutexes, the     *)
(* condition variable and the semaphore as well; the steps are the same.   *)
MmsInit == Init

MmsCmThreadPoolCreate == Created \/ CreateFails \/ \E t \in Thread : CreateThread(t)
MmsCmThreadPoolAdd == Enqueue
MmsCmThreadPoolDestroy == ScheduleExit \/ Joined
MmsThreadPoolThread(t) == Look(t) \/ Sleep(t) \/ Returned(t)

MmsNext ==
  \/ MmsCmThreadPoolCreate \/ MmsCmThreadPoolAdd \/ MmsCmThreadPoolDestroy
  \/ \E t \in Thread : MmsThreadPoolThread(t)

-----------------------------------------------------------------------------
(* Proof of QueuedIsAttended for every number of threads and every queue.  *)

PoolTypes ==
  /\ exit \in {"RUNNING", "EXIT_DELAY", "EXIT_IMMEDIATELY"}
  /\ queue \in Seq(Nat) /\ added \in Nat
  /\ thread \in [Thread -> {"none", "top", "sleep", "wait", "run", "gone"}]
  /\ owner \in {"creating", "using", "joining", "done"}

\* A thread about to sleep has seen the queue empty and still holds the mutex;
\* once the pool is told to exit nothing is queued any more, so a thread that
\* slept through the broadcast sleeps over an empty queue.
PoolInv ==
  /\ PoolTypes
  /\ At("sleep") # {} => queue = <<>>
  /\ exit # "RUNNING" => owner \in {"joining", "done"}
  /\ exit # "RUNNING" /\ At("wait") # {} => queue = <<>>
  /\ owner = "creating" => queue = <<>>
  /\ QueuedIsAttended

\* Moving one thread to or from the top of its loop moves the count by one.
LEMMA TopCount ==
  ASSUME IsFiniteSet(Thread), PoolTypes, NEW t \in Thread, NEW s \in {"top", "sleep", "wait", "run", "gone"},
         thread' = [thread EXCEPT ![t] = s]
  PROVE  /\ Cardinality(At("top")) \in Nat /\ Cardinality(At("top"))' \in Nat
         /\ s = "top" /\ thread[t] # "top" => Cardinality(At("top"))' = Cardinality(At("top")) + 1
         /\ s # "top" /\ thread[t] = "top" => Cardinality(At("top"))' = Cardinality(At("top")) - 1
<1>1. IsFiniteSet(At("top")) /\ IsFiniteSet(At("top")')
  <2>1. At("top") \subseteq Thread /\ At("top")' \subseteq Thread
    BY DEF At
  <2> QED
    BY <2>1, FS_Subset
<1>2. Cardinality(At("top")) \in Nat /\ Cardinality(At("top")') \in Nat
    BY <1>1, FS_CardinalityType
<1>3. ASSUME s = "top", thread[t] # "top" PROVE Cardinality(At("top")') = Cardinality(At("top")) + 1
  <2>1. At("top")' = At("top") \cup {t} /\ t \notin At("top")
    BY <1>3 DEF At, PoolTypes
  <2> QED
    BY <1>1, <2>1, FS_AddElement
<1>4. ASSUME s # "top", thread[t] = "top" PROVE Cardinality(At("top")') = Cardinality(At("top")) - 1
  <2>1. At("top")' = At("top") \ {t} /\ t \in At("top")
    BY <1>4 DEF At, PoolTypes
  <2> QED
    BY <1>1, <2>1, FS_RemoveElement
<1> QED
    BY <1>2, <1>3, <1>4

\* The pool's invariant holds at first.
LEMMA PoolInit == Init => PoolInv
<1> SUFFICES ASSUME Init PROVE PoolInv
    OBVIOUS
<1>1. PoolTypes
    BY DEF Init, PoolTypes
<1>2. At("wait") = {} /\ At("sleep") = {}
    BY DEF Init, At
<1> QED
    BY <1>1, <1>2 DEF Init, PoolInv, QueuedIsAttended

\* A step of a pool thread keeps it.
LEMMA ThreadStep ==
  ASSUME IsFiniteSet(Thread), PoolInv, NEW t \in Thread, ThreadPoolThread(t)
  PROVE  PoolInv'
<1>t. PoolTypes /\ Len(queue) \in Nat
    BY DEF PoolInv, PoolTypes
<1>1. ASSUME Look(t) PROVE PoolInv'
  <2> DEFINE s == IF exit = "RUNNING" /\ queue = <<>> THEN "sleep"
                  ELSE IF exit = "EXIT_IMMEDIATELY" \/ queue = <<>> THEN "gone" ELSE "run"
  <2>1. /\ thread[t] = "top" /\ At("sleep") = {} /\ thread' = [thread EXCEPT ![t] = s]
        /\ UNCHANGED <<exit, added, owner>>
    BY <1>1 DEF Look, QueueMutexFree
  <2>2. s \in {"sleep", "gone", "run"}
    OBVIOUS
  <2>3. /\ exit # "EXIT_IMMEDIATELY" /\ queue # <<>> => queue' = Tail(queue) /\ Len(queue') = Len(queue) - 1 /\ Len(queue) >= 1
        /\ ~(exit # "EXIT_IMMEDIATELY" /\ queue # <<>>) => queue' = queue
        /\ queue' \in Seq(Nat)
    BY <1>1, <1>t DEF Look, PoolTypes
  <2>4. s = "sleep" => queue' = <<>>
    BY <2>3
  <2>5. queue = <<>> => queue' = <<>>
    BY <2>3
  <2>6. s = "run" <=> exit # "EXIT_IMMEDIATELY" /\ queue # <<>>
    BY <1>t DEF PoolTypes
  <2> HIDE DEF s
  <2>7. PoolTypes'
    BY <1>t, <2>1, <2>2, <2>3 DEF PoolTypes
  <2>8. At("wait")' = At("wait") /\ At("sleep")' = (IF s = "sleep" THEN {t} ELSE {})
    BY <1>t, <2>1, <2>2 DEF At, PoolTypes
  <2>9. Cardinality(At("top")) \in Nat /\ Cardinality(At("top"))' = Cardinality(At("top")) - 1
        /\ Cardinality(At("top"))' \in Nat
    BY <1>t, <2>1, <2>2, TopCount
  <2>10. QueuedIsAttended'
    <3>1. SUFFICES ASSUME At("wait") # {} PROVE Len(queue') <= Cardinality(At("top"))'
      BY <2>8 DEF QueuedIsAttended
    <3>2. Len(queue) <= Cardinality(At("top"))
      BY <3>1 DEF PoolInv, QueuedIsAttended
    <3>3. CASE s = "run"
      BY <1>t, <2>3, <2>6, <2>9, <3>2, <3>3
    <3>4. CASE s # "run"
      <4>1. queue = <<>>
        BY <1>t, <2>6, <3>1, <3>4 DEF PoolInv, PoolTypes
      <4> QED
        BY <2>5, <2>9, <4>1
    <3> QED
      BY <3>3, <3>4
  <2> QED
    BY <2>1, <2>4, <2>5, <2>7, <2>8, <2>10 DEF PoolInv
<1>2. ASSUME Sleep(t) PROVE PoolInv'
  <2>1. /\ thread[t] = "sleep" /\ thread' = [thread EXCEPT ![t] = "wait"] /\ UNCHANGED <<exit, queue, added, owner>>
    BY <1>2 DEF Sleep
  <2>2. queue = <<>>
    BY <2>1 DEF PoolInv, At
  <2>3. PoolTypes'
    BY <1>t, <2>1 DEF PoolTypes
  <2>4. Cardinality(At("top"))' \in Nat
    BY <1>t, <2>1, TopCount
  <2> QED
    BY <2>1, <2>2, <2>3, <2>4 DEF PoolInv, QueuedIsAttended
<1>3. ASSUME Returned(t) PROVE PoolInv'
  <2>1. /\ thread[t] = "run" /\ thread' = [thread EXCEPT ![t] = "top"] /\ UNCHANGED <<exit, queue, added, owner>>
    BY <1>3 DEF Returned
  <2>2. PoolTypes'
    BY <1>t, <2>1 DEF PoolTypes
  <2>3. At("wait")' = At("wait") /\ At("sleep")' = At("sleep")
    BY <1>t, <2>1 DEF At, PoolTypes
  <2>4. Cardinality(At("top")) \in Nat /\ Cardinality(At("top"))' = Cardinality(At("top")) + 1
    BY <1>t, <2>1, TopCount
  <2>5. QueuedIsAttended'
    BY <1>t, <2>1, <2>3, <2>4 DEF PoolInv, QueuedIsAttended
  <2> QED
    BY <2>1, <2>2, <2>3, <2>5 DEF PoolInv
<1> QED
    BY <1>1, <1>2, <1>3 DEF ThreadPoolThread

\* A step of the thread that creates, fills and destroys the pool keeps it.
LEMMA OwnerStep ==
  ASSUME IsFiniteSet(Thread), PoolInv,
         Created \/ Enqueue \/ CreateFails \/ ScheduleExit \/ Joined \/ \E t \in Thread : CreateThread(t)
  PROVE  PoolInv'
<1>t. PoolTypes /\ Len(queue) \in Nat
    BY DEF PoolInv, PoolTypes
<1>1. ASSUME Created PROVE PoolInv'
  <2>1. owner' = "using" /\ owner = "creating" /\ UNCHANGED <<exit, queue, thread, added>>
    BY <1>1 DEF Created
  <2> QED
    BY <1>t, <2>1 DEF PoolInv, PoolTypes, QueuedIsAttended, At
<1>2. ASSUME NEW t \in Thread, CreateThread(t) PROVE PoolInv'
  <2>1. /\ owner = "creating" /\ thread[t] = "none" /\ thread' = [thread EXCEPT ![t] = "top"]
        /\ UNCHANGED <<exit, queue, added, owner>>
    BY <1>2 DEF CreateThread
  <2>2. queue = <<>>
    BY <2>1 DEF PoolInv
  <2>3. PoolTypes' /\ Cardinality(At("top"))' \in Nat
    BY <1>t, <2>1, TopCount DEF PoolTypes
  <2> QED
    BY <2>1, <2>2, <2>3 DEF PoolInv, QueuedIsAttended
<1>3. ASSUME Enqueue PROVE PoolInv'
  <2>1. /\ owner = "using" /\ At("sleep") = {} /\ queue' = Append(queue, added') /\ added' = added + 1
        /\ UNCHANGED <<exit, owner>>
    BY <1>3 DEF Enqueue, QueueMutexFree
  <2>2. exit = "RUNNING" /\ queue' \in Seq(Nat) /\ Len(queue') = Len(queue) + 1
    BY <1>t, <2>1 DEF PoolInv, PoolTypes
  <2>3. CASE At("wait") = {}
    <3>1. UNCHANGED thread
      BY <1>3, <2>3 DEF Enqueue
    <3>2. At("wait")' = {} /\ At("sleep")' = {}
      BY <2>1, <2>3, <3>1 DEF At
    <3> QED
      BY <1>t, <2>1, <2>2, <3>1, <3>2 DEF PoolInv, PoolTypes, QueuedIsAttended
  <2>4. CASE At("wait") # {}
    <3>1. PICK t \in At("wait") : thread' = [thread EXCEPT ![t] = "top"]
      BY <1>3, <2>4 DEF Enqueue
    <3>2. t \in Thread /\ thread[t] = "wait"
      BY DEF At
    <3>3. Cardinality(At("top")) \in Nat /\ Cardinality(At("top"))' = Cardinality(At("top")) + 1
      BY <1>t, <3>1, <3>2, TopCount
    <3>4. At("sleep")' = {}
      BY <1>t, <2>1, <3>1, <3>2 DEF At, PoolTypes
    <3>5. PoolTypes'
      BY <1>t, <2>1, <2>2, <3>1, <3>2 DEF PoolTypes
    <3>6. QueuedIsAttended'
      BY <1>t, <2>2, <2>4, <3>3 DEF PoolInv, QueuedIsAttended
    <3> QED
      BY <2>1, <2>2, <3>4, <3>5, <3>6 DEF PoolInv
  <2> QED
    BY <2>3, <2>4
<1>4. ASSUME NEW flags \in {0, 1}, CmThreadPoolDestroy(flags) PROVE PoolInv'
  <2>1. /\ exit' \in {"EXIT_DELAY", "EXIT_IMMEDIATELY"} /\ owner' = "joining" /\ UNCHANGED <<queue, added>>
        /\ thread' = [t \in Thread |-> IF thread[t] = "wait" THEN "top" ELSE thread[t]]
    BY <1>4 DEF CmThreadPoolDestroy
  <2>2. At("wait")' = {} /\ At("sleep")' = At("sleep")
    BY <2>1 DEF At
  <2>3. PoolTypes'
    BY <1>t, <2>1 DEF PoolTypes
  <2> QED
    BY <2>1, <2>2, <2>3 DEF PoolInv, QueuedIsAttended
<1>5. ASSUME Joined PROVE PoolInv'
  <2>1. owner' = "done" /\ queue' = <<>> /\ UNCHANGED <<exit, thread, added>>
    BY <1>5 DEF Joined
  <2>2. At("top")' = At("top") /\ At("top") \subseteq Thread
    BY <2>1 DEF At
  <2>3. Cardinality(At("top")') \in Nat
    BY <2>2, FS_Subset, FS_CardinalityType
  <2> QED
    BY <1>t, <2>1, <2>3 DEF PoolInv, PoolTypes, QueuedIsAttended
<1> QED
    BY <1>1, <1>2, <1>3, <1>4, <1>5 DEF CreateFails, ScheduleExit

\* While a thread of the pool sleeps every queued task has a thread awake for
\* it, whatever creation, CmThreadPoolAdd, the threads and CmThreadPoolDestroy
\* interleave, for every number of threads and every queue size.
THEOREM PoolAttended ==
  ASSUME IsFiniteSet(Thread)
  PROVE  Spec => []QueuedIsAttended
<1>1. Init => PoolInv
    BY PoolInit
<1>2. PoolInv /\ [Next]_vars => PoolInv'
  <2> SUFFICES ASSUME PoolInv, [Next]_vars PROVE PoolInv'
    OBVIOUS
  <2>1. CASE UNCHANGED vars
    BY <2>1 DEF vars, PoolInv, PoolTypes, QueuedIsAttended, At
  <2>2. CASE Next
    BY <2>2, ThreadStep, OwnerStep DEF Next
  <2> QED
    BY <2>1, <2>2
<1>3. PoolInv => QueuedIsAttended
    BY DEF PoolInv
<1> QED
    BY <1>1, <1>2, <1>3, PTL DEF Spec
=============================================================================
