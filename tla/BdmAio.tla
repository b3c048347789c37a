------------------------------- MODULE BdmAio -------------------------------
(***************************************************************************)
(* Asynchronous disk I/O (disk/common/bdm_disk.c and the BDM thread pool): *)
(* BdmReadAsync and BdmWriteAsync queue the request with one of the worker *)
(* threads, the worker submits what it finds in batches to its kernel I/O  *)
(* context, and an events thread per context sleeps in epoll_wait on the   *)
(* context's eventfd (edge-triggered, never read), collects completions    *)
(* and calls the caller back.                                              *)
(***************************************************************************)
EXTENDS Integers, Sequences, FiniteSets, SequencesExt

CONSTANTS
  Io, Worker,
  BDM_BATCH_HANDLE_NUM, BDM_IOCTX_EVENTS_NUM, BDM_IO_RETRY_NUM, QueueSize,
  MaxShort,   \* batches the kernel takes only in part
  MaxError,   \* transfers that fail
  MaxBusy     \* re-submissions that fail

VARIABLES
  index,      \* g_bdmIndex, modulo the workers
  queue,      \* per worker, the queued requests
  thread,     \* per worker thread: "top", "sleep" (holds the mutex), "wait", "submit"
  batch,      \* per worker, the requests between the queue and io_submit
  kernel,     \* the requests the kernel works on
  done,       \* per context, the completions not collected yet
  signal,     \* per context, completions whose eventfd is not written yet
  edge,       \* per context, an edge epoll has not reported yet
  events,     \* per events thread: "epoll" or "get"
  taken,      \* per events thread, the collected completions
  io,         \* per request: worker, retryNum, the results of its callbacks
  faults,     \* the number of faults reported to the cluster manager
  left

vars == <<index, queue, thread, batch, kernel, done, signal, edge, events, taken, io, faults, left>>

None == [w |-> 0, retryNum |-> 0, calls |-> <<>>]

Init ==
  /\ index = 0
  /\ queue = [w \in Worker |-> <<>>]
  /\ thread = [w \in Worker |-> "top"]
  /\ batch = [w \in Worker |-> <<>>]
  /\ kernel = {}
  /\ done = [w \in Worker |-> <<>>]
  /\ signal = [w \in Worker |-> 0]
  /\ edge = [w \in Worker |-> FALSE]
  /\ events = [w \in Worker |-> "epoll"]
  /\ taken = [w \in Worker |-> <<>>]
  /\ io = [i \in Io |-> None]
  /\ faults = 0
  /\ left = [short |-> MaxShort, error |-> MaxError, busy |-> MaxBusy]

-----------------------------------------------------------------------------
(* BdmDiskHandleAIO and BdmThreadPoolAdd: the workers in turn; the caller  *)
(* waits while the queue is full.                                          *)
BdmDiskHandleAIO(i) ==
  LET w == index + 1 IN
  /\ io[i] = None
  /\ thread[w] # "sleep" /\ Len(queue[w]) + 1 < QueueSize
  /\ index' = (index + 1) % Cardinality(Worker)
  /\ io' = [io EXCEPT ![i].w = w]
  /\ queue' = [queue EXCEPT ![w] = Append(@, i)]
  /\ thread' = [thread EXCEPT ![w] = IF @ = "wait" THEN "top" ELSE @]
  /\ UNCHANGED <<batch, kernel, done, signal, edge, events, taken, faults, left>>

(* BdmThreadBatchThread: sleep on an empty queue, else take a batch. *)
BatchLook(w) ==
  /\ thread[w] = "top"
  /\ LET n == IF Len(queue[w]) < BDM_BATCH_HANDLE_NUM THEN Len(queue[w]) ELSE BDM_BATCH_HANDLE_NUM IN
     /\ batch' = [batch EXCEPT ![w] = SubSeq(queue[w], 1, n)]
     /\ queue' = [queue EXCEPT ![w] = SubSeq(@, n + 1, Len(@))]
     /\ thread' = [thread EXCEPT ![w] = IF n = 0 THEN "sleep" ELSE "submit"]
  /\ UNCHANGED <<index, kernel, done, signal, edge, events, taken, io, faults, left>>

BatchSleep(w) ==
  /\ thread[w] = "sleep"
  /\ thread' = [thread EXCEPT ![w] = "wait"]
  /\ UNCHANGED <<index, queue, batch, kernel, done, signal, edge, events, taken, io, faults, left>>

(* The requests io_setup(BDM_IOCTX_EVENTS_NUM) still leaves room for. *)
Room(w) == BDM_IOCTX_EVENTS_NUM - Len(done[w]) - Cardinality({i \in kernel : io[i].w = w})

(* BdmDiskSubmitAIO: when io_submit takes only the first ones, the error   *)
(* is logged and the others are given up.                                  *)
BdmDiskSubmitAIO(w) ==
  /\ thread[w] = "submit"
  /\ \E n \in {k \in 0 .. Len(batch[w]) : k <= Room(w)} :
       /\ n < Len(batch[w]) => left.short > 0
       /\ left' = IF n < Len(batch[w]) THEN [left EXCEPT !.short = @ - 1] ELSE left
       /\ kernel' = kernel \cup ToSet(SubSeq(batch[w], 1, n))
  /\ batch' = [batch EXCEPT ![w] = <<>>]
  /\ thread' = [thread EXCEPT ![w] = "top"]
  /\ UNCHANGED <<index, queue, done, signal, edge, events, taken, io, faults>>

-----------------------------------------------------------------------------
(* The kernel: a completion enters the ring of the context first, then the *)
(* eventfd is written and epoll gets an edge.                              *)
KernelCompletes(i) ==
  /\ i \in kernel
  /\ kernel' = kernel \ {i}
  /\ \E res \in {"ok", "error"} :
       /\ res = "error" => left.error > 0
       /\ left' = IF res = "error" THEN [left EXCEPT !.error = @ - 1] ELSE left
       /\ done' = [done EXCEPT ![io[i].w] = Append(@, [io |-> i, res |-> res])]
  /\ signal' = [signal EXCEPT ![io[i].w] = @ + 1]
  /\ UNCHANGED <<index, queue, thread, batch, edge, events, taken, io, faults>>

KernelSignals(w) ==
  /\ signal[w] > 0
  /\ signal' = [signal EXCEPT ![w] = @ - 1]
  /\ edge' = [edge EXCEPT ![w] = TRUE]
  /\ UNCHANGED <<index, queue, thread, batch, kernel, done, events, taken, io, faults, left>>

-----------------------------------------------------------------------------
(* BdmDiskEventsThread *)
EpollWait(w) ==
  /\ events[w] = "epoll" /\ taken[w] = <<>> /\ edge[w]
  /\ edge' = [edge EXCEPT ![w] = FALSE]
  /\ events' = [events EXCEPT ![w] = "get"]
  /\ UNCHANGED <<index, queue, thread, batch, kernel, done, signal, taken, io, faults, left>>

GetEvents(w) ==
  /\ events[w] = "get" /\ done[w] # <<>>
  /\ LET n == IF Len(done[w]) < BDM_IOCTX_EVENTS_NUM THEN Len(done[w]) ELSE BDM_IOCTX_EVENTS_NUM IN
     /\ taken' = [taken EXCEPT ![w] = SubSeq(done[w], 1, n)]
     /\ done' = [done EXCEPT ![w] = SubSeq(@, n + 1, Len(@))]
  /\ events' = [events EXCEPT ![w] = "epoll"]
  /\ UNCHANGED <<index, queue, thread, batch, kernel, signal, edge, io, faults, left>>

Callback(i, res) == io' = [io EXCEPT ![i].calls = Append(@, res)]
NextTaken(w) == taken' = [taken EXCEPT ![w] = Tail(@)]

(* BdmCompleteIOHandler, for a completion without a retry: success, or the *)
(* last attempt has failed.                                                *)
CompleteIo(w) ==
  /\ taken[w] # <<>>
  /\ LET e == Head(taken[w]) IN
     /\ e.res = "ok" \/ io[e.io].retryNum = BDM_IO_RETRY_NUM
     /\ Callback(e.io, e.res)
  /\ NextTaken(w)
  /\ UNCHANGED <<index, queue, thread, batch, kernel, done, signal, edge, events, faults, left>>

\* mutant: the caller is called back although the request is in the kernel again
RetryIoCalls(w) ==
  /\ taken[w] # <<>>
  /\ LET e == Head(taken[w]) IN
     /\ e.res = "error" /\ io[e.io].retryNum < BDM_IO_RETRY_NUM
     /\ kernel' = kernel \cup {e.io}
     /\ io' = [io EXCEPT ![e.io].retryNum = @ + 1, ![e.io].calls = Append(@, "error")]
  /\ NextTaken(w)
  /\ UNCHANGED <<index, queue, thread, batch, done, signal, edge, events, faults, left>>

(* ... and for one that is submitted again (BdmDiskRetryIo; -EAGAIN is     *)
(* tried until there is room).                                             *)
RetryIo(w) ==
  /\ taken[w] # <<>>
  /\ LET e == Head(taken[w]) IN
     /\ e.res = "error" /\ io[e.io].retryNum < BDM_IO_RETRY_NUM
     /\ Room(w) > 0
     /\ kernel' = kernel \cup {e.io}
     /\ io' = [io EXCEPT ![e.io].retryNum = @ + 1]
  /\ NextTaken(w)
  /\ UNCHANGED <<index, queue, thread, batch, done, signal, edge, events, faults, left>>

(* ... or cannot be: the disk is reported and the caller told. *)
RetryFails(w) ==
  /\ taken[w] # <<>> /\ left.busy > 0
  /\ LET e == Head(taken[w]) IN
     /\ e.res = "error" /\ io[e.io].retryNum < BDM_IO_RETRY_NUM
     /\ io' = [io EXCEPT ![e.io].retryNum = @ + 1, ![e.io].calls = Append(@, "error")]
  /\ faults' = faults + 1
  /\ left' = [left EXCEPT !.busy = @ - 1]
  /\ NextTaken(w)
  /\ UNCHANGED <<index, queue, thread, batch, kernel, done, signal, edge, events>>

Next ==
  \/ \E i \in Io : BdmDiskHandleAIO(i) \/ KernelCompletes(i)
  \/ \E w \in Worker :
       \/ BatchLook(w) \/ BatchSleep(w) \/ BdmDiskSubmitAIO(w)
       \/ KernelSignals(w) \/ EpollWait(w) \/ GetEvents(w)
       \/ CompleteIo(w) \/ RetryIo(w) \/ RetryFails(w)

Spec == Init /\ [][Next]_vars

-----------------------------------------------------------------------------
Times(i, s) == Cardinality({k \in DOMAIN s : s[k] = i})
(* The places a request is in: queued, in a batch, in the kernel, completed. *)
Places(i) ==
  LET w == io[i].w IN
  Times(i, queue[w]) + Times(i, batch[w]) + (IF i \in kernel THEN 1 ELSE 0)
    + Cardinality({k \in DOMAIN done[w] : done[w][k].io = i})
    + Cardinality({k \in DOMAIN taken[w] : taken[w][k].io = i})

(* An accepted request is at one place on its way until its caller is      *)
(* called back, once; after the callback nothing of it is left in the      *)
(* queues or in the kernel, so the caller may reuse the buffer and the     *)
(* context that lies in it (BdmDiskSubmitAIO, BdmCompleteIOHandler).       *)
(* Requests of a batch that io_submit refused may be nowhere.              *)
CalledBackOnce ==
  \A i \in {j \in Io : io[j] # None} :
    /\ Places(i) + Len(io[i].calls) <= 1
    /\ left.short = MaxShort => Places(i) + Len(io[i].calls) = 1

(* No completion is overlooked: while an events thread sleeps in           *)
(* epoll_wait, a completion it has not collected has an edge waiting or    *)
(* its signal still to come (BdmDiskEventsThread, with an edge-triggered   *)
(* eventfd).                                                               *)
CompletionSeen ==
  \A w \in Worker :
    events[w] = "epoll" /\ taken[w] = <<>> /\ done[w] # <<>> => edge[w] \/ signal[w] > 0
=============================================================================
