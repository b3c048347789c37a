-------------------------------- MODULE Flow --------------------------------
(***************************************************************************)
(* One flow of the cache: an unbounded byte range backed by a sliding      *)
(* window of fixed-size chunks taken from a medium (ubsio-boostio          *)
(* src/flow/flow.cpp, with the media bookkeeping of flow_manager.h).       *)
(*                                                                         *)
(* Caller threads ask for addresses (GetAddrByOffset), give back a prefix  *)
(* (TruncateOffset) or close the flow (Seal).  A pool of workers runs the  *)
(* preload task that allocates chunks ahead of the writers and releases    *)
(* the callers held in HoldWait.  A step is one section under mLock, one   *)
(* access to an unlocked atomic, or one call into the medium.              *)
(***************************************************************************)
EXTENDS Integers, Sequences, FiniteSets

CONSTANTS
    Threads,        \* callers of the flow
    Truncators,     \* the callers that also truncate
    Sealers,        \* the callers that also seal
    Workers,        \* threads of the FlowTaskPool of the flow's medium
    ChunkIds,       \* chunks the medium can hand to this flow
    ChunkSize,      \* mChunkSize
    PreLoadSize,    \* mPreLoadSize: 0 in memory, two segments on disk
    MaxOffset,      \* bound: requests end at or below this offset
    MaxLen,         \* bound: longest request
    SubmitMayFail,  \* may the task pool refuse a task
    Crashes         \* bound: process crashes in a behaviour (0 for memory flows)

ASSUME FlowAssumption ==
    /\ ChunkSize \in Nat \ {0}
    /\ PreLoadSize \in Nat
    /\ MaxOffset \in Nat
    /\ MaxLen \in Nat
    /\ Crashes \in Nat
    /\ SubmitMayFail \in BOOLEAN
    /\ Truncators \subseteq Threads /\ Sealers \subseteq Threads
    /\ IsFiniteSet(ChunkIds)

Free == -1

VARIABLES
    chunkList, truncateOffset, writenOffset, preLoadOffset,
    preLoadFlag, sealed, holdList,
    media,      \* chunk -> the flow offset recorded with it, or Free
    usedSize,   \* FlowManager::mUsedSize: bytes this flow holds on its medium
    frame,      \* the call each caller is in: see Returned
    queued,     \* preload tasks waiting in the pool
    worker,     \* state of each pool thread
    up, crashes

flow == <<chunkList, truncateOffset, writenOffset, preLoadOffset, preLoadFlag, sealed, holdList>>
store == <<media, usedSize>>
pool == <<queued, worker>>
vars == <<flow, store, frame, pool, up, crashes>>

\* A caller between two calls: the locals of the last one are gone, its result
\* is known.  pc is the next step of the call, after the step that follows
\* PreLoadSchedule, [offset, offset + len) the range asked for, addr the
\* addresses built and cleanList the chunks removed and still to be freed.
Returned(r) == [pc |-> "idle", after |-> "idle", offset |-> 0, len |-> 0, ret |-> r,
                addr |-> <<>>, cleanList |-> <<>>]
Idle == [pc |-> "idle", chunk |-> Free, offset |-> 0, ready |-> FALSE]

Init ==
    /\ chunkList = <<>>
    /\ truncateOffset = 0 /\ writenOffset = 0 /\ preLoadOffset = 0
    /\ preLoadFlag = FALSE /\ sealed = FALSE /\ holdList = <<>>
    /\ media = [c \in ChunkIds |-> Free]
    /\ usedSize = 0
    /\ frame = [t \in Threads |-> Returned("ok")]
    /\ queued = 0
    /\ worker = [w \in Workers |-> Idle]
    /\ up = TRUE
    /\ crashes = 0

At(t, l) == frame[t].pc = l
Goto(t, l) == frame' = [frame EXCEPT ![t].pc = l]
Return(t, r) == frame' = [frame EXCEPT ![t] = Returned(r)]
Enter(t, l, offset, len) ==
    frame' = [frame EXCEPT ![t] = [Returned("ok") EXCEPT !.pc = l, !.offset = offset, !.len = len]]

\* First offset of the first chunk of the window.
Base(offset) == (offset \div ChunkSize) * ChunkSize
Need(t) == frame[t].offset + frame[t].len
Larger(a, b) == IF a < b THEN b ELSE a

-----------------------------------------------------------------------------
(* GetAddrByOffset: validate, hold until preloaded, build, schedule.       *)

ValidateRange(t, offset, len) ==
    /\ At(t, "idle")
    /\ \/ offset < truncateOffset /\ Return(t, "err")
       \/ /\ offset >= truncateOffset
          /\ Enter(t, IF offset + len > preLoadOffset THEN "hold" ELSE "written", offset, len)
    /\ UNCHANGED <<flow, store, pool, up, crashes>>

HoldWait(t) ==
    /\ At(t, "hold")
    /\ writenOffset' = Larger(writenOffset, Need(t))
    /\ \/ /\ preLoadOffset >= Need(t)
          /\ Goto(t, "written")
          /\ UNCHANGED holdList
       \/ /\ preLoadOffset < Need(t)
          /\ holdList' = Append(holdList, t)
          /\ frame' = [frame EXCEPT ![t].pc = "check", ![t].after = "wait"]
    /\ UNCHANGED <<chunkList, truncateOffset, preLoadOffset, preLoadFlag, sealed,
                   store, pool, up, crashes>>

\* sem_wait returns once HoldClean has taken the caller off the list.
HoldResume(t) ==
    /\ At(t, "wait")
    /\ \A i \in DOMAIN holdList : holdList[i] # t
    /\ IF frame[t].ret = "ok" THEN Goto(t, "written") ELSE Return(t, frame[t].ret)
    /\ UNCHANGED <<flow, store, pool, up, crashes>>

RaiseWriten(t) ==
    /\ At(t, "written")
    /\ writenOffset' = Larger(writenOffset, Need(t))
    /\ Goto(t, "build")
    /\ UNCHANGED <<chunkList, truncateOffset, preLoadOffset, preLoadFlag, sealed, holdList,
                   store, pool, up, crashes>>

\* Position of a flow offset relative to the first chunk of the list.
WindowOffset(offset) == offset - Base(truncateOffset)

\* mutant: the last piece runs to the end of its chunk
PiecesWhole(offset, len) ==
    LET cur == WindowOffset(offset)
        first == cur \div ChunkSize
        last == (cur + len - 1) \div ChunkSize
    IN  [i \in 1 .. last - first + 1 |->
            LET k == first + i - 1
                from == Larger(cur, k * ChunkSize)
            IN  [chunk |-> chunkList[k + 1], off |-> from % ChunkSize, len |-> (k + 1) * ChunkSize - from]]

\* The pieces of [offset, offset + len) in the chunks of the window: piece k is
\* the part that falls into the k-th chunk the range touches.
Pieces(offset, len) ==
    LET cur == WindowOffset(offset)
        first == cur \div ChunkSize
        last == (cur + len - 1) \div ChunkSize
        From(k) == Larger(cur, k * ChunkSize)
        To(k) == IF k = last THEN cur + len ELSE (k + 1) * ChunkSize
    IN  [i \in 1 .. last - first + 1 |->
            LET k == first + i - 1
            IN  [chunk |-> chunkList[k + 1], off |-> From(k) % ChunkSize, len |-> To(k) - From(k)]]

\* mutant: the bounds test also rejects a range that ends with the last chunk
BuildFlowAddrsShort(t) ==
    /\ At(t, "build")
    /\ LET cur == WindowOffset(frame[t].offset)
           inside == cur >= 0 /\ cur + frame[t].len < Len(chunkList) * ChunkSize
       IN  \/ ~inside /\ Return(t, "inner")
           \/ /\ inside
              /\ frame' = [frame EXCEPT ![t].pc = "check", ![t].after = "idle",
                                        ![t].addr = Pieces(frame[t].offset, frame[t].len)]
    /\ UNCHANGED <<flow, store, pool, up, crashes>>

\* A range that begins below the window wraps to a huge unsigned offset, which
\* the bounds test on the chunk index rejects like one that ends above it.
BuildFlowAddrs(t) ==
    /\ At(t, "build")
    /\ LET cur == WindowOffset(frame[t].offset)
           inside == cur >= 0 /\ cur + frame[t].len <= Len(chunkList) * ChunkSize
       IN  \/ ~inside /\ Return(t, "inner")
           \/ /\ inside
              /\ frame' = [frame EXCEPT ![t].pc = "check", ![t].after = "idle",
                                        ![t].addr = Pieces(frame[t].offset, frame[t].len)]
    /\ UNCHANGED <<flow, store, pool, up, crashes>>

-----------------------------------------------------------------------------
(* PreLoadSchedule: an unsynchronised look, a test-and-set, a submission.  *)

\* PreLoadSchedule returns: to sem_wait, or out of GetAddrByOffset.
Scheduled(t) == IF frame[t].after = "wait" THEN Goto(t, "wait") ELSE Return(t, "ok")

ScheduleCheck(t) ==
    /\ At(t, "check")
    /\ IF preLoadOffset >= writenOffset + PreLoadSize THEN Scheduled(t) ELSE Goto(t, "set")
    /\ UNCHANGED <<flow, store, pool, up, crashes>>

\* mutant: the flag is set without being tested
ScheduleSetBlind(t) ==
    /\ At(t, "set")
    /\ preLoadFlag' = TRUE
    /\ Goto(t, "submit")
    /\ UNCHANGED <<chunkList, truncateOffset, writenOffset, preLoadOffset, sealed, holdList,
                   store, pool, up, crashes>>

ScheduleSet(t) ==
    /\ At(t, "set")
    /\ preLoadFlag' = TRUE
    /\ IF preLoadFlag THEN Scheduled(t) ELSE Goto(t, "submit")
    /\ UNCHANGED <<chunkList, truncateOffset, writenOffset, preLoadOffset, sealed, holdList,
                   store, pool, up, crashes>>

ScheduleSubmit(t) ==
    /\ At(t, "submit")
    /\ Scheduled(t)
    /\ \/ queued' = queued + 1 /\ UNCHANGED preLoadFlag
       \/ SubmitMayFail /\ preLoadFlag' = FALSE /\ UNCHANGED queued
    /\ UNCHANGED <<chunkList, truncateOffset, writenOffset, preLoadOffset, sealed, holdList,
                   store, worker, up, crashes>>

-----------------------------------------------------------------------------
(* PreLoadHandle on a pool thread.                                         *)

\* HoldClean pops the callers at the head of the list whose need is met, k of
\* them, and stops at the first one whose is not.
Satisfied(k, realOffset) ==
    /\ \A i \in 1 .. k : Need(holdList[i]) <= realOffset
    /\ k < Len(holdList) => Need(holdList[k + 1]) > realOffset

HoldClean(k, r, flag) ==
    /\ preLoadFlag' = flag
    /\ holdList' = SubSeq(holdList, k + 1, Len(holdList))
    /\ frame' = [t \in Threads |-> IF \E i \in 1 .. k : holdList[i] = t
                                  THEN [frame[t] EXCEPT !.ret = r] ELSE frame[t]]

TakeTask(w) ==
    /\ queued > 0 /\ worker[w].pc = "idle"
    /\ queued' = queued - 1
    /\ worker' = [worker EXCEPT ![w].pc = "alloc"]
    /\ UNCHANGED <<flow, store, frame, up, crashes>>

MediaAlloc(w, c) ==
    /\ worker[w].pc = "alloc" /\ media[c] = Free
    /\ media' = [media EXCEPT ![c] = preLoadOffset]
    /\ usedSize' = usedSize + ChunkSize
    /\ worker' = [worker EXCEPT ![w].pc = "push", ![w].chunk = c]
    /\ UNCHANGED <<flow, frame, queued, up, crashes>>

\* mutant: the callers held are left on the list
MediaAllocFailSilent(w) ==
    /\ worker[w].pc = "alloc"
    /\ preLoadFlag' = FALSE
    /\ worker' = [worker EXCEPT ![w] = Idle]
    /\ UNCHANGED <<chunkList, truncateOffset, writenOffset, preLoadOffset, sealed, holdList,
                   store, frame, queued, up, crashes>>

\* The medium refuses (it is shared with other flows): everyone held retries.
MediaAllocFail(w) ==
    /\ worker[w].pc = "alloc"
    /\ HoldClean(Len(holdList), "retry", FALSE)
    /\ worker' = [worker EXCEPT ![w] = Idle]
    /\ UNCHANGED <<chunkList, truncateOffset, writenOffset, preLoadOffset, sealed,
                   store, queued, up, crashes>>

PushChunk(w) ==
    /\ worker[w].pc = "push"
    /\ chunkList' = Append(chunkList, worker[w].chunk)
    /\ preLoadOffset' = preLoadOffset + ChunkSize
    /\ worker' = [worker EXCEPT ![w] = [pc |-> "clean", chunk |-> Free, offset |-> preLoadOffset',
                                        ready |-> preLoadOffset' >= writenOffset + PreLoadSize]]
    /\ UNCHANGED <<truncateOffset, writenOffset, preLoadFlag, sealed, holdList,
                   store, frame, queued, up, crashes>>

ReleaseHeld(w) ==
    /\ worker[w].pc = "clean"
    /\ \E k \in 0 .. Len(holdList) :
          Satisfied(k, worker[w].offset) /\ HoldClean(k, "ok", ~worker[w].ready)
    /\ worker' = [worker EXCEPT ![w] = IF worker[w].ready THEN Idle ELSE [Idle EXCEPT !.pc = "alloc"]]
    /\ UNCHANGED <<chunkList, truncateOffset, writenOffset, preLoadOffset, sealed,
                   store, queued, up, crashes>>

-----------------------------------------------------------------------------
(* TruncateOffset and Seal.                                                *)

TruncateCheck(t, offset) ==
    IF offset > preLoadOffset \/ offset > writenOffset
    THEN Return(t, "err")
    ELSE Enter(t, "truncate", offset, 0)

TruncateOffset(t, offset) ==
    /\ At(t, "idle") /\ t \in Truncators
    /\ TruncateCheck(t, offset)
    /\ UNCHANGED <<flow, store, pool, up, crashes>>

\* mutant: whole chunks counted from the truncation point
WholeChunksUnaligned(offset) == (offset - truncateOffset) \div ChunkSize

\* Chunks of the list that end at or below the offset.
WholeChunks(offset) == (offset \div ChunkSize) - (truncateOffset \div ChunkSize)

TruncateLocked(t) ==
    /\ At(t, "truncate")
    /\ \/ /\ truncateOffset >= frame[t].offset
          /\ Return(t, "ok")
          /\ UNCHANGED <<chunkList, truncateOffset>>
       \/ /\ truncateOffset < frame[t].offset
          /\ LET whole == WholeChunks(frame[t].offset)
                 n == IF whole < Len(chunkList) THEN whole ELSE Len(chunkList)
             IN  /\ frame' = [frame EXCEPT ![t].pc = "free", ![t].cleanList = SubSeq(chunkList, 1, n)]
                 /\ chunkList' = SubSeq(chunkList, n + 1, Len(chunkList))
          /\ truncateOffset' = frame[t].offset
    /\ UNCHANGED <<writenOffset, preLoadOffset, preLoadFlag, sealed, holdList, store, pool, up, crashes>>

\* mutant: the chunks go back last first
MediaFreeReversed(t) ==
    LET list == frame[t].cleanList
    IN  /\ At(t, "free")
        /\ \/ list = <<>> /\ Return(t, "ok") /\ UNCHANGED store
           \/ /\ list # <<>>
              /\ media' = [media EXCEPT ![list[Len(list)]] = Free]
              /\ usedSize' = usedSize - ChunkSize
              /\ frame' = [frame EXCEPT ![t].cleanList = SubSeq(list, 1, Len(list) - 1)]
        /\ UNCHANGED <<flow, pool, up, crashes>>

\* mutant: only the first chunk removed is freed
MediaFreeFirst(t) ==
    LET list == frame[t].cleanList
    IN  /\ At(t, "free")
        /\ \/ list = <<>> /\ UNCHANGED store
           \/ /\ list # <<>>
              /\ media' = [media EXCEPT ![Head(list)] = Free]
              /\ usedSize' = usedSize - ChunkSize
        /\ Return(t, "ok")
        /\ UNCHANGED <<flow, pool, up, crashes>>

\* One iteration of the loop that gives the removed chunks back, in order.
MediaFree(t) ==
    LET list == frame[t].cleanList
    IN  /\ At(t, "free")
        /\ \/ list = <<>> /\ Return(t, "ok") /\ UNCHANGED store
           \/ /\ list # <<>>
              /\ media' = [media EXCEPT ![Head(list)] = Free]
              /\ usedSize' = usedSize - ChunkSize
              /\ frame' = [frame EXCEPT ![t].cleanList = Tail(list)]
        /\ UNCHANGED <<flow, pool, up, crashes>>

Seal(t) ==
    /\ At(t, "idle") /\ t \in Sealers
    /\ IF sealed THEN Return(t, "ok") ELSE Enter(t, "seal", 0, 0)
    /\ UNCHANGED <<flow, store, pool, up, crashes>>

\* mSealed is set and mPreLoadOffset read; both are unlocked atomics.
SealRead(t) ==
    /\ At(t, "seal")
    /\ sealed' = TRUE
    /\ Enter(t, "seal_store", preLoadOffset, 0)
    /\ UNCHANGED <<chunkList, truncateOffset, writenOffset, preLoadOffset, preLoadFlag, holdList,
                   store, pool, up, crashes>>

SealStore(t) ==
    /\ At(t, "seal_store")
    /\ writenOffset' = frame[t].offset
    /\ Goto(t, "seal_truncate")
    /\ UNCHANGED <<chunkList, truncateOffset, preLoadOffset, preLoadFlag, sealed, holdList,
                   store, pool, up, crashes>>

SealTruncate(t) ==
    /\ At(t, "seal_truncate")
    /\ TruncateCheck(t, writenOffset)
    /\ UNCHANGED <<flow, store, pool, up, crashes>>

-----------------------------------------------------------------------------
(* A crash loses everything but the medium; FlowManager::Recover rebuilds   *)
(* the chunk list from the chunks the medium records for this flow.         *)

Allocated == {c \in ChunkIds : media[c] # Free}

\* The map RecoverChunk fills, in the order of its keys, with the test
\* RecoverCheck makes as it walks it: each chunk follows the one before.
Contiguous(list) ==
    /\ Allocated = {list[i] : i \in DOMAIN list}
    /\ \A i \in DOMAIN list : media[list[i]] = media[list[1]] + (i - 1) * ChunkSize
Recoverable == {list \in [1 .. Cardinality(Allocated) -> Allocated] : Contiguous(list)}

RecoverFlow(list) ==
    /\ chunkList' = list
    /\ truncateOffset' = IF list = <<>> THEN 0 ELSE media[list[1]]
    /\ preLoadOffset' = truncateOffset' + Len(list) * ChunkSize

\* mutant: MediaRecover is not called
RecoverUsedNone(chunks) == usedSize' = 0

\* MediaRecover counts every chunk the scan meets.
RecoverUsed(chunks) == usedSize' = Cardinality(chunks) * ChunkSize

CrashRecover ==
    /\ up /\ crashes < Crashes
    /\ crashes' = crashes + 1
    /\ \/ \E list \in Recoverable : RecoverFlow(list) /\ up' = TRUE
       \/ Recoverable = {} /\ up' = FALSE /\ UNCHANGED <<chunkList, truncateOffset, preLoadOffset>>
    /\ RecoverUsed(Allocated)
    /\ writenOffset' = 0
    /\ preLoadFlag' = FALSE /\ sealed' = FALSE /\ holdList' = <<>>
    /\ frame' = [t \in Threads |-> IF up' THEN Returned("ok") ELSE [Returned("err") EXCEPT !.pc = "down"]]
    /\ queued' = 0
    /\ worker' = [w \in Workers |-> Idle]
    /\ UNCHANGED media

-----------------------------------------------------------------------------
Call(t) ==
    \/ \E offset \in 0 .. MaxOffset : \E len \in 1 .. MaxLen :
          offset + len <= MaxOffset /\ ValidateRange(t, offset, len)
    \/ \E offset \in 0 .. MaxOffset : TruncateOffset(t, offset)
    \/ Seal(t)

CallerStep(t) ==
    \/ HoldWait(t) \/ HoldResume(t) \/ RaiseWriten(t) \/ BuildFlowAddrs(t)
    \/ ScheduleCheck(t) \/ ScheduleSet(t) \/ ScheduleSubmit(t)
    \/ TruncateLocked(t) \/ MediaFree(t)
    \/ SealRead(t) \/ SealStore(t) \/ SealTruncate(t)

WorkerStep(w) ==
    \/ TakeTask(w) \/ MediaAllocFail(w) \/ PushChunk(w) \/ ReleaseHeld(w)
    \/ \E c \in ChunkIds : MediaAlloc(w, c)

Next ==
    \/ \E t \in Threads : Call(t) \/ CallerStep(t)
    \/ \E w \in Workers : WorkerStep(w)
    \/ CrashRecover

Spec == Init /\ [][Next]_vars

-----------------------------------------------------------------------------
(* Properties.                                                             *)

CallerPcs == {"idle", "hold", "check", "set", "submit", "wait", "written", "build",
              "truncate", "free", "seal", "seal_store", "seal_truncate", "down"}
Frames == [pc : CallerPcs, after : {"idle", "wait"}, offset : Nat, len : Nat,
           ret : {"ok", "err", "inner", "retry"}, addr : Seq([chunk : ChunkIds, off : Nat, len : Nat]),
           cleanList : Seq(ChunkIds)]
PoolThreads == [pc : {"idle", "alloc", "push", "clean"}, chunk : ChunkIds \cup {Free},
                offset : Nat, ready : BOOLEAN]
Owned(t) == {frame[t].cleanList[i] : i \in DOMAIN frame[t].cleanList}
Window == {chunkList[i] : i \in DOMAIN chunkList}
Submitting == {t \in Threads : At(t, "submit")}
Running == {w \in Workers : worker[w].pc # "idle"}
InHand == {worker[w].chunk : w \in {v \in Workers : worker[v].pc = "push"}}

\* Every variable of the flow, its callers and its preload pool keeps its type.
TypeOK ==
    /\ chunkList \in Seq(ChunkIds)
    /\ truncateOffset \in Nat /\ writenOffset \in Nat /\ preLoadOffset \in Nat
    /\ preLoadFlag \in BOOLEAN /\ sealed \in BOOLEAN
    /\ holdList \in Seq(Threads)
    /\ media \in [ChunkIds -> Nat \cup {Free}]
    /\ usedSize \in Int
    /\ frame \in [Threads -> Frames]
    /\ queued \in Nat
    /\ worker \in [Workers -> PoolThreads]
    /\ \A w \in Workers : worker[w].pc = "push" => worker[w].chunk \in ChunkIds
    /\ up \in BOOLEAN /\ crashes \in Nat

\* The chunk list is the window [Base(mTruncateOffset), mPreLoadOffset) of the
\* flow, and the k-th chunk is the one the medium records at the k-th position:
\* what BuildFlowAddrs computes with is what RecoverCheck will find on the disk.
WindowMatchesMedia ==
    up => /\ preLoadOffset = Base(truncateOffset) + Len(chunkList) * ChunkSize
          /\ \A i \in DOMAIN chunkList : media[chunkList[i]] = Base(truncateOffset) + (i - 1) * ChunkSize

\* A chunk taken from the medium has exactly one owner: the list, the worker
\* that has just allocated it or the caller that is about to free it.  None is
\* lost or freed twice whatever Truncate, Seal and preload interleave.
OneOwner ==
    up => /\ Allocated = Window \cup InHand \cup UNION {Owned(t) : t \in Threads}
          /\ \A i, j \in DOMAIN chunkList : chunkList[i] = chunkList[j] => i = j
          /\ \A t \in Threads : \A i, j \in DOMAIN frame[t].cleanList :
                frame[t].cleanList[i] = frame[t].cleanList[j] => i = j
          /\ Window \cap InHand = {}
          /\ \A t \in Threads : Owned(t) \cap (Window \cup InHand) = {}
          /\ \A t, u \in Threads : t # u => Owned(t) \cap Owned(u) = {}

\* The occupancy FlowManager reports, which drives eviction and the quotas, is
\* what is really allocated, after a restart too.
UsedSizeExact == usedSize = Cardinality(Allocated) * ChunkSize

\* mPreLoadFlag admits one preload at a time: PreLoadHandle reads
\* mPreLoadOffset without the lock to label its chunk, so two of them would
\* record two chunks at one offset.
OnePreload ==
    IF preLoadFlag
    THEN \/ queued = 1 /\ Submitting = {} /\ Running = {}
         \/ queued = 0 /\ Running = {} /\ \E t \in Threads : Submitting = {t}
         \/ queued = 0 /\ Submitting = {} /\ \E w \in Workers : Running = {w}
    ELSE queued = 0 /\ Submitting = {} /\ Running = {}

\* A caller passes the hold in GetAddrByOffset only when its whole range has
\* been preloaded.
PreloadedBeforeUse ==
    \A t \in Threads : frame[t].pc \in {"written", "build"} => Need(t) <= preLoadOffset

\* The addresses BuildFlowAddrs returns tile the requested range, and each
\* piece lies in the chunk recorded for its part of the flow.
AddressesCorrect ==
    [][\A t \in Threads : At(t, "build") /\ frame'[t].pc = "check" =>
        LET a == frame'[t].addr
            Start(k) == media[a[k].chunk] + a[k].off
        IN  \A k \in DOMAIN a :
                /\ a[k].len > 0 /\ a[k].off + a[k].len <= ChunkSize
                /\ Start(k) = IF k = 1 THEN frame[t].offset ELSE Start(k - 1) + a[k - 1].len
                /\ k = Len(a) => Start(k) + a[k].len = Need(t)]_vars

\* BuildFlowAddrs fails ("Address out of range") only for a range that a
\* truncation has overtaken since it was validated.
OnlyTruncationFailsBuild ==
    [][\A t \in Threads : At(t, "build") /\ frame'[t].pc = "idle" /\ crashes' = crashes =>
        frame[t].offset < Base(truncateOffset)]_vars

\* FlowManager::Recover refuses the chunks it finds (RecoverCheck, flow.cpp:302)
\* after one kind of crash only: a truncation that was still freeing its chunks
\* had been overtaken by a later one, so that the later one's chunks could go
\* first.  Whatever else the crash interrupts, the records have no gap.
RecoverUnlessOvertaken ==
    [][up /\ ~up' => \E t \in Threads :
        At(t, "free") /\ frame[t].cleanList # <<>> /\ frame[t].offset < truncateOffset]_vars

\* A preload that has not yet decided to stop.
PreloadComing ==
    \/ queued > 0
    \/ \E w \in Workers : worker[w].pc \in {"alloc", "push"}
    \/ \E w \in Workers : worker[w].pc = "clean" /\ ~worker[w].ready
=============================================================================
