----------------------------- MODULE FlowProofs -----------------------------
(***************************************************************************)
(* The window of a flow, for any number of callers, workers and chunks and *)
(* any chunk size.  The invariants of the runs are not inductive one by    *)
(* one: that a chunk being freed is outside the window needs the position  *)
(* of every chunk in transit, and that the chunk being pushed belongs at   *)
(* the end of the window needs the preload task to be alone.  FlowInv      *)
(* states all of it together.                                              *)
(***************************************************************************)
EXTENDS Flow, SequenceTheorems, FiniteSetTheorems, TLAPS

-----------------------------------------------------------------------------
(* Arithmetic of chunk boundaries.                                         *)

\* Division by the chunk size rounds down.
LEMMA DivBounds ==
    ASSUME NEW a \in Int, NEW b \in Nat \ {0}
    PROVE  /\ a \div b \in Int
           /\ (a \div b) * b <= a
           /\ a < (a \div b) * b + b
           /\ a % b = a - (a \div b) * b
    OBVIOUS

\* A multiple of the chunk size divides exactly.
LEMMA MulDiv ==
    ASSUME NEW k \in Int, NEW b \in Nat \ {0}
    PROVE  (k * b) \div b = k
    OBVIOUS

\* Multiplication by the chunk size is monotone and cancels.
LEMMA MulOrder ==
    ASSUME NEW k \in Int, NEW l \in Int, NEW b \in Nat \ {0}
    PROVE  /\ k <= l => k * b <= l * b
           /\ k < l => k * b + b <= l * b
           /\ k * b < l * b => k < l
           /\ k * b = l * b => k = l
           /\ k * b \in Int
           /\ (k - l) * b = k * b - l * b
           /\ (k + l) * b = k * b + l * b
    OBVIOUS

-----------------------------------------------------------------------------
(* The inductive invariant.                                                *)

\* Every recorded offset is the start of a chunk of the flow.
Aligned == \A c \in ChunkIds : media[c] # Free => Base(media[c]) = media[c]

\* A chunk in a worker's hand is recorded at the end of the window.
InFlight ==
    \A w \in Workers : worker[w].pc = "push" =>
        worker[w].chunk \in ChunkIds /\ media[worker[w].chunk] = preLoadOffset

\* A chunk a caller is about to free is recorded behind the window.
Behind ==
    \A t \in Threads : \A i \in DOMAIN frame[t].cleanList :
        /\ media[frame[t].cleanList[i]] # Free
        /\ media[frame[t].cleanList[i]] < Base(truncateOffset)

\* No chunk is to be freed twice.
FreedOnce ==
    \A t, u \in Threads : \A i \in DOMAIN frame[t].cleanList : \A j \in DOMAIN frame[u].cleanList :
        frame[t].cleanList[i] = frame[u].cleanList[j] => t = u /\ i = j

\* Only a caller in the freeing loop owns chunks, and a caller about to
\* truncate has an offset that has been preloaded.
Locals ==
    \A t \in Threads :
        /\ frame[t].pc # "free" => frame[t].cleanList = <<>>
        /\ frame[t].pc = "truncate" => frame[t].offset <= preLoadOffset

\* A server that could not recover runs nothing.
Down == ~up => queued = 0 /\ Running = {} /\ \A t \in Threads : frame[t].pc = "down"

FlowInv ==
    /\ TypeOK /\ WindowMatchesMedia /\ OnePreload
    /\ Aligned /\ Down
    /\ up => InFlight /\ Behind /\ FreedOnce /\ Locals

-----------------------------------------------------------------------------
\* The initial flow has an empty window.
LEMMA FlowInit == Init => FlowInv
<1> SUFFICES ASSUME Init PROVE FlowInv
    OBVIOUS
<1> USE FlowAssumption DEF Init, Free
<1>1. TypeOK
  <2>1. chunkList \in Seq(ChunkIds) /\ holdList \in Seq(Threads)
    OBVIOUS
  <2>2. media \in [ChunkIds -> Nat \cup {Free}]
    OBVIOUS
  <2>3. frame \in [Threads -> Frames]
    BY DEF Returned, Frames, CallerPcs
  <2>4. worker \in [Workers -> PoolThreads] /\ \A w \in Workers : worker[w].pc # "push"
    BY DEF Idle, PoolThreads
  <2>5. preLoadFlag \in BOOLEAN /\ sealed \in BOOLEAN /\ up \in BOOLEAN
    BY Zenon
  <2>6. 0 \in Nat /\ 0 \in Int
    OBVIOUS
  <2> QED
    BY <2>1, <2>2, <2>3, <2>4, <2>5, <2>6, Zenon DEF TypeOK
<1>2. WindowMatchesMedia
  <2>1. Base(0) = 0
    BY MulDiv DEF Base
  <2> QED
    BY <2>1 DEF WindowMatchesMedia
<1>3. OnePreload
  <2>1. Submitting = {} /\ Running = {}
    BY DEF Submitting, Running, At, Returned, Idle
  <2> QED
    BY <2>1, Zenon DEF OnePreload
<1>4. Aligned /\ Down
    BY DEF Aligned, Down, Running
<1>5. InFlight /\ Behind /\ FreedOnce /\ Locals
    BY DEF InFlight, Behind, FreedOnce, Locals, Returned, Idle
<1> QED
    BY <1>1, <1>2, <1>3, <1>4, <1>5 DEF FlowInv

-----------------------------------------------------------------------------
(* Type correctness.                                                       *)

\* The three ways a caller's frame changes keep its type.
LEMMA FrameTypes ==
    ASSUME TypeOK, NEW t \in Threads
    PROVE  /\ \A l \in CallerPcs : Goto(t, l) => frame' \in [Threads -> Frames]
           /\ \A r \in {"ok", "err", "inner", "retry"} : Return(t, r) => frame' \in [Threads -> Frames]
           /\ \A l \in CallerPcs : \A o, n \in Nat : Enter(t, l, o, n) => frame' \in [Threads -> Frames]
<1>0. frame \in [Threads -> Frames]
    BY DEF TypeOK
<1>1. ASSUME NEW l \in CallerPcs, Goto(t, l) PROVE frame' \in [Threads -> Frames]
    BY <1>0, <1>1, ZenonT(60) DEF Goto, Frames
<1>2. \A r \in {"ok", "err", "inner", "retry"} : Returned(r) \in Frames
    BY DEF Returned, Frames, CallerPcs
<1>3. ASSUME NEW r \in {"ok", "err", "inner", "retry"}, Return(t, r) PROVE frame' \in [Threads -> Frames]
    BY <1>0, <1>2, <1>3 DEF Return
<1>4. ASSUME NEW l \in CallerPcs, NEW o \in Nat, NEW n \in Nat, Enter(t, l, o, n)
      PROVE  frame' \in [Threads -> Frames]
  <2>1. [Returned("ok") EXCEPT !.pc = l, !.offset = o, !.len = n] \in Frames
    BY <1>2 DEF Frames
  <2> QED
    BY <1>0, <1>4, <2>1 DEF Enter
<1> QED
    BY <1>1, <1>3, <1>4

\* The pieces built for a range inside the window lie in chunks of the list.
LEMMA PiecesType ==
    ASSUME TypeOK, NEW o \in Nat, NEW n \in Nat,
           WindowOffset(o) >= 0, WindowOffset(o) + n <= Len(chunkList) * ChunkSize
    PROVE  Pieces(o, n) \in Seq([chunk : ChunkIds, off : Nat, len : Nat])
<1> DEFINE cur == WindowOffset(o)
           first == cur \div ChunkSize
           last == (cur + n - 1) \div ChunkSize
           From(k) == Larger(cur, k * ChunkSize)
           To(k) == IF k = last THEN cur + n ELSE (k + 1) * ChunkSize
           Piece(i) == LET k == first + i - 1
                       IN  [chunk |-> chunkList[k + 1], off |-> From(k) % ChunkSize, len |-> To(k) - From(k)]
<1>0. Pieces(o, n) = [i \in 1 .. last - first + 1 |-> Piece(i)]
    BY DEF Pieces
<1>1. ChunkSize \in Nat \ {0} /\ cur \in Nat /\ chunkList \in Seq(ChunkIds) /\ Len(chunkList) \in Nat
      /\ cur + n <= Len(chunkList) * ChunkSize
  <2>1. truncateOffset \div ChunkSize \in Int /\ ChunkSize \in Nat \ {0}
    BY FlowAssumption, DivBounds DEF TypeOK
  <2> QED
    BY <2>1, FlowAssumption DEF TypeOK, WindowOffset, Base
<1> HIDE DEF cur
<1>2. first \in Int /\ first * ChunkSize <= cur /\ cur < first * ChunkSize + ChunkSize
    BY <1>1, DivBounds
<1>3. last \in Int /\ last * ChunkSize <= cur + n - 1 /\ cur + n - 1 < last * ChunkSize + ChunkSize
  <2>1. cur + n - 1 \in Int
    BY <1>1
  <2> QED
    BY <1>1, <2>1, DivBounds
<1> HIDE DEF first, last
<1>4. first \in Nat
    BY <1>1, <1>2, MulOrder
<1>5. ASSUME NEW k \in first .. last
      PROVE  /\ k \in Nat /\ k + 1 \in 1 .. Len(chunkList)
             /\ From(k) \in Nat /\ From(k) % ChunkSize \in Nat /\ To(k) - From(k) \in Nat
  <2>1. k \in Nat /\ k * ChunkSize \in Nat /\ (k + 1) * ChunkSize = k * ChunkSize + ChunkSize
    BY <1>1, <1>3, <1>4, MulOrder
  <2>2. k * ChunkSize <= last * ChunkSize /\ (k # last => k * ChunkSize + ChunkSize <= last * ChunkSize)
    BY <1>1, <1>3, <1>4, <2>1, MulOrder
  <2>3. first * ChunkSize <= k * ChunkSize
    BY <1>1, <1>4, <2>1, MulOrder
  <2>4. k * ChunkSize < Len(chunkList) * ChunkSize
    BY <1>1, <1>3, <2>1, <2>2
  <2>5. k + 1 \in 1 .. Len(chunkList)
    BY <1>1, <2>1, <2>4, MulOrder
  <2>6. From(k) \in Nat /\ (From(k) = cur \/ From(k) = k * ChunkSize)
    BY <1>1, <2>1 DEF Larger
  <2>7. From(k) % ChunkSize \in Nat
    BY <1>1, <2>6
  <2>8. To(k) - From(k) \in Nat
    BY <1>1, <1>2, <1>3, <2>1, <2>2, <2>3 DEF Larger
  <2> QED
    BY <2>1, <2>5, <2>6, <2>7, <2>8
<1> HIDE DEF From, To
<1>6. ASSUME NEW i \in 1 .. last - first + 1 PROVE Piece(i) \in [chunk : ChunkIds, off : Nat, len : Nat]
  <2>1. first + i - 1 \in first .. last
    BY <1>3, <1>4
  <2> QED
    BY <1>1, <1>5, <2>1
<1> HIDE DEF Piece
<1>7. last - first + 1 >= 0
  <2>1. (last + 1) * ChunkSize = last * ChunkSize + ChunkSize
    BY <1>1, <1>3, MulOrder
  <2> QED
    BY <1>1, <1>2, <1>3, <1>4, <2>1, MulOrder
<1> QED
    BY <1>0, <1>3, <1>4, <1>6, <1>7

\* Cutting and popping a list keeps the type of its elements.
LEMMA CutTypes ==
    ASSUME NEW S, NEW s \in Seq(S), NEW n \in 0 .. Len(s)
    PROVE  /\ SubSeq(s, 1, n) \in Seq(S) /\ Len(SubSeq(s, 1, n)) = n
           /\ \A i \in 1 .. n : SubSeq(s, 1, n)[i] = s[i]
           /\ SubSeq(s, n + 1, Len(s)) \in Seq(S) /\ Len(SubSeq(s, n + 1, Len(s))) = Len(s) - n
           /\ \A i \in 1 .. Len(s) - n : SubSeq(s, n + 1, Len(s))[i] = s[n + i]
<1>1. Len(s) \in Nat /\ \A i \in 1 .. Len(s) : s[i] \in S
    OBVIOUS
<1>2. n \in Int /\ n + 1 \in Int /\ Len(s) \in Int /\ 1 \in Int
    BY <1>1
<1>3. (\A i \in 1 .. n : s[i] \in S) /\ (\A i \in n + 1 .. Len(s) : s[i] \in S)
    BY <1>1
<1>4. SubSeq(s, 1, n) \in Seq(S) /\ Len(SubSeq(s, 1, n)) = (IF 1 <= n THEN n - 1 + 1 ELSE 0)
      /\ \A i \in 1 .. n - 1 + 1 : SubSeq(s, 1, n)[i] = s[1 + i - 1]
    BY <1>2, <1>3, SubSeqProperties
<1>5. SubSeq(s, n + 1, Len(s)) \in Seq(S)
      /\ Len(SubSeq(s, n + 1, Len(s))) = (IF n + 1 <= Len(s) THEN Len(s) - (n + 1) + 1 ELSE 0)
      /\ \A i \in 1 .. Len(s) - (n + 1) + 1 : SubSeq(s, n + 1, Len(s))[i] = s[n + 1 + i - 1]
    BY <1>2, <1>3, SubSeqProperties
<1> QED
    BY <1>1, <1>4, <1>5

\* A truncation removes between none and all of the chunks.
LEMMA CutRange ==
    ASSUME TypeOK, NEW o \in Nat, truncateOffset < o
    PROVE  /\ WholeChunks(o) \in Nat
           /\ WholeChunks(o) * ChunkSize = Base(o) - Base(truncateOffset)
<1>1. ChunkSize \in Nat \ {0} /\ truncateOffset \in Nat
    BY FlowAssumption DEF TypeOK
<1> DEFINE a == o \div ChunkSize
           b == truncateOffset \div ChunkSize
<1>2. a \in Int /\ a * ChunkSize <= o /\ o < a * ChunkSize + ChunkSize
    BY <1>1, DivBounds
<1>3. b \in Int /\ b * ChunkSize <= truncateOffset /\ truncateOffset < b * ChunkSize + ChunkSize
    BY <1>1, DivBounds
<1>4. WholeChunks(o) = a - b /\ Base(o) = a * ChunkSize /\ Base(truncateOffset) = b * ChunkSize
    BY DEF WholeChunks, Base
<1> HIDE DEF a, b
<1>5. b <= a
  <2>1. SUFFICES ASSUME a < b PROVE FALSE
    BY <1>2, <1>3
  <2>2. a * ChunkSize + ChunkSize <= b * ChunkSize
    BY <1>1, <1>2, <1>3, <2>1, MulOrder
  <2> QED
    BY <1>1, <1>2, <1>3, <2>2, MulOrder
<1>6. (a - b) * ChunkSize = a * ChunkSize - b * ChunkSize
    BY <1>1, <1>2, <1>3, MulOrder
<1> QED
    BY <1>2, <1>3, <1>4, <1>5, <1>6

\* HoldClean only sets results and shortens the hold list.
LEMMA HoldCleanTypes ==
    ASSUME TypeOK, NEW k \in 0 .. Len(holdList), NEW r \in {"ok", "retry"}, NEW flag \in BOOLEAN,
           HoldClean(k, r, flag)
    PROVE  /\ holdList' \in Seq(Threads) /\ frame' \in [Threads -> Frames] /\ preLoadFlag' \in BOOLEAN
           /\ \A t \in Threads :
                 /\ frame'[t].pc = frame[t].pc /\ frame'[t].offset = frame[t].offset
                 /\ frame'[t].len = frame[t].len /\ frame'[t].cleanList = frame[t].cleanList
<1>1. holdList' \in Seq(Threads)
    BY CutTypes DEF HoldClean, TypeOK
<1>2. frame' \in [Threads -> Frames]
  <2>1. \A t \in Threads : frame[t] \in Frames /\ [frame[t] EXCEPT !.ret = r] \in Frames
    BY DEF TypeOK, Frames
  <2> QED
    BY <2>1, Zenon DEF HoldClean
<1>3. preLoadFlag' \in BOOLEAN
    BY Zenon DEF HoldClean
<1>4. ASSUME NEW t \in Threads
      PROVE  /\ frame'[t].pc = frame[t].pc /\ frame'[t].offset = frame[t].offset
             /\ frame'[t].len = frame[t].len /\ frame'[t].cleanList = frame[t].cleanList
    BY DEF HoldClean, TypeOK, Frames
<1> QED
    BY <1>1, <1>2, <1>3, <1>4

\* Every step of a caller keeps the types.
LEMMA CallerTypes ==
    ASSUME TypeOK, NEW t \in Threads, Call(t) \/ CallerStep(t)
    PROVE  TypeOK'
<1> USE DEF TypeOK, CallerPcs, At, flow, store, pool
<1>0. frame[t] \in Frames
    BY DEF TypeOK
<1>1. ASSUME NEW o \in 0 .. MaxOffset, NEW n \in 1 .. MaxLen, ValidateRange(t, o, n) PROVE TypeOK'
    BY <1>1, FlowAssumption, FrameTypes DEF ValidateRange
<1>2. ASSUME NEW o \in Nat, TruncateCheck(t, o) PROVE frame' \in [Threads -> Frames]
    BY <1>2, FrameTypes DEF TruncateCheck
<1>3. ASSUME NEW o \in 0 .. MaxOffset, TruncateOffset(t, o) PROVE TypeOK'
    BY <1>2, <1>3, FlowAssumption DEF TruncateOffset
<1>4. CASE Seal(t)
    BY <1>4, FrameTypes DEF Seal
<1>5. CASE HoldWait(t)
  <2>0. Need(t) \in Nat
    BY <1>0 DEF Frames, Need
  <2>1. writenOffset' \in Nat
    BY <1>5, <2>0 DEF HoldWait, Larger
  <2>2. holdList' \in Seq(Threads)
    <3>1. Append(holdList, t) \in Seq(Threads)
      OBVIOUS
    <3> QED
      BY <1>5, <3>1, Zenon DEF HoldWait
  <2>3. [frame EXCEPT ![t].pc = "check", ![t].after = "wait"] \in [Threads -> Frames]
    BY <1>0 DEF Frames
  <2>4. frame' \in [Threads -> Frames]
    BY <1>5, <2>3, FrameTypes DEF HoldWait
  <2> QED
    BY <1>5, <2>1, <2>2, <2>4 DEF HoldWait
<1>6. CASE HoldResume(t)
  <2>1. frame[t].ret \in {"ok", "err", "inner", "retry"}
    BY <1>0 DEF Frames
  <2>2. frame' \in [Threads -> Frames]
    BY <1>6, <2>1, FrameTypes DEF HoldResume
  <2> QED
    BY <1>6, <2>2 DEF HoldResume
<1>7. CASE RaiseWriten(t)
  <2>1. writenOffset' \in Nat
    BY <1>0, <1>7 DEF RaiseWriten, Frames, Need, Larger
  <2> QED
    BY <1>7, <2>1, FrameTypes DEF RaiseWriten
<1>8. CASE BuildFlowAddrs(t)
  <2>1. frame[t].offset \in Nat /\ frame[t].len \in Nat
    BY <1>0 DEF Frames
  <2>2. ASSUME NEW a \in Seq([chunk : ChunkIds, off : Nat, len : Nat])
        PROVE  [frame EXCEPT ![t].pc = "check", ![t].after = "idle", ![t].addr = a] \in [Threads -> Frames]
    BY <1>0 DEF Frames
  <2>3. CASE Return(t, "inner")
    BY <1>8, <2>3, FrameTypes DEF BuildFlowAddrs
  <2>4. CASE ~Return(t, "inner")
    <3>1. Pieces(frame[t].offset, frame[t].len) \in Seq([chunk : ChunkIds, off : Nat, len : Nat])
      BY <1>8, <2>1, <2>4, PiecesType DEF BuildFlowAddrs
    <3> QED
      BY <1>8, <2>2, <2>4, <3>1 DEF BuildFlowAddrs
  <2> QED
    BY <2>3, <2>4
<1>9. CASE ScheduleCheck(t)
    BY <1>9, FrameTypes DEF ScheduleCheck, Scheduled
<1>10. CASE ScheduleSet(t)
    BY <1>10, FrameTypes DEF ScheduleSet, Scheduled
<1>11. CASE ScheduleSubmit(t)
  <2>1. frame' \in [Threads -> Frames]
    BY <1>11, FrameTypes DEF ScheduleSubmit, Scheduled
  <2>2. queued' \in Nat
    BY <1>11 DEF ScheduleSubmit
  <2>3. preLoadFlag' \in BOOLEAN
    BY <1>11, Zenon DEF ScheduleSubmit
  <2> QED
    BY <1>11, <2>1, <2>2, <2>3 DEF ScheduleSubmit
<1>12. CASE TruncateLocked(t)
  <2> DEFINE whole == WholeChunks(frame[t].offset)
             n == IF whole < Len(chunkList) THEN whole ELSE Len(chunkList)
  <2>1. frame[t].offset \in Nat
    BY <1>0 DEF Frames
  <2>2. CASE truncateOffset >= frame[t].offset
    BY <1>12, <2>1, <2>2, FrameTypes DEF TruncateLocked
  <2>3. CASE truncateOffset < frame[t].offset
    <3>1. n \in 0 .. Len(chunkList)
      BY <2>1, <2>3, CutRange
    <3>2. SubSeq(chunkList, 1, n) \in Seq(ChunkIds) /\ SubSeq(chunkList, n + 1, Len(chunkList)) \in Seq(ChunkIds)
      BY <3>1, CutTypes
    <3>3. ASSUME NEW c \in Seq(ChunkIds)
          PROVE  [frame EXCEPT ![t].pc = "free", ![t].cleanList = c] \in [Threads -> Frames]
      BY <1>0 DEF Frames
    <3> HIDE DEF n
    <3>4. /\ frame' = [frame EXCEPT ![t].pc = "free", ![t].cleanList = SubSeq(chunkList, 1, n)]
          /\ chunkList' = SubSeq(chunkList, n + 1, Len(chunkList))
          /\ truncateOffset' = frame[t].offset
      BY <1>12, <2>1, <2>3 DEF TruncateLocked, n
    <3>5. frame' \in [Threads -> Frames] /\ chunkList' \in Seq(ChunkIds) /\ truncateOffset' \in Nat
      BY <2>1, <3>2, <3>3, <3>4
    <3> QED
      BY <1>12, <3>5 DEF TruncateLocked
  <2> QED
    BY <2>1, <2>2, <2>3
<1>13. CASE MediaFree(t)
  <2> DEFINE list == frame[t].cleanList
  <2>1. list \in Seq(ChunkIds)
    BY <1>0 DEF Frames
  <2>2. CASE list = <<>>
    BY <1>13, <2>2, FrameTypes DEF MediaFree
  <2>3. CASE list # <<>>
    <3>1. Head(list) \in ChunkIds /\ Tail(list) \in Seq(ChunkIds)
      BY <2>1, <2>3
    <3>2. [frame EXCEPT ![t].cleanList = Tail(list)] \in [Threads -> Frames]
      BY <1>0, <3>1 DEF Frames
    <3>3. media' \in [ChunkIds -> Nat \cup {Free}]
      BY <1>13, <2>3 DEF MediaFree
    <3>4. usedSize' \in Int
      BY <1>13, <2>3, FlowAssumption DEF MediaFree
    <3> QED
      BY <1>13, <2>3, <3>2, <3>3, <3>4 DEF MediaFree
  <2> QED
    BY <2>2, <2>3
<1>14. CASE SealRead(t)
    BY <1>14, FrameTypes DEF SealRead
<1>15. CASE SealStore(t)
    BY <1>0, <1>15, FrameTypes DEF SealStore, Frames
<1>16. CASE SealTruncate(t)
    BY <1>2, <1>16 DEF SealTruncate
<1> QED
    BY <1>1, <1>3, <1>4, <1>5, <1>6, <1>7, <1>8, <1>9, <1>10, <1>11, <1>12, <1>13, <1>14, <1>15, <1>16
       DEF Call, CallerStep

\* Every step of a pool thread keeps the types.
LEMMA WorkerTypes ==
    ASSUME TypeOK, NEW w \in Workers, WorkerStep(w)
    PROVE  TypeOK'
<1> USE DEF TypeOK, flow, store, pool
<1>0. worker[w] \in PoolThreads /\ Idle \in PoolThreads /\ [Idle EXCEPT !.pc = "alloc"] \in PoolThreads
    BY DEF Idle, PoolThreads
<1>1. CASE TakeTask(w)
  <2>1. worker' \in [Workers -> PoolThreads]
    BY <1>0, <1>1 DEF TakeTask, PoolThreads
  <2>2. queued' \in Nat
    BY <1>1 DEF TakeTask
  <2> QED
    BY <1>1, <2>1, <2>2 DEF TakeTask, PoolThreads
<1>2. ASSUME NEW c \in ChunkIds, MediaAlloc(w, c) PROVE TypeOK'
  <2>1. worker' \in [Workers -> PoolThreads]
    BY <1>0, <1>2 DEF MediaAlloc, PoolThreads
  <2>2. media' \in [ChunkIds -> Nat \cup {Free}]
    BY <1>2 DEF MediaAlloc
  <2>3. usedSize' \in Int
    BY <1>2, FlowAssumption DEF MediaAlloc
  <2> QED
    BY <1>2, <2>1, <2>2, <2>3 DEF MediaAlloc, PoolThreads
<1>3. CASE MediaAllocFail(w)
  <2>1. holdList' \in Seq(Threads) /\ frame' \in [Threads -> Frames] /\ preLoadFlag' \in BOOLEAN
    <3>1. Len(holdList) \in 0 .. Len(holdList)
      OBVIOUS
    <3> QED
      BY <1>3, <3>1, HoldCleanTypes DEF MediaAllocFail
  <2>2. worker' \in [Workers -> PoolThreads]
    BY <1>0, <1>3 DEF MediaAllocFail
  <2> QED
    BY <1>3, <2>1, <2>2 DEF MediaAllocFail, Idle
<1>4. CASE PushChunk(w)
  <2>1. chunkList' \in Seq(ChunkIds)
    BY <1>4 DEF PushChunk
  <2>2. preLoadOffset' \in Nat
    BY <1>4, FlowAssumption DEF PushChunk
  <2>3. worker' \in [Workers -> PoolThreads]
    <3>1. (preLoadOffset' >= writenOffset + PreLoadSize) \in BOOLEAN
      BY <2>2
    <3> QED
      BY <1>4, <2>2, <3>1 DEF PushChunk, PoolThreads
  <2> QED
    BY <1>4, <2>1, <2>2, <2>3 DEF PushChunk
<1>5. CASE ReleaseHeld(w)
  <2>1. worker[w].ready \in BOOLEAN /\ (~worker[w].ready) \in BOOLEAN
    BY <1>0, Zenon DEF PoolThreads
  <2>2. holdList' \in Seq(Threads) /\ frame' \in [Threads -> Frames] /\ preLoadFlag' \in BOOLEAN
    BY <1>5, <2>1, HoldCleanTypes DEF ReleaseHeld
  <2>3. worker' \in [Workers -> PoolThreads]
    BY <1>0, <1>5, Zenon DEF ReleaseHeld
  <2> QED
    BY <1>5, <2>2, <2>3 DEF ReleaseHeld, Idle
<1> QED
    BY <1>1, <1>2, <1>3, <1>4, <1>5 DEF WorkerStep

\* A list recovered from the medium is a list of chunks.
LEMMA RecoverTypes ==
    ASSUME TypeOK, NEW list \in Recoverable
    PROVE  /\ list \in Seq(ChunkIds) /\ Len(list) = Cardinality(Allocated)
           /\ \A i \in 1 .. Len(list) : media[list[i]] \in Nat
                                     /\ media[list[i]] = media[list[1]] + (i - 1) * ChunkSize
           /\ (list # <<>>) => media[list[1]] \in Nat /\ list[1] \in ChunkIds
           /\ Allocated = {list[i] : i \in 1 .. Len(list)}
<1>1. Cardinality(Allocated) \in Nat
  <2>1. Allocated \in SUBSET ChunkIds
    BY DEF Allocated
  <2> QED
    BY <2>1, FlowAssumption, FS_Subset, FS_CardinalityType
<1>2. list \in [1 .. Cardinality(Allocated) -> Allocated] /\ Contiguous(list)
    BY DEF Recoverable
<1>3. \A c \in Allocated : c \in ChunkIds /\ media[c] \in Nat
    BY DEF Allocated, TypeOK
<1>4. list \in Seq(Allocated) /\ Len(list) = Cardinality(Allocated) /\ DOMAIN list = 1 .. Len(list)
    BY <1>1, <1>2
<1>5. list \in Seq(ChunkIds)
    BY <1>3, <1>4
<1>6. (list # <<>>) => 1 \in 1 .. Len(list)
    BY <1>4
<1> QED
    BY <1>2, <1>3, <1>4, <1>5, <1>6 DEF Contiguous

\* A crash and the recovery that follows keep the types.
LEMMA CrashTypes ==
    ASSUME TypeOK, CrashRecover
    PROVE  TypeOK'
<1>1. frame' \in [Threads -> Frames]
  <2>0. Returned("ok") \in Frames /\ Returned("err") \in Frames
    BY DEF Returned, Frames, CallerPcs
  <2>1. Returned("ok") \in Frames /\ [Returned("err") EXCEPT !.pc = "down"] \in Frames
    BY <2>0 DEF Frames, CallerPcs
  <2> QED
    BY <2>1, Zenon DEF CrashRecover
<1>2. worker' \in [Workers -> PoolThreads] /\ \A w \in Workers : worker'[w].pc # "push"
    BY DEF CrashRecover, Idle, PoolThreads
<1>3. usedSize' \in Int
  <2>1. Allocated \in SUBSET ChunkIds
    BY DEF Allocated
  <2>2. Cardinality(Allocated) \in Nat
    BY <2>1, FlowAssumption, FS_Subset, FS_CardinalityType
  <2> QED
    BY <2>2, FlowAssumption DEF CrashRecover, RecoverUsed
<1>4. chunkList' \in Seq(ChunkIds) /\ truncateOffset' \in Nat /\ preLoadOffset' \in Nat
  <2>1. ASSUME NEW list \in Recoverable, RecoverFlow(list)
        PROVE  chunkList' \in Seq(ChunkIds) /\ truncateOffset' \in Nat /\ preLoadOffset' \in Nat
    <3>1. list \in Seq(ChunkIds) /\ Len(list) \in Nat /\ ((list # <<>>) => media[list[1]] \in Nat)
      BY RecoverTypes
    <3> QED
      BY <2>1, <3>1, FlowAssumption, MulOrder DEF RecoverFlow
  <2> QED
    BY <2>1 DEF CrashRecover, TypeOK
<1>5. up' \in BOOLEAN /\ preLoadFlag' \in BOOLEAN /\ sealed' \in BOOLEAN
    BY Zenon DEF CrashRecover
<1>6. /\ writenOffset' \in Nat /\ queued' \in Nat /\ crashes' \in Nat
      /\ media' \in [ChunkIds -> Nat \cup {Free}] /\ holdList' \in Seq(Threads)
    BY DEF CrashRecover, TypeOK
<1> QED
    BY <1>1, <1>2, <1>3, <1>4, <1>5, <1>6 DEF TypeOK

\* Every step keeps the types.
LEMMA TypeStep == TypeOK /\ [Next]_vars => TypeOK'
<1> SUFFICES ASSUME TypeOK, [Next]_vars PROVE TypeOK'
    OBVIOUS
<1>1. CASE UNCHANGED vars
    BY <1>1 DEF TypeOK, vars, flow, store, pool
<1>2. CASE Next
    BY <1>2, CallerTypes, WorkerTypes, CrashTypes DEF Next
<1> QED
    BY <1>1, <1>2

\* Flow.tla's type invariant holds of every behaviour.
THEOREM FlowTypeCorrect == Spec => []TypeOK
<1>1. Init => TypeOK
    BY FlowInit DEF FlowInv
<1> QED
    BY <1>1, TypeStep, PTL DEF Spec

-----------------------------------------------------------------------------
(* One preload task at a time.                                             *)

\* How the submitting callers follow from the frames.
LEMMA SubmittingStep ==
    ASSUME TypeOK, NEW t \in Threads
    PROVE  /\ \A l \in CallerPcs \ {"submit"} : Goto(t, l) => Submitting' = Submitting \ {t}
           /\ Goto(t, "submit") => Submitting' = Submitting \cup {t}
           /\ \A r \in {"ok", "err", "inner", "retry"} : Return(t, r) => Submitting' = Submitting \ {t}
           /\ \A l \in CallerPcs \ {"submit"} : \A o, n \in Nat : Enter(t, l, o, n) => Submitting' = Submitting \ {t}
           /\ At(t, "submit") <=> t \in Submitting
<1> USE DEF TypeOK, Submitting, At, Frames
<1>1. ASSUME NEW l \in CallerPcs \ {"submit"}, Goto(t, l) PROVE Submitting' = Submitting \ {t}
    BY <1>1 DEF Goto
<1>2. Goto(t, "submit") => Submitting' = Submitting \cup {t}
    BY DEF Goto
<1>3. ASSUME NEW r \in {"ok", "err", "inner", "retry"}, Return(t, r) PROVE Submitting' = Submitting \ {t}
    BY <1>3 DEF Return, Returned
<1>4. ASSUME NEW l \in CallerPcs \ {"submit"}, NEW o \in Nat, NEW n \in Nat, Enter(t, l, o, n)
      PROVE  Submitting' = Submitting \ {t}
    BY <1>4 DEF Enter, Returned
<1> QED
    BY <1>1, <1>2, <1>3, <1>4

\* A step of one caller that neither begins nor ends a submission.
LEMMA SubmittingSame ==
    ASSUME NEW t \in Threads, ~At(t, "submit"), frame'[t].pc # "submit",
           \A u \in Threads : u # t => frame'[u].pc = frame[u].pc
    PROVE  Submitting' = Submitting
    BY DEF Submitting, At

\* The flag and the task move together: a caller's steps.
LEMMA OnePreloadCaller ==
    ASSUME TypeOK, OnePreload, NEW t \in Threads, Call(t) \/ CallerStep(t)
    PROVE  OnePreload'
<1> DEFINE Quiet == Submitting' = Submitting /\ UNCHANGED <<preLoadFlag, queued, worker>>
<1>0. Quiet => OnePreload'
    BY DEF OnePreload, Running
<1>f. frame[t].ret \in {"ok", "err", "inner", "retry"} /\ frame[t].offset \in Nat
      /\ preLoadOffset \in Nat /\ writenOffset \in Nat
    BY DEF TypeOK, Frames
<1> USE DEF flow, store, pool, CallerPcs, At
<1>1. ASSUME NEW o \in 0 .. MaxOffset, NEW n \in 1 .. MaxLen, ValidateRange(t, o, n) PROVE Quiet
  <2>1. o \in Nat /\ n \in Nat
    BY FlowAssumption
  <2>2. ~At(t, "submit") /\ UNCHANGED <<preLoadFlag, queued, worker>>
    BY <1>1 DEF ValidateRange
  <2>3. \/ Return(t, "err")
        \/ \E l \in CallerPcs \ {"submit"} : Enter(t, l, o, n)
    BY <1>1 DEF ValidateRange
  <2>4. Submitting' = Submitting
    BY <2>1, <2>2, <2>3, SubmittingStep
  <2> QED
    BY <2>2, <2>4
<1>2. ASSUME NEW o \in Nat, TruncateCheck(t, o), ~At(t, "submit") PROVE Submitting' = Submitting
    BY <1>2, SubmittingStep DEF TruncateCheck
<1>3. ASSUME NEW o \in 0 .. MaxOffset, TruncateOffset(t, o) PROVE Quiet
  <2>1. o \in Nat
    BY FlowAssumption
  <2>2. TruncateCheck(t, o) /\ ~At(t, "submit") /\ UNCHANGED <<preLoadFlag, queued, worker>>
    BY <1>3 DEF TruncateOffset
  <2>3. Submitting' = Submitting
    BY <1>2, <2>1, <2>2
  <2> QED
    BY <2>2, <2>3
<1>4. CASE Seal(t)
  <2>1. Quiet
    BY <1>4, SubmittingStep DEF Seal
  <2> QED
    BY <1>0, <2>1
<1>5. CASE HoldWait(t)
  <2>1. Submitting' = Submitting
    <3>1. CASE Goto(t, "written")
      BY <1>5, <3>1, SubmittingStep DEF HoldWait
    <3>2. CASE frame' = [frame EXCEPT ![t].pc = "check", ![t].after = "wait"]
      BY <1>5, <3>2, SubmittingSame DEF HoldWait, TypeOK, Frames
    <3> QED
      BY <1>5, <3>1, <3>2 DEF HoldWait
  <2> QED
    BY <1>0, <1>5, <2>1 DEF HoldWait
<1>6. CASE HoldResume(t)
  <2>1. Quiet
    BY <1>6, <1>f, SubmittingStep DEF HoldResume
  <2> QED
    BY <1>0, <2>1
<1>7. CASE RaiseWriten(t)
  <2>1. Quiet
    BY <1>7, SubmittingStep DEF RaiseWriten
  <2> QED
    BY <1>0, <2>1
<1>8. CASE BuildFlowAddrs(t)
  <2>1. Submitting' = Submitting
    <3>1. CASE Return(t, "inner")
      BY <1>8, <3>1, SubmittingStep DEF BuildFlowAddrs
    <3>2. CASE ~Return(t, "inner")
      BY <1>8, <3>2, SubmittingSame, ZenonT(60) DEF BuildFlowAddrs, TypeOK, Frames
    <3> QED
      BY <3>1, <3>2
  <2> QED
    BY <1>0, <1>8, <2>1 DEF BuildFlowAddrs
<1>9. CASE ScheduleCheck(t)
  <2>1. Quiet
    BY <1>9, SubmittingStep DEF ScheduleCheck, Scheduled
  <2> QED
    BY <1>0, <2>1
<1>10. CASE ScheduleSet(t)
  <2>1. CASE preLoadFlag
    <3>1. Submitting' = Submitting /\ UNCHANGED <<queued, worker>> /\ preLoadFlag'
      BY <1>10, <2>1, SubmittingStep DEF ScheduleSet, Scheduled
    <3> QED
      BY <2>1, <3>1 DEF OnePreload, Running
  <2>2. CASE ~preLoadFlag
    <3>1. Submitting' = Submitting \cup {t} /\ UNCHANGED <<queued, worker>> /\ preLoadFlag'
      BY <1>10, <2>2, SubmittingStep DEF ScheduleSet
    <3> QED
      BY <2>2, <3>1 DEF OnePreload, Running
  <2> QED
    BY <2>1, <2>2
<1>11. CASE ScheduleSubmit(t)
  <2>1. t \in Submitting /\ Submitting' = Submitting \ {t} /\ UNCHANGED worker
    BY <1>11, SubmittingStep DEF ScheduleSubmit, Scheduled
  <2>2. preLoadFlag /\ Submitting' = {} /\ queued = 0 /\ Running' = {}
    BY <2>1 DEF OnePreload, Running
  <2>3. \/ queued' = 1 /\ preLoadFlag'
        \/ queued' = 0 /\ ~preLoadFlag'
    <3>1. \/ queued' = queued + 1 /\ preLoadFlag' = preLoadFlag
          \/ queued' = queued /\ preLoadFlag' = FALSE
      BY <1>11 DEF ScheduleSubmit
    <3>2. queued + 1 = 1
      BY <2>2
    <3> QED
      BY <2>2, <3>1, <3>2, Zenon
  <2> QED
    BY <2>2, <2>3 DEF OnePreload
<1>12. CASE TruncateLocked(t)
  <2>1. Submitting' = Submitting
    <3>1. CASE Return(t, "ok")
      BY <1>12, <3>1, SubmittingStep DEF TruncateLocked
    <3>2. CASE ~Return(t, "ok")
      BY <1>12, <3>2, SubmittingSame, ZenonT(60) DEF TruncateLocked, TypeOK, Frames
    <3> QED
      BY <3>1, <3>2
  <2> QED
    BY <1>0, <1>12, <2>1 DEF TruncateLocked
<1>13. CASE MediaFree(t)
  <2>1. Submitting' = Submitting
    <3>1. CASE Return(t, "ok")
      BY <1>13, <3>1, SubmittingStep DEF MediaFree
    <3>2. CASE ~Return(t, "ok")
      BY <1>13, <3>2, SubmittingSame DEF MediaFree, TypeOK, Frames
    <3> QED
      BY <3>1, <3>2
  <2> QED
    BY <1>0, <1>13, <2>1 DEF MediaFree
<1>14. CASE SealRead(t)
  <2>1. Quiet
    BY <1>14, <1>f, SubmittingStep DEF SealRead
  <2> QED
    BY <1>0, <2>1
<1>15. CASE SealStore(t)
  <2>1. Quiet
    BY <1>15, SubmittingStep DEF SealStore
  <2> QED
    BY <1>0, <2>1
<1>16. CASE SealTruncate(t)
  <2>1. Quiet
    BY <1>2, <1>16, <1>f DEF SealTruncate
  <2> QED
    BY <1>0, <2>1
<1> QED
    BY <1>0, <1>1, <1>3, <1>4, <1>5, <1>6, <1>7, <1>8, <1>9, <1>10, <1>11, <1>12, <1>13, <1>14, <1>15, <1>16
       DEF Call, CallerStep

\* The flag and the task move together: a pool thread's steps.
LEMMA OnePreloadWorker ==
    ASSUME TypeOK, OnePreload, NEW w \in Workers, WorkerStep(w)
    PROVE  OnePreload'
<1> USE DEF flow, store, pool
<1>t. worker \in [Workers -> PoolThreads] /\ w \in Workers
    BY DEF TypeOK
<1>1. CASE TakeTask(w)
  <2>1. Running' = Running \cup {w} /\ Submitting' = Submitting /\ preLoadFlag' = preLoadFlag
    BY <1>1, <1>t DEF TakeTask, Running, Submitting, At, PoolThreads
  <2>2. queued = 1 /\ queued' = 0
    BY <1>1 DEF TakeTask, OnePreload
  <2> QED
    BY <2>1, <2>2 DEF OnePreload
<1>2. CASE (\E c \in ChunkIds : MediaAlloc(w, c)) \/ PushChunk(w)
  <2>1. Running' = Running /\ Submitting' = Submitting /\ preLoadFlag' = preLoadFlag /\ queued' = queued
    <3>1. CASE PushChunk(w)
      BY <3>1, <1>t DEF PushChunk, Running, Submitting, At
    <3>2. ASSUME NEW c \in ChunkIds, MediaAlloc(w, c)
          PROVE  Running' = Running /\ Submitting' = Submitting /\ preLoadFlag' = preLoadFlag /\ queued' = queued
      BY <3>2, <1>t DEF MediaAlloc, Running, Submitting, At, PoolThreads
    <3> QED
      BY <1>2, <3>1, <3>2
  <2> QED
    BY <2>1, Zenon DEF OnePreload
<1>3. ASSUME NEW k \in 0 .. Len(holdList), NEW r \in {"ok", "retry"}, NEW f \in BOOLEAN, HoldClean(k, r, f)
      PROVE  Submitting' = Submitting /\ preLoadFlag' = f
  <2>1. Submitting' = Submitting
    BY <1>3, HoldCleanTypes DEF Submitting, At
  <2> QED
    BY <1>3, <2>1 DEF HoldClean
<1>4. CASE MediaAllocFail(w)
  <2>1. Len(holdList) \in 0 .. Len(holdList)
    BY DEF TypeOK
  <2>2. Submitting' = Submitting /\ preLoadFlag' = FALSE
    BY <1>3, <1>4, <2>1 DEF MediaAllocFail
  <2>3. w \in Running /\ Running' = Running \ {w} /\ queued' = queued
    BY <1>4, <1>t DEF MediaAllocFail, Running, Idle
  <2> QED
    BY <2>2, <2>3 DEF OnePreload
<1>5. CASE ReleaseHeld(w)
  <2>1. worker[w].ready \in BOOLEAN /\ (~worker[w].ready) \in BOOLEAN
    BY <1>t DEF PoolThreads
  <2>2. Submitting' = Submitting /\ preLoadFlag' = ~worker[w].ready
    BY <1>3, <1>5, <2>1 DEF ReleaseHeld
  <2>3. w \in Running /\ queued' = queued
    BY <1>5, <1>t DEF ReleaseHeld, Running
  <2>4. CASE worker[w].ready
    <3>1. Running' = Running \ {w}
      BY <1>5, <1>t, <2>4 DEF ReleaseHeld, Running, Idle
    <3>2. preLoadFlag' = FALSE
      BY <2>1, <2>2, <2>4
    <3> QED
      BY <2>2, <2>3, <3>1, <3>2 DEF OnePreload
  <2>5. CASE ~worker[w].ready
    <3>1. Running' = Running
      BY <1>5, <1>t, <2>5 DEF ReleaseHeld, Running, Idle
    <3>2. preLoadFlag'
      BY <2>1, <2>2, <2>5
    <3> QED
      BY <2>2, <2>3, <3>1, <3>2 DEF OnePreload
  <2> QED
    BY <2>4, <2>5
<1> QED
    BY <1>1, <1>2, <1>4, <1>5 DEF WorkerStep

\* Every step keeps at most one preload task.
LEMMA OnePreloadStep == TypeOK /\ OnePreload /\ [Next]_vars => OnePreload'
<1> SUFFICES ASSUME TypeOK, OnePreload, [Next]_vars PROVE OnePreload'
    OBVIOUS
<1>1. CASE UNCHANGED vars
    BY <1>1 DEF OnePreload, Submitting, Running, At, vars, flow, store, pool
<1>2. CASE CrashRecover
  <2>1. Submitting' = {} /\ Running' = {} /\ queued' = 0 /\ preLoadFlag' = FALSE
    BY <1>2 DEF CrashRecover, Submitting, Running, At, Returned, Idle
  <2> QED
    BY <2>1, Zenon DEF OnePreload
<1> QED
    BY <1>1, <1>2, OnePreloadCaller, OnePreloadWorker DEF Next

\* mPreLoadFlag admits one preload task at a time, whatever callers and pool
\* threads interleave.
THEOREM FlowOnePreload == Spec => []OnePreload
<1>1. Init => TypeOK /\ OnePreload
    BY FlowInit DEF FlowInv
<1>2. (TypeOK /\ OnePreload) /\ [Next]_vars => (TypeOK /\ OnePreload)'
    BY TypeStep, OnePreloadStep
<1> QED
    BY <1>1, <1>2, PTL DEF Spec

-----------------------------------------------------------------------------
(* The window.                                                             *)

\* What a caller's step that neither removes nor frees chunks leaves alone.
LEMMA CallerQuiet ==
    ASSUME TypeOK, Locals, NEW t \in Threads, Call(t) \/ CallerStep(t), ~TruncateLocked(t), ~MediaFree(t)
    PROVE  /\ UNCHANGED <<chunkList, truncateOffset, preLoadOffset, store, worker, up>>
           /\ \A u \in Threads : frame'[u].cleanList = frame[u].cleanList
           /\ \A u \in Threads : u # t => frame'[u] = frame[u]
           /\ frame[t].pc # "down" /\ frame'[t].pc # "free" /\ frame[t].pc # "free"
           /\ frame'[t].pc = "truncate" => frame'[t].offset <= preLoadOffset
<1> USE DEF flow, store, pool, At
<1>f. frame \in [Threads -> Frames] /\ frame[t] \in Frames
    BY DEF TypeOK
<1> DEFINE Quiet(u) == /\ frame'[u].cleanList = frame[u].cleanList
                       /\ u # t => frame'[u] = frame[u]
                       /\ frame'[t].pc # "free"
                       /\ frame'[t].pc = "truncate" => frame'[t].offset <= preLoadOffset
<1>a. ASSUME NEW l \in CallerPcs \ {"free", "truncate"}, Goto(t, l), NEW u \in Threads PROVE Quiet(u)
    BY <1>f, <1>a DEF Goto, Frames
<1>b. ASSUME NEW r, Return(t, r), frame[t].pc # "free", NEW u \in Threads PROVE Quiet(u)
    BY <1>f, <1>b DEF Return, Returned, Locals
<1>c. ASSUME NEW l \in CallerPcs \ {"free"}, NEW o \in Nat, NEW n \in Nat, Enter(t, l, o, n), frame[t].pc # "free",
             l = "truncate" => o <= preLoadOffset, NEW u \in Threads
      PROVE  Quiet(u)
    BY <1>f, <1>c DEF Enter, Returned, Locals
<1> DEFINE Same == UNCHANGED <<chunkList, truncateOffset, preLoadOffset, media, usedSize, worker, up>>
           Here == frame[t].pc # "down" /\ frame[t].pc # "free"
           Goal == Same /\ Here /\ \A u \in Threads : Quiet(u)
<1>d. frame[t].offset \in Nat /\ preLoadOffset \in Nat /\ writenOffset \in Nat
    BY <1>f DEF TypeOK, Frames
<1> HIDE DEF Quiet
<1> USE DEF CallerPcs
<1>1. ASSUME NEW o \in 0 .. MaxOffset, NEW n \in 1 .. MaxLen, ValidateRange(t, o, n) PROVE Goal
  <2>1. o \in Nat /\ n \in Nat
    BY FlowAssumption
  <2>2. \/ Return(t, "err")
        \/ \E l \in {"hold", "written"} : Enter(t, l, o, n)
    BY <1>1 DEF ValidateRange
  <2>3. Same /\ Here
    BY <1>1 DEF ValidateRange
  <2>4. \A u \in Threads : Quiet(u)
    BY <2>1, <2>2, <2>3, <1>b, <1>c
  <2> QED
    BY <2>3, <2>4
<1>2. ASSUME NEW o \in Nat, TruncateCheck(t, o), Here PROVE \A u \in Threads : Quiet(u)
  <2>1. Return(t, "err") \/ (o <= preLoadOffset /\ Enter(t, "truncate", o, 0))
    BY <1>2, <1>d DEF TruncateCheck
  <2> QED
    BY <1>2, <2>1, <1>b, <1>c
<1>3. ASSUME NEW o \in 0 .. MaxOffset, TruncateOffset(t, o) PROVE Goal
  <2>1. o \in Nat
    BY FlowAssumption
  <2>2. Same /\ Here /\ TruncateCheck(t, o)
    BY <1>3 DEF TruncateOffset
  <2> QED
    BY <1>2, <2>1, <2>2
<1>4. ASSUME Seal(t) PROVE Goal
  <2>1. Same /\ Here /\ (Return(t, "ok") \/ Enter(t, "seal", 0, 0))
    BY <1>4 DEF Seal
  <2> QED
    BY <2>1, <1>b, <1>c
<1>5. ASSUME HoldWait(t) PROVE Goal
  <2>1. Same /\ Here
    BY <1>5 DEF HoldWait
  <2>2. CASE Goto(t, "written")
    BY <2>1, <2>2, <1>a
  <2>3. CASE frame' = [frame EXCEPT ![t].pc = "check", ![t].after = "wait"]
    <3>1. \A u \in Threads : Quiet(u)
      BY <1>f, <2>3 DEF Quiet, Frames
    <3> QED
      BY <2>1, <3>1
  <2> QED
    BY <1>5, <2>2, <2>3 DEF HoldWait
<1>6. ASSUME HoldResume(t) PROVE Goal
  <2>1. Same /\ Here /\ (Goto(t, "written") \/ Return(t, frame[t].ret))
    BY <1>6 DEF HoldResume
  <2> QED
    BY <2>1, <1>a, <1>b
<1>7. ASSUME RaiseWriten(t) PROVE Goal
  <2>1. Same /\ Here /\ Goto(t, "build")
    BY <1>7 DEF RaiseWriten
  <2> QED
    BY <2>1, <1>a
<1>8. ASSUME BuildFlowAddrs(t) PROVE Goal
  <2>1. Same /\ Here
    BY <1>8 DEF BuildFlowAddrs
  <2>2. CASE Return(t, "inner")
    BY <2>1, <2>2, <1>b
  <2>3. CASE ~Return(t, "inner")
    <3>1. \A u \in Threads : Quiet(u)
      BY <1>8, <1>f, <2>3 DEF BuildFlowAddrs, Quiet, Frames
    <3> QED
      BY <2>1, <3>1
  <2> QED
    BY <2>2, <2>3
<1>9. ASSUME ScheduleCheck(t) \/ ScheduleSet(t) \/ ScheduleSubmit(t) PROVE Goal
  <2>1. Same /\ Here
    BY <1>9 DEF ScheduleCheck, ScheduleSet, ScheduleSubmit
  <2>2. Return(t, "ok") \/ \E l \in {"wait", "set", "submit"} : Goto(t, l)
    BY <1>9 DEF ScheduleCheck, ScheduleSet, ScheduleSubmit, Scheduled
  <2> QED
    BY <2>1, <2>2, <1>a, <1>b
<1>10. ASSUME SealRead(t) PROVE Goal
  <2>1. Same /\ Here /\ Enter(t, "seal_store", preLoadOffset, 0)
    BY <1>10 DEF SealRead
  <2> QED
    BY <2>1, <1>c, <1>d
<1>11. ASSUME SealStore(t) PROVE Goal
  <2>1. Same /\ Here /\ Goto(t, "seal_truncate")
    BY <1>11 DEF SealStore
  <2> QED
    BY <2>1, <1>a
<1>12. ASSUME SealTruncate(t) PROVE Goal
  <2>1. Same /\ Here /\ TruncateCheck(t, writenOffset)
    BY <1>12 DEF SealTruncate
  <2> QED
    BY <2>1, <1>2, <1>d
<1>13. Goal
    BY <1>1, <1>3, <1>4, <1>5, <1>6, <1>7, <1>8, <1>9, <1>10, <1>11, <1>12 DEF Call, CallerStep
<1> QED
    BY <1>13 DEF Quiet

\* The parts of FlowInv about the window.
WindowInv == WindowMatchesMedia /\ Aligned /\ Down /\ (up => InFlight /\ Behind /\ FreedOnce /\ Locals)

\* A step that moves no chunk keeps them: it may only change which callers and
\* workers are where.
LEMMA WindowKept ==
    ASSUME TypeOK, WindowInv, up,
           UNCHANGED <<chunkList, truncateOffset, preLoadOffset, media, up>>,
           \A u \in Threads : frame'[u].cleanList = frame[u].cleanList,
           Locals',
           \A w \in Workers : worker'[w].pc = "push" => worker'[w] = worker[w]
    PROVE  WindowInv'
<1>1. WindowMatchesMedia' /\ Aligned'
    BY DEF WindowInv, WindowMatchesMedia, Aligned, Base
<1>2. InFlight'
    BY DEF WindowInv, InFlight
<1>3. Behind'
    BY SMTT(30) DEF WindowInv, Behind, Base
<1>4. FreedOnce'
    BY DEF WindowInv, FreedOnce
<1>5. Down'
    BY DEF Down
<1> QED
    BY <1>1, <1>2, <1>3, <1>4, <1>5 DEF WindowInv

\* The end of the window is the start of a chunk.
LEMMA EndAligned ==
    ASSUME TypeOK, WindowMatchesMedia, up
    PROVE  /\ Base(preLoadOffset) = preLoadOffset
           /\ Base(truncateOffset) \in Nat /\ Base(truncateOffset) <= truncateOffset
           /\ truncateOffset < Base(truncateOffset) + ChunkSize
           /\ Len(chunkList) \in Nat /\ Len(chunkList) * ChunkSize \in Nat
<1> DEFINE b == truncateOffset \div ChunkSize
<1>1. ChunkSize \in Nat \ {0} /\ truncateOffset \in Nat /\ Len(chunkList) \in Nat
    BY FlowAssumption DEF TypeOK
<1>2. b \in Int /\ b * ChunkSize <= truncateOffset /\ truncateOffset < b * ChunkSize + ChunkSize
    BY <1>1, DivBounds
<1>3. Base(truncateOffset) = b * ChunkSize
    BY DEF Base
<1>4. preLoadOffset = Base(truncateOffset) + Len(chunkList) * ChunkSize
    BY DEF WindowMatchesMedia
<1> HIDE DEF b
<1>5. b \in Nat
    BY <1>1, <1>2, MulOrder
<1>6. b * ChunkSize \in Nat /\ Len(chunkList) * ChunkSize \in Nat
    BY <1>1, <1>5, MulOrder
<1>7. preLoadOffset = (b + Len(chunkList)) * ChunkSize
    BY <1>1, <1>3, <1>4, <1>5, MulOrder
<1>8. b + Len(chunkList) \in Int
    BY <1>1, <1>5
<1>9. Base(preLoadOffset) = preLoadOffset
    BY <1>1, <1>7, <1>8, MulDiv DEF Base
<1> QED
    BY <1>1, <1>2, <1>3, <1>6, <1>9

\* Where a chunk of the list is recorded: in the window, at its own place.
LEMMA WindowPlaces ==
    ASSUME TypeOK, WindowMatchesMedia, up, NEW i \in 1 .. Len(chunkList)
    PROVE  /\ chunkList[i] \in ChunkIds
           /\ media[chunkList[i]] = Base(truncateOffset) + (i - 1) * ChunkSize
           /\ media[chunkList[i]] \in Nat /\ media[chunkList[i]] >= Base(truncateOffset)
           /\ \A j \in 1 .. Len(chunkList) : chunkList[i] = chunkList[j] => i = j
           /\ media[chunkList[i]] + ChunkSize <= preLoadOffset
<1>1. ChunkSize \in Nat \ {0} /\ chunkList \in Seq(ChunkIds) /\ Base(truncateOffset) \in Nat
      /\ Len(chunkList) \in Nat
    BY FlowAssumption, EndAligned DEF TypeOK
<1>2. \A j \in 1 .. Len(chunkList) : media[chunkList[j]] = Base(truncateOffset) + (j - 1) * ChunkSize
    BY <1>1, SMTT(30) DEF WindowMatchesMedia
<1>3. \A j \in 1 .. Len(chunkList) : j - 1 \in Nat /\ (j - 1) * ChunkSize \in Nat
    BY <1>1, MulOrder
<1>4. ASSUME NEW j \in 1 .. Len(chunkList), chunkList[i] = chunkList[j] PROVE i = j
  <2>1. (i - 1) * ChunkSize = (j - 1) * ChunkSize
    BY <1>1, <1>2, <1>3, <1>4, SMTT(30)
  <2>2. i - 1 = j - 1
    BY <1>1, <1>3, <2>1, MulOrder
  <2> QED
    BY <2>2
<1>5. (i - 1) * ChunkSize + ChunkSize <= Len(chunkList) * ChunkSize
    BY <1>1, <1>3, MulOrder
<1>6. preLoadOffset = Base(truncateOffset) + Len(chunkList) * ChunkSize
    BY DEF WindowMatchesMedia
<1>7. Len(chunkList) * ChunkSize \in Int
    BY <1>1, MulOrder
<1>8. media[chunkList[i]] \in Nat /\ media[chunkList[i]] >= Base(truncateOffset)
    BY <1>1, <1>2, <1>3
<1>9. media[chunkList[i]] + ChunkSize <= preLoadOffset
  <2>1. media[chunkList[i]] = Base(truncateOffset) + (i - 1) * ChunkSize /\ (i - 1) * ChunkSize \in Nat
    BY <1>2, <1>3, Zenon
  <2> DEFINE x == (i - 1) * ChunkSize
             y == Len(chunkList) * ChunkSize
             b == Base(truncateOffset)
             p == media[chunkList[i]]
  <2>2. /\ x \in Nat /\ y \in Int /\ b \in Nat /\ ChunkSize \in Nat
        /\ p = b + x /\ x + ChunkSize <= y /\ preLoadOffset = b + y
    BY <1>1, <1>5, <1>6, <1>7, <2>1, Zenon
  <2> HIDE DEF x, y, b, p
  <2>3. p + ChunkSize <= preLoadOffset
    BY <2>2
  <2> QED
    BY <2>3 DEF p
<1> QED
    BY <1>1, <1>2, <1>4, <1>8, <1>9

\* Truncation moves the front of the window and the removed chunks behind it.
LEMMA TruncateWindow ==
    ASSUME TypeOK, WindowInv, up, NEW t \in Threads, TruncateLocked(t), truncateOffset < frame[t].offset
    PROVE  WindowInv'
<1> DEFINE o == frame[t].offset
           n == WholeChunks(o)
           len == Len(chunkList)
<1>a. WindowMatchesMedia /\ Aligned /\ InFlight /\ Behind /\ FreedOnce /\ Locals
    BY DEF WindowInv
<1>b. /\ frame \in [Threads -> Frames] /\ frame[t] \in Frames /\ chunkList \in Seq(ChunkIds)
      /\ len \in Nat /\ preLoadOffset \in Nat /\ ChunkSize \in Nat \ {0}
    BY FlowAssumption DEF TypeOK
<1>c. o \in Nat /\ o <= preLoadOffset /\ frame[t].cleanList = <<>> /\ frame[t].pc = "truncate"
    BY <1>a, <1>b DEF Locals, Frames, TruncateLocked, At
<1>d. n \in Nat /\ n * ChunkSize = Base(o) - Base(truncateOffset)
    BY <1>c, CutRange
<1>e. /\ Base(truncateOffset) \in Nat /\ len * ChunkSize \in Nat
      /\ preLoadOffset = Base(truncateOffset) + len * ChunkSize
    BY <1>a, EndAligned DEF WindowMatchesMedia
<1> DEFINE list == SubSeq(chunkList, 1, n)
           rest == SubSeq(chunkList, n + 1, len)
<1>1. (IF n < len THEN n ELSE len) = n =>
         /\ frame' = [frame EXCEPT ![t].pc = "free", ![t].cleanList = list]
         /\ chunkList' = rest
         /\ truncateOffset' = o
         /\ UNCHANGED <<preLoadOffset, media, worker, up>>
  <2>1. ~(truncateOffset >= frame[t].offset)
    BY <1>c DEF TypeOK
  <2> QED
    BY <2>1 DEF TruncateLocked, store, pool
<1> HIDE DEF o
<1>2. Base(o) <= o /\ Base(o) \in Int
  <2>1. (o \div ChunkSize) * ChunkSize <= o /\ o \div ChunkSize \in Int
    BY <1>b, <1>c, DivBounds
  <2> QED
    BY <1>b, <2>1, MulOrder DEF Base
<1> HIDE DEF n, len
<1>3. n <= len
  <2>1. n * ChunkSize <= len * ChunkSize /\ n * ChunkSize \in Int
    BY <1>b, <1>c, <1>d, <1>e, <1>2
  <2> QED
    BY <1>b, <1>d, <2>1, MulOrder
<1>4. /\ frame' = [frame EXCEPT ![t].pc = "free", ![t].cleanList = list]
      /\ chunkList' = rest
      /\ truncateOffset' = o
      /\ UNCHANGED <<preLoadOffset, media, worker, up>>
  <2>1. (IF n < len THEN n ELSE len) = n
    BY <1>b, <1>d, <1>3
  <2> QED
    BY <1>1, <2>1
<1>5. /\ list \in Seq(ChunkIds) /\ Len(list) = n /\ \A i \in 1 .. n : list[i] = chunkList[i]
      /\ rest \in Seq(ChunkIds) /\ Len(rest) = len - n /\ \A i \in 1 .. len - n : rest[i] = chunkList[n + i]
  <2>1. n \in 0 .. Len(chunkList)
    BY <1>b, <1>d, <1>3 DEF len
  <2> QED
    BY <1>b, <2>1, CutTypes DEF len
<1> HIDE DEF list, rest
<1>w. ASSUME NEW i \in 1 .. len
      PROVE  /\ media[chunkList[i]] = Base(truncateOffset) + (i - 1) * ChunkSize
             /\ media[chunkList[i]] \in Nat /\ media[chunkList[i]] >= Base(truncateOffset)
             /\ \A j \in 1 .. len : chunkList[i] = chunkList[j] => i = j
    BY <1>a, WindowPlaces DEF len
<1>6. WindowMatchesMedia'
  <2>1. preLoadOffset = Base(o) + (len - n) * ChunkSize
    <3>1. (len - n) * ChunkSize = len * ChunkSize - n * ChunkSize
      BY <1>b, <1>d, MulOrder
    <3> QED
      BY <1>d, <1>e, <1>2, <3>1
  <2>2. ASSUME NEW i \in 1 .. len - n
        PROVE  media[rest[i]] = Base(o) + (i - 1) * ChunkSize
    <3> DEFINE k == n + i
               l == i - 1
    <3>1. k \in 1 .. len /\ k - 1 = n + l /\ l \in Int /\ rest[i] = chunkList[k]
      BY <1>b, <1>d, <1>3, <1>5
    <3> HIDE DEF k, l
    <3>2. (n + l) * ChunkSize = n * ChunkSize + l * ChunkSize /\ l * ChunkSize \in Int
      BY <1>b, <1>d, <3>1, MulOrder
    <3>3. media[chunkList[k]] = Base(truncateOffset) + (k - 1) * ChunkSize
      BY <1>w, <3>1
    <3>4. media[rest[i]] = Base(o) + l * ChunkSize
      BY <1>d, <1>e, <1>2, <3>1, <3>2, <3>3
    <3> QED
      BY <3>4 DEF l
  <2>3. Base(truncateOffset)' = Base(o)
    BY <1>4 DEF Base
  <2>4. DOMAIN rest = 1 .. len - n /\ Len(rest) = len - n
    BY <1>5
  <2> QED
    BY <1>4, <2>1, <2>2, <2>3, <2>4 DEF WindowMatchesMedia
<1>7. Base(truncateOffset)' = Base(o) /\ Base(truncateOffset) <= Base(o) /\ Base(truncateOffset) \in Int
  <2>1. n * ChunkSize >= 0 /\ n * ChunkSize \in Int
    BY <1>b, <1>d, MulOrder
  <2> QED
    BY <1>d, <1>e, <1>2, <1>4, <2>1 DEF Base
<1>8. \A u \in Threads : u # t => frame'[u] = frame[u]
    BY <1>b, <1>4 DEF Frames
<1>9. frame'[t].cleanList = list /\ frame'[t].pc = "free"
    BY <1>b, <1>4 DEF Frames
<1>10. ASSUME NEW i \in 1 .. n
       PROVE  media[chunkList[i]] \in Nat /\ media[chunkList[i]] < Base(o)
              /\ media[chunkList[i]] >= Base(truncateOffset)
  <2>1. i \in 1 .. len
    BY <1>b, <1>d, <1>3
  <2>2. (i - 1) * ChunkSize + ChunkSize <= n * ChunkSize /\ (i - 1) * ChunkSize \in Int /\ n * ChunkSize \in Int
    BY <1>b, <1>d, MulOrder
  <2>3. media[chunkList[i]] \in Nat /\ media[chunkList[i]] = Base(truncateOffset) + (i - 1) * ChunkSize
        /\ media[chunkList[i]] >= Base(truncateOffset)
    BY <1>w, <2>1
  <2> QED
    BY <1>b, <1>d, <1>e, <1>2, <2>2, <2>3
<1>11. Behind'
  <2>1. ASSUME NEW u \in Threads, NEW i \in DOMAIN frame'[u].cleanList
        PROVE  media[frame'[u].cleanList[i]] # Free /\ media[frame'[u].cleanList[i]] < Base(o)
    <3>1. CASE u = t
      <4>1. i \in 1 .. n
        BY <1>5, <1>9, <2>1, <3>1
      <4>2. media[list[i]] \in Nat /\ media[list[i]] < Base(o)
        BY <1>5, <1>10, <4>1
      <4> QED
        BY <1>9, <3>1, <4>2 DEF Free
    <3>2. CASE u # t
      <4>1. frame[u].cleanList \in Seq(ChunkIds) /\ frame'[u].cleanList = frame[u].cleanList
        BY <1>b, <1>8, <3>2 DEF Frames
      <4>2. media[frame[u].cleanList[i]] # Free /\ media[frame[u].cleanList[i]] < Base(truncateOffset)
        BY <1>a, <2>1, <4>1 DEF Behind
      <4>3. media[frame[u].cleanList[i]] \in Int
        BY <2>1, <4>1 DEF TypeOK, Free
      <4> QED
        BY <1>2, <1>7, <4>1, <4>2, <4>3
    <3> QED
      BY <3>1, <3>2
  <2> QED
    BY <1>4, <1>7, <2>1 DEF Behind
<1>12. FreedOnce'
  <2>1. ASSUME NEW u \in Threads, NEW v \in Threads,
               NEW i \in DOMAIN frame'[u].cleanList, NEW j \in DOMAIN frame'[v].cleanList,
               frame'[u].cleanList[i] = frame'[v].cleanList[j]
        PROVE  u = v /\ i = j
    <3>1. CASE u # t /\ v # t
      BY <1>a, <1>8, <2>1, <3>1 DEF FreedOnce
    <3>2. CASE u = t /\ v = t
      <4>1. i \in 1 .. n /\ j \in 1 .. n
        BY <1>d, <1>5, <1>9, <2>1, <3>2
      <4>2. i \in 1 .. len /\ j \in 1 .. len /\ chunkList[i] = chunkList[j]
        BY <1>b, <1>d, <1>3, <1>5, <1>9, <2>1, <3>2, <4>1
      <4> QED
        BY <1>w, <3>2, <4>2
    <3>3. ASSUME NEW x \in Threads, x # t, NEW k \in DOMAIN frame'[x].cleanList, NEW l \in DOMAIN frame'[t].cleanList,
                 frame'[x].cleanList[k] = frame'[t].cleanList[l]
          PROVE  FALSE
      <4>1. l \in 1 .. n /\ frame'[t].cleanList[l] = chunkList[l]
        BY <1>d, <1>5, <1>9, <3>3
      <4>2. media[chunkList[l]] >= Base(truncateOffset) /\ media[chunkList[l]] \in Nat
        BY <1>10, <4>1
      <4>3. media[frame[x].cleanList[k]] < Base(truncateOffset)
        BY <1>a, <1>8, <3>3 DEF Behind
      <4>4. frame[x].cleanList[k] = chunkList[l]
        BY <1>8, <3>3, <4>1
      <4> QED
        BY <1>e, <4>2, <4>3, <4>4, SMTT(30)
    <3> QED
      BY <2>1, <3>1, <3>2, <3>3
  <2> QED
    BY <2>1 DEF FreedOnce
<1>13. Aligned' /\ InFlight' /\ Down'
  <2>1. Aligned'
    BY <1>a, <1>4 DEF Aligned, Base
  <2>2. InFlight'
    BY <1>a, <1>4 DEF InFlight
  <2>3. Down'
    BY <1>4 DEF Down
  <2> QED
    BY <2>1, <2>2, <2>3
<1>14. Locals'
    BY <1>a, <1>4, <1>8, <1>9 DEF Locals
<1> QED
    BY <1>6, <1>11, <1>12, <1>13, <1>14 DEF WindowInv

\* Freeing takes a chunk that is behind the window and that nobody else frees.
LEMMA FreeWindow ==
    ASSUME TypeOK, WindowInv, up, NEW t \in Threads, MediaFree(t), frame[t].cleanList # <<>>
    PROVE  WindowInv'
<1> DEFINE list == frame[t].cleanList
           c == list[1]
<1>a. WindowMatchesMedia /\ Aligned /\ InFlight /\ Behind /\ FreedOnce /\ Locals
    BY DEF WindowInv
<1>b. /\ frame \in [Threads -> Frames] /\ list \in Seq(ChunkIds) /\ media \in [ChunkIds -> Nat \cup {Free}]
      /\ ChunkSize \in Nat \ {0} /\ preLoadOffset \in Nat
    BY FlowAssumption DEF TypeOK, Frames
<1>c. /\ c \in ChunkIds /\ Head(list) = c /\ 1 \in DOMAIN list /\ Len(list) \in Nat /\ Len(list) >= 1
      /\ Tail(list) \in Seq(ChunkIds) /\ DOMAIN Tail(list) = 1 .. Len(list) - 1
      /\ \A i \in 1 .. Len(list) - 1 : Tail(list)[i] = list[i + 1]
    BY <1>b
<1>d. /\ media' = [media EXCEPT ![c] = Free] /\ frame' = [frame EXCEPT ![t].cleanList = Tail(list)]
      /\ UNCHANGED <<chunkList, truncateOffset, preLoadOffset, worker, up>>
    BY <1>c DEF MediaFree, flow, pool
<1>e. media[c] \in Nat /\ media[c] < Base(truncateOffset)
    BY <1>a, <1>b, <1>c DEF Behind
<1>f. /\ \A u \in Threads : u # t => frame'[u] = frame[u]
      /\ frame'[t].cleanList = Tail(list) /\ frame'[t].pc = "free" /\ frame[t].pc = "free"
    BY <1>b, <1>d DEF Frames, MediaFree, At
<1>g. Base(truncateOffset) \in Nat /\ Base(truncateOffset) <= preLoadOffset
    BY <1>a, <1>b, EndAligned DEF WindowMatchesMedia
<1> HIDE DEF list, c
<1>1. WindowMatchesMedia'
  <2>1. ASSUME NEW i \in DOMAIN chunkList
        PROVE  chunkList[i] # c /\ chunkList[i] \in ChunkIds
    <3>1. i \in 1 .. Len(chunkList)
      BY DEF TypeOK
    <3>2. chunkList[i] \in ChunkIds /\ media[chunkList[i]] \in Nat /\ media[chunkList[i]] >= Base(truncateOffset)
      BY <1>a, <3>1, WindowPlaces
    <3> QED
      BY <1>e, <1>g, <3>2
  <2> QED
    BY <1>a, <1>b, <1>d, <2>1 DEF WindowMatchesMedia, Base
<1>2. Aligned'
    BY <1>a, <1>b, <1>d DEF Aligned, Base
<1>3. InFlight'
    BY <1>a, <1>b, <1>d, <1>e, <1>g DEF InFlight
<1>4. Locals'
    BY <1>a, <1>d, <1>f DEF Locals
<1>5. ASSUME NEW u \in Threads, NEW i \in DOMAIN frame'[u].cleanList
      PROVE  \E j \in DOMAIN frame[u].cleanList :
                /\ frame'[u].cleanList[i] = frame[u].cleanList[j]
                /\ j = IF u = t THEN i + 1 ELSE i
                /\ ~(u = t /\ j = 1)
  <2>1. CASE u = t
    <3>1. i \in 1 .. Len(list) - 1
      BY <1>c, <1>f, <2>1, <1>5
    <3>2. i + 1 \in DOMAIN list /\ i + 1 # 1
      BY <1>b, <1>c, <3>1
    <3> QED
      BY <1>c, <1>f, <2>1, <3>1, <3>2 DEF list
  <2>2. CASE u # t
    BY <1>f, <2>2, <1>5
  <2> QED
    BY <2>1, <2>2
<1>6. Behind'
  <2>1. ASSUME NEW u \in Threads, NEW i \in DOMAIN frame'[u].cleanList
        PROVE  media'[frame'[u].cleanList[i]] # Free /\ media'[frame'[u].cleanList[i]] < Base(truncateOffset)
    <3>1. PICK j \in DOMAIN frame[u].cleanList :
                frame'[u].cleanList[i] = frame[u].cleanList[j] /\ ~(u = t /\ j = 1)
      BY <1>5, <2>1
    <3>2. frame[u].cleanList[j] # c
      BY <1>a, <1>c, <3>1 DEF FreedOnce, list, c
    <3>3. frame[u].cleanList[j] \in ChunkIds
      BY <1>b, <3>1 DEF Frames
    <3> QED
      BY <1>a, <1>b, <1>d, <3>1, <3>2, <3>3 DEF Behind
  <2>2. Base(truncateOffset)' = Base(truncateOffset)
    BY <1>d DEF Base
  <2> QED
    BY <2>1, <2>2 DEF Behind
<1>7. FreedOnce'
  <2>1. ASSUME NEW u \in Threads, NEW v \in Threads,
               NEW i \in DOMAIN frame'[u].cleanList, NEW j \in DOMAIN frame'[v].cleanList,
               frame'[u].cleanList[i] = frame'[v].cleanList[j]
        PROVE  u = v /\ i = j
    <3>1. PICK k \in DOMAIN frame[u].cleanList :
                frame'[u].cleanList[i] = frame[u].cleanList[k] /\ k = IF u = t THEN i + 1 ELSE i
      BY <1>5, <2>1
    <3>2. PICK l \in DOMAIN frame[v].cleanList :
                frame'[v].cleanList[j] = frame[v].cleanList[l] /\ l = IF v = t THEN j + 1 ELSE j
      BY <1>5, <2>1
    <3>a. frame[u].cleanList[k] = frame[v].cleanList[l]
      BY <2>1, <3>1, <3>2
    <3>3. u = v /\ k = l
      BY <1>a, <3>a, ZenonT(60) DEF FreedOnce
    <3>4. CASE u = t
      <4>1. i \in Int /\ j \in Int
        BY <1>c, <1>f, <2>1, <3>3, <3>4
      <4> QED
        BY <3>1, <3>2, <3>3, <3>4, <4>1
    <3>5. CASE u # t
      BY <3>1, <3>2, <3>3, <3>5
    <3> QED
      BY <3>4, <3>5
  <2> QED
    BY <2>1 DEF FreedOnce
<1>8. Down'
    BY <1>d DEF Down
<1> QED
    BY <1>1, <1>2, <1>3, <1>4, <1>6, <1>7, <1>8 DEF WindowInv

\* The steps of a caller keep the window.
LEMMA CallerWindow ==
    ASSUME TypeOK, WindowInv, up, NEW t \in Threads, Call(t) \/ CallerStep(t)
    PROVE  WindowInv'
<1>f. frame \in [Threads -> Frames] /\ frame[t] \in Frames /\ Locals
    BY DEF TypeOK, WindowInv
<1>1. CASE TruncateLocked(t) /\ truncateOffset < frame[t].offset
    BY <1>1, TruncateWindow
<1>2. CASE MediaFree(t) /\ frame[t].cleanList # <<>>
    BY <1>2, FreeWindow
<1>3. ASSUME NEW r, Return(t, r), frame[t].cleanList = <<>>,
             UNCHANGED <<chunkList, truncateOffset, preLoadOffset, media, worker, up>>
      PROVE  WindowInv'
  <2>1. \A u \in Threads : frame'[u].cleanList = frame[u].cleanList
    BY <1>f, <1>3 DEF Return, Returned
  <2>2. Locals'
    BY <1>f, <1>3 DEF Return, Returned, Locals
  <2> QED
    BY <1>3, <2>1, <2>2, WindowKept
<1>4. CASE TruncateLocked(t) /\ ~(truncateOffset < frame[t].offset)
  <2>1. frame[t].cleanList = <<>>
    BY <1>f, <1>4 DEF TruncateLocked, At, Locals
  <2>2. Return(t, "ok") /\ UNCHANGED <<chunkList, truncateOffset, preLoadOffset, media, worker, up>>
    BY <1>4 DEF TruncateLocked, store, pool
  <2> QED
    BY <1>3, <2>1, <2>2
<1>5. CASE MediaFree(t) /\ frame[t].cleanList = <<>>
  <2>1. Return(t, "ok") /\ UNCHANGED <<chunkList, truncateOffset, preLoadOffset, media, worker, up>>
    BY <1>5 DEF MediaFree, flow, store, pool
  <2> QED
    BY <1>3, <1>5, <2>1
<1>6. CASE ~TruncateLocked(t) /\ ~MediaFree(t)
  <2>1. /\ UNCHANGED <<chunkList, truncateOffset, preLoadOffset, media, worker, up>>
        /\ \A u \in Threads : frame'[u].cleanList = frame[u].cleanList
        /\ \A u \in Threads : u # t => frame'[u] = frame[u]
        /\ frame'[t].pc # "free" /\ frame[t].pc # "free"
        /\ frame'[t].pc = "truncate" => frame'[t].offset <= preLoadOffset
    BY <1>f, <1>6, CallerQuiet DEF store
  <2>2. Locals'
    BY <1>f, <2>1 DEF Locals
  <2> QED
    BY <2>1, <2>2, WindowKept
<1> QED
    BY <1>1, <1>2, <1>4, <1>5, <1>6

\* A caller held keeps everything but its return value when it is released.
LEMMA HoldCleanQuiet ==
    ASSUME TypeOK, Locals, NEW k, NEW r, NEW flag, HoldClean(k, r, flag), UNCHANGED preLoadOffset
    PROVE  Locals' /\ \A u \in Threads : frame'[u].cleanList = frame[u].cleanList
<1>1. ASSUME NEW u \in Threads
      PROVE  /\ frame'[u].cleanList = frame[u].cleanList
             /\ frame'[u].pc = frame[u].pc /\ frame'[u].offset = frame[u].offset
  <2>1. frame[u] \in Frames
    BY DEF TypeOK
  <2>2. frame'[u] = [frame[u] EXCEPT !.ret = r] \/ frame'[u] = frame[u]
    BY DEF HoldClean
  <2> QED
    BY <2>1, <2>2 DEF Frames
<1> QED
    BY <1>1 DEF Locals

\* Allocation labels a free chunk with the end of the window, and the end stays
\* there until it is pushed because no other preload runs.
LEMMA AllocWindow ==
    ASSUME TypeOK, WindowInv, OnePreload, up, NEW w \in Workers, NEW c \in ChunkIds, MediaAlloc(w, c)
    PROVE  WindowInv'
<1>a. WindowMatchesMedia /\ Aligned /\ InFlight /\ Behind /\ FreedOnce /\ Locals
    BY DEF WindowInv
<1>b. /\ media \in [ChunkIds -> Nat \cup {Free}] /\ worker \in [Workers -> PoolThreads]
      /\ preLoadOffset \in Nat /\ chunkList \in Seq(ChunkIds) /\ frame \in [Threads -> Frames]
    BY DEF TypeOK
<1>c. /\ media' = [media EXCEPT ![c] = preLoadOffset] /\ media[c] = Free
      /\ worker' = [worker EXCEPT ![w].pc = "push", ![w].chunk = c] /\ worker[w].pc = "alloc"
      /\ UNCHANGED <<chunkList, truncateOffset, preLoadOffset, frame, up>>
    BY DEF MediaAlloc, flow
<1>d. preLoadOffset # Free /\ \A n \in Nat : n # Free
    BY <1>b DEF Free
<1>1. WindowMatchesMedia'
  <2>1. ASSUME NEW i \in DOMAIN chunkList
        PROVE  chunkList[i] # c /\ chunkList[i] \in ChunkIds
    <3>1. i \in 1 .. Len(chunkList)
      BY <1>b
    <3> QED
      BY <1>a, <1>c, <1>d, <3>1, WindowPlaces
  <2> QED
    BY <1>a, <1>b, <1>c, <2>1 DEF WindowMatchesMedia, Base
<1>2. Aligned'
    BY <1>a, <1>b, <1>c, EndAligned DEF Aligned, Base
<1>3. InFlight'
  <2>1. Running = {w}
    BY <1>c DEF OnePreload, Running
  <2>2. \A v \in Workers : v # w => worker[v].pc = "idle" /\ worker'[v] = worker[v]
    BY <1>b, <1>c, <2>1 DEF Running
  <2>3. worker'[w].chunk = c
    BY <1>b, <1>c DEF PoolThreads
  <2> QED
    BY <1>b, <1>c, <2>2, <2>3 DEF InFlight
<1>4. Behind'
  <2>1. ASSUME NEW t \in Threads, NEW i \in DOMAIN frame[t].cleanList
        PROVE  media'[frame[t].cleanList[i]] = media[frame[t].cleanList[i]]
    <3>1. frame[t].cleanList[i] \in ChunkIds
      BY <1>b DEF Frames
    <3>2. media[frame[t].cleanList[i]] # Free
      BY <1>a DEF Behind
    <3> QED
      BY <1>b, <1>c, <3>1, <3>2
  <2> QED
    BY <1>a, <1>c, <2>1 DEF Behind, Base
<1>5. FreedOnce' /\ Locals' /\ Down'
    BY <1>a, <1>c DEF FreedOnce, Locals, Down
<1> QED
    BY <1>1, <1>2, <1>3, <1>4, <1>5 DEF WindowInv

\* Pushing makes the chunk labelled with the end of the window its last one.
LEMMA PushWindow ==
    ASSUME TypeOK, WindowInv, OnePreload, up, NEW w \in Workers, PushChunk(w)
    PROVE  WindowInv'
<1> DEFINE c == worker[w].chunk
           len == Len(chunkList)
<1>a. WindowMatchesMedia /\ Aligned /\ InFlight /\ Behind /\ FreedOnce /\ Locals
    BY DEF WindowInv
<1>b. /\ worker \in [Workers -> PoolThreads] /\ frame \in [Threads -> Frames]
      /\ preLoadOffset \in Nat /\ chunkList \in Seq(ChunkIds) /\ len \in Nat
      /\ ChunkSize \in Nat \ {0}
    BY FlowAssumption DEF TypeOK
<1>c. /\ chunkList' = Append(chunkList, c) /\ preLoadOffset' = preLoadOffset + ChunkSize
      /\ worker[w].pc = "push" /\ worker'[w].pc = "clean"
      /\ \A v \in Workers : v # w => worker'[v] = worker[v]
      /\ UNCHANGED <<truncateOffset, media, frame, up>>
    BY <1>b DEF PushChunk, store
<1>d. c \in ChunkIds /\ media[c] = preLoadOffset
    BY <1>a, <1>c DEF InFlight
<1>e. /\ preLoadOffset = Base(truncateOffset) + len * ChunkSize
      /\ len * ChunkSize \in Nat /\ Base(truncateOffset) \in Nat
      /\ \A i \in DOMAIN chunkList : media[chunkList[i]] = Base(truncateOffset) + (i - 1) * ChunkSize
    BY <1>a, EndAligned DEF WindowMatchesMedia
<1> HIDE DEF c
<1>1. WindowMatchesMedia'
  <2>1. Len(chunkList') = len + 1 /\ DOMAIN chunkList' = 1 .. len + 1
    BY <1>b, <1>c, <1>d
  <2>2. (len + 1) * ChunkSize = len * ChunkSize + ChunkSize
    BY <1>b, MulOrder
  <2>3. ASSUME NEW i \in 1 .. len + 1
        PROVE  media[chunkList'[i]] = Base(truncateOffset) + (i - 1) * ChunkSize
    <3>1. CASE i = len + 1
      <4>1. chunkList'[i] = c /\ i - 1 = len
        BY <1>b, <1>c, <1>d, <3>1
      <4> QED
        BY <1>d, <1>e, <4>1
    <3>2. CASE i # len + 1
      <4>1. i \in DOMAIN chunkList /\ chunkList'[i] = chunkList[i]
        BY <1>b, <1>c, <1>d, <3>2
      <4> QED
        BY <1>e, <4>1
    <3> QED
      BY <3>1, <3>2
  <2>4. Base(truncateOffset)' = Base(truncateOffset) /\ media' = media
    BY <1>c DEF Base
  <2>5. preLoadOffset' = Base(truncateOffset) + (len + 1) * ChunkSize
    BY <1>b, <1>c, <1>e, <2>2
  <2> QED
    BY <2>1, <2>3, <2>4, <2>5 DEF WindowMatchesMedia
<1>2. Aligned'
    BY <1>a, <1>c DEF Aligned, Base
<1>3. InFlight'
  <2>1. Running = {w}
    BY <1>c DEF OnePreload, Running
  <2> QED
    BY <1>c, <2>1 DEF InFlight, Running
<1>4. Behind' /\ FreedOnce' /\ Down'
    BY <1>a, <1>c, SMTT(30) DEF Behind, FreedOnce, Down, Base
<1>5. Locals'
  <2>1. ASSUME NEW t \in Threads, frame[t].pc = "truncate" PROVE frame[t].offset <= preLoadOffset'
    <3>1. frame[t].offset \in Nat /\ frame[t].offset <= preLoadOffset
      BY <1>a, <1>b, <2>1 DEF Frames, Locals
    <3> QED
      BY <1>b, <1>c, <3>1
  <2> QED
    BY <1>a, <1>c, <2>1 DEF Locals
<1> QED
    BY <1>1, <1>2, <1>3, <1>4, <1>5 DEF WindowInv

\* The steps of a pool thread keep the window.
LEMMA WorkerWindow ==
    ASSUME TypeOK, WindowInv, OnePreload, up, NEW w \in Workers, WorkerStep(w)
    PROVE  WindowInv'
<1>w. worker \in [Workers -> PoolThreads] /\ worker[w] \in PoolThreads /\ Locals
    BY DEF TypeOK, WindowInv
<1>1. CASE TakeTask(w)
  <2>1. UNCHANGED <<chunkList, truncateOffset, preLoadOffset, media, frame, up>>
    BY <1>1 DEF TakeTask, flow, store
  <2>2. \A v \in Workers : worker'[v].pc = "push" => worker'[v] = worker[v]
    BY <1>w, <1>1 DEF TakeTask, PoolThreads
  <2>3. Locals'
    BY <1>w, <2>1 DEF Locals
  <2> QED
    BY <2>1, <2>2, <2>3, WindowKept
<1>2. CASE MediaAllocFail(w)
  <2>1. UNCHANGED <<chunkList, truncateOffset, preLoadOffset, media, up>>
        /\ HoldClean(Len(holdList), "retry", FALSE)
    BY <1>2 DEF MediaAllocFail, store
  <2>2. \A v \in Workers : worker'[v].pc = "push" => worker'[v] = worker[v]
    BY <1>w, <1>2 DEF MediaAllocFail, Idle
  <2> QED
    BY <1>w, <2>1, <2>2, HoldCleanQuiet, WindowKept
<1>3. CASE ReleaseHeld(w)
  <2>1. UNCHANGED <<chunkList, truncateOffset, preLoadOffset, media, up>>
    BY <1>3 DEF ReleaseHeld, store
  <2>2. \A v \in Workers : worker'[v].pc = "push" => worker'[v] = worker[v]
    BY <1>w, <1>3 DEF ReleaseHeld, Idle
  <2>3. PICK k \in 0 .. Len(holdList) : HoldClean(k, "ok", ~worker[w].ready)
    BY <1>3 DEF ReleaseHeld
  <2>4. Locals' /\ \A u \in Threads : frame'[u].cleanList = frame[u].cleanList
    BY <1>w, <2>1, <2>3, HoldCleanQuiet
  <2> QED
    BY <2>1, <2>2, <2>4, WindowKept
<1> QED
    BY <1>1, <1>2, <1>3, AllocWindow, PushWindow DEF WorkerStep

\* The window recovered is the one the medium records.
LEMMA CrashWindow ==
    ASSUME TypeOK, WindowInv, CrashRecover
    PROVE  WindowInv'
<1>0. ChunkSize \in Nat \ {0} /\ media' = media /\ Aligned
    BY FlowAssumption DEF CrashRecover, WindowInv
<1>1. Aligned'
    BY <1>0 DEF Aligned, Base
<1>2. queued' = 0 /\ \A w \in Workers : worker'[w].pc = "idle"
    BY DEF CrashRecover, Idle
<1>3. CASE up' = FALSE
  <2>1. \A t \in Threads : frame'[t].pc = "down"
    BY <1>3 DEF CrashRecover, Returned
  <2> QED
    BY <1>1, <1>2, <1>3, <2>1 DEF WindowInv, WindowMatchesMedia, Down, Running
<1>4. ASSUME NEW list \in Recoverable, RecoverFlow(list), up' = TRUE
      PROVE  WindowInv'
  <2>1. /\ list \in Seq(ChunkIds) /\ DOMAIN list = 1 .. Len(list) /\ Len(list) \in Nat
        /\ \A i \in 1 .. Len(list) : media[list[i]] = media[list[1]] + (i - 1) * ChunkSize
        /\ (list # <<>>) => media[list[1]] \in Nat /\ list[1] \in ChunkIds
    BY RecoverTypes
  <2>2. Base(truncateOffset)' = truncateOffset'
    <3>1. CASE list = <<>>
      <4>1. truncateOffset' = 0
        BY <1>4, <3>1 DEF RecoverFlow
      <4> QED
        BY <1>0, <4>1, MulDiv DEF Base
    <3>2. CASE list # <<>>
      <4>1. truncateOffset' = media[list[1]] /\ media[list[1]] \in Nat /\ list[1] \in ChunkIds
        BY <1>4, <2>1, <3>2 DEF RecoverFlow
      <4>2. Base(media[list[1]]) = media[list[1]]
        BY <1>0, <4>1 DEF Aligned, Free
      <4> QED
        BY <4>1, <4>2 DEF Base
    <3> QED
      BY <3>1, <3>2
  <2>3. WindowMatchesMedia'
    <3>1. ASSUME NEW i \in DOMAIN list PROVE media[list[i]] = truncateOffset' + (i - 1) * ChunkSize
      <4>1. list # <<>>
        BY <2>1, <3>1
      <4> QED
        BY <1>4, <2>1, <3>1, <4>1 DEF RecoverFlow
    <3> QED
      BY <1>0, <1>4, <2>1, <2>2, <3>1 DEF RecoverFlow, WindowMatchesMedia
  <2>4. \A t \in Threads : frame'[t].pc = "idle" /\ frame'[t].cleanList = <<>>
    BY <1>4 DEF CrashRecover, Returned
  <2>5. InFlight' /\ Behind' /\ FreedOnce' /\ Locals' /\ Down'
    BY <1>2, <1>4, <2>4, SMTT(30) DEF InFlight, Behind, FreedOnce, Locals, Down
  <2> QED
    BY <1>1, <2>3, <2>5 DEF WindowInv
<1> QED
    BY <1>3, <1>4 DEF CrashRecover

\* A server that is down takes no step.
LEMMA StepsNeedUp ==
    ASSUME TypeOK, Down, Next
    PROVE  up
<1>1. SUFFICES ASSUME ~up PROVE FALSE
    OBVIOUS
<1>2. queued = 0 /\ (\A w \in Workers : worker[w].pc = "idle") /\ \A t \in Threads : frame[t].pc = "down"
    BY <1>1 DEF Down, Running
<1>3. ASSUME NEW t \in Threads, Call(t) \/ CallerStep(t) PROVE FALSE
  <2>1. Call(t) => frame[t].pc = "idle"
    BY DEF Call, ValidateRange, TruncateOffset, Seal, At
  <2>2. HoldWait(t) \/ HoldResume(t) \/ RaiseWriten(t) \/ BuildFlowAddrs(t) => frame[t].pc # "down"
    BY DEF HoldWait, HoldResume, RaiseWriten, BuildFlowAddrs, At
  <2>3. ScheduleCheck(t) \/ ScheduleSet(t) \/ ScheduleSubmit(t) => frame[t].pc # "down"
    BY DEF ScheduleCheck, ScheduleSet, ScheduleSubmit, At
  <2>4. TruncateLocked(t) \/ MediaFree(t) \/ SealRead(t) \/ SealStore(t) \/ SealTruncate(t) => frame[t].pc # "down"
    BY DEF TruncateLocked, MediaFree, SealRead, SealStore, SealTruncate, At
  <2>5. Call(t) => frame[t].pc # "down"
    BY <2>1
  <2>6. CallerStep(t) => frame[t].pc # "down"
    BY <2>2, <2>3, <2>4, Zenon DEF CallerStep
  <2>7. frame[t].pc = "down"
    BY <1>2
  <2> QED
    BY <1>3, <2>5, <2>6, <2>7, Zenon
<1>4. ASSUME NEW w \in Workers, WorkerStep(w) PROVE FALSE
  <2>1. ~TakeTask(w)
    BY <1>2 DEF TakeTask
  <2>2. ~MediaAllocFail(w) /\ ~PushChunk(w)
    BY <1>2 DEF MediaAllocFail, PushChunk
  <2>3. ~ReleaseHeld(w) /\ \A c \in ChunkIds : ~MediaAlloc(w, c)
    BY <1>2 DEF ReleaseHeld, MediaAlloc
  <2> QED
    BY <1>4, <2>1, <2>2, <2>3, Zenon DEF WorkerStep
<1> QED
    BY <1>1, <1>3, <1>4 DEF Next, CrashRecover

\* FlowInv is inductive.
LEMMA FlowInvStep == FlowInv /\ [Next]_vars => FlowInv'
<1> SUFFICES ASSUME FlowInv, [Next]_vars PROVE FlowInv'
    OBVIOUS
<1>1. TypeOK /\ OnePreload /\ WindowInv
    BY DEF FlowInv, WindowInv
<1>2. TypeOK' /\ OnePreload'
    BY <1>1, TypeStep, OnePreloadStep
<1>3. WindowInv'
  <2>1. CASE UNCHANGED vars
    <3>1. UNCHANGED <<chunkList, truncateOffset, preLoadOffset, media, frame, queued, worker, up>>
      BY <2>1 DEF vars, flow, store, pool
    <3>2. WindowMatchesMedia' /\ Aligned'
      BY <1>1, <3>1 DEF WindowInv, WindowMatchesMedia, Aligned, Base
    <3>3. Down'
      BY <1>1, <3>1 DEF WindowInv, Down, Running
    <3>4. up' => InFlight' /\ Behind'
      BY <1>1, <3>1 DEF WindowInv, InFlight, Behind, Base
    <3>5. up' => FreedOnce' /\ Locals'
      BY <1>1, <3>1, SMTT(30) DEF WindowInv, FreedOnce, Locals
    <3> QED
      BY <3>2, <3>3, <3>4, <3>5, Zenon DEF WindowInv
  <2>2. CASE Next
    <3>1. up
      BY <1>1, <2>2, StepsNeedUp DEF WindowInv
    <3> QED
      BY <1>1, <2>2, <3>1, CallerWindow, WorkerWindow, CrashWindow DEF Next
  <2> QED
    BY <2>1, <2>2
<1> QED
    BY <1>2, <1>3 DEF FlowInv, WindowInv

\* The chunk list is the window the medium records, whatever GetAddrByOffset,
\* TruncateOffset, Seal, the preload pool and crashes interleave.
THEOREM FlowWindow == Spec => []WindowMatchesMedia
<1>1. Init => FlowInv
    BY FlowInit
<1>2. FlowInv /\ [Next]_vars => FlowInv'
    BY FlowInvStep
<1>3. FlowInv => WindowMatchesMedia
    BY DEF FlowInv
<1> QED
    BY <1>1, <1>2, <1>3, PTL DEF Spec
=============================================================================
