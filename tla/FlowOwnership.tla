--------------------------- MODULE FlowOwnership ---------------------------
(***************************************************************************)
(* More about a flow, from the window invariant of FlowProofs: that no     *)
(* chunk is lost or has two owners, that the occupancy reported is exact,  *)
(* that nobody uses a range before it is preloaded, and what               *)
(* BuildFlowAddrs returns.                                                 *)
(***************************************************************************)
EXTENDS FlowProofs

-----------------------------------------------------------------------------
(* No chunk is lost.                                                       *)

\* The chunk c has an owner: the list, a worker or a caller that frees it.
HasOwner(c) ==
    \/ \E i \in DOMAIN chunkList : chunkList[i] = c
    \/ \E w \in Workers : worker[w].pc = "push" /\ worker[w].chunk = c
    \/ \E t \in Threads : \E i \in DOMAIN frame[t].cleanList : frame[t].cleanList[i] = c

NoneLost == \A c \in ChunkIds : media[c] # Free => HasOwner(c)

\* A step that moves no chunk loses none.
LEMMA OwnersKept ==
    ASSUME NoneLost,
           UNCHANGED <<chunkList, media>>,
           \A u \in Threads : frame'[u].cleanList = frame[u].cleanList,
           \A w \in Workers : worker[w].pc = "push" => worker'[w] = worker[w]
    PROVE  NoneLost'
<1> SUFFICES ASSUME NEW c \in ChunkIds, media[c] # Free PROVE HasOwner(c)'
    BY DEF NoneLost
<1>1. HasOwner(c)
    BY DEF NoneLost
<1>2. CASE \E i \in DOMAIN chunkList : chunkList[i] = c
    BY <1>2 DEF HasOwner
<1>3. CASE \E w \in Workers : worker[w].pc = "push" /\ worker[w].chunk = c
    BY <1>3 DEF HasOwner
<1>4. CASE \E t \in Threads : \E i \in DOMAIN frame[t].cleanList : frame[t].cleanList[i] = c
    BY <1>4 DEF HasOwner
<1> QED
    BY <1>1, <1>2, <1>3, <1>4 DEF HasOwner

\* The types of a caller's and of a pool thread's fields.
LEMMA FieldTypes ==
    ASSUME TypeOK
    PROVE  /\ frame \in [Threads -> Frames] /\ worker \in [Workers -> PoolThreads]
           /\ chunkList \in Seq(ChunkIds) /\ Len(chunkList) \in Nat
           /\ holdList \in Seq(Threads) /\ Len(holdList) \in Nat
           /\ truncateOffset \in Nat /\ preLoadOffset \in Nat
           /\ \A t \in Threads : frame[t] \in Frames /\ frame[t].offset \in Nat /\ frame[t].len \in Nat
           /\ \A v \in Workers : worker[v].offset \in Nat
<1>1. /\ frame \in [Threads -> Frames] /\ worker \in [Workers -> PoolThreads]
      /\ chunkList \in Seq(ChunkIds) /\ holdList \in Seq(Threads)
      /\ truncateOffset \in Nat /\ preLoadOffset \in Nat
    BY DEF TypeOK
<1>2. Len(chunkList) \in Nat /\ Len(holdList) \in Nat
    BY <1>1
<1>3. ASSUME NEW t \in Threads PROVE frame[t] \in Frames /\ frame[t].offset \in Nat /\ frame[t].len \in Nat
    BY <1>1 DEF Frames
<1>4. ASSUME NEW v \in Workers PROVE worker[v].offset \in Nat
    BY <1>1 DEF PoolThreads
<1> QED
    BY <1>1, <1>2, <1>3, <1>4

\* The chunks truncation removes from the list are the ones its caller frees.
LEMMA TruncateOwners ==
    ASSUME TypeOK, WindowInv, up, NoneLost, NEW t \in Threads, TruncateLocked(t),
           truncateOffset < frame[t].offset
    PROVE  NoneLost'
<1> DEFINE whole == WholeChunks(frame[t].offset)
           len == Len(chunkList)
           n == IF whole < len THEN whole ELSE len
           list == SubSeq(chunkList, 1, n)
           rest == SubSeq(chunkList, n + 1, len)
<1>a. /\ frame \in [Threads -> Frames] /\ frame[t] \in Frames /\ chunkList \in Seq(ChunkIds)
      /\ len \in Nat /\ truncateOffset \in Nat /\ frame[t].offset \in Nat
    BY FieldTypes
<1>b. frame[t].cleanList = <<>>
    BY DEF WindowInv, Locals, TruncateLocked, At
<1>c. /\ frame' = [frame EXCEPT ![t].pc = "free", ![t].cleanList = list]
      /\ chunkList' = rest
      /\ UNCHANGED <<media, worker>>
  <2>1. ~(truncateOffset >= frame[t].offset)
    BY <1>a
  <2> QED
    BY <2>1 DEF TruncateLocked, store, pool
<1>d. whole \in Nat
    BY <1>a, CutRange
<1> HIDE DEF whole
<1>e. n \in 0 .. len
    BY <1>a, <1>d
<1> HIDE DEF n
<1>f. /\ list \in Seq(ChunkIds) /\ Len(list) = n /\ \A i \in 1 .. n : list[i] = chunkList[i]
      /\ rest \in Seq(ChunkIds) /\ Len(rest) = len - n /\ \A i \in 1 .. len - n : rest[i] = chunkList[n + i]
    BY <1>a, <1>e, CutTypes
<1>g. DOMAIN list = 1 .. n /\ DOMAIN rest = 1 .. len - n
    BY <1>f
<1> HIDE DEF list, rest
<1>h. /\ \A u \in Threads : u # t => frame'[u] = frame[u]
      /\ frame'[t].cleanList = list
    BY <1>a, <1>c DEF Frames
<1> SUFFICES ASSUME NEW c \in ChunkIds, media[c] # Free PROVE HasOwner(c)'
    BY <1>c DEF NoneLost
<1>1. HasOwner(c)
    BY DEF NoneLost
<1>2. ASSUME NEW i \in DOMAIN chunkList, chunkList[i] = c PROVE HasOwner(c)'
  <2>1. i \in 1 .. len
    BY <1>a
  <2>2. CASE i <= n
    <3>1. i \in DOMAIN list /\ list[i] = c
      BY <1>2, <1>e, <1>f, <1>g, <2>1, <2>2
    <3> QED
      BY <1>h, <3>1 DEF HasOwner
  <2>3. CASE i > n
    <3>1. i - n \in 1 .. len - n /\ n + (i - n) = i
      BY <1>a, <1>e, <2>1, <2>3
    <3>2. rest[i - n] = chunkList[n + (i - n)]
      BY <1>f, <3>1
    <3>3. i - n \in DOMAIN chunkList' /\ chunkList'[i - n] = c
      BY <1>2, <1>c, <1>g, <3>1, <3>2
    <3> QED
      BY <3>3 DEF HasOwner
  <2> QED
    BY <1>e, <2>1, <2>2, <2>3
<1>3. ASSUME NEW w \in Workers, worker[w].pc = "push", worker[w].chunk = c PROVE HasOwner(c)'
    BY <1>3, <1>c DEF HasOwner
<1>4. ASSUME NEW u \in Threads, NEW i \in DOMAIN frame[u].cleanList, frame[u].cleanList[i] = c PROVE HasOwner(c)'
  <2>1. u # t
    BY <1>4, <1>b
  <2> QED
    BY <1>4, <1>h, <2>1 DEF HasOwner
<1> QED
    BY <1>1, <1>2, <1>3, <1>4 DEF HasOwner

\* Freeing a chunk takes it from its owner and from the medium at once.
LEMMA FreeOwners ==
    ASSUME TypeOK, NoneLost, NEW t \in Threads, MediaFree(t), frame[t].cleanList # <<>>
    PROVE  NoneLost'
<1> DEFINE list == frame[t].cleanList
           h == list[1]
<1>a. /\ frame \in [Threads -> Frames] /\ list \in Seq(ChunkIds) /\ media \in [ChunkIds -> Nat \cup {Free}]
    BY DEF TypeOK, Frames
<1>b. /\ h \in ChunkIds /\ Head(list) = h /\ Len(list) \in Nat
      /\ DOMAIN list = 1 .. Len(list)
      /\ DOMAIN Tail(list) = 1 .. Len(list) - 1
      /\ \A i \in 1 .. Len(list) - 1 : Tail(list)[i] = list[i + 1]
    BY <1>a
<1>c. /\ media' = [media EXCEPT ![h] = Free] /\ frame' = [frame EXCEPT ![t].cleanList = Tail(list)]
      /\ UNCHANGED <<chunkList, worker>>
    BY <1>b DEF MediaFree, flow, pool
<1>d. /\ \A u \in Threads : u # t => frame'[u] = frame[u]
      /\ frame'[t].cleanList = Tail(list)
    BY <1>a, <1>c DEF Frames
<1> SUFFICES ASSUME NEW c \in ChunkIds, media'[c] # Free PROVE HasOwner(c)'
    BY DEF NoneLost
<1>1. c # h /\ media[c] # Free
    BY <1>a, <1>b, <1>c
<1>2. HasOwner(c)
    BY <1>1 DEF NoneLost
<1>3. CASE \E i \in DOMAIN chunkList : chunkList[i] = c
    BY <1>3, <1>c DEF HasOwner
<1>4. CASE \E w \in Workers : worker[w].pc = "push" /\ worker[w].chunk = c
    BY <1>4, <1>c DEF HasOwner
<1>5. ASSUME NEW u \in Threads, NEW i \in DOMAIN frame[u].cleanList, frame[u].cleanList[i] = c PROVE HasOwner(c)'
  <2>1. CASE u # t
    BY <1>5, <1>d, <2>1 DEF HasOwner
  <2>2. CASE u = t
    <3>1. i \in 1 .. Len(list) /\ list[i] = c
      BY <1>5, <1>b, <2>2
    <3>2. i # 1
      BY <1>1, <3>1
    <3>3. i - 1 \in 1 .. Len(list) - 1 /\ (i - 1) + 1 = i
      BY <1>b, <3>1, <3>2
    <3>4. Tail(list)[i - 1] = c
      BY <1>b, <3>1, <3>3
    <3>5. i - 1 \in DOMAIN frame'[t].cleanList /\ frame'[t].cleanList[i - 1] = c
      BY <1>b, <1>d, <3>3, <3>4
    <3> QED
      BY <3>5 DEF HasOwner
  <2> QED
    BY <2>1, <2>2
<1> QED
    BY <1>2, <1>3, <1>4, <1>5 DEF HasOwner

\* The steps of a caller lose no chunk.
LEMMA CallerOwners ==
    ASSUME TypeOK, WindowInv, up, NoneLost, NEW t \in Threads, Call(t) \/ CallerStep(t)
    PROVE  NoneLost'
<1>f. frame \in [Threads -> Frames] /\ frame[t] \in Frames /\ Locals
    BY DEF TypeOK, WindowInv
<1>1. CASE TruncateLocked(t) /\ truncateOffset < frame[t].offset
    BY <1>1, TruncateOwners
<1>2. CASE MediaFree(t) /\ frame[t].cleanList # <<>>
    BY <1>2, FreeOwners
<1>3. ASSUME NEW r, Return(t, r), frame[t].cleanList = <<>>, UNCHANGED <<chunkList, media, worker>>
      PROVE  NoneLost'
  <2>1. \A u \in Threads : frame'[u].cleanList = frame[u].cleanList
    BY <1>f, <1>3 DEF Return, Returned
  <2> QED
    BY <1>3, <2>1, OwnersKept
<1>4. CASE TruncateLocked(t) /\ ~(truncateOffset < frame[t].offset)
  <2>1. frame[t].cleanList = <<>>
    BY <1>f, <1>4 DEF TruncateLocked, At, Locals
  <2>2. Return(t, "ok") /\ UNCHANGED <<chunkList, media, worker>>
    BY <1>4 DEF TruncateLocked, store, pool
  <2> QED
    BY <1>3, <2>1, <2>2
<1>5. CASE MediaFree(t) /\ frame[t].cleanList = <<>>
  <2>1. Return(t, "ok") /\ UNCHANGED <<chunkList, media, worker>>
    BY <1>5 DEF MediaFree, flow, store, pool
  <2> QED
    BY <1>3, <1>5, <2>1
<1>6. CASE ~TruncateLocked(t) /\ ~MediaFree(t)
  <2>1. UNCHANGED <<chunkList, media, worker>> /\ \A u \in Threads : frame'[u].cleanList = frame[u].cleanList
    BY <1>f, <1>6, CallerQuiet DEF store
  <2> QED
    BY <2>1, OwnersKept
<1> QED
    BY <1>1, <1>2, <1>4, <1>5, <1>6

\* The steps of a pool thread lose no chunk: the one allocated stays in its
\* hand until it is pushed.
LEMMA WorkerOwners ==
    ASSUME TypeOK, WindowInv, up, NoneLost, NEW w \in Workers, WorkerStep(w)
    PROVE  NoneLost'
<1>w. worker \in [Workers -> PoolThreads] /\ worker[w] \in PoolThreads /\ Locals
      /\ chunkList \in Seq(ChunkIds) /\ media \in [ChunkIds -> Nat \cup {Free}]
    BY DEF TypeOK, WindowInv
<1>1. CASE TakeTask(w)
  <2>1. UNCHANGED <<chunkList, media, frame>> /\ worker[w].pc = "idle"
    BY <1>1 DEF TakeTask, flow, store
  <2>2. \A v \in Workers : worker[v].pc = "push" => worker'[v] = worker[v]
    BY <1>w, <1>1 DEF TakeTask
  <2> QED
    BY <2>1, <2>2, OwnersKept
<1>2. CASE MediaAllocFail(w)
  <2>1. UNCHANGED <<chunkList, media, preLoadOffset>> /\ HoldClean(Len(holdList), "retry", FALSE)
    BY <1>2 DEF MediaAllocFail, store
  <2>2. \A v \in Workers : worker[v].pc = "push" => worker'[v] = worker[v]
    BY <1>w, <1>2 DEF MediaAllocFail
  <2> QED
    BY <1>w, <2>1, <2>2, HoldCleanQuiet, OwnersKept
<1>3. CASE ReleaseHeld(w)
  <2>1. UNCHANGED <<chunkList, media, preLoadOffset>>
    BY <1>3 DEF ReleaseHeld, store
  <2>2. \A v \in Workers : worker[v].pc = "push" => worker'[v] = worker[v]
    BY <1>w, <1>3 DEF ReleaseHeld
  <2>3. PICK k \in 0 .. Len(holdList) : HoldClean(k, "ok", ~worker[w].ready)
    BY <1>3 DEF ReleaseHeld
  <2>4. \A u \in Threads : frame'[u].cleanList = frame[u].cleanList
    BY <1>w, <2>1, <2>3, HoldCleanQuiet
  <2> QED
    BY <2>1, <2>2, <2>4, OwnersKept
<1>4. ASSUME NEW c \in ChunkIds, MediaAlloc(w, c) PROVE NoneLost'
  <2>1. /\ media' = [media EXCEPT ![c] = preLoadOffset] /\ worker[w].pc = "alloc"
        /\ worker' = [worker EXCEPT ![w].pc = "push", ![w].chunk = c]
        /\ UNCHANGED <<chunkList, frame>>
    BY <1>4 DEF MediaAlloc, flow
  <2>2. worker'[w].pc = "push" /\ worker'[w].chunk = c /\ \A v \in Workers : v # w => worker'[v] = worker[v]
    BY <1>w, <2>1 DEF PoolThreads
  <2>3. HasOwner(c)'
    BY <2>2 DEF HasOwner
  <2>4. ASSUME NEW d \in ChunkIds, d # c, media'[d] # Free PROVE HasOwner(d)'
    <3>1. HasOwner(d)
      BY <1>w, <2>1, <2>4 DEF NoneLost
    <3> QED
      BY <2>1, <2>2, <3>1 DEF HasOwner
  <2> QED
    BY <2>3, <2>4 DEF NoneLost
<1>5. CASE PushChunk(w)
  <2> DEFINE len == Len(chunkList)
  <2>0. worker[w].pc = "push" /\ worker[w].chunk \in ChunkIds
    BY <1>5 DEF PushChunk, TypeOK
  <2>2. PICK c \in ChunkIds : c = worker[w].chunk
    BY <2>0
  <2>1. /\ chunkList' = Append(chunkList, c)
        /\ \A v \in Workers : v # w => worker'[v] = worker[v]
        /\ UNCHANGED <<media, frame>>
    BY <1>w, <1>5, <2>2 DEF PushChunk, store
  <2>3. len \in Nat /\ DOMAIN chunkList' = 1 .. len + 1 /\ chunkList'[len + 1] = c
        /\ DOMAIN chunkList = 1 .. len /\ \A i \in 1 .. len : chunkList'[i] = chunkList[i]
    BY <1>w, <2>1, <2>2
  <2>4. HasOwner(c)'
    BY <2>3 DEF HasOwner
  <2>5. ASSUME NEW d \in ChunkIds, d # c, media'[d] # Free PROVE HasOwner(d)'
    <3>1. HasOwner(d)
      BY <2>1, <2>5 DEF NoneLost
    <3>2. CASE \E i \in DOMAIN chunkList : chunkList[i] = d
      <4>1. PICK i \in 1 .. len : chunkList[i] = d
        BY <2>3, <3>2
      <4>2. i \in DOMAIN chunkList' /\ chunkList'[i] = d
        BY <2>3, <4>1
      <4> QED
        BY <4>2 DEF HasOwner
    <3>3. CASE \E v \in Workers : worker[v].pc = "push" /\ worker[v].chunk = d
      BY <2>1, <2>2, <2>5, <3>3 DEF HasOwner
    <3>4. CASE \E t \in Threads : \E i \in DOMAIN frame[t].cleanList : frame[t].cleanList[i] = d
      BY <2>1, <3>4 DEF HasOwner
    <3> QED
      BY <3>1, <3>2, <3>3, <3>4 DEF HasOwner
  <2> QED
    BY <2>4, <2>5 DEF NoneLost
<1> QED
    BY <1>1, <1>2, <1>3, <1>4, <1>5 DEF WorkerStep

\* The list recovered has every chunk the medium records.
LEMMA CrashOwners ==
    ASSUME CrashRecover, up'
    PROVE  NoneLost'
<1>1. PICK list \in Recoverable : chunkList' = list /\ media' = media
    BY DEF CrashRecover, RecoverFlow
<1>2. \A c \in ChunkIds : media[c] # Free => \E i \in DOMAIN list : list[i] = c
    BY <1>1 DEF Recoverable, Contiguous, Allocated
<1> QED
    BY <1>1, <1>2 DEF NoneLost, HasOwner

OwnersInv == FlowInv /\ (up => NoneLost)

LEMMA OwnersStep == OwnersInv /\ [Next]_vars => OwnersInv'
<1> SUFFICES ASSUME OwnersInv, [Next]_vars PROVE OwnersInv'
    OBVIOUS
<1>1. TypeOK /\ WindowInv /\ FlowInv
    BY DEF OwnersInv, FlowInv, WindowInv
<1>2. FlowInv'
    BY <1>1, FlowInvStep
<1>3. CASE UNCHANGED vars
  <2>1. UNCHANGED <<chunkList, media, worker, frame, up>>
    BY <1>3 DEF vars, flow, store, pool
  <2> QED
    BY <1>2, <2>1, OwnersKept DEF OwnersInv
<1>4. CASE Next
  <2>1. up
    BY <1>1, <1>4, StepsNeedUp DEF WindowInv
  <2>2. NoneLost
    BY <2>1 DEF OwnersInv
  <2>3. up' => NoneLost'
    BY <1>1, <1>4, <2>1, <2>2, CallerOwners, WorkerOwners, CrashOwners DEF Next
  <2> QED
    BY <1>2, <2>3 DEF OwnersInv
<1> QED
    BY <1>3, <1>4

\* What the invariant says about the owners is OneOwner.
LEMMA OwnersApart == OwnersInv => OneOwner
<1> SUFFICES ASSUME OwnersInv, up PROVE OneOwner
    BY DEF OneOwner
<1>1. TypeOK /\ WindowMatchesMedia /\ InFlight /\ Behind /\ FreedOnce /\ NoneLost
    BY DEF OwnersInv, FlowInv
<1>2. /\ DOMAIN chunkList = 1 .. Len(chunkList)
      /\ preLoadOffset \in Nat /\ Base(truncateOffset) \in Nat /\ ChunkSize \in Nat \ {0}
      /\ Base(truncateOffset) <= preLoadOffset
  <2>1. Len(chunkList) * ChunkSize \in Nat /\ Base(truncateOffset) \in Nat
        /\ preLoadOffset = Base(truncateOffset) + Len(chunkList) * ChunkSize
    BY <1>1, EndAligned DEF WindowMatchesMedia
  <2> QED
    BY <1>1, <2>1, FlowAssumption DEF TypeOK
<1>3. \A c \in Window : c \in ChunkIds /\ media[c] \in Nat /\ media[c] >= Base(truncateOffset)
                        /\ media[c] < preLoadOffset
  <2> SUFFICES ASSUME NEW i \in 1 .. Len(chunkList)
               PROVE  /\ chunkList[i] \in ChunkIds /\ media[chunkList[i]] \in Nat
                      /\ media[chunkList[i]] >= Base(truncateOffset) /\ media[chunkList[i]] < preLoadOffset
    BY <1>2 DEF Window
  <2> QED
    BY <1>1, <1>2, WindowPlaces
<1>4. \A c \in InHand : c \in ChunkIds /\ media[c] = preLoadOffset
    BY <1>1 DEF InHand, InFlight
<1>5. \A t \in Threads : \A c \in Owned(t) : c \in ChunkIds /\ media[c] \in Nat /\ media[c] < Base(truncateOffset)
  <2> SUFFICES ASSUME NEW t \in Threads, NEW i \in DOMAIN frame[t].cleanList
               PROVE  LET c == frame[t].cleanList[i]
                      IN  c \in ChunkIds /\ media[c] \in Nat /\ media[c] < Base(truncateOffset)
    BY DEF Owned
  <2>1. frame[t].cleanList[i] \in ChunkIds
    BY <1>1 DEF TypeOK, Frames
  <2>2. media[frame[t].cleanList[i]] # Free /\ media[frame[t].cleanList[i]] < Base(truncateOffset)
    BY <1>1 DEF Behind
  <2> QED
    BY <1>1, <2>1, <2>2 DEF TypeOK
<1>6. Allocated = Window \cup InHand \cup UNION {Owned(t) : t \in Threads}
  <2>1. ASSUME NEW c \in Allocated PROVE c \in Window \cup InHand \cup UNION {Owned(t) : t \in Threads}
    <3>1. HasOwner(c)
      BY <1>1, <2>1 DEF Allocated, NoneLost
    <3> QED
      BY <3>1 DEF HasOwner, Window, InHand, Owned
  <2>2. \A n \in Nat : n # Free
    BY DEF Free
  <2>3. ASSUME NEW c \in Window \cup InHand \cup UNION {Owned(t) : t \in Threads} PROVE c \in Allocated
    BY <1>2, <1>3, <1>4, <1>5, <2>2, <2>3 DEF Allocated
  <2> QED
    BY <2>1, <2>3
<1>7. \A i, j \in DOMAIN chunkList : chunkList[i] = chunkList[j] => i = j
    BY <1>1, <1>2, WindowPlaces
<1>8. \A t \in Threads : \A i, j \in DOMAIN frame[t].cleanList :
         frame[t].cleanList[i] = frame[t].cleanList[j] => i = j
    BY <1>1 DEF FreedOnce
<1>9. Window \cap InHand = {}
    BY <1>2, <1>3, <1>4
<1>10. \A t \in Threads : Owned(t) \cap (Window \cup InHand) = {}
  <2> SUFFICES ASSUME NEW t \in Threads, NEW c \in Owned(t), c \in Window \cup InHand PROVE FALSE
    OBVIOUS
  <2> QED
    BY <1>2, <1>3, <1>4, <1>5
<1>11. \A t, u \in Threads : t # u => Owned(t) \cap Owned(u) = {}
    BY <1>1 DEF FreedOnce, Owned
<1> QED
    BY <1>6, <1>7, <1>8, <1>9, <1>10, <1>11 DEF OneOwner

\* A chunk taken from the medium has exactly one owner, whatever the callers,
\* the preload pool and crashes interleave: none leaks and none is freed twice.
THEOREM FlowOneOwner == Spec => []OneOwner
<1>1. Init => OwnersInv
  <2>1. Init => NoneLost
    BY DEF Init, NoneLost
  <2> QED
    BY <2>1, FlowInit DEF OwnersInv
<1> QED
    BY <1>1, OwnersStep, OwnersApart, PTL DEF Spec

-----------------------------------------------------------------------------
(* The occupancy.                                                          *)

\* Taking a free chunk adds one to the chunks allocated, freeing one that is
\* allocated takes one away.
LEMMA AllocatedCount ==
    ASSUME TypeOK, NEW c \in ChunkIds
    PROVE  /\ IsFiniteSet(Allocated) /\ Cardinality(Allocated) \in Nat
           /\ \A o \in Nat : media[c] = Free /\ media' = [media EXCEPT ![c] = o]
                 => Cardinality(Allocated') = Cardinality(Allocated) + 1
           /\ media[c] # Free /\ media' = [media EXCEPT ![c] = Free]
                 => Cardinality(Allocated') = Cardinality(Allocated) - 1
<1>1. media \in [ChunkIds -> Nat \cup {Free}] /\ \A n \in Nat : n # Free
    BY DEF TypeOK, Free
<1>2. IsFiniteSet(Allocated)
    BY FlowAssumption, FS_Subset DEF Allocated
<1>3. Cardinality(Allocated) \in Nat
    BY <1>2, FS_CardinalityType
<1>4. ASSUME NEW o \in Nat, media[c] = Free, media' = [media EXCEPT ![c] = o]
      PROVE  Cardinality(Allocated') = Cardinality(Allocated) + 1
  <2>1. Allocated' = Allocated \cup {c} /\ c \notin Allocated
    BY <1>1, <1>4 DEF Allocated
  <2> QED
    BY <1>2, <2>1, FS_AddElement
<1>5. ASSUME media[c] # Free, media' = [media EXCEPT ![c] = Free]
      PROVE  Cardinality(Allocated') = Cardinality(Allocated) - 1
  <2>1. Allocated' = Allocated \ {c} /\ c \in Allocated
    BY <1>1, <1>5 DEF Allocated
  <2> QED
    BY <1>2, <2>1, FS_RemoveElement
<1> QED
    BY <1>2, <1>3, <1>4, <1>5

LEMMA UsedStep == FlowInv /\ UsedSizeExact /\ [Next]_vars => UsedSizeExact'
<1> SUFFICES ASSUME FlowInv, UsedSizeExact, [Next]_vars PROVE UsedSizeExact'
    OBVIOUS
<1>1. TypeOK /\ WindowInv
    BY DEF FlowInv, WindowInv
<1>2. ChunkSize \in Nat \ {0} /\ usedSize \in Int /\ usedSize = Cardinality(Allocated) * ChunkSize
    BY <1>1, FlowAssumption DEF TypeOK, UsedSizeExact
<1>3. UNCHANGED <<media, usedSize>> => UsedSizeExact'
    BY DEF UsedSizeExact, Allocated
<1>4. CASE UNCHANGED vars
    BY <1>3, <1>4 DEF vars, store
<1>5. ASSUME NEW t \in Threads, Call(t) \/ CallerStep(t), Next PROVE UsedSizeExact'
  <2>1. up
    BY <1>1, <1>5, StepsNeedUp DEF WindowInv
  <2>2. CASE MediaFree(t) /\ frame[t].cleanList # <<>>
    <3> DEFINE c == frame[t].cleanList[1]
    <3>1. frame[t].cleanList \in Seq(ChunkIds) /\ frame[t].cleanList # <<>>
      BY <1>1, <2>2 DEF TypeOK, Frames
    <3>2. c \in ChunkIds /\ Head(frame[t].cleanList) = c /\ 1 \in DOMAIN frame[t].cleanList
      BY <3>1
    <3>3. media[c] # Free
      BY <1>1, <2>1, <3>2 DEF WindowInv, Behind
    <3>4. media' = [media EXCEPT ![c] = Free] /\ usedSize' = usedSize - ChunkSize
      BY <2>2, <3>2 DEF MediaFree
    <3> HIDE DEF c
    <3>5. Cardinality(Allocated') = Cardinality(Allocated) - 1 /\ Cardinality(Allocated) \in Nat
      BY <1>1, <3>2, <3>3, <3>4, AllocatedCount
    <3>6. (Cardinality(Allocated) - 1) * ChunkSize = Cardinality(Allocated) * ChunkSize - ChunkSize
      BY <1>2, <3>5, MulOrder
    <3> QED
      BY <1>2, <3>4, <3>5, <3>6 DEF UsedSizeExact
  <2>3. CASE ~(MediaFree(t) /\ frame[t].cleanList # <<>>)
    <3>1. UNCHANGED <<media, usedSize>>
      <4>1. MediaFree(t) => UNCHANGED <<media, usedSize>>
        BY <2>3 DEF MediaFree, store
      <4>2. TruncateLocked(t) => UNCHANGED <<media, usedSize>>
        BY DEF TruncateLocked, store
      <4>3. ~TruncateLocked(t) /\ ~MediaFree(t) => UNCHANGED <<media, usedSize>>
        BY <1>1, <1>5, <2>1, CallerQuiet DEF WindowInv, store
      <4> QED
        BY <4>1, <4>2, <4>3
    <3> QED
      BY <1>3, <3>1
  <2> QED
    BY <2>2, <2>3
<1>6. ASSUME NEW w \in Workers, WorkerStep(w) PROVE UsedSizeExact'
  <2>1. ASSUME NEW c \in ChunkIds, MediaAlloc(w, c) PROVE UsedSizeExact'
    <3>1. media[c] = Free /\ media' = [media EXCEPT ![c] = preLoadOffset] /\ usedSize' = usedSize + ChunkSize
          /\ preLoadOffset \in Nat
      BY <1>1, <2>1 DEF MediaAlloc, TypeOK
    <3>2. Cardinality(Allocated') = Cardinality(Allocated) + 1 /\ Cardinality(Allocated) \in Nat
      BY <1>1, <3>1, AllocatedCount
    <3>3. (Cardinality(Allocated) + 1) * ChunkSize = Cardinality(Allocated) * ChunkSize + ChunkSize
      BY <1>2, <3>2, MulOrder
    <3> QED
      BY <1>2, <3>1, <3>2, <3>3 DEF UsedSizeExact
  <2>2. TakeTask(w) \/ MediaAllocFail(w) \/ PushChunk(w) \/ ReleaseHeld(w) => UNCHANGED <<media, usedSize>>
    BY DEF TakeTask, MediaAllocFail, PushChunk, ReleaseHeld, store
  <2> QED
    BY <1>3, <1>6, <2>1, <2>2 DEF WorkerStep
<1>7. CASE CrashRecover
    BY <1>7 DEF CrashRecover, RecoverUsed, UsedSizeExact, Allocated
<1> QED
    BY <1>4, <1>5, <1>6, <1>7 DEF Next

\* The occupancy FlowManager reports is what is allocated, after restarts too.
THEOREM FlowUsedSize == Spec => []UsedSizeExact
<1>1. Init => FlowInv /\ UsedSizeExact
  <2>1. Init => UsedSizeExact
    <3> SUFFICES ASSUME Init PROVE UsedSizeExact
      OBVIOUS
    <3>1. Allocated = {} /\ usedSize = 0
      BY DEF Init, Allocated
    <3> QED
      BY <3>1, FS_EmptySet, FlowAssumption DEF UsedSizeExact
  <2> QED
    BY <2>1, FlowInit
<1>2. (FlowInv /\ UsedSizeExact) /\ [Next]_vars => (FlowInv /\ UsedSizeExact)'
    BY FlowInvStep, UsedStep
<1> QED
    BY <1>1, <1>2, PTL DEF Spec

-----------------------------------------------------------------------------
(* Preloaded before it is used.                                            *)

\* The caller is on the hold list or has been: it sleeps, or is on its way to.
Waiting(t) ==
    \/ frame[t].pc = "wait"
    \/ frame[t].pc \in {"check", "set", "submit"} /\ frame[t].after = "wait"
OnList(t) == \E i \in DOMAIN holdList : holdList[i] = t

\* A caller past the hold has its range preloaded, and so has one that was
\* taken off the list with success; a caller asks for at least one byte.
Ready(t) ==
    /\ frame[t].pc \in {"written", "build"} => Need(t) <= preLoadOffset
    /\ Waiting(t) /\ ~OnList(t) /\ frame[t].ret = "ok" => Need(t) <= preLoadOffset
    /\ frame[t].pc \in {"hold", "written", "build"} \/ Waiting(t) => frame[t].len >= 1

\* What a worker tells HoldClean has been preloaded has been.
Held ==
    /\ \A t \in Threads : Ready(t)
    /\ \A w \in Workers : worker[w].pc = "clean" => worker[w].offset <= preLoadOffset

\* A caller that is nowhere near the hold list is ready.
LEMMA ReadyElsewhere ==
    ASSUME NEW t \in Threads, frame'[t].pc \in CallerPcs \ {"hold", "written", "build", "check", "set", "submit", "wait"}
    PROVE  Ready(t)'
    BY DEF Ready, Waiting

\* A caller's step keeps the promise to itself and to the others.
LEMMA CallerHeld ==
    ASSUME TypeOK, Held, NEW t \in Threads, Call(t) \/ CallerStep(t)
    PROVE  Held'
<1> DEFINE Frame == /\ preLoadOffset' = preLoadOffset /\ worker' = worker
                    /\ \A u \in Threads : u # t => frame'[u] = frame[u]
           Same == Frame /\ holdList' = holdList
<1>f. frame \in [Threads -> Frames] /\ frame[t] \in Frames /\ preLoadOffset \in Nat /\ holdList \in Seq(Threads)
      /\ frame[t].offset \in Nat /\ frame[t].len \in Nat
    BY DEF TypeOK, Frames
<1>r. Ready(t)
    BY DEF Held
<1>a. ASSUME NEW l, Goto(t, l)
      PROVE  /\ \A u \in Threads : u # t => frame'[u] = frame[u]
             /\ frame'[t] = [frame[t] EXCEPT !.pc = l]
    BY <1>f, <1>a DEF Goto
<1>b. ASSUME NEW r, Return(t, r)
      PROVE  (\A u \in Threads : u # t => frame'[u] = frame[u]) /\ frame'[t].pc = "idle"
    BY <1>f, <1>b DEF Return, Returned
<1>c. ASSUME NEW l, NEW o, NEW n, Enter(t, l, o, n)
      PROVE  /\ \A u \in Threads : u # t => frame'[u] = frame[u]
             /\ frame'[t].pc = l /\ frame'[t].offset = o /\ frame'[t].len = n
    BY <1>f, <1>c DEF Enter, Returned
<1>d. ASSUME Frame, OnList(t)' \/ UNCHANGED holdList, \A u \in Threads : u # t => (OnList(u) => OnList(u)'), Ready(t)'
      PROVE  Held'
  <2>1. ASSUME NEW u \in Threads, u # t PROVE Ready(u)'
    <3>1. Ready(u) /\ frame'[u] = frame[u]
      BY <1>d, <2>1 DEF Held
    <3> QED
      BY <1>d, <2>1, <3>1 DEF Ready, Waiting, Need
  <2> QED
    BY <1>d, <2>1 DEF Held
<1>e. ASSUME Same, Ready(t)' PROVE Held'
    BY <1>d, <1>e DEF OnList
<1>i. ASSUME Same, frame'[t].pc = "idle" PROVE Held'
    BY <1>e, <1>i, ReadyElsewhere DEF CallerPcs
<1> USE DEF flow, store, pool, At
<1>1. ASSUME NEW o \in 0 .. MaxOffset, NEW n \in 1 .. MaxLen, ValidateRange(t, o, n) PROVE Held'
  <2>1. o \in Nat /\ n \in Nat /\ n >= 1
    BY FlowAssumption
  <2>2. UNCHANGED <<preLoadOffset, worker, holdList>>
    BY <1>1 DEF ValidateRange
  <2>3. CASE Return(t, "err")
    BY <2>2, <2>3, <1>b, <1>i
  <2>4. CASE Enter(t, IF o + n > preLoadOffset THEN "hold" ELSE "written", o, n)
    <3>1. Same
      BY <2>2, <2>4, <1>c
    <3>2. /\ frame'[t].offset = o /\ frame'[t].len = n
          /\ frame'[t].pc = IF o + n > preLoadOffset THEN "hold" ELSE "written"
      BY <2>4, <1>c
    <3>3. Ready(t)'
      BY <1>f, <2>1, <2>2, <3>2 DEF Ready, Waiting, Need
    <3> QED
      BY <3>1, <3>3, <1>e
  <2> QED
    BY <1>1, <2>3, <2>4 DEF ValidateRange
<1>2. ASSUME NEW o, TruncateCheck(t, o), UNCHANGED <<preLoadOffset, worker, holdList>> PROVE Held'
  <2>1. Return(t, "err") \/ Enter(t, "truncate", o, 0)
    BY <1>2 DEF TruncateCheck
  <2>2. Same /\ frame'[t].pc \in {"idle", "truncate"}
    BY <1>2, <2>1, <1>b, <1>c
  <2> QED
    BY <2>2, <1>e, ReadyElsewhere DEF CallerPcs
<1>3. ASSUME NEW o, TruncateOffset(t, o) PROVE Held'
    BY <1>2, <1>3 DEF TruncateOffset
<1>4. ASSUME Seal(t) \/ SealRead(t) \/ SealStore(t) PROVE Held'
  <2>1. UNCHANGED <<preLoadOffset, worker, holdList>>
    BY <1>4 DEF Seal, SealRead, SealStore
  <2>2. \/ Return(t, "ok") \/ Enter(t, "seal", 0, 0) \/ Enter(t, "seal_store", preLoadOffset, 0)
        \/ Goto(t, "seal_truncate")
    BY <1>4 DEF Seal, SealRead, SealStore
  <2>3. ASSUME Goto(t, "seal_truncate") PROVE frame'[t].pc = "seal_truncate"
    <3>1. frame'[t] = [frame[t] EXCEPT !.pc = "seal_truncate"]
      BY <2>3, <1>a
    <3> QED
      BY <1>f, <3>1 DEF Frames
  <2>4. Same /\ frame'[t].pc \in {"idle", "seal", "seal_store", "seal_truncate"}
    BY <2>1, <2>2, <2>3, <1>a, <1>b, <1>c
  <2> QED
    BY <2>4, <1>e, ReadyElsewhere DEF CallerPcs
<1>5. ASSUME SealTruncate(t) PROVE Held'
    BY <1>2, <1>5 DEF SealTruncate
<1>6. ASSUME HoldWait(t) PROVE Held'
  <2>1. UNCHANGED <<preLoadOffset, worker>> /\ frame[t].pc = "hold" /\ frame[t].len >= 1
    BY <1>6, <1>r DEF HoldWait, Ready
  <2>2. CASE preLoadOffset >= Need(t)
    <3>1. Goto(t, "written") /\ holdList' = holdList
      BY <1>6, <1>f, <2>2 DEF HoldWait, Need
    <3>2. Same /\ frame'[t] = [frame[t] EXCEPT !.pc = "written"]
      BY <2>1, <3>1, <1>a
    <3>3. Ready(t)'
      BY <1>f, <2>1, <2>2, <3>2 DEF Ready, Waiting, Need, Frames
    <3> QED
      BY <3>2, <3>3, <1>e
  <2>3. CASE preLoadOffset < Need(t)
    <3>1. holdList' = Append(holdList, t) /\ frame' = [frame EXCEPT ![t].pc = "check", ![t].after = "wait"]
      BY <1>6, <1>f, <2>3 DEF HoldWait, Need
    <3>2. Frame /\ frame'[t].pc = "check" /\ frame'[t].len = frame[t].len
      BY <1>f, <2>1, <3>1 DEF Frames
    <3>3. /\ DOMAIN holdList = 1 .. Len(holdList) /\ Len(holdList) \in Nat
          /\ DOMAIN holdList' = 1 .. Len(holdList) + 1 /\ holdList'[Len(holdList) + 1] = t
          /\ \A i \in 1 .. Len(holdList) : holdList'[i] = holdList[i]
      BY <1>f, <3>1
    <3>4. OnList(t)'
      BY <3>3 DEF OnList
    <3>5. ASSUME NEW u \in Threads, OnList(u) PROVE OnList(u)'
      <4>1. PICK i \in 1 .. Len(holdList) : holdList[i] = u
        BY <3>3, <3>5 DEF OnList
      <4>2. i \in DOMAIN holdList' /\ holdList'[i] = u
        BY <3>3, <4>1
      <4> QED
        BY <4>2 DEF OnList
    <3>6. Ready(t)'
      BY <2>1, <3>2, <3>4 DEF Ready
    <3> QED
      BY <3>2, <3>4, <3>5, <3>6, <1>d
  <2> QED
    BY <1>f, <2>2, <2>3 DEF Need
<1>7. ASSUME HoldResume(t) PROVE Held'
  <2>1. UNCHANGED <<preLoadOffset, worker, holdList>> /\ frame[t].pc = "wait" /\ ~OnList(t)
    BY <1>7 DEF HoldResume, OnList
  <2>2. CASE frame[t].ret = "ok"
    <3>1. Goto(t, "written")
      BY <1>7, <2>2 DEF HoldResume
    <3>2. Same /\ frame'[t] = [frame[t] EXCEPT !.pc = "written"]
      BY <2>1, <3>1, <1>a
    <3>3. Need(t) <= preLoadOffset /\ frame[t].len >= 1
      BY <1>r, <2>1, <2>2 DEF Ready, Waiting
    <3>4. Ready(t)'
      BY <1>f, <2>1, <3>2, <3>3 DEF Ready, Waiting, Need, Frames
    <3> QED
      BY <3>2, <3>4, <1>e
  <2>3. CASE frame[t].ret # "ok"
    <3>1. Return(t, frame[t].ret)
      BY <1>7, <2>3 DEF HoldResume
    <3> QED
      BY <2>1, <3>1, <1>b, <1>i
  <2> QED
    BY <2>2, <2>3
<1>8. ASSUME RaiseWriten(t) PROVE Held'
  <2>1. Same /\ frame'[t] = [frame[t] EXCEPT !.pc = "build"] /\ frame[t].pc = "written"
    BY <1>8, <1>a DEF RaiseWriten
  <2>2. Ready(t)'
    BY <1>f, <1>r, <2>1 DEF Ready, Waiting, Need, Frames
  <2> QED
    BY <2>1, <2>2, <1>e
<1>9. ASSUME BuildFlowAddrs(t) PROVE Held'
  <2>1. UNCHANGED <<preLoadOffset, worker, holdList>>
    BY <1>9 DEF BuildFlowAddrs
  <2>2. CASE Return(t, "inner")
    BY <2>1, <2>2, <1>b, <1>i
  <2>3. CASE ~Return(t, "inner")
    <3>1. Same /\ frame'[t].pc = "check" /\ frame'[t].after = "idle"
      BY <1>9, <1>f, <2>1, <2>3 DEF BuildFlowAddrs, Frames
    <3>2. Ready(t)'
      BY <3>1 DEF Ready, Waiting
    <3> QED
      BY <3>1, <3>2, <1>e
  <2> QED
    BY <2>2, <2>3
<1>10. ASSUME ScheduleCheck(t) \/ ScheduleSet(t) \/ ScheduleSubmit(t) PROVE Held'
  <2>1. UNCHANGED <<preLoadOffset, worker, holdList>> /\ frame[t].pc \in {"check", "set", "submit"}
    BY <1>10 DEF ScheduleCheck, ScheduleSet, ScheduleSubmit
  <2>2. \/ Return(t, "ok")
        \/ Goto(t, "wait") /\ frame[t].after = "wait"
        \/ Goto(t, "set") \/ Goto(t, "submit")
    BY <1>10 DEF ScheduleCheck, ScheduleSet, ScheduleSubmit, Scheduled
  <2>3. CASE Return(t, "ok")
    BY <2>1, <2>3, <1>b, <1>i
  <2>4. ASSUME NEW l \in {"wait", "set", "submit"}, Goto(t, l), l = "wait" => frame[t].after = "wait" PROVE Held'
    <3>1. Same /\ frame'[t] = [frame[t] EXCEPT !.pc = l]
      BY <2>1, <2>4, <1>a
    <3>2. Ready(t)'
      BY <1>f, <1>r, <2>1, <2>4, <3>1 DEF Ready, Waiting, Need, Frames, OnList
    <3> QED
      BY <3>1, <3>2, <1>e
  <2> QED
    BY <2>2, <2>3, <2>4
<1>11. ASSUME TruncateLocked(t) \/ MediaFree(t) PROVE Held'
  <2>1. UNCHANGED <<preLoadOffset, worker, holdList>>
    BY <1>11 DEF TruncateLocked, MediaFree
  <2>2. (\A u \in Threads : u # t => frame'[u] = frame[u]) /\ frame'[t].pc \in {"idle", "free"}
    <3>1. CASE Return(t, "ok")
      BY <3>1, <1>b
    <3>2. CASE ~Return(t, "ok")
      BY <1>11, <1>f, <3>2 DEF TruncateLocked, MediaFree, Frames
    <3> QED
      BY <3>1, <3>2
  <2> QED
    BY <2>1, <2>2, <1>e, ReadyElsewhere DEF CallerPcs
<1> QED
    BY <1>1, <1>3, <1>4, <1>5, <1>6, <1>7, <1>8, <1>9, <1>10, <1>11 DEF Call, CallerStep

\* A pool thread preloads first and releases afterwards.
LEMMA WorkerHeld ==
    ASSUME TypeOK, Held, NEW w \in Workers, WorkerStep(w)
    PROVE  Held'
<1>f. /\ frame \in [Threads -> Frames] /\ worker \in [Workers -> PoolThreads] /\ preLoadOffset \in Nat
      /\ holdList \in Seq(Threads) /\ Len(holdList) \in Nat /\ ChunkSize \in Nat
      /\ \A t \in Threads : frame[t].offset \in Nat /\ frame[t].len \in Nat
      /\ \A v \in Workers : worker[v].offset \in Nat
    BY FlowAssumption, FieldTypes
<1> USE DEF flow, store, pool
<1>a. ASSUME UNCHANGED <<frame, holdList>>, preLoadOffset' \in Nat, preLoadOffset' >= preLoadOffset,
             NEW t \in Threads
      PROVE  Ready(t)'
  <2>1. Ready(t) /\ Need(t) \in Nat
    BY <1>f DEF Held, Need
  <2> QED
    BY <1>f, <1>a, <2>1 DEF Ready, Waiting, Need, OnList
<1>b. ASSUME NEW k \in 0 .. Len(holdList), NEW r \in {"ok", "retry"}, NEW flag \in BOOLEAN, HoldClean(k, r, flag),
             UNCHANGED preLoadOffset, r = "ok" => \A i \in 1 .. k : Need(holdList[i]) <= preLoadOffset,
             NEW t \in Threads
      PROVE  Ready(t)'
  <2>1. /\ frame'[t].pc = frame[t].pc /\ frame'[t].offset = frame[t].offset /\ frame'[t].len = frame[t].len
    BY <1>b, HoldCleanTypes
  <2>2. /\ frame'[t].after = frame[t].after
        /\ frame'[t].ret = IF \E i \in 1 .. k : holdList[i] = t THEN r ELSE frame[t].ret
    BY <1>f, <1>b DEF HoldClean, Frames
  <2>3. Ready(t) /\ Need(t)' = Need(t)
    BY <2>1 DEF Held, Need
  <2>4. ASSUME OnList(t), ~OnList(t)' PROVE \E i \in 1 .. k : holdList[i] = t
    <3>1. PICK i \in 1 .. Len(holdList) : holdList[i] = t
      BY <1>f, <2>4 DEF OnList
    <3>2. SUFFICES ASSUME i > k PROVE FALSE
      BY <1>f, <3>1
    <3>3. /\ holdList' \in Seq(Threads) /\ Len(holdList') = Len(holdList) - k
          /\ \A j \in 1 .. Len(holdList) - k : holdList'[j] = holdList[k + j]
      BY <1>f, <1>b, CutTypes DEF HoldClean
    <3>4. i - k \in 1 .. Len(holdList) - k /\ k + (i - k) = i
      BY <1>f, <3>1, <3>2
    <3>5. i - k \in DOMAIN holdList' /\ holdList'[i - k] = t
      BY <1>f, <3>1, <3>3, <3>4
    <3> QED
      BY <2>4, <3>5 DEF OnList
  <2>5. ASSUME Waiting(t)', ~OnList(t)', frame'[t].ret = "ok" PROVE Need(t)' <= preLoadOffset'
    <3>1. Waiting(t)
      BY <2>1, <2>2, <2>5 DEF Waiting
    <3>2. CASE \E i \in 1 .. k : holdList[i] = t
      <4>1. r = "ok"
        BY <2>2, <2>5, <3>2
      <4> QED
        BY <1>b, <2>3, <3>2, <4>1
    <3>3. CASE ~\E i \in 1 .. k : holdList[i] = t
      <4>1. ~OnList(t) /\ frame[t].ret = "ok"
        BY <2>2, <2>4, <2>5, <3>3
      <4> QED
        BY <1>b, <2>3, <3>1, <4>1 DEF Ready
    <3> QED
      BY <3>2, <3>3
  <2>6. Waiting(t)' => Waiting(t)
    BY <2>1, <2>2 DEF Waiting
  <2> QED
    BY <1>b, <2>1, <2>3, <2>5, <2>6 DEF Ready
<1>1. ASSUME TakeTask(w) PROVE Held'
  <2>1. UNCHANGED <<frame, holdList, preLoadOffset>> /\ worker' = [worker EXCEPT ![w].pc = "alloc"]
    BY <1>1 DEF TakeTask
  <2>2. \A v \in Workers : worker'[v].pc = "clean" => worker'[v].offset <= preLoadOffset'
    BY <1>f, <2>1 DEF Held, PoolThreads
  <2> QED
    BY <1>a, <1>f, <2>1, <2>2 DEF Held
<1>2. ASSUME NEW c \in ChunkIds, MediaAlloc(w, c) PROVE Held'
  <2>1. UNCHANGED <<frame, holdList, preLoadOffset>> /\ worker' = [worker EXCEPT ![w].pc = "push", ![w].chunk = c]
    BY <1>2 DEF MediaAlloc
  <2>2. \A v \in Workers : worker'[v].pc = "clean" => worker'[v].offset <= preLoadOffset'
    BY <1>f, <2>1 DEF Held, PoolThreads
  <2> QED
    BY <1>a, <1>f, <2>1, <2>2 DEF Held
<1>3. ASSUME PushChunk(w) PROVE Held'
  <2>1. UNCHANGED <<frame, holdList>> /\ preLoadOffset' = preLoadOffset + ChunkSize
        /\ worker' = [worker EXCEPT ![w] = [pc |-> "clean", chunk |-> Free, offset |-> preLoadOffset',
                                            ready |-> preLoadOffset' >= writenOffset + PreLoadSize]]
    BY <1>3 DEF PushChunk
  <2>2. preLoadOffset' \in Nat /\ preLoadOffset' >= preLoadOffset
    BY <1>f, <2>1
  <2>3. ASSUME NEW v \in Workers, worker'[v].pc = "clean" PROVE worker'[v].offset <= preLoadOffset'
    <3>1. CASE v = w
      <4>1. worker'[w].offset = preLoadOffset'
        BY <1>f, <2>1
      <4> QED
        BY <2>2, <3>1, <4>1
    <3>2. CASE v # w
      <4>1. worker'[v] = worker[v] /\ worker[v].offset <= preLoadOffset
        BY <1>f, <2>1, <2>3, <3>2 DEF Held
      <4> QED
        BY <1>f, <2>2, <4>1
    <3> QED
      BY <3>1, <3>2
  <2> QED
    BY <1>a, <2>1, <2>2, <2>3 DEF Held
<1>4. ASSUME MediaAllocFail(w) PROVE Held'
  <2>1. HoldClean(Len(holdList), "retry", FALSE) /\ UNCHANGED preLoadOffset /\ worker' = [worker EXCEPT ![w] = Idle]
    BY <1>4 DEF MediaAllocFail
  <2>2. \A v \in Workers : worker'[v].pc = "clean" => worker'[v].offset <= preLoadOffset'
    BY <1>f, <2>1 DEF Held, Idle
  <2>3. Len(holdList) \in 0 .. Len(holdList) /\ FALSE \in BOOLEAN
    BY <1>f
  <2>4. \A t \in Threads : Ready(t)'
    BY <1>b, <2>1, <2>3
  <2> QED
    BY <2>2, <2>4 DEF Held
<1>5. ASSUME ReleaseHeld(w) PROVE Held'
  <2>1. PICK k \in 0 .. Len(holdList) : Satisfied(k, worker[w].offset) /\ HoldClean(k, "ok", ~worker[w].ready)
    BY <1>5 DEF ReleaseHeld
  <2>2. /\ UNCHANGED preLoadOffset /\ worker[w].offset <= preLoadOffset
        /\ worker' = [worker EXCEPT ![w] = IF worker[w].ready THEN Idle ELSE [Idle EXCEPT !.pc = "alloc"]]
    BY <1>5 DEF ReleaseHeld, Held
  <2>3. \A v \in Workers : worker'[v].pc = "clean" => worker'[v].offset <= preLoadOffset'
    BY <1>f, <2>2 DEF Held, Idle
  <2>4. ASSUME NEW i \in 1 .. k PROVE Need(holdList[i]) <= preLoadOffset
    <3>1. Need(holdList[i]) <= worker[w].offset /\ holdList[i] \in Threads
      BY <1>f, <2>1, <2>4 DEF Satisfied
    <3>2. Need(holdList[i]) \in Nat
      BY <1>f, <3>1 DEF Need
    <3> QED
      BY <1>f, <2>2, <3>1, <3>2
  <2>5. (~worker[w].ready) \in BOOLEAN
    BY Zenon
  <2>6. \A t \in Threads : Ready(t)'
    BY <1>b, <2>1, <2>2, <2>4, <2>5
  <2> QED
    BY <2>3, <2>6 DEF Held
<1> QED
    BY <1>1, <1>2, <1>3, <1>4, <1>5 DEF WorkerStep

\* After a restart nobody waits.
LEMMA CrashHeld ==
    ASSUME CrashRecover
    PROVE  Held'
<1>1. \A t \in Threads : frame'[t].pc \in {"idle", "down"}
    BY DEF CrashRecover, Returned
<1>2. \A w \in Workers : worker'[w].pc = "idle"
    BY DEF CrashRecover, Idle
<1> QED
    BY <1>1, <1>2, ReadyElsewhere DEF Held, CallerPcs

\* The promise of the hold list is inductive.
LEMMA HeldStep == TypeOK /\ Held /\ [Next]_vars => Held'
<1> SUFFICES ASSUME TypeOK, Held, [Next]_vars PROVE Held'
    OBVIOUS
<1>1. CASE UNCHANGED vars
    BY <1>1 DEF vars, flow, store, pool, Held, Ready, Waiting, OnList, Need
<1>2. CASE Next
    BY <1>2, CallerHeld, WorkerHeld, CrashHeld DEF Next
<1> QED
    BY <1>1, <1>2

\* Nobody waits at first.
LEMMA HeldInit == Init => Held
    BY DEF Init, Held, Ready, Waiting, Returned, Idle

\* A caller passes the hold in GetAddrByOffset only when its whole range has
\* been preloaded, whoever released it and whatever ran since.
THEOREM FlowPreloaded == Spec => []PreloadedBeforeUse
<1>1. Init => FlowInv /\ Held
    BY FlowInit, HeldInit
<1>2. (FlowInv /\ Held) /\ [Next]_vars => (FlowInv /\ Held)'
    BY FlowInvStep, HeldStep DEF FlowInv
<1>3. FlowInv /\ Held => PreloadedBeforeUse
    BY DEF Held, Ready, PreloadedBeforeUse
<1> QED
    BY <1>1, <1>2, <1>3, PTL DEF Spec

-----------------------------------------------------------------------------
(* The addresses a caller is given.                                        *)

\* A caller's step changes no other caller's frame.
LEMMA CallerAlone ==
    ASSUME TypeOK, NEW t \in Threads, Call(t) \/ CallerStep(t), NEW u \in Threads, u # t
    PROVE  frame'[u] = frame[u]
<1>f. frame \in [Threads -> Frames]
    BY DEF TypeOK
<1>a. ASSUME NEW l, Goto(t, l) PROVE frame'[u] = frame[u]
    BY <1>f, <1>a DEF Goto
<1>b. ASSUME NEW r, Return(t, r) PROVE frame'[u] = frame[u]
    BY <1>f, <1>b DEF Return
<1>c. ASSUME NEW l, NEW o, NEW n, Enter(t, l, o, n) PROVE frame'[u] = frame[u]
    BY <1>f, <1>c DEF Enter
<1>1. ASSUME NEW o, NEW n, ValidateRange(t, o, n) PROVE frame'[u] = frame[u]
    BY <1>1, <1>b, <1>c DEF ValidateRange
<1>2. ASSUME NEW o, TruncateCheck(t, o) PROVE frame'[u] = frame[u]
    BY <1>2, <1>b, <1>c DEF TruncateCheck
<1>3. ASSUME NEW o, TruncateOffset(t, o) PROVE frame'[u] = frame[u]
    BY <1>2, <1>3 DEF TruncateOffset
<1>4. ASSUME Seal(t) \/ SealRead(t) \/ SealStore(t) \/ SealTruncate(t) PROVE frame'[u] = frame[u]
    BY <1>a, <1>b, <1>c, <1>2, <1>4 DEF Seal, SealRead, SealStore, SealTruncate
<1>5. ASSUME HoldWait(t) PROVE frame'[u] = frame[u]
    BY <1>a, <1>f, <1>5 DEF HoldWait
<1>6. ASSUME HoldResume(t) \/ RaiseWriten(t) PROVE frame'[u] = frame[u]
    BY <1>a, <1>b, <1>6 DEF HoldResume, RaiseWriten
<1>7. ASSUME BuildFlowAddrs(t) PROVE frame'[u] = frame[u]
    BY <1>b, <1>f, <1>7 DEF BuildFlowAddrs
<1>8. ASSUME ScheduleCheck(t) \/ ScheduleSet(t) \/ ScheduleSubmit(t) PROVE frame'[u] = frame[u]
    BY <1>a, <1>b, <1>8 DEF ScheduleCheck, ScheduleSet, ScheduleSubmit, Scheduled
<1>9. ASSUME TruncateLocked(t) \/ MediaFree(t) PROVE frame'[u] = frame[u]
    BY <1>b, <1>f, <1>9 DEF TruncateLocked, MediaFree
<1> QED
    BY <1>1, <1>3, <1>4, <1>5, <1>6, <1>7, <1>8, <1>9 DEF Call, CallerStep

\* Between restarts a caller leaves BuildFlowAddrs by its own step only.
LEMMA BuildStep ==
    ASSUME TypeOK, Next, NEW t \in Threads, At(t, "build"), frame'[t].pc # "build", crashes' = crashes
    PROVE  BuildFlowAddrs(t)
<1>1. ~CrashRecover
    BY DEF CrashRecover, TypeOK
<1>2. ASSUME NEW w \in Workers, WorkerStep(w) PROVE FALSE
  <2>1. frame \in [Threads -> Frames] /\ frame[t].pc = "build"
    BY DEF TypeOK, At
  <2>2. ASSUME UNCHANGED frame PROVE FALSE
    BY <2>1, <2>2
  <2>3. TakeTask(w) \/ PushChunk(w) \/ (\E c \in ChunkIds : MediaAlloc(w, c)) => UNCHANGED frame
    BY DEF TakeTask, PushChunk, MediaAlloc
  <2>4. ASSUME NEW k, NEW r, NEW flag, HoldClean(k, r, flag) PROVE FALSE
    BY <2>1, <2>4 DEF HoldClean, Frames
  <2>5. ~MediaAllocFail(w) /\ ~ReleaseHeld(w)
    BY <2>4 DEF MediaAllocFail, ReleaseHeld
  <2> QED
    BY <1>2, <2>2, <2>3, <2>5 DEF WorkerStep
<1>3. PICK u \in Threads : Call(u) \/ CallerStep(u)
    BY <1>1, <1>2 DEF Next
<1>4. u = t
    BY <1>3, CallerAlone DEF At
<1>5. ~Call(t)
    BY DEF Call, ValidateRange, TruncateOffset, Seal, At
<1>6. ~HoldWait(t) /\ ~HoldResume(t) /\ ~RaiseWriten(t) /\ ~ScheduleCheck(t) /\ ~ScheduleSet(t) /\ ~ScheduleSubmit(t)
    BY DEF HoldWait, HoldResume, RaiseWriten, ScheduleCheck, ScheduleSet, ScheduleSubmit, At
<1>7. ~TruncateLocked(t) /\ ~MediaFree(t) /\ ~SealRead(t) /\ ~SealStore(t) /\ ~SealTruncate(t)
    BY DEF TruncateLocked, MediaFree, SealRead, SealStore, SealTruncate, At
<1> QED
    BY <1>3, <1>4, <1>5, <1>6, <1>7, Zenon DEF CallerStep

\* The body of OnlyTruncationFailsBuild.
LEMMA BuildFailure ==
    ASSUME FlowInv, Held, Next, NEW t \in Threads, At(t, "build"), frame'[t].pc = "idle", crashes' = crashes
    PROVE  frame[t].offset < Base(truncateOffset)
<1>1. TypeOK /\ up /\ WindowMatchesMedia
    BY StepsNeedUp DEF FlowInv
<1>2. BuildFlowAddrs(t)
    BY <1>1, BuildStep
<1>3. frame \in [Threads -> Frames] /\ frame[t].offset \in Nat /\ frame[t].len \in Nat
      /\ preLoadOffset \in Nat /\ truncateOffset \in Nat /\ chunkList \in Seq(ChunkIds) /\ Len(chunkList) \in Nat
    BY <1>1, FieldTypes
<1>4. ChunkSize \in Nat \ {0} /\ Base(truncateOffset) \in Int /\ Len(chunkList) * ChunkSize \in Int
    BY <1>3, FlowAssumption, DivBounds, MulOrder DEF Base
<1>5. frame[t].offset + frame[t].len <= preLoadOffset
    BY DEF Held, Ready, At, Need
<1>6. preLoadOffset = Base(truncateOffset) + Len(chunkList) * ChunkSize
    BY <1>1 DEF WindowMatchesMedia
<1>7. ~(WindowOffset(frame[t].offset) >= 0
        /\ WindowOffset(frame[t].offset) + frame[t].len <= Len(chunkList) * ChunkSize)
    BY <1>2, <1>3 DEF BuildFlowAddrs, Frames
<1> HIDE DEF Base
<1> QED
    BY <1>3, <1>4, <1>5, <1>6, <1>7 DEF WindowOffset

\* "Address out of range" is answered only for a range that a truncation has
\* overtaken since ValidateRange: the window never falls short of what a
\* caller that passed the hold asks for.
THEOREM FlowBuildFails == Spec => OnlyTruncationFailsBuild
<1>1. Init => FlowInv /\ Held
    BY FlowInit, HeldInit
<1>2. (FlowInv /\ Held) /\ [Next]_vars => (FlowInv /\ Held)'
    BY FlowInvStep, HeldStep DEF FlowInv
<1>3. (FlowInv /\ Held) /\ [Next]_vars =>
      [\A t \in Threads : At(t, "build") /\ frame'[t].pc = "idle" /\ crashes' = crashes =>
          frame[t].offset < Base(truncateOffset)]_vars
    BY BuildFailure
<1> QED
    BY <1>1, <1>2, <1>3, PTL DEF Spec, OnlyTruncationFailsBuild

\* The pieces tile the range: the first begins where the range begins, each
\* begins where the one before ends, the last ends where the range ends, and
\* none leaves its chunk.
LEMMA PiecesTile ==
    ASSUME TypeOK, WindowMatchesMedia, up, NEW o \in Nat, NEW n \in Nat, n >= 1,
           WindowOffset(o) >= 0, WindowOffset(o) + n <= Len(chunkList) * ChunkSize,
           NEW a, a = Pieces(o, n), NEW i \in DOMAIN a
    PROVE  /\ a[i].len > 0 /\ a[i].off + a[i].len <= ChunkSize
           /\ media[a[i].chunk] + a[i].off =
                 IF i = 1 THEN o ELSE media[a[i - 1].chunk] + a[i - 1].off + a[i - 1].len
           /\ i = Len(a) => media[a[i].chunk] + a[i].off + a[i].len = o + n
<1> DEFINE cur == WindowOffset(o)
           base == Base(truncateOffset)
           first == cur \div ChunkSize
           last == (cur + n - 1) \div ChunkSize
           From(k) == Larger(cur, k * ChunkSize)
           To(k) == IF k = last THEN cur + n ELSE (k + 1) * ChunkSize
           Mod(x) == x % ChunkSize
           Piece(j) == LET k == first + j - 1
                       IN  [chunk |-> chunkList[k + 1], off |-> Mod(From(k)), len |-> To(k) - From(k)]
<1>0. a = [j \in 1 .. last - first + 1 |-> Piece(j)]
    BY DEF Pieces
<1>1. ChunkSize \in Nat \ {0} /\ cur \in Nat /\ chunkList \in Seq(ChunkIds) /\ Len(chunkList) \in Nat
      /\ cur + n <= Len(chunkList) * ChunkSize /\ base \in Int /\ cur = o - base
  <2>1. truncateOffset \div ChunkSize \in Int /\ ChunkSize \in Nat \ {0}
    BY FlowAssumption, DivBounds DEF TypeOK
  <2> QED
    BY <2>1, FlowAssumption DEF TypeOK, WindowOffset, Base
<1>m. \A j \in 1 .. Len(chunkList) : media[chunkList[j]] = base + (j - 1) * ChunkSize
    BY <1>1 DEF WindowMatchesMedia
<1>z. ASSUME NEW x \in Int PROVE Mod(x) = x - (x \div ChunkSize) * ChunkSize
    BY <1>1, DivBounds, Zenon
<1> HIDE DEF cur, base, Mod
<1>i. cur \in Int
    BY <1>1
<1>2. first \in Int /\ first * ChunkSize <= cur /\ cur < first * ChunkSize + ChunkSize
    BY <1>1, <1>i, DivBounds, Zenon
<1>y. Mod(cur) = cur - first * ChunkSize
    BY <1>i, <1>z, Zenon
<1>3. last \in Int /\ last * ChunkSize <= cur + n - 1 /\ cur + n - 1 < last * ChunkSize + ChunkSize
  <2>1. cur + n - 1 \in Int
    BY <1>1
  <2> QED
    BY <1>1, <2>1, DivBounds
<1> HIDE DEF first, last
<1>4. first \in Nat
    BY <1>1, <1>2, MulOrder
<1>5. ASSUME NEW k \in first .. last
      PROVE  /\ k \in Nat /\ k + 1 \in 1 .. Len(chunkList) /\ k * ChunkSize \in Nat
             /\ From(k) \in Nat /\ To(k) \in Nat /\ To(k) > From(k)
             /\ From(k) = IF k = first THEN cur ELSE k * ChunkSize
             /\ To(k) = IF k = last THEN cur + n ELSE k * ChunkSize + ChunkSize
             /\ To(k) <= k * ChunkSize + ChunkSize
             /\ Mod(From(k)) = From(k) - k * ChunkSize
             /\ media[chunkList[k + 1]] = base + k * ChunkSize
  <2>1. k \in Nat /\ k * ChunkSize \in Nat /\ (k + 1) * ChunkSize = k * ChunkSize + ChunkSize
    BY <1>1, <1>3, <1>4, MulOrder
  <2>2. k * ChunkSize <= last * ChunkSize /\ (k # last => k * ChunkSize + ChunkSize <= last * ChunkSize)
    BY <1>1, <1>3, <1>4, <2>1, MulOrder
  <2>3. first * ChunkSize <= k * ChunkSize /\ (k # first => first * ChunkSize + ChunkSize <= k * ChunkSize)
    BY <1>1, <1>4, <2>1, MulOrder
  <2>4. k * ChunkSize < Len(chunkList) * ChunkSize
    BY <1>1, <1>3, <2>1, <2>2
  <2>5. k + 1 \in 1 .. Len(chunkList)
    BY <1>1, <2>1, <2>4, MulOrder
  <2>6. From(k) = IF k = first THEN cur ELSE k * ChunkSize
    <3>1. CASE k = first
      BY <1>1, <1>2, <2>1, <3>1 DEF Larger
    <3>2. CASE k # first
      BY <1>1, <1>2, <2>1, <2>3, <3>2 DEF Larger
    <3> QED
      BY <3>1, <3>2
  <2>7. To(k) = IF k = last THEN cur + n ELSE k * ChunkSize + ChunkSize
    BY <2>1
  <2>8. Mod(k * ChunkSize) = k * ChunkSize - k * ChunkSize
    <3>1. (k * ChunkSize) \div ChunkSize = k /\ k * ChunkSize \in Int
      BY <1>1, <2>1, MulDiv
    <3> QED
      BY <1>z, <3>1, Zenon
  <2>9. Mod(From(k)) = From(k) - k * ChunkSize
    <3>1. CASE k = first
      BY <1>y, <2>6, <3>1
    <3>2. CASE k # first
      BY <2>6, <2>8, <3>2
    <3> QED
      BY <3>1, <3>2
  <2>10. media[chunkList[k + 1]] = base + k * ChunkSize
    <3>1. (k + 1) - 1 = k
      BY <2>1
    <3> QED
      BY <1>m, <2>5, <3>1
  <2> HIDE DEF From, To
  <2>11. From(k) \in Nat /\ To(k) \in Nat /\ To(k) > From(k) /\ To(k) <= k * ChunkSize + ChunkSize
    <3> DEFINE kc == k * ChunkSize
               fc == first * ChunkSize
               lc == last * ChunkSize
    <3>1. kc \in Nat /\ fc \in Int /\ lc \in Int /\ fc <= cur /\ cur < fc + ChunkSize /\ lc <= cur + n - 1
          /\ cur + n - 1 < lc + ChunkSize /\ kc <= lc /\ fc <= kc
      BY <1>1, <1>2, <1>3, <1>4, <2>1, <2>2, <2>3, MulOrder
    <3>2. /\ k # last => kc + ChunkSize <= lc
          /\ k = last => kc = lc
          /\ k # first => fc + ChunkSize <= kc
          /\ k = first => kc = fc
      BY <2>2, <2>3
    <3>3. /\ k = first => From(k) = cur
          /\ k # first => From(k) = kc
          /\ k = last => To(k) = cur + n
          /\ k # last => To(k) = kc + ChunkSize
      BY <2>6, <2>7
    <3> HIDE DEF kc, fc, lc
    <3>4. From(k) \in Nat /\ To(k) \in Nat /\ To(k) > From(k) /\ To(k) <= kc + ChunkSize
      <4>1. CASE k = last
        BY <1>1, <3>1, <3>2, <3>3, <4>1
      <4>2. CASE k # last
        BY <1>1, <3>1, <3>2, <3>3, <4>2
      <4> QED
        BY <4>1, <4>2
    <3> QED
      BY <3>4 DEF kc
  <2> QED
    BY <2>1, <2>5, <2>6, <2>7, <2>9, <2>10, <2>11
<1> HIDE DEF From, To
<1>6. ASSUME NEW j \in 1 .. last - first + 1
      PROVE  /\ first + j - 1 \in first .. last
             /\ a[j].len = To(first + j - 1) - From(first + j - 1)
             /\ a[j].off = From(first + j - 1) - (first + j - 1) * ChunkSize
             /\ media[a[j].chunk] + a[j].off = base + From(first + j - 1)
  <2>1. first + j - 1 \in first .. last
    BY <1>3, <1>4
  <2>2. a[j] = [chunk |-> chunkList[(first + j - 1) + 1], off |-> Mod(From(first + j - 1)),
                len |-> To(first + j - 1) - From(first + j - 1)]
    BY <1>0
  <2> HIDE DEF Piece
  <2> DEFINE k == first + j - 1
  <2>3. /\ k \in Nat /\ k * ChunkSize \in Nat /\ From(k) \in Nat /\ Mod(From(k)) = From(k) - k * ChunkSize
        /\ media[chunkList[k + 1]] = base + k * ChunkSize
    BY <1>5, <2>1
  <2>4. a[j].chunk = chunkList[k + 1] /\ a[j].off = From(k) - k * ChunkSize /\ a[j].len = To(k) - From(k)
    BY <2>2, <2>3
  <2> HIDE DEF k
  <2>5. media[a[j].chunk] + a[j].off = base + From(k)
    BY <1>1, <2>3, <2>4
  <2> QED
    BY <2>1, <2>4, <2>5 DEF k
<1>7. DOMAIN a = 1 .. last - first + 1 /\ i \in 1 .. last - first + 1
    BY <1>0
<1> DEFINE k == first + i - 1
<1>8. /\ k \in first .. last /\ a[i].len = To(k) - From(k) /\ a[i].off = From(k) - k * ChunkSize
      /\ media[a[i].chunk] + a[i].off = base + From(k)
    BY <1>6, <1>7
<1>9. /\ k \in Nat /\ k * ChunkSize \in Nat /\ From(k) \in Nat /\ To(k) \in Nat /\ To(k) > From(k)
      /\ From(k) = (IF k = first THEN cur ELSE k * ChunkSize)
      /\ To(k) = (IF k = last THEN cur + n ELSE k * ChunkSize + ChunkSize)
      /\ To(k) <= k * ChunkSize + ChunkSize
    BY <1>5, <1>8
<1> HIDE DEF k, Piece
<1>10. a[i].len > 0 /\ a[i].off + a[i].len <= ChunkSize
  <2> DEFINE kc == k * ChunkSize
  <2>1. /\ a[i].len = To(k) - From(k) /\ a[i].off = From(k) - kc
        /\ kc \in Nat /\ From(k) \in Nat /\ To(k) \in Nat /\ To(k) > From(k) /\ To(k) <= kc + ChunkSize
    BY <1>8, <1>9
  <2> HIDE DEF kc
  <2> QED
    BY <1>1, <2>1
<1>11. media[a[i].chunk] + a[i].off =
          IF i = 1 THEN o ELSE media[a[i - 1].chunk] + a[i - 1].off + a[i - 1].len
  <2>1. CASE i = 1
    <3>1. k = first
      BY <1>4, <2>1 DEF k
    <3>2. From(k) = cur
      BY <1>9, <3>1
    <3> QED
      BY <1>1, <1>8, <2>1, <3>2
  <2>2. CASE i # 1
    <3>1. i - 1 \in 1 .. last - first + 1 /\ first + (i - 1) - 1 = k - 1 /\ k # first
      BY <1>3, <1>4, <1>7, <2>2 DEF k
    <3>2. /\ k - 1 \in first .. last /\ a[i - 1].len = To(k - 1) - From(k - 1)
          /\ media[a[i - 1].chunk] + a[i - 1].off = base + From(k - 1)
      BY <1>6, <3>1
    <3>3. k - 1 # last
      BY <1>3, <1>4, <1>8
    <3>4. From(k - 1) \in Nat /\ To(k - 1) = (k - 1) * ChunkSize + ChunkSize
      BY <1>5, <3>2, <3>3
    <3>5. (k - 1) * ChunkSize + ChunkSize = k * ChunkSize
      <4>1. k \in Int /\ 1 \in Int /\ (k - 1) * ChunkSize = k * ChunkSize - 1 * ChunkSize
        BY <1>1, <1>9, MulOrder
      <4> QED
        BY <1>1, <1>9, <4>1
    <3>6. From(k) = k * ChunkSize
      BY <1>9, <3>1
    <3>7. To(k - 1) = From(k)
      BY <3>4, <3>5, <3>6
    <3>8. From(k) \in Nat /\ base \in Int
      BY <1>1, <1>9
    <3>9. media[a[i - 1].chunk] + a[i - 1].off + a[i - 1].len = (base + From(k - 1)) + (From(k) - From(k - 1))
      BY <3>2, <3>7
    <3> QED
      BY <1>8, <2>2, <3>4, <3>8, <3>9
  <2> QED
    BY <2>1, <2>2
<1>12. ASSUME i = Len(a) PROVE media[a[i].chunk] + a[i].off + a[i].len = o + n
  <2>1. a \in Seq([chunk : ChunkIds, off : Nat, len : Nat])
    BY PiecesType
  <2>2. DOMAIN a = 1 .. Len(a) /\ Len(a) \in Nat
    BY <2>1
  <2>3. Len(a) = last - first + 1
    BY <1>3, <1>4, <1>7, <2>2
  <2>4. k = last
    BY <1>3, <1>4, <1>12, <2>3 DEF k
  <2>5. media[a[i].chunk] + a[i].off + a[i].len = (base + From(k)) + (To(k) - From(k))
    BY <1>8
  <2>6. To(k) = cur + n /\ From(k) \in Nat
    BY <1>9, <2>4
  <2> QED
    BY <1>1, <2>5, <2>6
<1> QED
    BY <1>10, <1>11, <1>12

\* The addresses GetAddrByOffset hands out tile the requested range, in the
\* chunks that are recorded for it, for every chunk size, offset and length.
THEOREM FlowAddresses == Spec => AddressesCorrect
<1>1. Init => FlowInv /\ Held
    BY FlowInit, HeldInit
<1>2. (FlowInv /\ Held) /\ [Next]_vars => (FlowInv /\ Held)'
    BY FlowInvStep, HeldStep DEF FlowInv
<1> DEFINE Tiled(t) ==
        LET a == frame'[t].addr
            Start(k) == media[a[k].chunk] + a[k].off
        IN  \A k \in DOMAIN a :
                /\ a[k].len > 0 /\ a[k].off + a[k].len <= ChunkSize
                /\ Start(k) = IF k = 1 THEN frame[t].offset ELSE Start(k - 1) + a[k - 1].len
                /\ k = Len(a) => Start(k) + a[k].len = Need(t)
<1>3. ASSUME FlowInv, Held, Next, NEW t \in Threads, At(t, "build"), frame'[t].pc = "check" PROVE Tiled(t)
  <2>1. TypeOK /\ up /\ WindowMatchesMedia
    BY <1>3, StepsNeedUp DEF FlowInv
  <2>2. crashes' = crashes
    <3>1. ~CrashRecover
      BY <1>3 DEF CrashRecover, Returned
    <3>2. ASSUME NEW u \in Threads, Call(u) PROVE UNCHANGED crashes
      BY <3>2 DEF Call, ValidateRange, TruncateOffset, Seal
    <3>3. ASSUME NEW u \in Threads, CallerStep(u) PROVE UNCHANGED crashes
      BY <3>3 DEF CallerStep, HoldWait, HoldResume, RaiseWriten, BuildFlowAddrs, ScheduleCheck, ScheduleSet,
                  ScheduleSubmit, TruncateLocked, MediaFree, SealRead, SealStore, SealTruncate
    <3>4. ASSUME NEW w \in Workers, WorkerStep(w) PROVE UNCHANGED crashes
      BY <3>4 DEF WorkerStep, TakeTask, MediaAllocFail, PushChunk, ReleaseHeld, MediaAlloc
    <3> QED
      BY <1>3, <3>1, <3>2, <3>3, <3>4 DEF Next
  <2>3. BuildFlowAddrs(t)
    BY <1>3, <2>1, <2>2, BuildStep
  <2>4. frame \in [Threads -> Frames] /\ frame[t].offset \in Nat /\ frame[t].len \in Nat /\ frame[t].len >= 1
    BY <1>3, <2>1 DEF TypeOK, Frames, Held, Ready, At
  <2>5. ~Return(t, "inner")
    BY <1>3, <2>4 DEF Return, Returned
  <2>6. /\ WindowOffset(frame[t].offset) >= 0
        /\ WindowOffset(frame[t].offset) + frame[t].len <= Len(chunkList) * ChunkSize
        /\ frame'[t].addr = Pieces(frame[t].offset, frame[t].len)
    BY <2>3, <2>4, <2>5 DEF BuildFlowAddrs, Frames
  <2> DEFINE a == Pieces(frame[t].offset, frame[t].len)
  <2>7. ASSUME NEW k \in DOMAIN a
        PROVE  /\ a[k].len > 0 /\ a[k].off + a[k].len <= ChunkSize
               /\ media[a[k].chunk] + a[k].off =
                     IF k = 1 THEN frame[t].offset ELSE media[a[k - 1].chunk] + a[k - 1].off + a[k - 1].len
               /\ k = Len(a) => media[a[k].chunk] + a[k].off + a[k].len = frame[t].offset + frame[t].len
    <3>1. PICK o \in Nat, n \in Nat : o = frame[t].offset /\ n = frame[t].len
      BY <2>4
    <3>2. n >= 1 /\ WindowOffset(o) >= 0 /\ WindowOffset(o) + n <= Len(chunkList) * ChunkSize
      BY <2>4, <2>6, <3>1
    <3>3. PICK b : b = Pieces(o, n)
      OBVIOUS
    <3>4. a = b
      BY <3>1, <3>3
    <3> HIDE DEF a
    <3>5. k \in DOMAIN b
      BY <3>4
    <3>6. /\ b[k].len > 0 /\ b[k].off + b[k].len <= ChunkSize
          /\ media[b[k].chunk] + b[k].off =
                IF k = 1 THEN o ELSE media[b[k - 1].chunk] + b[k - 1].off + b[k - 1].len
          /\ k = Len(b) => media[b[k].chunk] + b[k].off + b[k].len = o + n
      BY <2>1, <3>2, <3>3, <3>5, PiecesTile
    <3> QED
      BY <3>1, <3>4, <3>6
  <2> HIDE DEF a
  <2>8. frame'[t].addr = a
    BY <2>6 DEF a
  <2> QED
    BY <2>7, <2>8 DEF Need
<1>4. (FlowInv /\ Held) /\ [Next]_vars =>
      [\A t \in Threads : At(t, "build") /\ frame'[t].pc = "check" => Tiled(t)]_vars
    BY <1>3
<1> QED
    BY <1>1, <1>2, <1>4, PTL DEF Spec, AddressesCorrect
=============================================================================
