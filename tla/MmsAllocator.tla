---------------------------- MODULE MmsAllocator ----------------------------
(* The allocator of MemStore's shared memory (MmsMemAllocator): one pool per NUMA node, either
   a buddy system or lists of fixed classes, under caches private to the threads.  A pool is a
   function from orders (or classes) to stacks of free blocks, a block is named by its first
   unit.  Every pool operation locks its order and all higher ones, hence the highest: pool
   operations are atomic to one another. *)
EXTENDS Integers, Sequences, FiniteSets, SequencesExt, FiniteSetsExt

CONSTANTS Thread, Numa,         \* threads; NUMA nodes, numbered
          Mode,                 \* "buddy" or "fixed"
          UnitCount,            \* node -> units of its pool
          Unit, Header,         \* bytes of a unit with its header, and of a header
          ClassSize, ClassNum,  \* fixed mode: payload of a class, blocks of a class on a node
          CacheMaxOrder,        \* orders 0..CacheMaxOrder go through the caches
          Limit, Refill, Drain, \* blocks cached of an order, taken at once, given back at once
          SwitchThreshold, ReprobeInterval,   \* of the preferred node
          Size, MaxHeld         \* sizes asked for; bound on blocks held at a time

VARIABLES free,    \* node -> order -> stack of free blocks
          cache,   \* thread -> node -> order -> stack of cached blocks
          pref,    \* thread -> its preferred node and the counters that move it
          held     \* blocks handed out, with the size asked for

vars == <<free, cache, pref, held>>

Pow(n) == 2^n
MaxOrder(n) == CHOOSE o \in 0..8 : Pow(o) <= UnitCount[n] /\ Pow(o + 1) > UnitCount[n]
TopOrder == Max({MaxOrder(n) : n \in Numa})
Order == IF Mode = "buddy" THEN 0..TopOrder ELSE 0..(Len(ClassSize) - 1)
CachedOrder == IF Mode = "buddy" THEN Order \cap (0..CacheMaxOrder) ELSE Order
NoNuma == -1

PayloadSize(o) == IF Mode = "buddy" THEN Unit * Pow(o) - Header ELSE ClassSize[o + 1]

(* Start: the units are cut into the largest aligned chunks that fit, from the front; a chunk
   begins at u when the chunks before it fill 0..u-1. *)
StartChunks(n) ==
  LET cnt == UnitCount[n]
      fits(u, o) == u % Pow(o) = 0 /\ u + Pow(o) <= cnt
      orderAt(u) == Max({o \in 0..MaxOrder(n) : fits(u, o)})
      covered(u, v) == v < u /\ u < v + Pow(orderAt(v))
      begins == {u \in 0..(cnt - 1) : ~\E v \in 0..(cnt - 1) : covered(u, v)}
  IN {<<u, orderAt(u)>> : u \in begins}

(* InitMemNumaPool: a class has its share of the memory, cut into blocks. *)
StartBlocks == {<<i, c>> : i \in 0..(ClassNum - 1), c \in 0..(Len(ClassSize) - 1)}

Start(n) ==
  LET chunks == IF Mode = "buddy" THEN StartChunks(n) ELSE StartBlocks
  IN [o \in Order |-> Reverse(SetToSortSeq({c[1] : c \in {d \in chunks : d[2] = o}}, <))]

NoCache == [n \in Numa |-> [o \in Order |-> <<>>]]
Home(t) == [id |-> CHOOSE n \in Numa : TRUE, home |-> CHOOSE n \in Numa : TRUE,
            count |-> 0, fallback |-> NoNuma, reprobe |-> 0]

Init ==
  /\ free = [n \in Numa |-> Start(n)]
  /\ cache = [t \in Thread |-> NoCache]
  /\ pref = [t \in Thread |-> Home(t)]
  /\ held = {}

-----------------------------------------------------------------------------
(* Pool operations, on the free stacks f of one node. *)

(* GetBuddyAllocOrder: the order whose units hold the size and the header. *)
GetBuddyAllocOrder(size) ==
  LET units == (size + Header - 1) \div Unit + 1
  IN CHOOSE o \in 0..8 : Pow(o) >= units /\ (o = 0 \/ Pow(o - 1) < units)

(* The order, or the first class large enough, of a size; -1 when there is none. *)
OrderOf(size) ==
  IF Mode = "buddy"
  THEN IF size <= Unit * Pow(TopOrder) - Header THEN GetBuddyAllocOrder(size) ELSE -1
  ELSE IF \E c \in Order : PayloadSize(c) >= size
       THEN Min({c \in Order : PayloadSize(c) >= size}) ELSE -1

(* AllocUnlocked: the first chunk of the least sufficient order, the halves split off it
   going back to the orders below. *)
AllocUnlocked(f, o) ==
  LET able == {c \in o..TopOrder : f[c] # <<>>}
      cur == Min(able)
      u == Head(f[cur])
      Split(c) == <<u + Pow(c)>> \o f[c]
  IN IF able = {} THEN [f |-> f, got |-> <<>>]
     ELSE [f |-> [c \in Order |-> IF c = cur THEN Tail(f[c])
                                  ELSE IF c \in o..(cur - 1) THEN Split(c) ELSE f[c]],
           got |-> <<u>>]

(* AllocBatch of the buddy pool, PopBatchBlocks of the fixed lists: up to cnt blocks. *)
AllocBatch(f, o, cnt) ==
  IF Mode = "buddy"
  THEN LET r[i \in 0..cnt] ==
             IF i = 0 THEN [f |-> f, got |-> <<>>]
             ELSE LET a == AllocUnlocked(r[i - 1].f, o)
                  IN [f |-> a.f, got |-> r[i - 1].got \o a.got]
       IN r[cnt]
  ELSE LET n == Min({cnt, Len(f[o])})
       IN [f |-> [f EXCEPT ![o] = SubSeq(@, n + 1, Len(@))], got |-> SubSeq(f[o], 1, n)]

Base(u, o) == (u \div Pow(o)) * Pow(o)
Buddy(u, o) == IF (u \div Pow(o)) % 2 = 0 THEN Base(u, o) + Pow(o) ELSE Base(u, o) - Pow(o)

(* The buddy lies in the pool and is free at the same order (RemoveFreeChunkUnlocked). *)
Removable(f, n, u, o) ==
  /\ Buddy(u, o) + Pow(o) <= UnitCount[n]
  /\ Contains(f[o], Buddy(u, o))

(* FreeUnlocked: the chunk merges with its buddy, order after order, as long as it is free. *)
FreeUnlocked(f, n, u, o) ==
  LET top == Max({m \in o..MaxOrder(n) : \A j \in o..(m - 1) : Removable(f, n, u, j)})
  IN [c \in Order |->
        LET rest == IF c \in o..(top - 1) THEN Remove(f[c], Buddy(u, c)) ELSE f[c]
        IN IF c = top THEN <<Base(u, top)>> \o rest ELSE rest]

(* FreeBatch, PushBatchBlocks *)
FreeBatch(f, n, o, blocks) ==
  LET r[i \in 0..Len(blocks)] ==
        IF i = 0 THEN f
        ELSE IF Mode = "buddy" THEN FreeUnlocked(r[i - 1], n, blocks[i], o)
        ELSE [r[i - 1] EXCEPT ![o] = <<blocks[i]>> \o @]
  IN r[Len(blocks)]

-----------------------------------------------------------------------------
(* The preferred node of a thread. *)

(* GetAllocNumaId: a thread that moved away probes its home now and then. *)
GetAllocNumaId(p) ==
  IF p.id = p.home THEN [p |-> p, ask |-> p.id]
  ELSE IF p.reprobe + 1 < ReprobeInterval
       THEN [p |-> [p EXCEPT !.reprobe = @ + 1], ask |-> p.id]
       ELSE [p |-> [p EXCEPT !.reprobe = 0], ask |-> p.home]

(* RecordAllocNumaId: a node that served several times in a row becomes the preferred one. *)
RecordAllocNumaId(p, ask, got) ==
  LET count == IF p.fallback = got THEN p.count + 1 ELSE 1
      settled == [p EXCEPT !.count = 0, !.fallback = NoNuma]
  IN IF p.id # p.home /\ ask = p.home
     THEN IF got = p.home THEN [settled EXCEPT !.id = p.home] ELSE p
     ELSE IF got = p.id THEN settled
     ELSE IF count < SwitchThreshold THEN [p EXCEPT !.count = count, !.fallback = got]
     ELSE [settled EXCEPT !.id = got, !.reprobe = 0]

-----------------------------------------------------------------------------
(* Thread cache operations, on the cache c of one thread. *)
Top(s) == s[Len(s)]
Pop(s) == SubSeq(s, 1, Len(s) - 1)

(* GetOneBlockFromCache and GetOneBuddyBlockFromCache: the preferred node's first. *)
CachedOn(c, o, id) ==
  LET other == {n \in Numa \ {id} : c[n][o] # <<>>}
  IN IF c[id][o] # <<>> THEN id ELSE IF other = {} THEN NoNuma ELSE Min(other)

(* AddBatchBlocksToCache and AddBatchBuddyBlocksToCache: all or none. *)
BatchFits(c, n, o, blocks) ==
  LET len == Len(c[n][o]) + Len(blocks)
  IN blocks = <<>> \/ (IF Mode = "buddy" THEN len <= Limit ELSE len < Limit)

(* FlushBuddyCaches, and the destructor of ThreadCache: everything goes back to the pools. *)
FlushCaches(f, c) ==
  [n \in Numa |->
     LET r[i \in 0..(TopOrder + 1)] ==
           IF i = 0 THEN f[n]
           ELSE IF (i - 1) \in CachedOrder THEN FreeBatch(r[i - 1], n, i - 1, c[n][i - 1])
           ELSE r[i - 1]
     IN r[IF Mode = "buddy" THEN TopOrder + 1 ELSE Len(ClassSize)]]

Others(n) == SetToSortSeq(Numa \ {n}, <)

(* BuddyAllocBatchFromPool and the two GetBatchBlocks of the fixed pools: the node asked for
   first, then the others; the fixed lists go to others only when the first is empty. *)
BatchFromPools(f, ask, o, cnt) ==
  LET seq == <<ask>> \o Others(ask)
      r[i \in 0..Len(seq)] ==
        IF i = 0 THEN [f |-> f, got |-> <<>>]
        ELSE LET b == r[i - 1]
                 want == IF Mode = "buddy" \/ b.got = <<>> THEN cnt - Len(b.got) ELSE 0
                 a == AllocBatch(b.f[seq[i]], o, want)
             IN [f |-> [b.f EXCEPT ![seq[i]] = a.f],
                 got |-> b.got \o [j \in 1..Len(a.got) |-> <<seq[i], a.got[j]>>]]
  IN r[Len(seq)]

-----------------------------------------------------------------------------
(* A block in the hands of a caller, with the size that was asked for. *)
Hold(n, o, u, size) == held' = held \cup {[numa |-> n, order |-> o, unit |-> u, size |-> size]}

(* What a batch adds to the cache, by the node of each block. *)
Share(blocks, n) == LET mine == SelectSeq(blocks, LAMBDA b : b[1] = n)
                    IN [j \in 1..Len(mine) |-> mine[j][2]]

(* A block was found in the cache of the thread. *)
Hit(t, n, o, size) ==
  /\ Hold(n, o, Top(cache[t][n][o]), size)
  /\ cache' = [cache EXCEPT ![t][n][o] = Pop(@)]
  /\ UNCHANGED <<free, pref>>

(* BuddyAllocFromThreadCacheMiss, and the miss of the fixed lists: the last block of the batch
   b is handed out, the others fill the cache, or go back to the pools when it is too full. *)
TakeBatch(t, o, size, b, p) ==
  LET last == b.got[Len(b.got)]
      rest == SubSeq(b.got, 1, Len(b.got) - 1)
      fits == \A n \in Numa : BatchFits(cache[t], n, o, Share(rest, n))
  IN /\ b.got # <<>>
     /\ Hold(last[1], o, last[2], size)
     /\ cache' = IF fits THEN [cache EXCEPT ![t] = [n \in Numa |->
                                 [@[n] EXCEPT ![o] = @ \o Share(rest, n)]]] ELSE cache
     /\ free' = IF fits THEN b.f ELSE [n \in Numa |-> FreeBatch(b.f[n], n, o, Share(rest, n))]
     /\ pref' = [pref EXCEPT ![t] = p]

(* BuddyAllocFromPool after FlushBuddyCaches: one block out of the pools and what the
   thread had cached. *)
TakeOne(t, o, size, b, p) ==
  /\ free' = b.f /\ cache' = [cache EXCEPT ![t] = NoCache]
  /\ IF b.got = <<>> THEN held' = held /\ pref' = pref
     ELSE Hold(b.got[1][1], o, b.got[1][2], size) /\ pref' = [pref EXCEPT ![t] = p]

(* Nothing in the cache: a batch when the order is cached, else one block; when the pools are
   empty a buddy thread gives back all it has cached and tries once more. *)
Miss(t, o, size, ask, p) ==
  LET cnt == IF o \in CachedOrder THEN Refill ELSE 1
      b == BatchFromPools(free, ask, o, cnt)
  IN IF b.got # <<>>
     THEN TakeBatch(t, o, size, b, RecordAllocNumaId(p, ask, b.got[Len(b.got)][1]))
     ELSE /\ Mode = "buddy"
          /\ \E f \in {FlushCaches(free, cache[t])} :
               \E again \in {BatchFromPools(f, ask, o, 1)} :
                 TakeOne(t, o, size, again,
                         IF again.got = <<>> THEN p ELSE RecordAllocNumaId(p, ask, again.got[1][1]))

(* MmsAlloc *)
MmsAlloc(t, size) ==
  /\ Cardinality(held) < MaxHeld /\ OrderOf(size) # -1
  /\ LET o == OrderOf(size)
         n == IF o \in CachedOrder THEN CachedOn(cache[t], o, pref[t].id) ELSE NoNuma
         g == GetAllocNumaId(pref[t])
     IN IF n # NoNuma THEN Hit(t, n, o, size) ELSE Miss(t, o, size, g.ask, g.p)

(* MmsAllocPreferNuma: the caller names the node.  The fixed lists fall back on what the
   thread has cached of other nodes before they turn to the pools of other nodes. *)
MmsAllocPreferNuma(t, size, n) ==
  /\ Cardinality(held) < MaxHeld /\ OrderOf(size) # -1
  /\ LET o == OrderOf(size)
         any == CachedOn(cache[t], o, pref[t].id)
     IN IF o \in CachedOrder /\ cache[t][n][o] # <<>> THEN Hit(t, n, o, size)
        ELSE IF Mode = "buddy" /\ o \in CachedOrder THEN Miss(t, o, size, n, pref[t])
        ELSE IF Mode = "fixed" /\ free[n][o] = <<>> /\ any # NoNuma THEN Hit(t, any, o, size)
        ELSE TakeBatch(t, o, size,
                       BatchFromPools(free, n, o, IF Mode = "buddy" THEN 1 ELSE Refill), pref[t])

\* mutant: the blocks drained from a full cache are not returned to the pool
MmsFreeForgets(t, b) ==
  /\ b \in held /\ held' = held \ {b}
  /\ LET n == b.numa
         o == b.order
         c == cache[t][n][o]
         kept == SubSeq(c, 1, Len(c) - Drain)
     IN IF o \notin CachedOrder
        THEN free' = [free EXCEPT ![n] = FreeUnlocked(@, n, b.unit, o)] /\ cache' = cache
        ELSE /\ free' = free
             /\ cache' = [cache EXCEPT ![t][n][o] =
                            IF Len(c) < Limit THEN Append(c, b.unit) ELSE Append(kept, b.unit)]
  /\ UNCHANGED pref

(* MmsFree, by any thread: into its own cache, of which a part goes back to the pool when it
   is full; large blocks go to the pool at once. *)
MmsFree(t, b) ==
  /\ b \in held /\ held' = held \ {b}
  /\ LET n == b.numa
         o == b.order
         c == cache[t][n][o]
         kept == SubSeq(c, 1, Len(c) - Drain)
         drained == SubSeq(c, Len(c) - Drain + 1, Len(c))
     IN IF o \notin CachedOrder
        THEN free' = [free EXCEPT ![n] = FreeUnlocked(@, n, b.unit, o)] /\ cache' = cache
        ELSE IF Len(c) < Limit
        THEN free' = free /\ cache' = [cache EXCEPT ![t][n][o] = Append(c, b.unit)]
        ELSE /\ free' = [free EXCEPT ![n] = FreeBatch(@, n, o, drained)]
             /\ cache' = [cache EXCEPT ![t][n][o] = Append(kept, b.unit)]
  /\ UNCHANGED pref

(* The destructor of ThreadCache when a thread ends, and the cache of the next thread. *)
ThreadExit(t) ==
  /\ cache[t] # NoCache
  /\ free' = FlushCaches(free, cache[t])
  /\ cache' = [cache EXCEPT ![t] = NoCache]
  /\ pref' = [pref EXCEPT ![t] = Home(t)]
  /\ UNCHANGED held

(* Reset and Initialize again, when a client reconnects after waiting for its requests. *)
Reset ==
  /\ held = {}
  /\ cache' = [t \in Thread |-> NoCache]
  /\ free' = [n \in Numa |-> Start(n)]
  /\ UNCHANGED <<pref, held>>

Next ==
  \/ \E t \in Thread, s \in Size : MmsAlloc(t, s)
  \/ \E t \in Thread, s \in Size, n \in Numa : MmsAllocPreferNuma(t, s, n)
  \/ \E t \in Thread, b \in held : MmsFree(t, b)
  \/ \E t \in Thread : ThreadExit(t)
  \/ Reset

Spec == Init /\ [][Next]_vars

-----------------------------------------------------------------------------
(* The cells of a node's memory: units, or the blocks of the classes. *)
Cells(n) == IF Mode = "buddy" THEN 0..(UnitCount[n] - 1) ELSE StartBlocks
Covers(u, o, cell) == IF Mode = "buddy" THEN cell \in u..(u + Pow(o) - 1) ELSE cell = <<u, o>>

(* The blocks on a node with their orders, wherever they are: free, cached or held. *)
OnStacks(where, s) ==
  UNION {{<<where, o, i, s[o][i]>> : i \in DOMAIN s[o]} : o \in Order}
Blocks(n) ==
  OnStacks("pool", free[n]) \cup UNION {OnStacks(t, cache[t][n]) : t \in Thread}
    \cup {<<"held", b.order, b, b.unit>> : b \in {h \in held : h.numa = n}}

(* Every cell of a node's memory belongs to exactly one block, free, cached by one thread or
   held by one caller, however blocks were split, merged, batched, drained and returned to
   caches of other threads; and a held block is as large as was asked for. *)
BlocksDisjoint ==
  /\ \A n \in Numa :
       LET blocks == Blocks(n)
       IN \A cell \in Cells(n) : Cardinality({b \in blocks : Covers(b[4], b[2], cell)}) = 1
  /\ \A b \in held : PayloadSize(b.order) >= b.size

(* No two buddies of one order are free side by side: memory that came back can serve the
   largest request it could serve at the start. *)
FreeCoalesced ==
  Mode = "buddy" => \A n \in Numa : \A o \in 0..(MaxOrder(n) - 1) : \A u \in 0..UnitCount[n] :
    u % Pow(o + 1) = 0 => ~(Contains(free[n][o], u) /\ Contains(free[n][o], u + Pow(o)))
=============================================================================
