---------------------------- MODULE BdmAllocator ----------------------------
(* The chunk allocator of one disk (disk/common/bdm_allocator.c): free areas  *)
(* in a red-black tree and in lists by length, a metadata record per area on  *)
(* the device, and the rebuild from those records after a restart.            *)
(*                                                                           *)
(* The allocator's lock makes an operation atomic for other threads but not   *)
(* for a crash: the records are written one pwrite at a time, so an operation *)
(* is a step that changes memory followed by one step per record.             *)
EXTENDS Integers, Sequences, FiniteSets

CONSTANTS ChunkNum,     \* chunks of the data area
          FreeListNum,  \* BDM_FREE_LIST_NUM; the last list holds all longer areas
          LengthLimit,  \* 2^21: BdmChunkMeta.length has 21 bits
          Owners,       \* (bucketId, bucketOffset) pairs
          Requests,     \* lengths asked for, in chunks
          Zeroed,       \* records within BDM_RESTORE_META_SIZE of the head
          Crashes       \* bound on restarts

\* What the code's constants satisfy.
BdmConstants ==
    /\ ChunkNum \in Nat \ {0} /\ FreeListNum \in Nat \ {0} /\ LengthLimit \in Nat \ {0}
    /\ Requests \subseteq Nat \ {0} /\ Zeroed \in Nat \ {0} /\ Crashes \in Nat
    /\ "nobody" \notin Owners

VARIABLES length,    \* chunkList[i].length
          tree,      \* the areas in the red-black tree
          free,      \* the free lists, by length
          disk,      \* metadata records on the device
          op,        \* the operation that holds the lock, with its records to write
          held,      \* what callers hold: the owner a chunk was allocated for
          usedSize,
          fault,     \* BdmSetDiskUsedStatus(FALSE): the disk is out of use
          crashes
memory == <<length, tree, free>>
vars == <<length, tree, free, disk, op, held, usedSize, fault, crashes>>

Nobody == "nobody"
Junk == [head |-> 0, owner |-> Nobody, length |-> 0]
Chunks == 0 .. ChunkNum - 1
End(c) == c + length[c]
List(n) == IF n < FreeListNum THEN n ELSE FreeListNum
Lists == 1 .. FreeListNum

\* The record UpdateMeta writes; a free area has no owner.
Record(n, owner) == [head |-> 1, owner |-> owner, length |-> n % LengthLimit]
NoOp == [kind |-> "none", chunk |-> 0, size |-> 0, owner |-> Nobody, writes |-> <<>>]
Write(c, n, owner) == [index |-> c, record |-> Record(n, owner)]

\* Put area c, now n chunks long, on its list after taking the areas in gone off theirs.
Relist(gone, c, n) ==
    free' = [b \in Lists |-> (free[b] \ gone) \cup (IF b = List(n) THEN {c} ELSE {})]

Idle == op.kind = "none" /\ ~fault

-----------------------------------------------------------------------------
(* BdmAllocatorRemove: first fit, from the list of the length asked for up.   *)

\* The areas the search may stop at.  The order of a list is left open.
Found(n) ==
    {c \in tree : /\ length[c] >= n
                  /\ \E b \in Lists : b >= List(n) /\ c \in free[b]
                     /\ \A a \in List(n) .. b - 1 : \A d \in free[a] : length[d] < n}

\* The area is taken whole.
RemoveSameLen(c, owner) ==
    /\ tree' = tree \ {c}
    /\ free' = [b \in Lists |-> free[b] \ {c}]
    /\ op' = [kind |-> "alloc", chunk |-> c, size |-> length[c], owner |-> owner,
              writes |-> <<Write(c, length[c], owner)>>]
    /\ UNCHANGED length

\* mutant: the allocated part is recorded before the rest
RemoveDiffLenSwapped(c, n, owner) ==
    /\ tree' = (tree \ {c}) \cup {c + n}
    /\ length' = [length EXCEPT ![c] = n, ![c + n] = length[c] - n]
    /\ Relist({c}, c + n, length[c] - n)
    /\ op' = [kind |-> "alloc", chunk |-> c, size |-> n, owner |-> owner,
              writes |-> <<Write(c, n, owner), Write(c + n, length[c] - n, Nobody)>>]

\* mutant: the rest keeps the length of the whole
RemoveDiffLenLong(c, n, owner) ==
    /\ tree' = (tree \ {c}) \cup {c + n}
    /\ length' = [length EXCEPT ![c] = n, ![c + n] = length[c]]
    /\ Relist({c}, c + n, length[c])
    /\ op' = [kind |-> "alloc", chunk |-> c, size |-> n, owner |-> owner,
              writes |-> <<Write(c + n, length[c], Nobody), Write(c, n, owner)>>]

\* Its front is taken; the rest is recorded first.
RemoveDiffLen(c, n, owner) ==
    /\ tree' = (tree \ {c}) \cup {c + n}
    /\ length' = [length EXCEPT ![c] = n, ![c + n] = length[c] - n]
    /\ Relist({c}, c + n, length[c] - n)
    /\ op' = [kind |-> "alloc", chunk |-> c, size |-> n, owner |-> owner,
              writes |-> <<Write(c + n, length[c] - n, Nobody), Write(c, n, owner)>>]

AllocChunk(owner, n) ==
    /\ Idle
    /\ \E c \in Found(n) : IF length[c] = n THEN RemoveSameLen(c, owner) ELSE RemoveDiffLen(c, n, owner)
    /\ UNCHANGED <<disk, held, usedSize, fault, crashes>>

-----------------------------------------------------------------------------
(* BdmAllocatorInsert: the descent in the tree stops at the first neighbour   *)
(* it meets, the area before or the one after, whichever is higher.           *)

Before(c) == {p \in tree : End(p) = c}
After(c) == {q \in tree : q = End(c)}
Freed(c, writes) ==
    op' = [kind |-> "free", chunk |-> c, size |-> length[c], owner |-> held[c], writes |-> writes]

\* Grow the area before, over the area after too if that one touches.
InsertNext(c, p) ==
    LET gone == After(c)
        n == IF gone = {} THEN length[p] + length[c] ELSE length[p] + length[c] + length[End(c)]
    IN  /\ length' = [length EXCEPT ![p] = n]
        /\ Relist(gone \cup {p}, p, n)
        /\ tree' = tree \ gone
        /\ Freed(c, <<IF gone = {} THEN Write(c, length[c], Nobody) ELSE Write(p, n, Nobody),
                      Write(c, length[c], Nobody)>>)

\* Take over the area after; an area before that touches is left alone.
InsertPre(c, q) ==
    LET n == length[c] + length[q]
    IN  /\ length' = [length EXCEPT ![c] = n]
        /\ Relist({q}, c, n)
        /\ tree' = (tree \ {q}) \cup {c}
        /\ Freed(c, <<Write(c, n, Nobody), Write(c, n, Nobody)>>)

InsertAlone(c) ==
    /\ Before(c) = {} /\ After(c) = {}
    /\ Relist({}, c, length[c])
    /\ tree' = tree \cup {c}
    /\ Freed(c, <<Write(c, length[c], Nobody)>>)
    /\ UNCHANGED length

FreeChunk(c) ==
    /\ Idle /\ held[c] # Nobody
    /\ \/ \E p \in Before(c) : InsertNext(c, p)
       \/ \E q \in After(c) : InsertPre(c, q)
       \/ InsertAlone(c)
    /\ UNCHANGED <<disk, held, usedSize, fault, crashes>>

-----------------------------------------------------------------------------
(* BdmAllocatorUpdateMeta writes a record; the operation returns when all are *)
(* written.                                                                   *)

WriteMeta ==
    /\ op.writes # <<>>
    /\ LET w == Head(op.writes) IN disk' = [disk EXCEPT ![w.index] = w.record]
    /\ op' = [op EXCEPT !.writes = Tail(@)]
    /\ UNCHANGED <<memory, held, usedSize, fault, crashes>>

\* Every retry failed: the operation returns an error and the disk is given up.
WriteFail ==
    /\ op.writes # <<>>
    /\ fault' = TRUE
    /\ op' = [op EXCEPT !.writes = <<>>]
    /\ UNCHANGED <<memory, disk, held, usedSize, crashes>>

Return ==
    /\ op.kind # "none" /\ op.writes = <<>> /\ ~fault
    /\ op' = NoOp
    /\ \/ /\ op.kind = "alloc"
          /\ held' = [held EXCEPT ![op.chunk] = op.owner]
          /\ usedSize' = usedSize + op.size
       \/ /\ op.kind = "free"
          /\ held' = [held EXCEPT ![op.chunk] = Nobody]
          /\ usedSize' = usedSize - op.size
       \/ op.kind = "format" /\ UNCHANGED <<held, usedSize>>
    /\ UNCHANGED <<memory, disk, fault, crashes>>

-----------------------------------------------------------------------------
(* BdmDiskCreateAllocator: rebuild from the records or, if that fails, format. *)

\* Areas of lengths n that follow one another from the first chunk to the last.
Tiling(areas, n) ==
    /\ \A a \in areas : n[a] >= 1 /\ a + n[a] <= ChunkNum
    /\ \A a, b \in areas : a < b => a + n[a] <= b
    /\ \A i \in Chunks : \E a \in areas : a <= i /\ i < a + n[a]

\* The records the rebuild visits: from record 0 each leads to the next, and
\* each must have been written.  A record never written stops it ("Impossible").
Restorable ==
    {S \in SUBSET Chunks : /\ \A c \in S : disk[c].head = 1
                           /\ Tiling(S, [c \in S |-> disk[c].length])}

\* The chunks that lie in one of the areas.
Counted(areas, n) == Cardinality({i \in Chunks : \E a \in areas : a <= i /\ i < a + n[a]})

\* RestoreInsert meets the areas in order, so a free area always grows the free
\* area before it when they touch: what is left are the free runs between the
\* used areas, starting at T.  The scan of the used records that follows
\* (BdmAllocatorGetNextChunk) finds the owners.
Restore(S) ==
    LET used == {c \in S : disk[c].owner # Nobody}
        Stops(c) == {d \in used \cup {ChunkNum} : d > c}
        n == [c \in S |-> IF c \in used THEN disk[c].length
                          ELSE (CHOOSE d \in Stops(c) : \A e \in Stops(c) : d <= e) - c]
    IN  \E T \in SUBSET (S \ used) :
          /\ Tiling(T \cup used, n)
          /\ tree' = T
          /\ length' = [c \in Chunks |-> IF c \in S THEN n[c] ELSE 0]
          /\ free' = [b \in Lists |-> {c \in T : List(n[c]) = b}]
          /\ held' = [c \in Chunks |-> IF c \in S THEN disk[c].owner ELSE Nobody]
          /\ usedSize' = Counted(used, n)
          /\ op' = NoOp
          /\ UNCHANGED disk

\* BdmDiskNewAllocator clears the head of the device and then records one free area.
Format ==
    /\ tree' = {0}
    /\ length' = [c \in Chunks |-> IF c = 0 THEN ChunkNum ELSE 0]
    /\ free' = [b \in Lists |-> IF b = List(ChunkNum) THEN {0} ELSE {}]
    /\ disk' = [c \in Chunks |-> IF c < Zeroed THEN Junk ELSE disk[c]]
    /\ held' = [c \in Chunks |-> Nobody]
    /\ usedSize' = 0
    /\ op' = [NoOp EXCEPT !.kind = "format", !.writes = <<Write(0, ChunkNum, Nobody)>>]

\* The process dies, at any point of an operation, and is started again.
Restart ==
    /\ crashes < Crashes
    /\ crashes' = crashes + 1
    /\ fault' = FALSE
    /\ \/ \E S \in Restorable : Restore(S)
       \/ Restorable = {} /\ Format

\* A device never used before is being formatted.
Init ==
    /\ tree = {0}
    /\ length = [c \in Chunks |-> IF c = 0 THEN ChunkNum ELSE 0]
    /\ free = [b \in Lists |-> IF b = List(ChunkNum) THEN {0} ELSE {}]
    /\ disk = [c \in Chunks |-> Junk]
    /\ held = [c \in Chunks |-> Nobody]
    /\ usedSize = 0
    /\ op = [NoOp EXCEPT !.kind = "format", !.writes = <<Write(0, ChunkNum, Nobody)>>]
    /\ fault = FALSE /\ crashes = 0

Next ==
    \/ \E owner \in Owners, n \in Requests : AllocChunk(owner, n)
    \/ \E c \in Chunks : FreeChunk(c)
    \/ WriteMeta \/ WriteFail \/ Return \/ Restart

Spec == Init /\ [][Next]_vars

-----------------------------------------------------------------------------
(* Properties.                                                             *)

Records == [head : {0, 1}, owner : Owners \cup {Nobody}, length : Nat]

\* Every variable of the allocator keeps its type.
TypeOK ==
    /\ length \in [Chunks -> Nat] /\ tree \subseteq Chunks
    /\ free \in [Lists -> SUBSET Chunks]
    /\ disk \in [Chunks -> Records]
    /\ op \in [kind : {"none", "alloc", "free", "format"}, chunk : Chunks, size : Nat,
                owner : Owners \cup {Nobody}, writes : Seq([index : Chunks, record : Records])]
    /\ held \in [Chunks -> Owners \cup {Nobody}]
    /\ usedSize \in Int /\ fault \in BOOLEAN /\ crashes \in Nat

\* The chunks allocated, the one of an allocation still being recorded included
\* and the one of a free still being recorded not.
Taken ==
    {c \in Chunks : \/ held[c] # Nobody /\ ~(op.kind = "free" /\ op.chunk = c)
                    \/ op.kind = "alloc" /\ op.chunk = c}

\* The free areas and the allocated ones tile the data area: no chunk is handed
\* out twice, none is lost to splitting and merging, and no free area overlaps
\* data ("Areas overlapped failed", bdm_allocator.c:250).
AreasTile == ~fault => tree \cap Taken = {} /\ Tiling(tree \cup Taken, length)

\* A free area is on exactly the list of its length, so that first fit sees it.
ListsMatchTree == ~fault => \A b \in Lists : free[b] = {c \in tree : List(length[c]) = b}

\* The capacity BdmAllocatorGetCap reports is what is allocated.
UsedSizeExact ==
    Idle => usedSize = Counted({c \in Chunks : held[c] # Nobody}, length)

\* BdmAllocatorCheckChunk lets an access through on the record alone.
CheckChunk(c) == disk[c].head = 1 /\ disk[c].owner # Nobody

\* Between operations BdmAllocatorCheckChunk lets accesses through to every
\* allocated chunk and, until a restart, to no other.  (A crash inside a free
\* that merges three areas leaves the freed chunk's old record in the middle of
\* the free area, where the rebuild does not look but CheckChunk does.)
CheckChunkExact ==
    Idle => \A c \in Chunks : /\ held[c] # Nobody => CheckChunk(c)
                              /\ crashes = 0 /\ CheckChunk(c) => held[c] # Nobody

\* A restart after a crash at any point finds every chunk that was allocated, at
\* its owner and length, and no chunk that was not; only the operation cut short
\* may have happened or not.
RestartKeeps ==
    crashes' # crashes =>
        \A c \in Chunks :
           LET cut == op.kind \in {"alloc", "free"} /\ op.chunk = c
           IN  \/ held'[c] = held[c] /\ (held[c] # Nobody => length'[c] = IF cut THEN op.size ELSE length[c])
               \/ cut /\ op.kind = "alloc" /\ held'[c] = op.owner /\ length'[c] = op.size
               \/ cut /\ op.kind = "free" /\ held'[c] = Nobody
RestartKeepsChunks == [][RestartKeeps]_vars
=============================================================================
