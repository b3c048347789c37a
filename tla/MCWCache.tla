------------------------------ MODULE MCWCache ------------------------------
(* WCache for TLC, in four situations: two clients that race with eviction from *)
(* memory, one of them deleting ("race"); a cache that is flushed, with every   *)
(* strategy, failing tasks and a restart ("flush"); two slices written to disk,  *)
(* with failing copies and a restart ("crash"); and a disk whose status changes *)
(* ("view").  Every slice has a key of its own.                                 *)
EXTENDS Naturals, TLC

CONSTANTS k1, k2, c1, c2, c3, m1, d1

VARIABLES part, ref, meta, evicted, base, nego, queue, index, underfs, evictRef, tasks, retry, frame,
          forced, normal, phase, gc, negotiating, acked, deleting, deleted, views, crashes

One == [i \in {0} |-> k1]
Two == [i \in 0 .. 1 |-> <<k1, k2>>[i + 1]]

Race == INSTANCE WCache WITH
          N <- 2, Keys <- {k1, k2}, KeyOf <- Two, Clients <- {c1, c2}, MemPool <- {m1}, DiskPool <- {d1},
          Through <- {"mem"}, Readable <- {k1}, Deletable <- {k1}, Events <- {}, MaxViews <- 0, Crashes <- 0
Flushed == INSTANCE WCache WITH
          N <- 1, Keys <- {k1}, KeyOf <- One, Clients <- {c3}, MemPool <- {m1}, DiskPool <- {d1},
          Through <- {"mem", "disk", "underfs"}, Readable <- {k1}, Deletable <- {k1},
          Events <- {"copy", "underfs", "execute", "flush", "role"}, MaxViews <- 0, Crashes <- 1
Crash == INSTANCE WCache WITH
          N <- 2, Keys <- {k1, k2}, KeyOf <- Two, Clients <- {c3}, MemPool <- {m1}, DiskPool <- {d1},
          Through <- {"disk"}, Readable <- {k1}, Deletable <- {},
          Events <- {"copy", "underfs"}, MaxViews <- 0, Crashes <- 1
View == INSTANCE WCache WITH
          N <- 1, Keys <- {k1}, KeyOf <- One, Clients <- {c3}, MemPool <- {m1}, DiskPool <- {d1},
          Through <- {"mem", "disk"}, Readable <- {k1}, Deletable <- {},
          Events <- {"copy"}, MaxViews <- 1, Crashes <- 0

vars == <<part, ref, meta, evicted, base, nego, queue, index, underfs, evictRef, tasks, retry, frame,
          forced, normal, phase, gc, negotiating, acked, deleting, deleted, views, crashes>>

Init ==
    \/ part = "race" /\ Race!Init
    \/ part = "flush" /\ Flushed!Init
    \/ part = "crash" /\ Crash!Init
    \/ part = "view" /\ View!Init
Next ==
    /\ UNCHANGED part
    /\ \/ part = "race" /\ Race!Next
       \/ part = "flush" /\ Flushed!Next
       \/ part = "crash" /\ Crash!Next
       \/ part = "view" /\ View!Next
Spec == Init /\ [][Next]_vars

\* The two clients of the race are interchangeable.
ClientSymmetry == Permutations({c1, c2})
-----------------------------------------------------------------------------
\* No slice is lost or duplicated on its way through the tiers: one still in
\* the cache is exactly once in the negotiation map, a queue, an actor's hands
\* or a swap that waits for readers, whatever is retried or flushed when.
PlacedOnce ==
    /\ part = "race" => Race!PlacedOnce
    /\ part = "flush" => Flushed!PlacedOnce
    /\ part = "crash" => Crash!PlacedOnce
    /\ part = "view" => View!PlacedOnce

\* The space a reader is reading is not truncated under it: SetSlice leaves the
\* truncation to the last Release.
ReadersSafe ==
    /\ part = "race" => Race!ReadersSafe
    /\ part = "flush" => Flushed!ReadersSafe
    /\ part = "crash" => Crash!ReadersSafe
    /\ part = "view" => View!ReadersSafe

\* A put that returned can be read, from the tier its index entry points to or
\* from the under file system, unless a delete of the key began and has not failed.
AckedReadable ==
    /\ part = "race" => Race!AckedReadable
    /\ part = "flush" => Flushed!AckedReadable
    /\ part = "crash" => Crash!AckedReadable
    /\ part = "view" => View!AckedReadable

\* A key whose delete returned is found neither in the write cache nor in the
\* under file system (no key is put twice here).  It holds while the server runs
\* and puts return from memory.  A restart before eviction finds the slice on the
\* disk again, and a put that evicts in the foreground opens the operation lock
\* that a disk eviction holds, so that the delete no longer waits for it.
DeletedStaysDeleted == part = "race" => Race!DeletedStaysDeleted
=============================================================================
