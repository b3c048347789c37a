------------------------------ MODULE RingQueue ------------------------------
(***************************************************************************)
(* Any sequence of ring buffer operations, beside the queue they stand     *)
(* for.                                                                    *)
(***************************************************************************)
EXTENDS RingBuffer

CONSTANTS Item, MaxN

VARIABLES
  ring,   \* the RingBuffer object
  queue   \* the sequence its caller believes in

vars == <<ring, queue>>

Init == ring = EmptyRing /\ queue = <<>>

Fits(n) == Len(queue) + n <= Capacity

Push ==
  \E items \in UNION {[1 .. n -> Item] : n \in 1 .. MaxN} :
    LET n == Len(items) IN
    \/ /\ ring' = IF n = 1 THEN PushBack(ring, items[1]) ELSE PushBackN(ring, items)
       /\ queue' = IF Fits(n) THEN queue \o items ELSE queue
    \/ /\ ring' = IF n = 1 THEN PushFront(ring, items[1]) ELSE PushFrontN(ring, items)
       /\ queue' = IF Fits(n) THEN Reverse(items) \o queue ELSE queue

Pop ==
  \E n \in 1 .. MaxN :
    \/ /\ ring' = IF n = 1 THEN PopFront(ring) ELSE PopFrontN(ring, n)
       /\ queue' = IF Len(queue) >= n THEN SubSeq(queue, n + 1, Len(queue)) ELSE queue
    \/ /\ ring' = PopFrontNFlex(ring, n)
       /\ queue' = SubSeq(queue, n + 1, Len(queue))

Next == Push \/ Pop
Spec == Init /\ [][Next]_vars

(* The slots from the head on hold exactly the items pushed and not yet    *)
(* popped, in order, whatever mix of front and back operations wrapped     *)
(* the indices, and an operation is refused exactly when the queue has no  *)
(* room or not enough items (RingBuffer of bio_ring_buffer.h).             *)
RingIsQueue == Contents(ring) = queue

-----------------------------------------------------------------------------
(* MemStore's copy (mms_ring_buffer.h).  Its pushes of n items compute the *)
(* room in their own way; the other operations are those above.            *)
MmsInitialize == ring = EmptyRing

MmsPushBack(x) == ring' = PushBack(ring, x)
MmsPushFront(x) == ring' = PushFront(ring, x)
MmsPopFront == ring' = PopFront(ring)
MmsPopFrontN(n) == ring' = PopFrontN(ring, n)
MmsPopFrontNFlex(n) == ring' = PopFrontNFlex(ring, n)

MmsPushBackN(items) ==
  ring' = IF Capacity < ring.count + Len(items) THEN ring ELSE FoldLeft(AddLast, ring, items)
MmsPushFrontN(items) ==
  ring' = IF Capacity < ring.count + Len(items) THEN ring ELSE FoldLeft(AddFirst, ring, items)

MmsInit == MmsInitialize /\ queue = <<>>

MmsNext ==
  \/ \E x \in Item :
       \/ MmsPushBack(x) /\ queue' = IF Len(queue) < Capacity THEN Append(queue, x) ELSE queue
       \/ MmsPushFront(x) /\ queue' = IF Len(queue) < Capacity THEN <<x>> \o queue ELSE queue
  \/ \E items \in UNION {[1 .. n -> Item] : n \in 2 .. MaxN} :
       \/ MmsPushBackN(items) /\ queue' = IF Fits(Len(items)) THEN queue \o items ELSE queue
       \/ MmsPushFrontN(items) /\ queue' = IF Fits(Len(items)) THEN Reverse(items) \o queue ELSE queue
  \/ MmsPopFront /\ queue' = IF queue = <<>> THEN queue ELSE Tail(queue)
  \/ \E n \in 2 .. MaxN :
       \/ MmsPopFrontN(n) /\ queue' = IF Len(queue) >= n THEN SubSeq(queue, n + 1, Len(queue)) ELSE queue
       \/ MmsPopFrontNFlex(n) /\ queue' = SubSeq(queue, n + 1, Len(queue))
=============================================================================
