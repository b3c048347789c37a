----------------------------- MODULE RingBuffer -----------------------------
(***************************************************************************)
(* The ring buffer of common/bio_ring_buffer.h: Capacity slots, the index  *)
(* of the first item, the index behind the last one and their number.      *)
(* Every operation runs under the buffer's spin lock, so it is one         *)
(* function from a ring to a ring; one that finds no room, or too few      *)
(* items, leaves the ring as it was.                                       *)
(***************************************************************************)
EXTENDS Integers, Sequences, SequencesExt

CONSTANTS Capacity, NoItem

(* Initialize: the slots hold nothing yet. *)
EmptyRing == [slot |-> [i \in 0 .. Capacity - 1 |-> NoItem], head |-> 0, tail |-> 0, count |-> 0]

After(i) == IF i # Capacity - 1 THEN i + 1 ELSE 0
Before(i) == IF i = 0 THEN Capacity - 1 ELSE i - 1

Room(r, n) == n <= Capacity /\ r.count <= Capacity - n

AddLast(r, x) == [r EXCEPT !.slot[r.tail] = x, !.tail = After(r.tail), !.count = @ + 1]
AddFirst(r, x) == [r EXCEPT !.slot[Before(r.head)] = x, !.head = Before(r.head), !.count = @ + 1]
First(r) == r.slot[r.head]
DropFirst(r) == [r EXCEPT !.head = After(r.head), !.count = @ - 1]

\* mutant: the front moves after the item is stored
PushFrontLate(r, x) ==
  IF r.count < Capacity THEN [r EXCEPT !.slot[r.head] = x, !.head = Before(r.head), !.count = @ + 1] ELSE r

PushBack(r, x) == IF r.count < Capacity THEN AddLast(r, x) ELSE r
PushFront(r, x) == IF r.count < Capacity THEN AddFirst(r, x) ELSE r
PopFront(r) == IF r.count > 0 THEN DropFirst(r) ELSE r

(* The variants for n items at a time; Flex takes what there is, up to n. *)
PushBackN(r, items) == IF Room(r, Len(items)) THEN FoldLeft(AddLast, r, items) ELSE r
PushFrontN(r, items) == IF Room(r, Len(items)) THEN FoldLeft(AddFirst, r, items) ELSE r
Dropped(r, n) == FoldLeft(LAMBDA acc, i : DropFirst(acc), r, [i \in 1 .. n |-> i])
PopFrontN(r, n) == IF r.count >= n THEN Dropped(r, n) ELSE r
PopFrontNFlex(r, n) == Dropped(r, IF r.count < n THEN r.count ELSE n)

(* The items a reader would get, first to last: the slot n places behind a slot. *)
Behind(i, n) == IF i + n < Capacity THEN i + n ELSE i + n - Capacity
Contents(r) == [i \in 1 .. r.count |-> r.slot[Behind(r.head, i - 1)]]

-----------------------------------------------------------------------------
(* What the operations do to the contents, for every capacity.             *)

\* A ring whose slots hold elements of S.
RingOf(S) ==
  {r \in [slot : [0 .. Capacity - 1 -> S], head : 0 .. Capacity - 1, tail : 0 .. Capacity - 1, count : 0 .. Capacity] :
     r.tail = Behind(r.head, r.count)}

\* The i-th item from the front.
ItemAt(r, i) == r.slot[Behind(r.head, i - 1)]

\* The fields of a ring.
LEMMA RingFields ==
  ASSUME NEW S, NEW r \in RingOf(S)
  PROVE  /\ r \in [slot : [0 .. Capacity - 1 -> S], head : 0 .. Capacity - 1, tail : 0 .. Capacity - 1, count : 0 .. Capacity]
         /\ r.slot \in [0 .. Capacity - 1 -> S] /\ r.head \in 0 .. Capacity - 1
         /\ r.tail \in 0 .. Capacity - 1 /\ r.count \in 0 .. Capacity
         /\ r.tail = Behind(r.head, r.count)
<1>1. r \in [slot : [0 .. Capacity - 1 -> S], head : 0 .. Capacity - 1, tail : 0 .. Capacity - 1, count : 0 .. Capacity]
    BY DEF RingOf
<1>2. r.tail = Behind(r.head, r.count)
    BY DEF RingOf
<1> QED
    BY <1>1, <1>2

\* The places of the items differ from the place behind the last one and from
\* the one in front of the first.
LEMMA PlacesApart ==
  ASSUME Capacity \in Nat \ {0}, NEW h \in 0 .. Capacity - 1, NEW n \in 0 .. Capacity - 1, NEW i \in 1 .. n
  PROVE  /\ Behind(h, i - 1) \in 0 .. Capacity - 1
         /\ Behind(h, i - 1) # Behind(h, n)
         /\ Behind(h, i - 1) # Before(h)
         /\ Behind(Before(h), (i + 1) - 1) = Behind(h, i - 1)
<1>1. /\ Behind(h, i - 1) = IF h + (i - 1) < Capacity THEN h + (i - 1) ELSE h + (i - 1) - Capacity
      /\ Behind(h, n) = IF h + n < Capacity THEN h + n ELSE h + n - Capacity
    BY DEF Behind
<1>2. Before(h) = IF h = 0 THEN Capacity - 1 ELSE h - 1
    BY DEF Before
<1>3. Behind(Before(h), (i + 1) - 1) = Behind(h, i - 1)
    BY <1>2 DEF Behind
<1>4. Behind(h, i - 1) \in 0 .. Capacity - 1
    BY <1>1
<1>5. Behind(h, i - 1) # Behind(h, n)
    BY <1>1
<1>6. Behind(h, i - 1) # Before(h)
    BY <1>1, <1>2
<1> QED
    BY <1>3, <1>4, <1>5, <1>6

\* A push at the end leaves the items in front of it and adds one behind them.
LEMMA AddLastItems ==
  ASSUME Capacity \in Nat \ {0}, NEW S, NEW r \in RingOf(S), NEW x \in S, r.count < Capacity
  PROVE  /\ AddLast(r, x) \in RingOf(S)
         /\ AddLast(r, x).count = r.count + 1
         /\ ItemAt(AddLast(r, x), r.count + 1) = x
         /\ \A i \in 1 .. r.count : ItemAt(AddLast(r, x), i) = ItemAt(r, i)
<1> DEFINE n == AddLast(r, x)
<1>1. /\ r \in [slot : [0 .. Capacity - 1 -> S], head : 0 .. Capacity - 1, tail : 0 .. Capacity - 1, count : 0 .. Capacity]
      /\ r.slot \in [0 .. Capacity - 1 -> S] /\ r.head \in 0 .. Capacity - 1 /\ r.tail \in 0 .. Capacity - 1
      /\ r.count \in 0 .. Capacity /\ r.tail = Behind(r.head, r.count)
    BY RingFields
<1>2. n.slot = [r.slot EXCEPT ![r.tail] = x] /\ n.head = r.head /\ n.tail = After(r.tail) /\ n.count = r.count + 1
    BY <1>1 DEF AddLast
<1> HIDE DEF n
<1>3. After(r.tail) \in 0 .. Capacity - 1 /\ After(r.tail) = Behind(r.head, r.count + 1)
    BY <1>1 DEF After, Behind
<1>4. n \in RingOf(S)
  <2>1. [r.slot EXCEPT ![r.tail] = x] \in [0 .. Capacity - 1 -> S] /\ r.count + 1 \in 0 .. Capacity
    BY <1>1
  <2>2. n \in [slot : [0 .. Capacity - 1 -> S], head : 0 .. Capacity - 1, tail : 0 .. Capacity - 1, count : 0 .. Capacity]
    BY <1>1, <1>3, <2>1 DEF n, AddLast
  <2> QED
    BY <1>2, <1>3, <2>2 DEF RingOf
<1>5. ItemAt(n, r.count + 1) = x
  <2>1. Behind(n.head, (r.count + 1) - 1) = r.tail
    BY <1>1, <1>2 DEF Behind
  <2>2. n.slot[r.tail] = x
    BY <1>1, <1>2
  <2> QED
    BY <2>1, <2>2 DEF ItemAt
<1>6. ASSUME NEW i \in 1 .. r.count PROVE ItemAt(n, i) = ItemAt(r, i)
  <2>1. Behind(r.head, i - 1) \in 0 .. Capacity - 1 /\ Behind(r.head, i - 1) # r.tail /\ n.head = r.head
    <3>1. r.head \in 0 .. Capacity - 1 /\ r.count \in 0 .. Capacity - 1
      BY <1>1
    <3>2. Behind(r.head, i - 1) \in 0 .. Capacity - 1 /\ Behind(r.head, i - 1) # Behind(r.head, r.count)
      BY <3>1, PlacesApart
    <3> QED
      BY <1>1, <1>2, <3>2
  <2>2. n.slot[Behind(r.head, i - 1)] = r.slot[Behind(r.head, i - 1)]
    BY <1>1, <1>2, <2>1
  <2> QED
    BY <2>1, <2>2 DEF ItemAt
<1>7. n.count = r.count + 1
    BY <1>2
<1> QED
    BY <1>4, <1>5, <1>6, <1>7 DEF n

\* A push at the front adds one and moves the others back by one.
LEMMA AddFirstItems ==
  ASSUME Capacity \in Nat \ {0}, NEW S, NEW r \in RingOf(S), NEW x \in S, r.count < Capacity
  PROVE  /\ AddFirst(r, x) \in RingOf(S)
         /\ AddFirst(r, x).count = r.count + 1
         /\ ItemAt(AddFirst(r, x), 1) = x
         /\ \A i \in 1 .. r.count : ItemAt(AddFirst(r, x), i + 1) = ItemAt(r, i)
<1> DEFINE n == AddFirst(r, x)
           h == Before(r.head)
<1>1. /\ r \in [slot : [0 .. Capacity - 1 -> S], head : 0 .. Capacity - 1, tail : 0 .. Capacity - 1, count : 0 .. Capacity]
      /\ r.slot \in [0 .. Capacity - 1 -> S] /\ r.head \in 0 .. Capacity - 1 /\ r.tail \in 0 .. Capacity - 1
      /\ r.count \in 0 .. Capacity /\ r.tail = Behind(r.head, r.count)
    BY RingFields
<1>2. n.slot = [r.slot EXCEPT ![h] = x] /\ n.head = h /\ n.tail = r.tail /\ n.count = r.count + 1
    BY <1>1 DEF AddFirst
<1>3. h \in 0 .. Capacity - 1 /\ h = IF r.head = 0 THEN Capacity - 1 ELSE r.head - 1
    BY <1>1 DEF Before
<1> HIDE DEF h, n
<1>4. r.tail = Behind(h, r.count + 1)
    BY <1>1, <1>3 DEF Behind
<1>5. n \in RingOf(S)
  <2>1. [r.slot EXCEPT ![h] = x] \in [0 .. Capacity - 1 -> S] /\ r.count + 1 \in 0 .. Capacity
    BY <1>1, <1>3
  <2>2. n \in [slot : [0 .. Capacity - 1 -> S], head : 0 .. Capacity - 1, tail : 0 .. Capacity - 1, count : 0 .. Capacity]
    BY <1>1, <1>3, <2>1 DEF n, h, AddFirst
  <2> QED
    BY <1>2, <1>4, <2>2 DEF RingOf
<1>6. ItemAt(n, 1) = x
  <2>1. Behind(n.head, 1 - 1) = h
    BY <1>1, <1>2, <1>3 DEF Behind
  <2>2. n.slot[h] = x
    BY <1>1, <1>2, <1>3
  <2> QED
    BY <2>1, <2>2 DEF ItemAt
<1>7. ASSUME NEW i \in 1 .. r.count PROVE ItemAt(n, i + 1) = ItemAt(r, i)
  <2>1. /\ Behind(r.head, i - 1) \in 0 .. Capacity - 1 /\ Behind(r.head, i - 1) # h
        /\ Behind(h, (i + 1) - 1) = Behind(r.head, i - 1)
    <3>1. r.head \in 0 .. Capacity - 1 /\ r.count \in 0 .. Capacity - 1
      BY <1>1
    <3> QED
      BY <3>1, PlacesApart DEF h
  <2>2. n.slot[Behind(r.head, i - 1)] = r.slot[Behind(r.head, i - 1)] /\ n.head = h
    BY <1>1, <1>2, <1>3, <2>1
  <2> QED
    BY <2>1, <2>2 DEF ItemAt
<1>8. n.count = r.count + 1
    BY <1>2
<1> QED
    BY <1>5, <1>6, <1>7, <1>8 DEF n

\* A pop moves the items behind the first one forward.
LEMMA DropFirstItems ==
  ASSUME Capacity \in Nat \ {0}, NEW S, NEW r \in RingOf(S), r.count > 0
  PROVE  /\ DropFirst(r) \in RingOf(S)
         /\ DropFirst(r).count = r.count - 1
         /\ First(r) = ItemAt(r, 1)
         /\ \A i \in 1 .. r.count - 1 : ItemAt(DropFirst(r), i) = ItemAt(r, i + 1)
<1> DEFINE n == DropFirst(r)
           h == After(r.head)
<1>1. /\ r \in [slot : [0 .. Capacity - 1 -> S], head : 0 .. Capacity - 1, tail : 0 .. Capacity - 1, count : 0 .. Capacity]
      /\ r.slot \in [0 .. Capacity - 1 -> S] /\ r.head \in 0 .. Capacity - 1 /\ r.tail \in 0 .. Capacity - 1
      /\ r.count \in 0 .. Capacity /\ r.tail = Behind(r.head, r.count)
    BY RingFields
<1>2. n.slot = r.slot /\ n.head = h /\ n.tail = r.tail /\ n.count = r.count - 1
    BY <1>1 DEF DropFirst
<1>3. h \in 0 .. Capacity - 1 /\ h = IF r.head # Capacity - 1 THEN r.head + 1 ELSE 0
    BY <1>1 DEF After
<1> HIDE DEF h, n
<1>4. r.tail = Behind(h, r.count - 1) /\ r.count - 1 \in 0 .. Capacity
    BY <1>1, <1>3 DEF Behind
<1>5. n \in RingOf(S)
  <2>1. n \in [slot : [0 .. Capacity - 1 -> S], head : 0 .. Capacity - 1, tail : 0 .. Capacity - 1, count : 0 .. Capacity]
    BY <1>1, <1>3, <1>4 DEF n, h, DropFirst
  <2> QED
    BY <1>2, <1>4, <2>1 DEF RingOf
<1>6. First(r) = ItemAt(r, 1)
  <2>1. Behind(r.head, 1 - 1) = r.head
    BY <1>1 DEF Behind
  <2> QED
    BY <2>1 DEF ItemAt, First
<1>7. ASSUME NEW i \in 1 .. r.count - 1 PROVE ItemAt(n, i) = ItemAt(r, i + 1)
  <2>1. Behind(h, i - 1) = Behind(r.head, (i + 1) - 1)
    BY <1>1, <1>3 DEF Behind
  <2>2. n.slot = r.slot /\ n.head = h
    BY <1>2
  <2> QED
    BY <2>1, <2>2 DEF ItemAt
<1>8. n.count = r.count - 1
    BY <1>2
<1> QED
    BY <1>5, <1>6, <1>7, <1>8 DEF n

\* A new ring is empty.
LEMMA EmptyRingOf ==
  ASSUME Capacity \in Nat \ {0}, NEW S, NoItem \in S
  PROVE  EmptyRing \in RingOf(S) /\ EmptyRing.count = 0
<1>1. 0 = Behind(0, 0)
    BY DEF Behind
<1> QED
    BY <1>1 DEF EmptyRing, RingOf
=============================================================================
