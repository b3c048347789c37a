------------------------------ MODULE BdmLayout ------------------------------
(* How BdmDiskNewAllocator divides a device into head, metadata records and   *)
(* data chunks (BdmAllocatorGetSplitSize, bdm_disk.c:830).  The real sizes    *)
(* are a 24-byte record, 4 MiB chunks and 2 MiB alignment; the instances      *)
(* keep their order and shrink them.                                          *)
EXTENDS Integers, TLAPS

CONSTANTS HeadSize, ElemSize, ChunkSize, AlignSize, MaxTotal

\* What the code's constants satisfy: a chunk is a segment, always 4 MiB
\* (bio_config_instance.cpp:263), BDM_ALIGN_SIZE 2 MiB.
LayoutConstants ==
    /\ HeadSize \in Nat \ {0} /\ ElemSize \in Nat \ {0}
    /\ ChunkSize \in Nat \ {0} /\ AlignSize \in Nat \ {0} /\ AlignSize <= ChunkSize
    /\ MaxTotal \in Nat

VARIABLES totalSize,  \* of the device
          layout      \* what was computed for it
vars == <<totalSize, layout>>

RoundUp(x) == ((x + AlignSize - 1) \div AlignSize) * AlignSize
None == [ok |-> FALSE, num |-> 0, metaEnd |-> 0]

\* mutant: the chunk that does not fit is kept
GetSplitSizeKept(total) ==
    LET num == (total - HeadSize) \div (ElemSize + ChunkSize)
    IN  IF HeadSize + ChunkSize + ElemSize > total THEN None
        ELSE [ok |-> TRUE, num |-> num, metaEnd |-> RoundUp(ElemSize * num + HeadSize)]

\* The number of chunks and HeadSize + *metaSize.  When the rounding leaves no
\* room for the last chunk the sizes are computed again for one chunk less, the
\* head and the rounding left out.  (There *metaSize is that size less HeadSize
\* modulo 2^64, and the caller adds HeadSize again.)
GetSplitSize(total) ==
    LET num == (total - HeadSize) \div (ElemSize + ChunkSize)
        metaSize1 == RoundUp(ElemSize * num + HeadSize)
    IN  CASE HeadSize + ChunkSize + ElemSize > total -> None
          [] HeadSize + ChunkSize + ElemSize <= total /\ metaSize1 + ChunkSize * num <= total ->
                [ok |-> TRUE, num |-> num, metaEnd |-> metaSize1]
          [] HeadSize + ChunkSize + ElemSize <= total /\ metaSize1 + ChunkSize * num > total ->
                IF num <= 1 THEN None ELSE [ok |-> TRUE, num |-> num - 1, metaEnd |-> ElemSize * (num - 1)]

\* item->dataOffset and the end of the records, HeadSize being where they start.
DataOffset(l) == RoundUp(l.metaEnd)
RecordsEnd(l) == HeadSize + ElemSize * l.num

Init == totalSize \in 1 .. MaxTotal /\ layout = None
NewAllocator ==
    /\ layout' = GetSplitSize(totalSize)
    /\ layout' # layout
    /\ UNCHANGED totalSize
Next == NewAllocator
Spec == Init /\ [][Next]_vars

-----------------------------------------------------------------------------
\* The data area ends within the device: the chunk ids handed out are all
\* backed by it (para->totalSize = item->dataLength, bdm_disk.c:856).
DataFits == layout.ok => layout.num >= 1 /\ DataOffset(layout) + ChunkSize * layout.num <= totalSize

\* At most two chunks of the device are given up to metadata and rounding.
LittleIsWasted == layout.ok => totalSize < RecordsEnd(layout) + ChunkSize * (layout.num + 2) + ElemSize

\* "Only the data area is used for chunk allocation": no metadata record lies
\* in it.
RecordsOutsideData == layout.ok => RecordsEnd(layout) <= DataOffset(layout)

-----------------------------------------------------------------------------
(* Proof of DataFits and LittleIsWasted for every device and record size.  *)

\* Rounding up adds less than the alignment.
LEMMA RoundUpBounds ==
    ASSUME LayoutConstants, NEW x \in Nat
    PROVE  RoundUp(x) \in Nat /\ x <= RoundUp(x) /\ RoundUp(x) <= x + AlignSize - 1
<1> DEFINE q == (x + AlignSize - 1) \div AlignSize
<1>1. AlignSize \in Nat \ {0} /\ x + AlignSize - 1 \in Int
    BY DEF LayoutConstants
<1>2. q \in Int /\ q * AlignSize <= x + AlignSize - 1 /\ x + AlignSize - 1 < q * AlignSize + AlignSize
    BY <1>1
<1>3. RoundUp(x) = q * AlignSize
    BY DEF RoundUp
<1> HIDE DEF q
<1>4. q * AlignSize \in Int
    BY <1>1, <1>2
<1> QED
    BY <1>1, <1>2, <1>3, <1>4

\* Rounding up a second time changes nothing.
LEMMA RoundUpTwice ==
    ASSUME LayoutConstants, NEW x \in Nat
    PROVE  RoundUp(RoundUp(x)) = RoundUp(x)
<1> DEFINE q == (x + AlignSize - 1) \div AlignSize
           r == (q * AlignSize + AlignSize - 1) \div AlignSize
<1>1. AlignSize \in Nat \ {0} /\ x + AlignSize - 1 \in Int
    BY DEF LayoutConstants
<1>2. q \in Int
    BY <1>1
<1>3. RoundUp(x) = q * AlignSize
    BY DEF RoundUp
<1>4. RoundUp(RoundUp(x)) = r * AlignSize
    BY <1>3 DEF RoundUp
<1> HIDE DEF q
<1>5. q * AlignSize + AlignSize - 1 \in Int
    BY <1>1, <1>2
<1>6. r \in Int /\ r * AlignSize <= q * AlignSize + AlignSize - 1 /\ q * AlignSize + AlignSize - 1 < r * AlignSize + AlignSize
    BY <1>1, <1>5
<1> HIDE DEF r
<1>7. ~(r < q)
  <2> SUFFICES ASSUME r + 1 <= q PROVE FALSE
    BY <1>2, <1>6
  <2>1. (r + 1) * AlignSize <= q * AlignSize
    BY <1>1, <1>2, <1>6
  <2>2. (r + 1) * AlignSize = r * AlignSize + AlignSize /\ r * AlignSize \in Int /\ q * AlignSize \in Int
    BY <1>1, <1>2, <1>6
  <2> QED
    BY <1>1, <1>6, <2>1, <2>2
<1>8. ~(q < r)
  <2> SUFFICES ASSUME q + 1 <= r PROVE FALSE
    BY <1>2, <1>6
  <2>1. (q + 1) * AlignSize <= r * AlignSize
    BY <1>1, <1>2, <1>6
  <2>2. (q + 1) * AlignSize = q * AlignSize + AlignSize /\ r * AlignSize \in Int /\ q * AlignSize \in Int
    BY <1>1, <1>2, <1>6
  <2> QED
    BY <1>1, <1>6, <2>1, <2>2
<1>9. q = r
    BY <1>2, <1>6, <1>7, <1>8
<1> QED
    BY <1>3, <1>4, <1>9

\* A quotient is exact up to the divisor.
LEMMA Quotient ==
    ASSUME NEW x \in Int, NEW b \in Nat \ {0}
    PROVE  (x \div b) \in Int /\ (x \div b) * b <= x /\ x < (x \div b) * b + b
OBVIOUS

\* What BdmAllocatorGetSplitSize accepts fits the device and wastes little.
LEMMA SplitFits ==
    ASSUME LayoutConstants, NEW total \in Nat, GetSplitSize(total).ok
    PROVE  LET l == GetSplitSize(total)
           IN  /\ l.num \in Nat /\ l.num >= 1
               /\ DataOffset(l) + ChunkSize * l.num <= total
               /\ total < RecordsEnd(l) + ChunkSize * (l.num + 2) + ElemSize
<1> DEFINE d == ElemSize + ChunkSize
           num == (total - HeadSize) \div (ElemSize + ChunkSize)
           meta == RoundUp(ElemSize * num + HeadSize)
<1>1. /\ HeadSize \in Nat /\ ElemSize \in Nat /\ ChunkSize \in Nat /\ AlignSize \in Nat \ {0}
      /\ ElemSize > 0 /\ ChunkSize > 0 /\ AlignSize <= ChunkSize /\ d \in Nat \ {0}
    BY DEF LayoutConstants
<1>2. HeadSize + ChunkSize + ElemSize <= total
  <2> SUFFICES ASSUME HeadSize + ChunkSize + ElemSize > total PROVE FALSE
    BY <1>1
  <2>1. ~(HeadSize + ChunkSize + ElemSize <= total)
    BY <1>1
  <2>2. GetSplitSize(total) = None
    BY <2>1 DEF GetSplitSize
  <2> QED
    BY <2>2 DEF None
<1>3. total - HeadSize \in Int /\ total - HeadSize >= d
    BY <1>1, <1>2
<1>4. num \in Int /\ num * d <= total - HeadSize /\ total - HeadSize < num * d + d
  <2>1. PICK x \in Int, b \in Nat \ {0} : x = total - HeadSize /\ b = ElemSize + ChunkSize
    BY <1>1, <1>3
  <2>2. num = x \div b /\ d = b
    BY <2>1
  <2>3. (x \div b) \in Int /\ (x \div b) * b <= x /\ x < (x \div b) * b + b
    BY Quotient
  <2> QED
    BY <2>1, <2>2, <2>3
<1>5. GetSplitSize(total) = IF meta + ChunkSize * num <= total THEN [ok |-> TRUE, num |-> num, metaEnd |-> meta]
                            ELSE IF num <= 1 THEN None ELSE [ok |-> TRUE, num |-> num - 1, metaEnd |-> ElemSize * (num - 1)]
  <2>1. ~(HeadSize + ChunkSize + ElemSize > total)
    BY <1>1, <1>2
  <2>2. meta + ChunkSize * num > total <=> ~(meta + ChunkSize * num <= total)
    <3>1. ElemSize * num + HeadSize \in Int /\ ChunkSize * num \in Int
      BY <1>1, <1>4
    <3>2. meta \in Int
      <4>1. (ElemSize * num + HeadSize + AlignSize - 1) \div AlignSize \in Int
        BY <1>1, <3>1
      <4> QED
        BY <1>1, <4>1 DEF RoundUp
    <3> HIDE DEF meta, num
    <3> QED
      BY <3>1, <3>2
  <2> QED
    BY <1>2, <2>1, <2>2 DEF GetSplitSize
<1> HIDE DEF num
<1>6. num >= 1
  <2> SUFFICES ASSUME num <= 0 PROVE FALSE
    BY <1>4
  <2>1. num * d <= 0
    BY <1>1, <1>4
  <2>2. num * d \in Int
    BY <1>1, <1>4
  <2> QED
    BY <1>1, <1>3, <1>4, <2>1, <2>2
<1>7. num \in Nat /\ ElemSize * num \in Nat /\ ChunkSize * num \in Nat /\ num * d = ElemSize * num + ChunkSize * num
    BY <1>1, <1>4, <1>6
<1>8. ChunkSize * (num + 1) = ChunkSize * num + ChunkSize /\ ChunkSize * (num + 2) = ChunkSize * num + ChunkSize + ChunkSize
    BY <1>1, <1>7
<1>9. ElemSize * (num - 1) = ElemSize * num - ElemSize /\ ChunkSize * (num - 1) = ChunkSize * num - ChunkSize
      /\ ElemSize * (num - 1) \in Nat
    BY <1>1, <1>6, <1>7
<1> DEFINE en == ElemSize * num
           cn == ChunkSize * num
<1>10. /\ en \in Nat /\ cn \in Nat /\ en + cn <= total - HeadSize /\ total - HeadSize < en + cn + ElemSize + ChunkSize
    BY <1>1, <1>4, <1>7
<1>11. meta \in Nat /\ en + HeadSize <= meta /\ meta <= en + HeadSize + AlignSize - 1 /\ RoundUp(meta) = meta
    BY <1>1, <1>7, RoundUpBounds, RoundUpTwice
<1> HIDE DEF meta
<1>12. CASE meta + ChunkSize * num <= total
  <2>1. GetSplitSize(total).num = num /\ GetSplitSize(total).metaEnd = meta
    BY <1>5, <1>12
  <2>2. DataOffset(GetSplitSize(total)) = meta /\ RecordsEnd(GetSplitSize(total)) = HeadSize + en
    BY <1>11, <2>1 DEF DataOffset, RecordsEnd
  <2> HIDE DEF en, cn
  <2>3. meta + cn <= total
    BY <1>12 DEF cn
  <2>4. ChunkSize * (num + 2) = cn + ChunkSize + ChunkSize
    BY <1>8 DEF cn
  <2>5. total < HeadSize + en + (cn + ChunkSize + ChunkSize) + ElemSize
    BY <1>1, <1>10
  <2> QED
    BY <1>6, <1>7, <2>1, <2>2, <2>3, <2>4, <2>5 DEF cn
<1>13. CASE ~(meta + ChunkSize * num <= total)
  <2>1. num > 1 /\ GetSplitSize(total).num = num - 1 /\ GetSplitSize(total).metaEnd = ElemSize * (num - 1)
    <3>1. ~(num <= 1)
      BY <1>5, <1>13 DEF None
    <3> QED
      BY <1>5, <1>7, <1>13, <3>1
  <2>2. DataOffset(GetSplitSize(total)) = RoundUp(ElemSize * (num - 1))
        /\ RecordsEnd(GetSplitSize(total)) = HeadSize + ElemSize * (num - 1)
    BY <2>1 DEF DataOffset, RecordsEnd
  <2>3. RoundUp(ElemSize * (num - 1)) \in Nat /\ RoundUp(ElemSize * (num - 1)) <= ElemSize * (num - 1) + AlignSize - 1
    BY <1>9, RoundUpBounds
  <2> DEFINE ro == RoundUp(ElemSize * (num - 1))
  <2>4. ro \in Nat /\ ro <= en - ElemSize + AlignSize - 1
    BY <1>9, <2>3
  <2> HIDE DEF ro
  <2>5. meta + cn > total
    BY <1>7, <1>11, <1>13
  <2>6. (num - 1) + 2 = num + 1
    BY <1>7
  <2>7. /\ ChunkSize * (num - 1) = cn - ChunkSize /\ ElemSize * (num - 1) = en - ElemSize
        /\ ChunkSize * ((num - 1) + 2) = cn + ChunkSize
    BY <1>8, <1>9, <2>6
  <2> HIDE DEF en, cn
  <2>8. ro + (cn - ChunkSize) <= total
    BY <1>1, <1>10, <2>4
  <2>9. total < HeadSize + (en - ElemSize) + (cn + ChunkSize) + ElemSize
    BY <1>1, <1>10, <1>11, <2>5
  <2>10. num - 1 \in Nat /\ num - 1 >= 1
    BY <1>7, <2>1
  <2> QED
    BY <2>1, <2>2, <2>7, <2>8, <2>9, <2>10 DEF ro
<1> QED
    BY <1>12, <1>13

\* The data area ends within the device and at most two chunks are given up,
\* for every device, record, chunk and alignment size (BdmDiskNewAllocator).
THEOREM LayoutFits ==
    ASSUME LayoutConstants
    PROVE  Spec => [](DataFits /\ LittleIsWasted)
<1> DEFINE Inv == totalSize \in Nat /\ (layout = None \/ layout = GetSplitSize(totalSize))
<1>1. Init => Inv
    BY DEF Init, LayoutConstants
<1>2. Inv /\ [Next]_vars => Inv'
    BY DEF Next, NewAllocator, vars
<1>3. Inv => DataFits /\ LittleIsWasted
  <2> SUFFICES ASSUME Inv, layout.ok
               PROVE  /\ layout.num >= 1 /\ DataOffset(layout) + ChunkSize * layout.num <= totalSize
                      /\ totalSize < RecordsEnd(layout) + ChunkSize * (layout.num + 2) + ElemSize
    BY DEF DataFits, LittleIsWasted
  <2>1. layout = GetSplitSize(totalSize)
    BY DEF None
  <2> QED
    BY <2>1, SplitFits
<1> QED
    BY <1>1, <1>2, <1>3, PTL DEF Spec
=============================================================================
