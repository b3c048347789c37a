------------------------------- MODULE PtTable -------------------------------
(***************************************************************************)
(* The shape of a partition table (cm_inner.h), for both cluster managers. *)
(* A node has one disk, so a copy is placed by its node alone and node and *)
(* disk identifiers coincide.  A partition has CopyNum main slots and as   *)
(* many extension slots: slot i + CopyNum holds the replacement of slot i  *)
(* until its recovery ends.  Slots are numbered from 1 and the code's from *)
(* 0; nodes are numbered from 0 as in the code.  The counters referNum of  *)
(* an entry and changeVersion of the table only tell readers that a table  *)
(* differs, and are left out.                                              *)
(***************************************************************************)
EXTENDS Integers, Sequences, FiniteSets, SequencesExt

CONSTANTS NodeNum,      \* pool->maxNodeNum
          PtNum,        \* pool->maxPtNum
          CopyNum,      \* copies of a partition
          MinCopyNum    \* copies without which a partition is at fault

Node == 0 .. NodeNum - 1
NODE_ID_INVALID == 65535
Slots == 1 .. 2 * CopyNum
Ascending(n) == [i \in 1 .. n |-> i]

NoCopy(s) == [node |-> NODE_ID_INVALID, state |-> s, keepAlive |-> FALSE]
Live(c) == c.state \notin {"INIT", "OUT"}

\* The slots in use, ptEntry->copyNum, and those of them in a given state.
Used(e) == 1 .. e.copyNum
InState(e, s) == {i \in Used(e) : e.copies[i].state = s}
RunningNum(e) == Cardinality(InState(e, "RUNNING"))

\* Where main slot i is served from: itself while it is live, its extension otherwise.
SlotIndex(e, i) == IF Live(e.copies[i]) THEN i ELSE i + CopyNum

\* Holds(c): the copy has all the data of the partition.
Holds(c) == c.state = "RUNNING" \/ (c.state = "DOWN" /\ c.keepAlive)
=============================================================================
