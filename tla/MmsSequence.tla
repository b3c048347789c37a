---------------------------- MODULE MmsSequence ----------------------------
(* The sequence numbers of MemStore's writes (common/mms_sequence.cpp; mms.sequence.switch) and
   the hand-over of a partition to another master (NotifyPtMigrate of
   server/mms_kv_server.cpp), for one partition and one worker group.

   The master numbers its requests within a window of QueueLen; each copy keeps the request
   it has seen in the slot of its number until the master has told it, with a later request,
   that all copies have answered, so that a new master can find the requests some copies have
   and others have not.                                                                   *)
EXTENDS Integers, FiniteSets, FiniteSetsExt, Sequences, SequencesExt

CONSTANTS
  Copy,         \* the running copies of the partition
  Master,       \* the one that is master
  QueueLen,     \* SEQ_QUEUE_LEN
  Span,         \* bound: how far the numbers under way may be apart
  MaxSeq        \* bound: numbers given

\* What the code's constants satisfy.
SequenceConstants == Master \in Copy /\ QueueLen \in Nat \ {0} /\ Span \in Nat /\ MaxSeq \in Nat

VARIABLES
  master, copies,
  cursor,       \* SlidingQueue::cursor of the master: [left, right]
  finish,       \* SlidingQueue::statusList
  slot,         \* NegoQueue::valueList of each copy: the number kept, 0 for none
  negoSeqNo, commitSeqNo,
  requests,     \* under way: number, negotiated number, copies still to answer
  applied,      \* history: the requests each copy has taken into its cache
  conflict      \* history: a copy has answered MMS_KEY_CONFLICT

vars == <<master, copies, cursor, finish, slot, negoSeqNo, commitSeqNo, requests, applied, conflict>>

Idx(s) == s % QueueLen
Slots == 0 .. QueueLen - 1

Init ==
  /\ master = Master /\ copies = Copy
  /\ cursor = [left |-> 0, right |-> 0]
  /\ finish = [i \in Slots |-> FALSE]
  /\ slot = [n \in Copy |-> [i \in Slots |-> 0]]
  /\ negoSeqNo = [n \in Copy |-> 0] /\ commitSeqNo = [n \in Copy |-> 0]
  /\ requests = {}
  /\ applied = [n \in Copy |-> {}] /\ conflict = FALSE

-----------------------------------------------------------------------------
(* ApplyForSeqNo2Mst; a full window answers MMS_INNER_RETRY. *)
ApplyForSeqNo2Mst ==
  /\ cursor.right - cursor.left < QueueLen
  /\ cursor.right - cursor.left < Span /\ cursor.right < MaxSeq
  /\ cursor' = [cursor EXCEPT !.right = @ + 1]
  /\ requests' = requests \cup {[seqNo |-> cursor.right + 1, nego |-> cursor.left, to |-> copies]}
  /\ UNCHANGED <<master, copies, finish, slot, negoSeqNo, commitSeqNo, applied, conflict>>

(* NegoSeqNoHandle: how far a copy may forget, its slots being v: up to nego, and as long as they
   are filled. *)
Negotiated(v, from, nego) ==
  IF nego <= from THEN from
  ELSE Max({from} \cup {k \in (from + 1) .. nego : \A j \in (from + 1) .. k : v[Idx(j)] # 0})

(* mutant: a copy forgets what it has, up to the request that arrives *)
KeepInSlotGreedy(n, s, nego) ==
  LET v == [slot[n] EXCEPT ![Idx(s)] = s]
      to == Negotiated(v, negoSeqNo[n], s)
  IN /\ slot' = [slot EXCEPT ![n] = [i \in Slots |-> IF \E j \in (negoSeqNo[n] + 1) .. to : Idx(j) = i
                                                    THEN 0 ELSE v[i]]]
     /\ negoSeqNo' = [negoSeqNo EXCEPT ![n] = to]

(* The slot is filled, then NegoSeqNoHandle empties those negotiated. *)
KeepInSlot(n, s, nego) ==
  LET v == [slot[n] EXCEPT ![Idx(s)] = s]
      to == Negotiated(v, negoSeqNo[n], nego)
  IN /\ slot' = [slot EXCEPT ![n] = [i \in Slots |-> IF \E j \in (negoSeqNo[n] + 1) .. to : Idx(j) = i
                                                    THEN 0 ELSE v[i]]]
     /\ negoSeqNo' = [negoSeqNo EXCEPT ![n] = to]

(* NegoSeqNo2Slv, at the head of PutLocal and its like: a slot in use refuses another number. *)
NegoSeqNo2Slv(r, n) ==
  /\ r \in requests /\ n \in r.to
  /\ requests' = (requests \ {r}) \cup {[r EXCEPT !.to = @ \ {n}]}
  /\ \/ /\ slot[n][Idx(r.seqNo)] = 0
        /\ KeepInSlot(n, r.seqNo, r.nego)
        /\ commitSeqNo' = [commitSeqNo EXCEPT ![n] = Max({@, r.seqNo})]
        /\ applied' = [applied EXCEPT ![n] = @ \cup {r.seqNo}]
        /\ UNCHANGED conflict
     \/ /\ slot[n][Idx(r.seqNo)] = r.seqNo
        /\ applied' = [applied EXCEPT ![n] = @ \cup {r.seqNo}]
        /\ UNCHANGED <<slot, negoSeqNo, commitSeqNo, conflict>>
     \/ /\ slot[n][Idx(r.seqNo)] \notin {0, r.seqNo}
        /\ conflict' = TRUE
        /\ UNCHANGED <<slot, negoSeqNo, commitSeqNo, applied>>
  /\ UNCHANGED <<master, copies, cursor, finish>>

(* ReleaseSeqNo2Mst: the window moves over the finished requests. *)
Released(f) ==
  Max({cursor.left} \cup {k \in (cursor.left + 1) .. cursor.right :
                            \A j \in (cursor.left + 1) .. k : f[Idx(j)]})

Release(r) ==
  LET f == [finish EXCEPT ![Idx(r.seqNo)] = TRUE]
      to == Released(f)
  IN /\ cursor' = [cursor EXCEPT !.left = to]
     /\ finish' = [i \in Slots |-> f[i] /\ ~\E j \in (cursor.left + 1) .. to : Idx(j) = i]

ReleaseSeqNo2Mst(r) ==
  /\ r \in requests /\ r.to = {}
  /\ requests' = requests \ {r}
  /\ Release(r)
  /\ UNCHANGED <<master, copies, slot, negoSeqNo, commitSeqNo, applied, conflict>>

-----------------------------------------------------------------------------
(* GetSeqNoList2Slv: for every number outstanding the slot after negoSeqNo, which is the same slot
   each time; MergeSeqNoList drops the repeats. *)
GetSeqNoList2Slv(n) ==
  {slot[n][Idx(negoSeqNo[n] + 1)] : s \in negoSeqNo[n] .. commitSeqNo[n] - 1} \ {0}

(* MergeSeqNoList, one list after the other: the numbers that some copy lists. *)
MergeSeqNoList(alive) == UNION {GetSeqNoList2Slv(m) : m \in alive}

(* negoLocList: the copy a number is read from is the first that lists it. *)
Location(alive, s) ==
  LET order == SetToSeq(alive)
  IN order[SelectInSeq(order, LAMBDA m : s \in GetSeqNoList2Slv(m))]

(* SyncSeqNoData, for a number that some copy does not list: the data is read from the copy that
   has it, and PutSeqNoData sends it to the same copy, which takes it again. *)
SyncSeqNoData(alive, s) ==
  IF \A m \in alive : s \in GetSeqNoList2Slv(m) THEN {} ELSE {Location(alive, s)}

(* NotifyPtMigrateImpl on the copy n that is master now: it gathers the lists, merges them, and
   synchronises each number.  The window starts again after the last number. *)
NotifyPtMigrate(n) ==
  LET alive == copies \ {master}
      nego == MergeSeqNoList(alive)
  IN /\ master = Master /\ n \in alive
     /\ master' = n /\ copies' = alive
     /\ requests' = {}
     /\ cursor' = IF nego = {} THEN [left |-> 0, right |-> 0] ELSE [left |-> Max(nego), right |-> Max(nego)]
     /\ finish' = [i \in Slots |-> FALSE]
     /\ applied' = [m \in Copy |-> applied[m] \cup {s \in nego : m \in SyncSeqNoData(alive, s)}]
     /\ UNCHANGED <<slot, negoSeqNo, commitSeqNo, conflict>>

Next == \/ ApplyForSeqNo2Mst
        \/ \E r \in requests : ReleaseSeqNo2Mst(r) \/ \E n \in Copy : NegoSeqNo2Slv(r, n)
        \/ \E n \in Copy : NotifyPtMigrate(n)

Spec == Init /\ [][Next]_vars

-----------------------------------------------------------------------------
(* Under the first master no copy refuses a request, as long as the numbers under way span at most
   half the window: a slot is then emptied before it is needed again. *)
NoSeqConflict == master = Master => ~conflict

(* A request that some copy has and another has not is kept by every copy that has it. *)
PartialIsKept ==
  master = Master =>
    \A n, m \in copies : \A s \in applied[n] \ applied[m] : slot[n][Idx(s)] = s

=============================================================================
