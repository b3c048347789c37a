---------------------------- MODULE NetBlockPool ----------------------------
(***************************************************************************)
(* The pool of registered memory blocks of a network engine                *)
(* (net/net_block_pool.h): the free blocks lie in buckets, each a list     *)
(* under a spin lock of its own; pushes and pops go round the buckets with *)
(* two shared counters.  Choosing the bucket and working on it are         *)
(* separate steps.                                                         *)
(***************************************************************************)
EXTENDS Integers, Sequences, FiniteSets, SequencesExt

CONSTANTS User, Block, BUCKET_COUNT, MaxCount, MaxCalls

VARIABLES
  mIsStarted,
  mBuckets,    \* per bucket, its list of free blocks
  mPopRRIdx, mPushRRIdx,
  user,        \* per user: what it is doing in the pool
  held,        \* per user, the blocks it was given
  calls        \* calls still to be made

vars == <<mIsStarted, mBuckets, mPopRRIdx, mPushRRIdx, user, held, calls>>

Bucket == 0 .. BUCKET_COUNT - 1
NoWork == [at |-> "idle", want |-> 0, got |-> <<>>, left |-> 0, bucket |-> 0]

(* Start has pushed the blocks one by one. *)
Init ==
  /\ mIsStarted = TRUE
  /\ mPopRRIdx = 0
  /\ mPushRRIdx = Cardinality(Block) % BUCKET_COUNT
  /\ mBuckets = [k \in Bucket |->
       Reverse(SetToSortSeq({b \in Block : (b - 1) % BUCKET_COUNT = k}, <))]
  /\ user = [u \in User |-> NoWork]
  /\ held = [u \in User |-> {}]
  /\ calls = MaxCalls

Goes(u, w) == user' = [user EXCEPT ![u] = w]

-----------------------------------------------------------------------------
(* AllocOne (n = 1) and AllocMany, and the loop of Pop inside PopN: every  *)
(* block is looked for in BUCKET_COUNT buckets in turn.                    *)
AllocMany(u, n) ==
  /\ mIsStarted /\ calls > 0 /\ user[u].at = "idle"
  /\ calls' = calls - 1
  /\ Goes(u, [NoWork EXCEPT !.at = "choose", !.want = n, !.left = BUCKET_COUNT])
  /\ UNCHANGED <<mIsStarted, mBuckets, mPopRRIdx, mPushRRIdx, held>>

PopChoose(u) ==
  /\ user[u].at = "choose"
  /\ Goes(u, [user[u] EXCEPT !.at = "take", !.bucket = mPopRRIdx])
  /\ mPopRRIdx' = (mPopRRIdx + 1) % BUCKET_COUNT
  /\ UNCHANGED <<mIsStarted, mBuckets, mPushRRIdx, held, calls>>

PopTake(u) ==
  /\ user[u].at = "take" /\ mBuckets[user[u].bucket] # <<>>
  /\ LET k == user[u].bucket
         got == Append(user[u].got, Head(mBuckets[k])) IN
     /\ mBuckets' = [mBuckets EXCEPT ![k] = Tail(@)]
     /\ IF Len(got) = user[u].want
          THEN Goes(u, NoWork) /\ held' = [held EXCEPT ![u] = @ \cup ToSet(got)]
          ELSE /\ Goes(u, [user[u] EXCEPT !.at = "choose", !.got = got, !.left = BUCKET_COUNT])
               /\ UNCHANGED held
  /\ UNCHANGED <<mIsStarted, mPopRRIdx, mPushRRIdx, calls>>

(* An empty bucket: the next one, or the call fails and what PopN has      *)
(* taken so far goes back.                                                 *)
PopEmpty(u) ==
  /\ user[u].at = "take" /\ mBuckets[user[u].bucket] = <<>>
  /\ Goes(u, IF user[u].left > 1 THEN [user[u] EXCEPT !.at = "choose", !.left = @ - 1]
             ELSE IF user[u].got = <<>> THEN NoWork ELSE [user[u] EXCEPT !.at = "put"])
  /\ UNCHANGED <<mIsStarted, mBuckets, mPopRRIdx, mPushRRIdx, held, calls>>

-----------------------------------------------------------------------------
(* ReleaseOne and ReleaseMany: one PushFront per block. *)
ReleaseMany(u, blocks) ==
  /\ mIsStarted /\ user[u].at = "idle"
  /\ held' = [held EXCEPT ![u] = @ \ blocks]
  /\ Goes(u, [NoWork EXCEPT !.at = "put", !.got = SetToSortSeq(blocks, <)])
  /\ UNCHANGED <<mIsStarted, mBuckets, mPopRRIdx, mPushRRIdx, calls>>

PushChoose(u) ==
  /\ user[u].at = "put"
  /\ Goes(u, [user[u] EXCEPT !.at = "link", !.bucket = mPushRRIdx])
  /\ mPushRRIdx' = (mPushRRIdx + 1) % BUCKET_COUNT
  /\ UNCHANGED <<mIsStarted, mBuckets, mPopRRIdx, held, calls>>

PushLink(u) ==
  /\ user[u].at = "link"
  /\ LET k == user[u].bucket IN mBuckets' = [mBuckets EXCEPT ![k] = <<Head(user[u].got)>> \o @]
  /\ Goes(u, IF Len(user[u].got) > 1 THEN [user[u] EXCEPT !.at = "put", !.got = Tail(@)] ELSE NoWork)
  /\ UNCHANGED <<mIsStarted, mPopRRIdx, mPushRRIdx, held, calls>>

(* Stop forgets every free block; the blocks out with users are never      *)
(* taken back.                                                             *)
Stop ==
  /\ mIsStarted
  /\ mIsStarted' = FALSE
  /\ mPopRRIdx' = 0 /\ mPushRRIdx' = 0
  /\ mBuckets' = [k \in Bucket |-> <<>>]
  /\ UNCHANGED <<user, held, calls>>

Next ==
  \/ Stop
  \/ \E u \in User :
       \/ \E n \in 1 .. MaxCount : AllocMany(u, n)
       \/ PopChoose(u) \/ PopTake(u) \/ PopEmpty(u) \/ PushChoose(u) \/ PushLink(u)
       \/ \E blocks \in {held[u]} \cup {{b} : b \in held[u]} : blocks # {} /\ ReleaseMany(u, blocks)

Spec == Init /\ [][Next]_vars

-----------------------------------------------------------------------------
InBuckets(b) == {<<k, i>> \in Bucket \X (1 .. Cardinality(Block)) :
                   i \in DOMAIN mBuckets[k] /\ mBuckets[k][i] = b}
WithUsers(b) == {u \in User : b \in held[u]} \cup {u \in User : b \in ToSet(user[u].got)}

(* No block is given out twice, and none is lost while the pool runs: each *)
(* is in one bucket, with one user, or in the hands of a call in progress, *)
(* whatever calls overlap and fail half-way (Pop, PopN and PushFront).     *)
BlocksKept ==
  \A b \in Block :
    LET places == Cardinality(InBuckets(b)) + Cardinality(WithUsers(b)) IN
    IF mIsStarted THEN places = 1 ELSE places <= 1

-----------------------------------------------------------------------------
(* MemStore's copy of the pool: the same steps.                            *)
MmsStart == Init
MmsAllocMany(u) == \E n \in 1 .. MaxCount : AllocMany(u, n)
MmsPop(u) == PopChoose(u) \/ PopTake(u) \/ PopEmpty(u)
MmsReleaseMany(u) ==
  \E blocks \in {held[u]} \cup {{b} : b \in held[u]} : blocks # {} /\ ReleaseMany(u, blocks)
MmsPushFront(u) == PushChoose(u) \/ PushLink(u)
MmsStop == Stop

MmsNext == MmsStop \/ \E u \in User : MmsAllocMany(u) \/ MmsPop(u) \/ MmsReleaseMany(u) \/ MmsPushFront(u)
=============================================================================
