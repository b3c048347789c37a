----------------------------- MODULE Negotiation -----------------------------
(* The eviction negotiation of one flow (wcache_tier, wcache.cpp              *)
(* EvictNegotiate and MasterEvictNegotiate).  A client writes every slice to  *)
(* the master and to the replica of a partition, in either order.  Neither    *)
(* may evict a slice from memory before the other has it: the replica asks    *)
(* the master for the next slices it has, the master releases those it has,   *)
(* and the replica releases what the master's answer allows.  Requests may be *)
(* answered late or the call may fail on the way back, and are then repeated. *)
EXTENDS Integers, Sequences, FiniteSets, TLAPS

CONSTANTS N,         \* slices put
          ArraySize, \* ARRAY_SIZE_IN_NEGOTIATE_MAP
          Limit,     \* MAX_EVICT_CONSULT_SIZE
          Invalid,   \* INVALID_REF_NUM, the largest value of the counter's type
          Losses     \* bound on the calls that fail after they were sent

\* What the code's constants satisfy.
NegotiationConstants ==
    /\ N \in Nat \ {0} /\ ArraySize \in Nat \ {0} /\ Limit \in Nat \ {0}
    /\ Limit < ArraySize /\ Invalid \in Nat /\ Invalid > 1 /\ Losses \in Nat

VARIABLES arrays,  \* per side, the arrays mNegotiateIndexMap has
          refNum,  \* per side, their counters
          waiting, \* mEvictNegotiateMap
          queue,   \* what was moved on to the eviction queue
          cur,     \* mCurNegotiateIndex of the replica
          call,    \* the replica's negotiation task and its request
          requests, replies, \* under way to the master and back
          busy,    \* mIsMasterStartEvictNegotiate and the request that holds it
          put,     \* how far the put of each slice is on each side
          losses
vars == <<arrays, refNum, waiting, queue, cur, call, requests, replies, busy, put, losses>>

Slices == 0 .. N - 1
Sides == {"master", "replica"}

\* A request asks for count slices from first on; a reply allows those before
\* allowed.
Requests == [id : 0 .. Losses, first : 0 .. N, count : 0 .. Limit]
NoRequest == [id |-> 0, first |-> 0, count |-> 0]
End(r) == r.first + r.count

Init ==
    /\ arrays = [s \in Sides |-> {}]
    /\ refNum = [s \in Sides |-> [i \in Slices |-> Invalid]]
    /\ waiting = [s \in Sides |-> {}] /\ queue = [s \in Sides |-> {}]
    /\ cur = 0 /\ requests = {} /\ replies = {}
    /\ call = [pc |-> "idle", request |-> NoRequest, next |-> 0, allowed |-> 0]
    /\ busy = [on |-> FALSE, request |-> NoRequest, next |-> 0]
    /\ put = [s \in Sides |-> [i \in Slices |-> "no"]] /\ losses = 0

\* AddEvictNegotiateMap, then AddEvictNegotiateIndexMap with one other copy.
AddMap(s, i) ==
    /\ put[s][i] = "no"
    /\ put' = [put EXCEPT ![s][i] = "map"]
    /\ waiting' = [waiting EXCEPT ![s] = @ \cup {i}]
    /\ UNCHANGED <<arrays, refNum, queue, cur, call, requests, replies, busy, losses>>

AddIndex(s, i) ==
    LET a == i \div ArraySize
        fresh == a \notin arrays[s]
    IN
    /\ put[s][i] = "map"
    /\ put' = [put EXCEPT ![s][i] = "done"]
    /\ arrays' = [arrays EXCEPT ![s] = @ \cup {a}]
    /\ refNum' = [refNum EXCEPT ![s] = [j \in Slices |-> IF j = i THEN 1
                                          ELSE IF fresh /\ j \div ArraySize = a THEN Invalid ELSE @[j]]]
    /\ UNCHANGED <<waiting, queue, cur, call, requests, replies, busy, losses>>

-----------------------------------------------------------------------------
(* UpdateNegotiateState, on either side.                                     *)

\* A counter is found while its array is there and it is not the mark.
Known(s, i) == i \in Slices /\ i \div ArraySize \in arrays[s] /\ refNum[s][i] # Invalid

\* EvictNegotiateMapToQueue: the slice that moves on when the counter is 0.
Moved(s, i) == IF refNum[s][i] = 1 THEN {i} \cap waiting[s] ELSE {}

\* mutant: the array goes with its last but one slice
UpdateEarly(s, i) ==
    /\ refNum' = [refNum EXCEPT ![s][i] = (@ + Invalid) % (Invalid + 1)]
    /\ queue' = [queue EXCEPT ![s] = @ \cup Moved(s, i)]
    /\ waiting' = [waiting EXCEPT ![s] = @ \ Moved(s, i)]
    /\ arrays' = [arrays EXCEPT ![s] = IF (i + 1) % ArraySize = ArraySize - 1 THEN @ \ {i \div ArraySize} ELSE @]

\* The counter is an unsigned byte; the last slice of an array removes it.
UpdateNegotiateState(s, i) ==
    /\ refNum' = [refNum EXCEPT ![s][i] = (@ + Invalid) % (Invalid + 1)]
    /\ queue' = [queue EXCEPT ![s] = @ \cup Moved(s, i)]
    /\ waiting' = [waiting EXCEPT ![s] = @ \ Moved(s, i)]
    /\ arrays' = [arrays EXCEPT ![s] = IF i % ArraySize = ArraySize - 1 THEN @ \ {i \div ArraySize} ELSE @]

-----------------------------------------------------------------------------
(* The replica: StartEvictNegotiateTask and EvictNegotiate.                   *)

\* GetNegotiateSlice goes from the cursor on while the counters are set.  Past
\* the end of the cursor's array it looks at that same array again.
Counter(i) ==
    LET j == (cur \div ArraySize) * ArraySize + (i % ArraySize)
    IN  IF cur \div ArraySize \in arrays["replica"] /\ j \in Slices THEN refNum["replica"][j] ELSE Invalid
GetNegotiateSlice == {n \in 1 .. Limit : \A k \in 0 .. n - 1 : Counter(cur + k) \notin {0, Invalid}}

Ask ==
    /\ call.pc = "idle" /\ waiting["replica"] # {} /\ GetNegotiateSlice # {}
    /\ \E n \in GetNegotiateSlice :
         /\ \A m \in GetNegotiateSlice : m <= n
         /\ LET r == [id |-> losses, first |-> cur, count |-> n]
            IN  /\ call' = [call EXCEPT !.pc = "asking", !.request = r]
                /\ requests' = requests \cup {r}
    /\ UNCHANGED <<arrays, refNum, waiting, queue, cur, replies, busy, put, losses>>

\* The call fails; its request, or the answer, may still arrive.
CallFailed ==
    /\ call.pc = "asking" /\ losses < Losses
    /\ losses' = losses + 1
    /\ call' = [call EXCEPT !.pc = "idle", !.request = NoRequest]
    /\ UNCHANGED <<arrays, refNum, waiting, queue, cur, requests, replies, busy, put>>

\* The answer to a call that failed meanwhile is dropped.
CallReturned(a) ==
    /\ a \in replies /\ replies' = replies \ {a}
    /\ \/ /\ call.pc = "asking" /\ call.request = a.request
          /\ call' = [call EXCEPT !.pc = "release", !.next = a.request.first, !.allowed = a.allowed]
       \/ ~(call.pc = "asking" /\ call.request = a.request) /\ UNCHANGED call
    /\ UNCHANGED <<arrays, refNum, waiting, queue, cur, requests, busy, put, losses>>

\* UpdateNegotiateState for what was allowed; it also moves the cursor.
ReleaseNext ==
    LET i == call.next IN
    /\ call.pc = "release" /\ i < call.allowed
    /\ call' = [call EXCEPT !.next = i + 1]
    /\ \/ /\ Known("replica", i) /\ UpdateNegotiateState("replica", i)
          /\ cur' = IF refNum["replica"][i] # 1 THEN cur ELSE (IF cur < i THEN cur ELSE i) + 1
       \/ ~Known("replica", i) /\ UNCHANGED <<arrays, refNum, waiting, queue, cur>>
    /\ UNCHANGED <<requests, replies, busy, put, losses>>

ReleaseDone ==
    /\ call.pc = "release" /\ call.next = call.allowed
    /\ call' = [pc |-> "idle", request |-> NoRequest, next |-> 0, allowed |-> 0]
    /\ UNCHANGED <<arrays, refNum, waiting, queue, cur, requests, replies, busy, put, losses>>

-----------------------------------------------------------------------------
(* The master: MasterEvictNegotiate.                                         *)

\* One request is handled at a time.  compare_exchange_weak may also fail when
\* the flag is free: any request may be answered with nothing allowed.
Accept(r) ==
    /\ r \in requests /\ ~busy.on
    /\ requests' = requests \ {r}
    /\ busy' = [on |-> TRUE, request |-> r, next |-> r.first]
    /\ UNCHANGED <<arrays, refNum, waiting, queue, cur, call, replies, put, losses>>

Refuse(r) ==
    /\ r \in requests /\ requests' = requests \ {r}
    /\ replies' = replies \cup {[request |-> r, allowed |-> r.first]}
    /\ UNCHANGED <<arrays, refNum, waiting, queue, cur, call, busy, put, losses>>

AllowNext ==
    /\ busy.on /\ busy.next < End(busy.request) /\ Known("master", busy.next)
    /\ UpdateNegotiateState("master", busy.next)
    /\ busy' = [busy EXCEPT !.next = @ + 1]
    /\ UNCHANGED <<cur, call, requests, replies, put, losses>>

\* mutant: a slice the master does not know is allowed too
ReplyAll ==
    /\ busy.on
    /\ busy.next = End(busy.request) \/ ~Known("master", busy.next)
    /\ replies' = replies \cup {[request |-> busy.request, allowed |-> End(busy.request)]}
    /\ busy' = [on |-> FALSE, request |-> NoRequest, next |-> 0]
    /\ UNCHANGED <<arrays, refNum, waiting, queue, cur, call, requests, put, losses>>

Reply ==
    /\ busy.on
    /\ busy.next = End(busy.request) \/ ~Known("master", busy.next)
    /\ replies' = replies \cup {[request |-> busy.request, allowed |-> busy.next]}
    /\ busy' = [on |-> FALSE, request |-> NoRequest, next |-> 0]
    /\ UNCHANGED <<arrays, refNum, waiting, queue, cur, call, requests, put, losses>>

-----------------------------------------------------------------------------
Next ==
    \/ \E s \in Sides, i \in Slices : AddMap(s, i) \/ AddIndex(s, i)
    \/ Ask \/ CallFailed \/ ReleaseNext \/ ReleaseDone
    \/ \E a \in replies : CallReturned(a)
    \/ \E r \in requests : Accept(r) \/ Refuse(r)
    \/ AllowNext \/ Reply

Spec == Init /\ [][Next]_vars

\* Puts that began are completed, every request and answer arrives and is
\* handled, EvictNegotiateThread starts the replica's task again and again, and
\* the exchange on the master's flag does not fail spuriously for ever.
Fairness ==
    /\ \A s \in Sides, i \in Slices : WF_vars(AddMap(s, i) \/ AddIndex(s, i))
    /\ WF_vars(Ask) /\ WF_vars(ReleaseNext \/ ReleaseDone)
    /\ WF_vars(\E a \in replies : CallReturned(a)) /\ WF_vars(\E r \in requests : Accept(r) \/ Refuse(r))
    /\ SF_vars(\E r \in requests : Accept(r))
    /\ WF_vars(AllowNext \/ Reply)
FairSpec == Spec /\ Fairness

-----------------------------------------------------------------------------
(* Properties.                                                               *)

\* Every variable keeps the type its field has in the code.
TypeOK ==
    /\ arrays \in [Sides -> SUBSET Nat]
    /\ refNum \in [Sides -> [Slices -> 0 .. Invalid]]
    /\ waiting \in [Sides -> SUBSET Slices] /\ queue \in [Sides -> SUBSET Slices]
    /\ cur \in 0 .. N
    /\ call \in [pc : {"idle", "asking", "release"}, request : Requests, next : 0 .. N + Limit, allowed : 0 .. N + Limit]
    /\ requests \subseteq Requests /\ replies \subseteq [request : Requests, allowed : 0 .. N + Limit]
    /\ busy \in [on : BOOLEAN, request : Requests, next : 0 .. N + Limit]
    /\ put \in [Sides -> [Slices -> {"no", "map", "done"}]] /\ losses \in 0 .. Losses

\* The replica releases a slice for eviction only after MasterEvictNegotiate
\* has released it on the master, also when calls fail and are repeated.
ReplicaAfterMaster == queue["replica"] \subseteq queue["master"]

\* Neither side releases a slice from UpdateNegotiateState before the put of the
\* slice has reached both: the memory of one node never gives up the only copy.
BothHave == \A s \in Sides : \A i \in queue[s] : \A t \in Sides : put[t][i] # "no"

\* On each side a slice that was put waits or was released, never both, and the
\* replica's cursor stands exactly behind what it released.
WaitsOrReleased ==
    /\ \A s \in Sides : /\ waiting[s] \cap queue[s] = {}
                        /\ waiting[s] \cup queue[s] = {i \in Slices : put[s][i] # "no"}
    /\ queue["replica"] = 0 .. cur - 1

\* The next slice is one the master released and has forgotten: it answers every
\* request with BIO_NOT_EXISTS.  That takes a failed call for a batch that ended
\* with the last slice of an array, which the master removed, or two failed
\* calls for one slice, whose counter is then at the mark.
Stranded ==
    /\ cur \in queue["master"] /\ ~Known("master", cur)
    /\ losses > 1 \/ (losses = 1 /\ cur \div ArraySize \notin arrays["master"])

\* The negotiation comes to an end: UpdateNegotiateState releases every slice on
\* both sides, so that neither memory fills up with slices nobody may evict,
\* unless failed calls stranded a slice.  One failed call for a batch that does
\* not end an array is always made good.
Completed == (\A s \in Sides : queue[s] = Slices) \/ Stranded
NegotiationCompletes == <>[]Completed

-----------------------------------------------------------------------------
(* Safety, for any number of slices, any sizes and any number of failed calls. *)

\* A counter is unused, counted down or set; only a slice that was put and has
\* not been released has one that is set.
Counters ==
    \A s \in Sides : \A i \in Slices :
        /\ refNum[s][i] \in {0, 1, Invalid}
        /\ refNum[s][i] = 1 => put[s][i] = "done" /\ i \notin queue[s]
        /\ refNum[s][i] = 0 => i \in queue[s]

\* What was released was put, and what the master released the replica has.
Released ==
    /\ \A s \in Sides : \A i \in queue[s] : put[s][i] = "done"
    /\ \A i \in queue["master"] : put["replica"][i] = "done"

\* A request names slices the replica has.
Sound(r) == End(r) <= N /\ \A i \in r.first .. End(r) - 1 : put["replica"][i] = "done"

\* The replica can still release slice i of its current request, which lies in
\* one array.
Ready(i) ==
    /\ i \in Slices /\ refNum["replica"][i] = 1
    /\ i \div ArraySize \in arrays["replica"]
    /\ i \div ArraySize = call.request.first \div ArraySize

\* What is under way between the two sides.
Requested == \A r \in requests : Sound(r)
Handled ==
    busy.on => /\ Sound(busy.request)
               /\ busy.request.first <= busy.next /\ busy.next <= End(busy.request)
               /\ \A i \in busy.request.first .. busy.next - 1 : i \in queue["master"]
Answered ==
    \A a \in replies : /\ a.allowed <= End(a.request)
                       /\ a.request.first <= a.allowed
                       /\ \A i \in a.request.first .. a.allowed - 1 : i \in queue["master"]

\* The replica's cursor does not move while it asks, and moves with what it
\* releases: here the code relies on a request lying in one array.
Asking ==
    call.pc = "asking" => /\ call.request.first = cur /\ End(call.request) <= N
                          /\ \A i \in cur .. End(call.request) - 1 : Ready(i)
Releasing ==
    call.pc = "release" => /\ call.next = cur /\ cur <= call.allowed /\ call.allowed <= N
                           /\ \A i \in cur .. call.allowed - 1 : Ready(i) /\ i \in queue["master"]

NegotiationInv ==
    /\ TypeOK /\ WaitsOrReleased /\ ReplicaAfterMaster
    /\ Counters /\ Released
    /\ Requested /\ Handled /\ Answered /\ Asking /\ Releasing

-----------------------------------------------------------------------------
(* Arithmetic.                                                               *)

\* The unsigned counter goes from 1 to 0 and from 0 to the mark.
LEMMA Countdown ==
    ASSUME NegotiationConstants
    PROVE  (1 + Invalid) % (Invalid + 1) = 0 /\ (0 + Invalid) % (Invalid + 1) = Invalid
<1> DEFINE b == Invalid + 1
           p == (1 + Invalid) \div b
           q == (0 + Invalid) \div b
<1>1. Invalid \in Int /\ Invalid > 1 /\ b \in Nat \ {0}
    BY DEF NegotiationConstants
<1>2. p \in Int /\ p * b <= 1 + Invalid /\ 1 + Invalid < p * b + b /\ (1 + Invalid) % b = 1 + Invalid - p * b
    BY <1>1
<1>3. q \in Int /\ q * b <= Invalid /\ Invalid < q * b + b /\ (0 + Invalid) % b = Invalid - q * b
    BY <1>1
<1>4. p = 1
  <2>1. p < 1 => p * b <= 0
    BY <1>1, <1>2
  <2>2. p > 1 => p * b >= 2 * b
    BY <1>1, <1>2
  <2> QED
    BY <1>1, <1>2, <2>1, <2>2
<1>5. q = 0
  <2>1. q < 0 => q * b + b <= 0
    BY <1>1, <1>3
  <2>2. q > 0 => q * b >= b
    BY <1>1, <1>3
  <2> QED
    BY <1>1, <1>3, <2>1, <2>2
<1> QED
    BY <1>1, <1>2, <1>3, <1>4, <1>5

\* Where GetNegotiateSlice looks for the k-th slice after the cursor: at that
\* slice when it is in the cursor's array, else at one before the cursor.
LEMMA SameArray ==
    ASSUME NegotiationConstants, NEW c \in Nat, NEW k \in Nat, k < ArraySize
    PROVE  LET j == (c \div ArraySize) * ArraySize + ((c + k) % ArraySize)
           IN  j \in Nat /\ (j < c \/ (j = c + k /\ (c + k) \div ArraySize = c \div ArraySize))
<1> DEFINE A == ArraySize
           q == c \div A
           p == (c + k) \div A
<1>1. A \in Nat \ {0} /\ c \in Int /\ c + k \in Int
    BY DEF NegotiationConstants
<1>2. q \in Int /\ q * A <= c /\ c < q * A + A
    BY <1>1
<1>3. p \in Int /\ p * A <= c + k /\ c + k < p * A + A /\ (c + k) % A = c + k - p * A
    BY <1>1
<1>4. q * A \in Int /\ p * A \in Int /\ (p < q => p * A + A <= q * A) /\ (q < p => q * A + A <= p * A)
    BY <1>1, <1>2, <1>3
<1>5. q * A >= 0
  <2>1. q < 0 => q * A + A <= 0
    BY <1>1, <1>2
  <2>2. q >= 0 => q * A >= 0
    BY <1>1, <1>2
  <2> QED
    BY <1>1, <1>2, <2>1, <2>2
<1>6. p >= q
    BY <1>1, <1>2, <1>3, <1>4
<1>7. CASE p = q
    BY <1>1, <1>2, <1>3, <1>4, <1>5, <1>7
<1>8. CASE p > q
    BY <1>1, <1>2, <1>3, <1>4, <1>5, <1>8
<1> QED
    BY <1>2, <1>3, <1>6, <1>7, <1>8

\* The slice after the last one of an array is in the next array.
LEMMA LastOfArray ==
    ASSUME NegotiationConstants, NEW i \in Nat, i % ArraySize = ArraySize - 1
    PROVE  (i + 1) \div ArraySize # i \div ArraySize
<1> DEFINE A == ArraySize
           q == i \div A
           p == (i + 1) \div A
<1>1. A \in Nat \ {0} /\ i \in Int /\ i + 1 \in Int
    BY DEF NegotiationConstants
<1>2. q \in Int /\ q * A <= i /\ i < q * A + A /\ i % A = i - q * A
    BY <1>1
<1>3. p \in Int /\ p * A <= i + 1 /\ i + 1 < p * A + A
    BY <1>1
<1> QED
    BY <1>1, <1>2, <1>3

-----------------------------------------------------------------------------
\* Nothing has been put yet.
LEMMA NegotiationInit ==
    ASSUME NegotiationConstants, Init
    PROVE  NegotiationInv
<1> USE DEF Init, NegotiationConstants
<1>1. NoRequest \in Requests
    BY DEF NoRequest, Requests
<1>2. TypeOK
  <2>1. Invalid \in 0 .. Invalid /\ 0 \in 0 .. N /\ 0 \in 0 .. N + Limit /\ 0 \in 0 .. Losses
    OBVIOUS
  <2>2. call \in [pc : {"idle", "asking", "release"}, request : Requests, next : 0 .. N + Limit, allowed : 0 .. N + Limit]
    BY <1>1, <2>1
  <2>3. busy \in [on : BOOLEAN, request : Requests, next : 0 .. N + Limit]
    BY <1>1, <2>1
  <2>4. arrays \in [Sides -> SUBSET Nat] /\ waiting \in [Sides -> SUBSET Slices] /\ queue \in [Sides -> SUBSET Slices]
    OBVIOUS
  <2>5. refNum \in [Sides -> [Slices -> 0 .. Invalid]] /\ put \in [Sides -> [Slices -> {"no", "map", "done"}]]
    BY <2>1
  <2> QED
    BY <2>1, <2>2, <2>3, <2>4, <2>5 DEF TypeOK
<1>3. WaitsOrReleased /\ ReplicaAfterMaster
    BY DEF WaitsOrReleased, ReplicaAfterMaster, Sides
<1>4. Counters /\ Released
    BY DEF Counters, Released, Sides
<1>5. Requested /\ Handled /\ Answered /\ Asking /\ Releasing
    BY DEF Requested, Handled, Answered, Asking, Releasing
<1> QED
    BY <1>2, <1>3, <1>4, <1>5 DEF NegotiationInv

\* What UpdateNegotiateState does to a slice it finds: the slice is released,
\* if it was not, and no other counter changes.
LEMMA UpdateBooks ==
    ASSUME NegotiationConstants, NegotiationInv, NEW s \in Sides, NEW i \in Slices,
           Known(s, i), UpdateNegotiateState(s, i), put' = put
    PROVE  /\ arrays' \in [Sides -> SUBSET Nat] /\ refNum' \in [Sides -> [Slices -> 0 .. Invalid]]
           /\ waiting' \in [Sides -> SUBSET Slices] /\ queue' \in [Sides -> SUBSET Slices]
           /\ queue'[s] = queue[s] \cup {i}
           /\ \A t \in Sides : t # s => queue'[t] = queue[t] /\ refNum'[t] = refNum[t] /\ arrays'[t] = arrays[t]
           /\ \A j \in Slices : j # i => refNum'[s][j] = refNum[s][j]
           /\ arrays'[s] = IF i % ArraySize = ArraySize - 1 THEN arrays[s] \ {i \div ArraySize} ELSE arrays[s]
           /\ \A t \in Sides : /\ waiting'[t] \cap queue'[t] = {}
                               /\ waiting'[t] \cup queue'[t] = {j \in Slices : put[t][j] # "no"}
           /\ Counters' /\ put[s][i] = "done"
<1> USE DEF NegotiationInv
<1>1. /\ refNum \in [Sides -> [Slices -> 0 .. Invalid]] /\ arrays \in [Sides -> SUBSET Nat]
      /\ waiting \in [Sides -> SUBSET Slices] /\ queue \in [Sides -> SUBSET Slices]
      /\ put \in [Sides -> [Slices -> {"no", "map", "done"}]]
    BY DEF TypeOK
<1>2. Invalid \in Nat /\ Invalid > 1
    BY DEF NegotiationConstants
<1>3. refNum[s][i] \in {0, 1}
    BY DEF Known, Counters
<1>4. (refNum[s][i] + Invalid) % (Invalid + 1) = IF refNum[s][i] = 1 THEN 0 ELSE Invalid
    BY <1>3, Countdown
<1> DEFINE v == IF refNum[s][i] = 1 THEN 0 ELSE Invalid
<1>5. refNum' = [refNum EXCEPT ![s] = [refNum[s] EXCEPT ![i] = v]]
    BY <1>1, <1>4, ZenonT(30) DEF UpdateNegotiateState
<1>6. v \in 0 .. Invalid
    BY <1>2
<1>7. /\ refNum'[s][i] = v /\ \A j \in Slices : j # i => refNum'[s][j] = refNum[s][j]
      /\ \A t \in Sides : t # s => refNum'[t] = refNum[t]
    BY <1>1, <1>5
<1>8. refNum' \in [Sides -> [Slices -> 0 .. Invalid]]
    BY <1>1, <1>5, <1>6
<1>9. refNum[s][i] = 1 => put[s][i] = "done" /\ i \notin queue[s]
    BY DEF Counters
<1>10. refNum[s][i] = 0 => i \in queue[s] /\ put[s][i] = "done"
    BY DEF Counters, Released
<1>11. \A t \in Sides : /\ waiting[t] \cap queue[t] = {}
                        /\ waiting[t] \cup queue[t] = {j \in Slices : put[t][j] # "no"}
    BY DEF WaitsOrReleased
<1>12. refNum[s][i] = 1 => i \in waiting[s]
    BY <1>9, <1>11
<1>13. /\ queue' = [queue EXCEPT ![s] = queue[s] \cup {i}]
       /\ waiting' = [waiting EXCEPT ![s] = IF refNum[s][i] = 1 THEN waiting[s] \ {i} ELSE waiting[s]]
  <2>1. CASE refNum[s][i] = 1
    BY <1>1, <1>12, <2>1, ZenonT(30) DEF UpdateNegotiateState, Moved
  <2>2. CASE refNum[s][i] = 0
    <3>1. Moved(s, i) = {}
      BY <2>2 DEF Moved
    <3>2. queue[s] \cup {i} = queue[s]
      BY <1>10, <2>2
    <3>3. refNum[s][i] # 1 /\ queue[s] \cup {} = queue[s] /\ waiting[s] \ {} = waiting[s]
      BY <2>2
    <3> QED
      BY <3>1, <3>2, <3>3, ZenonT(30) DEF UpdateNegotiateState
  <2> QED
    BY <1>3, <2>1, <2>2
<1>14. arrays' = [arrays EXCEPT ![s] = IF i % ArraySize = ArraySize - 1 THEN arrays[s] \ {i \div ArraySize} ELSE arrays[s]]
    BY DEF UpdateNegotiateState
<1>15. \A t \in Sides : /\ waiting'[t] \cap queue'[t] = {}
                        /\ waiting'[t] \cup queue'[t] = {j \in Slices : put[t][j] # "no"}
  <2> SUFFICES ASSUME NEW t \in Sides
               PROVE  /\ waiting'[t] \cap queue'[t] = {}
                      /\ waiting'[t] \cup queue'[t] = {j \in Slices : put[t][j] # "no"}
    OBVIOUS
  <2>1. CASE t # s
    BY <1>1, <1>11, <1>13, <2>1
  <2>2. CASE t = s /\ refNum[s][i] = 1
    BY <1>1, <1>11, <1>12, <1>13, <2>2
  <2>3. CASE t = s /\ refNum[s][i] = 0
    BY <1>1, <1>10, <1>11, <1>13, <2>3
  <2> QED
    BY <1>3, <2>1, <2>2, <2>3
<1>16. Counters'
  <2> SUFFICES ASSUME NEW t \in Sides, NEW j \in Slices
               PROVE  /\ refNum'[t][j] \in {0, 1, Invalid}
                      /\ refNum'[t][j] = 1 => put[t][j] = "done" /\ j \notin queue'[t]
                      /\ refNum'[t][j] = 0 => j \in queue'[t]
    BY DEF Counters
  <2>1. /\ refNum[t][j] \in {0, 1, Invalid}
        /\ refNum[t][j] = 1 => put[t][j] = "done" /\ j \notin queue[t]
        /\ refNum[t][j] = 0 => j \in queue[t]
    BY DEF Counters
  <2>2. CASE t = s /\ j = i
    BY <1>1, <1>2, <1>7, <1>13, <2>2
  <2>3. CASE t # s \/ j # i
    <3>1. refNum'[t][j] = refNum[t][j] /\ (j \in queue'[t] <=> j \in queue[t])
      BY <1>1, <1>7, <1>13, <2>3
    <3> QED
      BY <2>1, <3>1
  <2> QED
    BY <2>2, <2>3
<1> QED
    BY <1>1, <1>3, <1>7, <1>8, <1>9, <1>10, <1>13, <1>14, <1>15, <1>16

-----------------------------------------------------------------------------
\* The steps of a put: the slice waits, then its counter is set, in an array
\* that is made when it is not there.  A counter that is set stays.
LEMMA PutStep ==
    ASSUME NegotiationConstants, NegotiationInv, NEW s \in Sides, NEW i \in Slices,
           AddMap(s, i) \/ AddIndex(s, i)
    PROVE  NegotiationInv'
<1> USE DEF NegotiationInv
<1>1. /\ refNum \in [Sides -> [Slices -> 0 .. Invalid]] /\ arrays \in [Sides -> SUBSET Nat]
      /\ waiting \in [Sides -> SUBSET Slices] /\ queue \in [Sides -> SUBSET Slices]
      /\ put \in [Sides -> [Slices -> {"no", "map", "done"}]]
    BY DEF TypeOK
<1>2. Invalid \in Nat /\ Invalid > 1 /\ ArraySize \in Nat \ {0} /\ N \in Nat
    BY DEF NegotiationConstants
<1>3. /\ cur' = cur /\ call' = call /\ requests' = requests /\ replies' = replies /\ busy' = busy
      /\ losses' = losses /\ queue' = queue
    BY DEF AddMap, AddIndex
<1>4. i \notin queue[s] /\ put[s][i] # "done"
    BY DEF AddMap, AddIndex, Released
<1>5. /\ put' \in [Sides -> [Slices -> {"no", "map", "done"}]] /\ put'[s][i] \in {"map", "done"}
      /\ \A t \in Sides : \A j \in Slices : (t # s \/ j # i) => put'[t][j] = put[t][j]
  <2>1. PICK v \in {"map", "done"} : put' = [put EXCEPT ![s] = [put[s] EXCEPT ![i] = v]]
    BY DEF AddMap, AddIndex
  <2>2. [put[s] EXCEPT ![i] = v] \in [Slices -> {"no", "map", "done"}]
    BY <1>1
  <2> QED
    BY <1>1, <2>1, <2>2
<1>6. \A t \in Sides : \A j \in Slices : put[t][j] = "done" => put'[t][j] = "done"
    BY <1>4, <1>5
<1>7. i \in Nat /\ i \div ArraySize \in Nat
  <2>1. i \in Int /\ i >= 0
    BY <1>2 DEF Slices
  <2>2. /\ i \div ArraySize \in Int /\ (i \div ArraySize) * ArraySize <= i
        /\ i < (i \div ArraySize) * ArraySize + ArraySize
    BY <1>2, <2>1
  <2>3. i \div ArraySize < 0 => (i \div ArraySize) * ArraySize + ArraySize <= 0
    BY <1>2, <2>2
  <2> QED
    BY <1>2, <2>1, <2>2, <2>3
<1>8. /\ waiting' \in [Sides -> SUBSET Slices]
      /\ \A t \in Sides : t # s => waiting'[t] = waiting[t]
      /\ waiting'[s] = waiting[s] \cup {i}
  <2>1. CASE AddMap(s, i)
    BY <1>1, <2>1 DEF AddMap
  <2>2. CASE AddIndex(s, i)
    <3>1. waiting' = waiting /\ put[s][i] = "map"
      BY <2>2 DEF AddIndex
    <3>2. i \in waiting[s]
      BY <1>4, <3>1 DEF WaitsOrReleased
    <3> QED
      BY <1>1, <3>1, <3>2
  <2> QED
    BY <2>1, <2>2
<1>9. /\ arrays' \in [Sides -> SUBSET Nat] /\ refNum' \in [Sides -> [Slices -> 0 .. Invalid]]
      /\ \A t \in Sides : arrays[t] \subseteq arrays'[t]
      /\ \A t \in Sides : \A j \in Slices :
            /\ refNum[t][j] = 1 /\ j \div ArraySize \in arrays[t] => refNum'[t][j] = 1
            /\ refNum'[t][j] # refNum[t][j] => refNum'[t][j] = Invalid \/ (t = s /\ j = i /\ refNum'[t][j] = 1)
      /\ refNum'[s][i] = 1 => refNum[s][i] = 1 \/ put'[s][i] = "done"
  <2>1. CASE AddMap(s, i)
    BY <1>1, <2>1 DEF AddMap
  <2>2. CASE AddIndex(s, i)
    <3> DEFINE a == i \div ArraySize
               R == [j \in Slices |-> IF j = i THEN 1
                        ELSE IF a \notin arrays[s] /\ j \div ArraySize = a THEN Invalid ELSE refNum[s][j]]
    <3>1. arrays' = [arrays EXCEPT ![s] = arrays[s] \cup {a}] /\ refNum' = [refNum EXCEPT ![s] = R]
      BY <2>2 DEF AddIndex
    <3>2. R \in [Slices -> 0 .. Invalid]
      <4>1. 1 \in 0 .. Invalid /\ Invalid \in 0 .. Invalid /\ refNum[s] \in [Slices -> 0 .. Invalid]
        BY <1>1, <1>2
      <4> QED
        BY <4>1
    <3>3. put'[s][i] = "done"
      BY <1>1, <2>2 DEF AddIndex
    <3>4. arrays' \in [Sides -> SUBSET Nat] /\ \A t \in Sides : arrays[t] \subseteq arrays'[t]
      BY <1>1, <1>7, <3>1
    <3>5. refNum' \in [Sides -> [Slices -> 0 .. Invalid]]
      BY <1>1, <3>1, <3>2
    <3>6. ASSUME NEW t \in Sides, NEW j \in Slices
          PROVE  /\ refNum[t][j] = 1 /\ j \div ArraySize \in arrays[t] => refNum'[t][j] = 1
                 /\ refNum'[t][j] # refNum[t][j] => refNum'[t][j] = Invalid \/ (t = s /\ j = i /\ refNum'[t][j] = 1)
      <4>1. CASE t # s
        BY <1>1, <3>1, <4>1
      <4>2. CASE t = s
        <5>1. refNum'[t][j] = R[j]
          BY <1>1, <3>1, <4>2
        <5> QED
          BY <4>2, <5>1
      <4> QED
        BY <4>1, <4>2
    <3> HIDE DEF a, R
    <3> QED
      BY <3>3, <3>4, <3>5, <3>6
  <2> QED
    BY <2>1, <2>2
<1>10. TypeOK'
    BY <1>3, <1>5, <1>8, <1>9 DEF TypeOK
<1>11. WaitsOrReleased'
  <2>1. ASSUME NEW t \in Sides
        PROVE  /\ waiting'[t] \cap queue'[t] = {}
               /\ waiting'[t] \cup queue'[t] = {j \in Slices : put'[t][j] # "no"}
    <3>1. /\ waiting[t] \cap queue[t] = {}
          /\ waiting[t] \cup queue[t] = {j \in Slices : put[t][j] # "no"}
      BY DEF WaitsOrReleased
    <3>2. CASE t # s
      <4>1. \A j \in Slices : put'[t][j] = put[t][j]
        BY <1>5, <3>2
      <4>2. {j \in Slices : put'[t][j] # "no"} = {j \in Slices : put[t][j] # "no"}
        BY <4>1
      <4> QED
        BY <1>3, <1>8, <3>1, <3>2, <4>2
    <3>3. CASE t = s
      BY <1>3, <1>4, <1>5, <1>8, <3>1, <3>3
    <3> QED
      BY <3>2, <3>3
  <2> QED
    BY <1>3, <2>1 DEF WaitsOrReleased
<1>12. Counters'
  <2> SUFFICES ASSUME NEW t \in Sides, NEW j \in Slices
               PROVE  /\ refNum'[t][j] \in {0, 1, Invalid}
                      /\ refNum'[t][j] = 1 => put'[t][j] = "done" /\ j \notin queue'[t]
                      /\ refNum'[t][j] = 0 => j \in queue'[t]
    BY DEF Counters
  <2>1. /\ refNum[t][j] \in {0, 1, Invalid}
        /\ refNum[t][j] = 1 => put[t][j] = "done" /\ j \notin queue[t]
        /\ refNum[t][j] = 0 => j \in queue[t]
    BY DEF Counters
  <2>2. CASE refNum'[t][j] = refNum[t][j]
    BY <1>3, <1>6, <2>1, <2>2
  <2>3. CASE refNum'[t][j] = Invalid /\ refNum'[t][j] # refNum[t][j]
    BY <1>2, <2>3
  <2>4. CASE t = s /\ j = i /\ refNum'[t][j] = 1 /\ refNum'[t][j] # refNum[t][j]
    BY <1>3, <1>4, <1>9, <2>4
  <2> QED
    BY <1>9, <2>2, <2>3, <2>4
<1>13. Released' /\ ReplicaAfterMaster'
  <2>1. "master" \in Sides /\ "replica" \in Sides
    BY DEF Sides
  <2> QED
    BY <1>1, <1>3, <1>6, <2>1 DEF Released, ReplicaAfterMaster
<1>14. \A r \in Requests : Sound(r) => Sound(r)'
  <2>1. ASSUME NEW r \in Requests, Sound(r), NEW j \in r.first .. End(r) - 1 PROVE put'["replica"][j] = "done"
    <3>1. j \in Slices
      BY <1>2, <2>1 DEF Sound, Requests, End, Slices
    <3> QED
      BY <1>6, <2>1, <3>1 DEF Sound, Sides
  <2> QED
    BY <2>1 DEF Sound, End
<1>15. Requested' /\ Handled'
    BY <1>3, <1>14 DEF Requested, Handled, TypeOK, End
<1>16. \A j \in Nat : Ready(j) => Ready(j)'
    BY <1>3, <1>9 DEF Ready, Sides
<1>17. Answered' /\ Asking' /\ Releasing'
  <2>1. cur \in Nat
    BY <1>2 DEF TypeOK
  <2>2. \A j \in cur .. End(call.request) - 1 : j \in Nat
    BY <2>1 DEF End
  <2>3. \A j \in cur .. call.allowed - 1 : j \in Nat
    BY <2>1
  <2> QED
    BY <1>3, <1>16, <2>2, <2>3 DEF Answered, Asking, Releasing, End
<1> QED
    BY <1>10, <1>11, <1>12, <1>13, <1>15, <1>17

-----------------------------------------------------------------------------
\* Messages do not touch the books of either side.
LEMMA BooksKept ==
    ASSUME NegotiationInv, UNCHANGED <<arrays, refNum, waiting, queue, cur, put>>
    PROVE  /\ WaitsOrReleased' /\ ReplicaAfterMaster' /\ Counters' /\ Released'
           /\ \A r : Sound(r) => Sound(r)'
<1> USE DEF NegotiationInv
<1>1. WaitsOrReleased' /\ ReplicaAfterMaster'
    BY ZenonT(30) DEF WaitsOrReleased, ReplicaAfterMaster
<1>2. Counters' /\ Released'
    BY DEF Counters, Released
<1>3. ASSUME NEW r, Sound(r) PROVE Sound(r)'
    BY <1>3 DEF Sound, End
<1> QED
    BY <1>1, <1>2, <1>3

\* The replica asks for slices it has, all in the array of its cursor.
LEMMA AskStep ==
    ASSUME NegotiationConstants, NegotiationInv, Ask
    PROVE  NegotiationInv'
<1> USE DEF NegotiationInv
<1>1. /\ refNum \in [Sides -> [Slices -> 0 .. Invalid]] /\ cur \in 0 .. N /\ losses \in 0 .. Losses
      /\ call \in [pc : {"idle", "asking", "release"}, request : Requests, next : 0 .. N + Limit, allowed : 0 .. N + Limit]
    BY DEF TypeOK
<1>2. Invalid \in Nat /\ ArraySize \in Nat \ {0} /\ N \in Nat /\ Limit \in Nat /\ Limit < ArraySize /\ Losses \in Nat
    BY DEF NegotiationConstants
<1>3. PICK n \in GetNegotiateSlice :
        LET r == [id |-> losses, first |-> cur, count |-> n]
        IN  call' = [call EXCEPT !.pc = "asking", !.request = r] /\ requests' = requests \cup {r}
    BY ZenonT(30) DEF Ask
<1> DEFINE r == [id |-> losses, first |-> cur, count |-> n]
<1>4. n \in 1 .. Limit /\ \A k \in 0 .. n - 1 : Counter(cur + k) \notin {0, Invalid}
    BY DEF GetNegotiateSlice
<1>5. UNCHANGED <<arrays, refNum, waiting, queue, cur, replies, busy, put, losses>>
    BY DEF Ask
<1>6. ASSUME NEW k \in 0 .. n - 1
      PROVE  /\ cur + k \in Slices /\ refNum["replica"][cur + k] = 1
             /\ (cur + k) \div ArraySize = cur \div ArraySize
             /\ cur \div ArraySize \in arrays["replica"]
             /\ put["replica"][cur + k] = "done"
  <2> DEFINE j == (cur \div ArraySize) * ArraySize + ((cur + k) % ArraySize)
  <2>1. cur \in Nat /\ k \in Nat /\ k < ArraySize
    BY <1>1, <1>2, <1>4
  <2>2. j \in Nat /\ (j < cur \/ (j = cur + k /\ (cur + k) \div ArraySize = cur \div ArraySize))
    BY <2>1, SameArray, SMTT(30)
  <2>3. Counter(cur + k) = IF cur \div ArraySize \in arrays["replica"] /\ j \in Slices THEN refNum["replica"][j] ELSE Invalid
    BY DEF Counter
  <2> HIDE DEF j
  <2>4. cur \div ArraySize \in arrays["replica"] /\ j \in Slices /\ refNum["replica"][j] \notin {0, Invalid}
    BY <1>4, <2>3
  <2>5. refNum["replica"][j] = 1 /\ put["replica"][j] = "done" /\ j \notin queue["replica"]
    BY <2>4 DEF Counters, Sides
  <2>6. queue["replica"] = 0 .. cur - 1
    BY DEF WaitsOrReleased
  <2>7. ~(j < cur)
    BY <2>1, <2>2, <2>5, <2>6
  <2> QED
    BY <2>2, <2>4, <2>5, <2>7
<1>7. \A i \in cur .. cur + n - 1 : i - cur \in 0 .. n - 1 /\ cur + (i - cur) = i
    BY <1>1, <1>4
<1>8. \A i \in cur .. cur + n - 1 :
        /\ i \in Slices /\ refNum["replica"][i] = 1 /\ i \div ArraySize = cur \div ArraySize
        /\ cur \div ArraySize \in arrays["replica"] /\ put["replica"][i] = "done"
  <2> TAKE i \in cur .. cur + n - 1
  <2>1. PICK k \in 0 .. n - 1 : i = cur + k
    BY <1>7
  <2> QED
    BY <1>6, <2>1
<1>9. cur + n <= N
  <2>1. n - 1 \in 0 .. n - 1
    BY <1>4
  <2>2. cur + (n - 1) \in Slices
    BY <1>6, <2>1
  <2> QED
    BY <1>1, <1>2, <1>4, <2>2 DEF Slices
<1>10. r \in Requests /\ r.first = cur /\ End(r) = cur + n
    BY <1>1, <1>2, <1>4 DEF Requests, End
<1>11. requests' = requests \cup {r}
    BY <1>3
<1>12. call'.pc = "asking" /\ call'.request = r /\ call'.next = call.next /\ call'.allowed = call.allowed
    BY <1>1, <1>3
<1>13. call' \in [pc : {"idle", "asking", "release"}, request : Requests, next : 0 .. N + Limit, allowed : 0 .. N + Limit]
    BY <1>1, <1>3, <1>10, ZenonT(30)
<1> HIDE DEF r
<1>14. Sound(r)
  <2>1. \A i \in cur .. cur + n - 1 : put["replica"][i] = "done"
    BY <1>8
  <2>2. \A i \in r.first .. End(r) - 1 : put["replica"][i] = "done"
    BY <1>1, <1>2, <1>4, <1>10, <2>1
  <2> QED
    BY <1>9, <1>10, <2>2 DEF Sound
<1>15. TypeOK'
    BY <1>5, <1>10, <1>11, <1>13 DEF TypeOK
<1>16. WaitsOrReleased' /\ ReplicaAfterMaster' /\ Counters' /\ Released' /\ \A q : Sound(q) => Sound(q)'
    BY <1>5, BooksKept
<1>17. Requested' /\ Handled' /\ Answered'
    BY <1>5, <1>11, <1>14, <1>16 DEF Requested, Handled, Answered, End
<1>18. Asking' /\ Releasing'
  <2>1. call'.request.first = cur /\ End(call.request)' = cur + n
    BY <1>10, <1>12 DEF End
  <2>2. \A i \in cur .. cur + n - 1 : Ready(i)'
    BY <1>5, <1>8, <2>1 DEF Ready
  <2>3. Releasing'
    BY <1>12 DEF Releasing
  <2>4. cur' = cur
    BY <1>5
  <2>5. \A i \in cur' .. End(call.request)' - 1 : Ready(i)'
    BY <1>1, <1>2, <1>4, <2>1, <2>2, <2>4
  <2>6. call'.request.first = cur' /\ End(call.request)' <= N
    BY <1>9, <2>1, <2>4
  <2>7. Asking'
    BY <2>5, <2>6 DEF Asking
  <2> QED
    BY <2>3, <2>7
<1> QED
    BY <1>15, <1>16, <1>17, <1>18

\* The call fails, returns or has been dealt with.
LEMMA CallStep ==
    ASSUME NegotiationConstants, NegotiationInv,
           CallFailed \/ ReleaseDone \/ (\E a \in replies : CallReturned(a))
    PROVE  NegotiationInv'
<1> USE DEF NegotiationInv
<1> DEFINE Calls == [pc : {"idle", "asking", "release"}, request : Requests, next : 0 .. N + Limit, allowed : 0 .. N + Limit]
<1>1. call \in Calls /\ replies \subseteq [request : Requests, allowed : 0 .. N + Limit] /\ losses \in 0 .. Losses
    BY DEF TypeOK
<1>2. N \in Nat /\ Limit \in Nat /\ Losses \in Nat /\ NoRequest \in Requests
    BY DEF NegotiationConstants, NoRequest, Requests
<1>3. UNCHANGED <<arrays, refNum, waiting, queue, cur, requests, busy, put>> /\ replies' \subseteq replies
    BY ZenonT(30) DEF CallFailed, ReleaseDone, CallReturned
<1>4. WaitsOrReleased' /\ ReplicaAfterMaster' /\ Counters' /\ Released' /\ \A q : Sound(q) => Sound(q)'
    BY <1>3, BooksKept
<1>5. losses' \in 0 .. Losses
  <2>1. losses' = losses \/ (losses' = losses + 1 /\ losses < Losses)
    BY ZenonT(30) DEF CallFailed, ReleaseDone, CallReturned
  <2> QED
    BY <1>1, <1>2, <2>1
<1>6. Requested' /\ Handled' /\ Answered'
    BY <1>3, <1>4 DEF Requested, Handled, Answered, End
<1>7. call' \in Calls /\ Asking' /\ Releasing'
  <2>1. CASE CallFailed \/ ReleaseDone
    <3>1. call'.pc = "idle" /\ call' \in Calls
      <4>1. CASE CallFailed
        BY <1>1, <1>2, <4>1, ZenonT(30) DEF CallFailed
      <4>2. CASE ReleaseDone
        <5>1. 0 \in 0 .. N + Limit
          BY <1>2
        <5> QED
          BY <1>2, <4>2, <5>1 DEF ReleaseDone
      <4> QED
        BY <2>1, <4>1, <4>2
    <3> QED
      BY <3>1 DEF Asking, Releasing
  <2>2. ASSUME NEW a \in replies, CallReturned(a) PROVE call' \in Calls /\ Asking' /\ Releasing'
    <3>1. CASE call.pc = "asking" /\ call.request = a.request
      <4>1. call' = [call EXCEPT !.pc = "release", !.next = a.request.first, !.allowed = a.allowed]
        BY <2>2, <3>1, ZenonT(30) DEF CallReturned
      <4>2. a.request \in Requests /\ a.allowed \in 0 .. N + Limit /\ a.request.first \in 0 .. N + Limit
        BY <1>1, <1>2 DEF Requests
      <4>3. call' \in Calls /\ call'.pc = "release" /\ call'.next = a.request.first /\ call'.allowed = a.allowed /\ call'.request = call.request
        BY <1>1, <4>1, <4>2, ZenonT(30)
      <4>4. /\ a.request.first = cur /\ End(a.request) <= N
            /\ \A i \in cur .. End(a.request) - 1 : Ready(i)
        BY <3>1 DEF Asking
      <4>5. /\ a.allowed <= End(a.request) /\ cur <= a.allowed
            /\ \A i \in cur .. a.allowed - 1 : i \in queue["master"]
        BY <4>4 DEF Answered
      <4>6. End(a.request) \in Nat /\ cur \in Nat
        BY <1>2, <4>2 DEF End, Requests, TypeOK
      <4>7. \A i \in cur .. a.allowed - 1 : i \in cur .. End(a.request) - 1
        BY <1>2, <4>2, <4>5, <4>6
      <4>8. \A i \in cur .. a.allowed - 1 : Ready(i)'
        BY <1>3, <4>3, <4>4, <4>7 DEF Ready
      <4>9. a.allowed <= N
        BY <1>2, <4>2, <4>4, <4>5, <4>6
      <4> QED
        BY <1>3, <4>3, <4>4, <4>5, <4>8, <4>9 DEF Asking, Releasing
    <3>2. CASE ~(call.pc = "asking" /\ call.request = a.request)
      <4>1. call' = call
        BY <2>2, <3>2, ZenonT(30) DEF CallReturned
      <4> QED
        BY <1>1, <1>3, <4>1 DEF Asking, Releasing, Ready, End
    <3> QED
      BY <3>1, <3>2
  <2> QED
    BY <2>1, <2>2
<1>8. TypeOK'
    BY <1>3, <1>5, <1>7 DEF TypeOK
<1> QED
    BY <1>4, <1>6, <1>7, <1>8

\* The replica releases the slice at its cursor, which the master has released.
LEMMA ReleaseStep ==
    ASSUME NegotiationConstants, NegotiationInv, ReleaseNext
    PROVE  NegotiationInv'
<1> USE DEF NegotiationInv
<1> DEFINE Calls == [pc : {"idle", "asking", "release"}, request : Requests, next : 0 .. N + Limit, allowed : 0 .. N + Limit]
<1>1. call \in Calls /\ cur \in 0 .. N /\ call.allowed \in Nat /\ call.request.first \in Nat
    BY DEF TypeOK, Requests, NegotiationConstants
<1>2. N \in Nat /\ Limit \in Nat /\ Invalid > 1 /\ Invalid \in Nat
    BY DEF NegotiationConstants
<1>3. call.pc = "release" /\ call.next = cur /\ cur < call.allowed /\ call.allowed <= N
    BY DEF ReleaseNext, Releasing
<1>4. cur \in cur .. call.allowed - 1 /\ cur \in Nat /\ cur + 1 \in Nat
    BY <1>1, <1>2, <1>3
<1>5. Ready(cur) /\ cur \in queue["master"]
    BY <1>3, <1>4 DEF Releasing
<1>6. Known("replica", cur) /\ refNum["replica"][cur] = 1 /\ cur \in Slices /\ "replica" \in Sides /\ "master" \in Sides
    BY <1>2, <1>5 DEF Ready, Known, Sides
<1>7. UpdateNegotiateState("replica", cur) /\ cur' = cur + 1
    BY <1>1, <1>3, <1>4, <1>6 DEF ReleaseNext
<1>8. call' = [call EXCEPT !.next = cur + 1] /\ UNCHANGED <<requests, replies, busy, put, losses>>
    BY <1>3 DEF ReleaseNext
<1>9. /\ call' \in Calls /\ call'.pc = "release" /\ call'.next = cur' /\ call'.allowed = call.allowed
      /\ call'.request = call.request
  <2>1. cur + 1 \in 0 .. N + Limit
    BY <1>1, <1>2, <1>3
  <2> QED
    BY <1>1, <1>3, <1>7, <1>8, <2>1
<1>10. put' = put
    BY <1>8
<1>11. /\ arrays' \in [Sides -> SUBSET Nat] /\ refNum' \in [Sides -> [Slices -> 0 .. Invalid]]
       /\ waiting' \in [Sides -> SUBSET Slices] /\ queue' \in [Sides -> SUBSET Slices]
       /\ queue'["replica"] = queue["replica"] \cup {cur} /\ queue'["master"] = queue["master"]
       /\ \A j \in Slices : j # cur => refNum'["replica"][j] = refNum["replica"][j]
       /\ arrays'["replica"] = IF cur % ArraySize = ArraySize - 1 THEN arrays["replica"] \ {cur \div ArraySize} ELSE arrays["replica"]
       /\ Counters' /\ put["replica"][cur] = "done"
  <2>1. PICK c \in Slices : c = cur
    BY <1>6
  <2>2. Known("replica", c) /\ UpdateNegotiateState("replica", c)
    BY <1>6, <1>7, <2>1
  <2>3. \A t \in Sides : t # "replica" => queue'[t] = queue[t]
    <3> HIDE DEF NegotiationInv
    <3>1. "replica" \in Sides
      BY <1>6
    <3> QED
      BY <1>10, <2>2, <3>1, UpdateBooks, ZenonT(30)
  <2>4. queue'["master"] = queue["master"]
    BY <1>6, <2>3
  <2> QED
    BY <1>6, <1>10, <2>1, <2>2, <2>4, UpdateBooks, ZenonT(30)
<1>12. \A t \in Sides : /\ waiting'[t] \cap queue'[t] = {}
                        /\ waiting'[t] \cup queue'[t] = {j \in Slices : put[t][j] # "no"}
    BY <1>6, <1>7, <1>10, UpdateBooks, ZenonT(30)
<1>13. TypeOK'
  <2>1. cur' \in 0 .. N
    BY <1>1, <1>2, <1>3, <1>7
  <2> QED
    BY <1>8, <1>9, <1>11, <2>1 DEF TypeOK
<1>14. WaitsOrReleased'
  <2>1. queue'["replica"] = 0 .. cur' - 1
    <3>1. queue["replica"] = 0 .. cur - 1
      BY DEF WaitsOrReleased
    <3>2. (0 .. cur - 1) \cup {cur} = 0 .. (cur + 1) - 1
      BY <1>4
    <3> QED
      BY <1>7, <1>11, <3>1, <3>2
  <2> QED
    BY <1>10, <1>12, <2>1 DEF WaitsOrReleased
<1>15. ReplicaAfterMaster' /\ Released'
    BY <1>5, <1>10, <1>11 DEF ReplicaAfterMaster, Released, Sides
<1>16. Requested' /\ Handled' /\ Answered'
  <2>1. \A r : Sound(r) => Sound(r)'
    BY <1>10 DEF Sound, End
  <2> QED
    BY <1>8, <1>11, <2>1 DEF Requested, Handled, Answered, End
<1>17. Asking' /\ Releasing'
  <2>1. ASSUME NEW j \in cur + 1 .. call.allowed - 1 PROVE Ready(j)' /\ j \in queue'["master"]
    <3>1. j \in cur .. call.allowed - 1 /\ j # cur /\ cur + 1 \in cur .. call.allowed - 1
      BY <1>1, <1>2, <1>3
    <3>2. Ready(j) /\ Ready(cur + 1) /\ j \in queue["master"]
      BY <1>3, <3>1 DEF Releasing
    <3>3. (cur + 1) \div ArraySize = cur \div ArraySize
      BY <1>5, <3>2 DEF Ready
    <3>4. cur % ArraySize # ArraySize - 1
      BY <1>4, <3>3, LastOfArray
    <3> QED
      BY <1>9, <1>11, <3>1, <3>2, <3>4 DEF Ready
  <2>2. cur' <= call'.allowed /\ call'.allowed <= N
    BY <1>1, <1>2, <1>3, <1>7, <1>9
  <2> QED
    BY <1>7, <1>9, <2>1, <2>2 DEF Asking, Releasing
<1> QED
    BY <1>11, <1>13, <1>14, <1>15, <1>16, <1>17

\* The master takes a request, refuses it or answers it.
LEMMA AnswerStep ==
    ASSUME NegotiationConstants, NegotiationInv,
           Reply \/ (\E r \in requests : Accept(r) \/ Refuse(r))
    PROVE  NegotiationInv'
<1> USE DEF NegotiationInv
<1> DEFINE Busy == [on : BOOLEAN, request : Requests, next : 0 .. N + Limit]
           Answers == [request : Requests, allowed : 0 .. N + Limit]
<1>1. busy \in Busy /\ requests \subseteq Requests /\ replies \subseteq Answers
    BY DEF TypeOK
<1>2. N \in Nat /\ Limit \in Nat /\ Losses \in Nat /\ NoRequest \in Requests /\ 0 \in 0 .. N + Limit
    BY DEF NegotiationConstants, NoRequest, Requests
<1>3. UNCHANGED <<arrays, refNum, waiting, queue, cur, call, put, losses>> /\ requests' \subseteq requests
    BY DEF Reply, Accept, Refuse
<1>4. WaitsOrReleased' /\ ReplicaAfterMaster' /\ Counters' /\ Released' /\ \A q : Sound(q) => Sound(q)'
    BY <1>3, BooksKept
<1>5. Requested' /\ Asking' /\ Releasing'
    BY <1>3, <1>4, ZenonT(30) DEF Requested, Asking, Releasing, Ready, End
<1>6. busy' \in Busy /\ replies' \subseteq Answers /\ Handled' /\ Answered'
  <2>1. CASE Reply
    <3> DEFINE a == [request |-> busy.request, allowed |-> busy.next]
    <3>1. busy.on /\ replies' = replies \cup {a} /\ busy' = [on |-> FALSE, request |-> NoRequest, next |-> 0]
      BY <2>1 DEF Reply
    <3>2. a \in Answers /\ a.request = busy.request /\ a.allowed = busy.next
      BY <1>1
    <3>3. /\ busy.request.first <= busy.next /\ busy.next <= End(busy.request)
          /\ \A i \in busy.request.first .. busy.next - 1 : i \in queue["master"]
      BY <3>1 DEF Handled
    <3> HIDE DEF a
    <3>4. busy' \in Busy /\ ~busy'.on
      BY <1>2, <3>1
    <3>5. queue' = queue
      BY <1>3
    <3> QED
      BY <1>1, <3>1, <3>2, <3>3, <3>4, <3>5 DEF Handled, Answered, End
  <2>2. ASSUME NEW r \in requests, Accept(r) PROVE busy' \in Busy /\ replies' \subseteq Answers /\ Handled' /\ Answered'
    <3>1. busy' = [on |-> TRUE, request |-> r, next |-> r.first] /\ replies' = replies /\ queue' = queue
      BY <2>2 DEF Accept
    <3>2. r \in Requests /\ r.first \in 0 .. N + Limit /\ r.first \in Nat /\ r.count \in Nat
      BY <1>1, <1>2 DEF Requests
    <3>3. busy' \in Busy /\ busy'.on /\ busy'.request = r /\ busy'.next = r.first
      BY <3>1, <3>2
    <3>4. Sound(r)'
      BY <1>4 DEF Requested
    <3>5. r.first <= End(r) /\ \A i \in r.first .. r.first - 1 : i \in queue'["master"]
      BY <3>2 DEF End
    <3>6. Handled'
      BY <3>3, <3>4, <3>5 DEF Handled, End
    <3>7. Answered'
      BY <3>1 DEF Answered, End
    <3> QED
      BY <1>1, <3>1, <3>3, <3>6, <3>7
  <2>3. ASSUME NEW r \in requests, Refuse(r) PROVE busy' \in Busy /\ replies' \subseteq Answers /\ Handled' /\ Answered'
    <3> DEFINE a == [request |-> r, allowed |-> r.first]
    <3>1. replies' = replies \cup {a} /\ busy' = busy /\ queue' = queue
      BY <2>3 DEF Refuse
    <3>2. r \in Requests /\ r.first \in 0 .. N + Limit /\ r.first \in Nat /\ r.count \in Nat
      BY <1>1, <1>2 DEF Requests
    <3>3. a \in Answers /\ a.request = r /\ a.allowed = r.first
      BY <3>2
    <3>4. r.first <= End(r) /\ \A i \in r.first .. r.first - 1 : i \in queue'["master"]
      BY <3>2 DEF End
    <3> HIDE DEF a
    <3>5. Answered'
      BY <3>1, <3>2, <3>3, <3>4 DEF Answered, End
    <3>6. Handled'
      BY <1>4, <3>1 DEF Handled, End
    <3> QED
      BY <1>1, <3>1, <3>3, <3>5, <3>6
  <2> QED
    BY <2>1, <2>2, <2>3
<1>7. TypeOK'
    BY <1>1, <1>3, <1>6 DEF TypeOK
<1> QED
    BY <1>4, <1>5, <1>6, <1>7

\* The master releases the next slice of a request, which the replica has.
LEMMA AllowStep ==
    ASSUME NegotiationConstants, NegotiationInv, AllowNext
    PROVE  NegotiationInv'
<1> USE DEF NegotiationInv
<1> DEFINE Busy == [on : BOOLEAN, request : Requests, next : 0 .. N + Limit]
           i == busy.next
<1>1. busy \in Busy /\ i \in Nat /\ busy.request.first \in Nat /\ busy.request.count \in Nat
    BY DEF TypeOK, Requests, NegotiationConstants
<1>2. N \in Nat /\ Limit \in Nat
    BY DEF NegotiationConstants
<1>3. /\ busy.on /\ i < End(busy.request) /\ Known("master", i) /\ UpdateNegotiateState("master", i)
      /\ busy' = [busy EXCEPT !.next = i + 1] /\ UNCHANGED <<cur, call, requests, replies, put, losses>>
    BY DEF AllowNext
<1>4. i \in Slices /\ "master" \in Sides /\ "replica" \in Sides /\ "replica" # "master"
    BY <1>3 DEF Known, Sides
<1>5. put' = put
    BY <1>3
<1>6. /\ arrays' \in [Sides -> SUBSET Nat] /\ refNum' \in [Sides -> [Slices -> 0 .. Invalid]]
      /\ waiting' \in [Sides -> SUBSET Slices] /\ queue' \in [Sides -> SUBSET Slices]
      /\ queue'["master"] = queue["master"] \cup {i} /\ Counters' /\ put["master"][i] = "done"
    BY <1>3, <1>4, <1>5, UpdateBooks, ZenonT(30)
<1>7. /\ queue'["replica"] = queue["replica"] /\ refNum'["replica"] = refNum["replica"]
      /\ arrays'["replica"] = arrays["replica"]
  <2>1. \A t \in Sides : t # "master" => queue'[t] = queue[t] /\ refNum'[t] = refNum[t] /\ arrays'[t] = arrays[t]
    BY <1>3, <1>4, <1>5, UpdateBooks, ZenonT(30)
  <2> QED
    BY <1>4, <2>1
<1>8. \A t \in Sides : /\ waiting'[t] \cap queue'[t] = {}
                       /\ waiting'[t] \cup queue'[t] = {j \in Slices : put[t][j] # "no"}
    BY <1>3, <1>4, <1>5, UpdateBooks, ZenonT(30)
<1>9. /\ Sound(busy.request) /\ busy.request.first <= i
      /\ \A j \in busy.request.first .. i - 1 : j \in queue["master"]
    BY <1>3 DEF Handled
<1>10. put["replica"][i] = "done" /\ i + 1 <= N
  <2>1. i \in busy.request.first .. End(busy.request) - 1 /\ End(busy.request) \in Nat
    BY <1>1, <1>3, <1>9 DEF End
  <2> QED
    BY <1>1, <1>2, <1>9, <2>1 DEF Sound
<1>11. busy' \in Busy /\ busy'.next = i + 1 /\ busy'.request = busy.request
  <2>1. i + 1 \in 0 .. N + Limit
    BY <1>1, <1>2, <1>10
  <2> QED
    BY <1>1, <1>3, <2>1
<1>12. TypeOK'
    BY <1>3, <1>6, <1>11 DEF TypeOK
<1>13. WaitsOrReleased'
    BY <1>3, <1>7, <1>8 DEF WaitsOrReleased
<1>14. ReplicaAfterMaster' /\ Released'
    BY <1>5, <1>6, <1>7, <1>10 DEF ReplicaAfterMaster, Released, Sides
<1>15. \A r : Sound(r) => Sound(r)'
    BY <1>5 DEF Sound, End
<1>16. Requested' /\ Answered'
    BY <1>3, <1>6, <1>15 DEF Requested, Answered, End
<1>17. Handled'
  <2>1. i + 1 <= End(busy.request) /\ busy.request.first <= i + 1
    BY <1>1, <1>3, <1>9 DEF End
  <2>2. \A j \in busy.request.first .. (i + 1) - 1 : j \in queue'["master"]
    <3> TAKE j \in busy.request.first .. (i + 1) - 1
    <3>1. j = i \/ j \in busy.request.first .. i - 1
      BY <1>1
    <3> QED
      BY <1>6, <1>9, <3>1
  <2> HIDE DEF i
  <2> QED
    BY <1>9, <1>11, <1>15, <2>1, <2>2 DEF Handled, End
<1>18. Asking' /\ Releasing'
    BY <1>3, <1>6, <1>7 DEF Asking, Releasing, Ready, End
<1> QED
    BY <1>6, <1>12, <1>13, <1>14, <1>16, <1>17, <1>18

LEMMA NegotiationStep ==
    ASSUME NegotiationConstants, NegotiationInv, [Next]_vars
    PROVE  NegotiationInv'
<1>1. CASE UNCHANGED vars
    BY <1>1 DEF vars, NegotiationInv, TypeOK, WaitsOrReleased, ReplicaAfterMaster, Counters, Released,
                Requested, Handled, Answered, Asking, Releasing, Sound, Ready, End
<1>2. CASE Next
    BY <1>2, PutStep, AskStep, CallStep, ReleaseStep, AnswerStep, AllowStep DEF Next
<1> QED
    BY <1>1, <1>2

\* Neither node gives up the only copy of a slice: what the replica releases the
\* master has released, what either releases was put on both, and a slice waits
\* or was released.  For any number of slices, array and batch sizes, counter
\* types and failed calls (EvictNegotiate, MasterEvictNegotiate).
THEOREM NegotiationSafe ==
    ASSUME NegotiationConstants
    PROVE  Spec => [](ReplicaAfterMaster /\ BothHave /\ WaitsOrReleased)
<1>1. Init => NegotiationInv
    BY NegotiationInit
<1>2. NegotiationInv /\ [Next]_vars => NegotiationInv'
    BY NegotiationStep
<1>3. NegotiationInv => ReplicaAfterMaster /\ BothHave /\ WaitsOrReleased
    BY DEF NegotiationInv, ReplicaAfterMaster, BothHave, Released, Sides
<1> QED
    BY <1>1, <1>2, <1>3, PTL DEF Spec
=============================================================================
