------------------------------ MODULE MmsStore ------------------------------
(* Replication and recovery of MemStore: the key/value server that copies every write to the
   other nodes (server/mms_kv_server.cpp), the recovery of a returning node from its peers
   (server/mms_crb_scheduler.cpp), the node's view of the cluster (cluster/cm.cpp,
   server/mms_server.cpp), and the rules by which the cluster manager moves the copies of a
   partition (server/pt/cm_pt_calc_fixed_state.c), over the cache of a node (cache/mms_cache.cpp).

   Every node holds a copy of every partition and is the home of the partition with its own
   number; a key is written only through the node it belongs to (Home).  A write is sent to
   the running copies (unicast) or published to the subscribers (multicast), applied by each
   of them in a step of its own, and answered when all have.  The sequence numbers of the
   writes, off by default, are in MmsSequence.  truth, exposed and lost are history:
   what an acknowledged client may read, the keys whose writes a recovery may undo on a node
   (Exposes), and whether a copy was made to run when no other did.  Bound: one request for a
   key is in flight at a time.                                                        *)
EXTENDS Integers, Sequences, FiniteSets, FiniteSetsExt, SequencesExt

CONSTANTS
  KeyNum,      \* keys; each is a bucket of its own
  Home,        \* the node that writes a key
  BatchLen,    \* entries a recovery message holds
  Scenarios    \* what may happen: see Init

Key == 1 .. KeyNum

MMS_NET_RETRY == "net_retry"
MMS_INNER_RETRY == "inner_retry"

VARIABLES
  up,          \* the processes that run
  nodeView,    \* cluster manager: the nodes it counts as up
  ptView,      \* cluster manager: version and copy states of every partition
  finish,      \* cluster manager: reported recoveries it has not handled
  mNodes,      \* a node's last node list
  mPtInfos,    \* a node's last partition list
  mServiceable,
  mIsRecovering,   \* CrbScheduler's flag
  cacheRecover,    \* Cache's flag: deletes leave tombstones
  sendQueue,       \* SendCrbRequests: requests still to be sent, with mRecoverLock held
  mRecoverNodes,   \* recovering node: the <<source, partition>> it waits for
  mRecoverTasks,   \* source node: the <<node, partition>> it copies
  threads,         \* source nodes: the background tasks that run
  cache,
  op,              \* the request in flight for a key
  subscribers,     \* multicast: who receives what a node publishes
  truth, exposed, lost,
  left             \* what may still happen

(* The nodes of the scenario; a partition is named after the node it is home to. *)
Node == left.nodes
Pt == Node

vars == <<up, nodeView, ptView, finish, mNodes, mPtInfos, mServiceable, mIsRecovering, cacheRecover,
          sendQueue, mRecoverNodes, mRecoverTasks, threads, cache, op, subscribers, truth,
          exposed, lost, left>>
cmVars == <<nodeView, ptView, finish>>
viewVars == <<mNodes, mPtInfos, mServiceable>>
crbVars == <<mIsRecovering, cacheRecover, sendQueue, mRecoverNodes>>
srcVars == <<mRecoverTasks, threads>>
history == <<truth, exposed, lost>>

-----------------------------------------------------------------------------
(* The cache of a node (cache/mms_cache.cpp), one key at a time.  A bucket of the hash index
   is locked for the whole of an operation, so an operation is one step on the key's entry.
   An entry is the IndexValue: the value bytes in its block (none for a tombstone inserted
   for a missing key), the version of the request that wrote it, the partition it belongs to
   and the isDelete mark.  Each operator returns the entry it leaves and the code it answers;
   `alloc` says whether the index and value allocators have memory.                       *)
MMS_OK == "ok"
MMS_ERR == "err"
MMS_INNER_ERR == "inner_err"
MMS_ALLOC_FAIL == "alloc_fail"
MMS_NOT_EXISTS == "not_exists"
MMS_KEY_NOT_EXISTS == "key_not_exists"
MMS_PUT_REPEAT == "put_repeat"
MMS_CHECK_PT_FAIL == "check_pt_fail"

NoEntry == [data |-> <<>>, version |-> 0, ptId |-> 0, isDelete |-> FALSE, valid |-> FALSE]

Entry(d, version, ptId, isDelete) ==
  [data |-> d, version |-> version, ptId |-> ptId, isDelete |-> isDelete, valid |-> TRUE]

Leave(e, ret) == [entry |-> e, ret |-> ret]

LongerOf(m, n) == IF m >= n THEN m ELSE n

(* UpdateDataInCurrentBlock and ExpandAndUpdateDataBlock write the same bytes; the second
   needs a larger block. *)
Overlay(old, d, offset) ==
  [i \in 1 .. LongerOf(Len(old), offset + Len(d)) |->
     IF i \in (offset + 1) .. (offset + Len(d)) THEN d[i - offset] ELSE old[i]]

(* GetDataFromBlock: what a reader is given; Get does not look at isDelete. *)
GetDataFromBlock(e) == e.data

(* MmsKvServer::Get, on a node that is serviceable. *)
Get(c, k) == GetDataFromBlock(c[k])

(* PutDataIntoBlock, CreatePutIndexValue, InsertPutIndexValue: the entry is built before the
   bucket is locked, so the allocation is tried even when the key turns out to exist. *)
HandlePutExistingNode(e, d) ==
  IF e.data = d THEN Leave(e, MMS_PUT_REPEAT) ELSE Leave(e, MMS_INNER_ERR)

Put(e, d, version, ptId, alloc) ==
  CASE ~alloc            -> Leave(e, MMS_ALLOC_FAIL)
    [] alloc /\ e.valid  -> HandlePutExistingNode(e, d)
    [] alloc /\ ~e.valid -> Leave(Entry(d, version, ptId, FALSE), MMS_OK)

(* UpdateDataBlock: no hole may open between the old data and the new; an entry without a
   block is given one (ReviveDataBlock); a larger value needs a larger block. *)
UpdateDataBlock(e, d, offset, alloc) ==
  LET needsBlock == offset + Len(d) > Len(e.data) IN
  IF offset > Len(e.data) \/ (needsBlock /\ ~alloc)
  THEN Leave(e, MMS_ERR)
  ELSE Leave([e EXCEPT !.data = Overlay(@, d, offset)], MMS_OK)

Update(e, d, offset, version, alloc) ==
  IF ~e.valid THEN Leave(e, MMS_NOT_EXISTS)
  ELSE LET u == UpdateDataBlock(e, d, offset, alloc) IN
       IF u.ret = MMS_OK THEN Leave([u.entry EXCEPT !.version = version], MMS_OK) ELSE u

(* While the node recovers, a delete leaves a tombstone: the entry is marked and keeps its
   block, or an empty one is inserted.  InsertTombEntry does not set ptId: the memory holds
   whatever its last user left, `stalePt`. *)
HandleDeleteExistingNode(e, version, recovering) ==
  IF recovering THEN Leave([e EXCEPT !.isDelete = TRUE, !.version = version], MMS_OK)
  ELSE Leave(NoEntry, MMS_OK)

HandleDeleteMissingNode(version, recovering, stalePt, alloc) ==
  CASE ~recovering          -> Leave(NoEntry, MMS_KEY_NOT_EXISTS)
    [] recovering /\ ~alloc -> Leave(NoEntry, MMS_ALLOC_FAIL)
    [] recovering /\ alloc  -> Leave(Entry(<<>>, version, stalePt, TRUE), MMS_KEY_NOT_EXISTS)

Delete(e, version, recovering, stalePt, alloc) ==
  IF e.valid THEN HandleDeleteExistingNode(e, version, recovering)
  ELSE HandleDeleteMissingNode(version, recovering, stalePt, alloc)

ReplaceExistingNode(e, d, offset, version, alloc) ==
  IF version < e.version THEN Leave(e, MMS_OK)
  ELSE LET u == UpdateDataBlock(e, d, offset, alloc) IN
       IF u.ret = MMS_OK
       THEN Leave([u.entry EXCEPT !.version = version, !.isDelete = FALSE], MMS_OK)
       ELSE u

(* InsertReplaceNode, HandleReplacePut: a missing key takes the bytes at offset 0 whatever
   the offset asked for. *)
Replace(e, d, offset, version, ptId, alloc) ==
  CASE e.valid             -> ReplaceExistingNode(e, d, offset, version, alloc)
    [] ~e.valid /\ ~alloc  -> Leave(e, MMS_ALLOC_FAIL)
    [] ~e.valid /\ alloc   -> Leave(Entry(d, version, ptId, FALSE), MMS_OK)

ClearDeletedData(c) == [k \in DOMAIN c |-> IF c[k].isDelete THEN NoEntry ELSE c[k]]

-----------------------------------------------------------------------------
NoOp == [kind |-> "none"]
NoView == [p \in Pt |-> [version |-> 0, st |-> [n \in Node |-> "DOWN"]]]
Empty == [k \in Key |-> NoEntry]

(* A scenario: the nodes there are, those away (down, as all the others know), the keys stored,
   whether writes are multicast, the requests, and how many requests, broken subscriptions, lost
   messages and empty allocators; and the nodes that crash, in order. *)
(* The nodes serve, but for those away and those just back, which have yet to recover. *)
Init ==
  /\ left \in Scenarios
  /\ up = Node \ left.away /\ nodeView = up /\ finish = {}
  /\ ptView = [p \in Pt |-> [version |-> 1 + Cardinality(left.away) + 2 * Cardinality(left.back),
                            st |-> [n \in Node |-> CASE n \in left.away -> "DOWN"
                                                      [] n \in left.back -> "RECOVERY"
                                                      [] n \in up \ left.back -> "RUNNING"]]]
  /\ mNodes = [n \in Node |-> IF n \in up THEN up ELSE {}]
  /\ mPtInfos = [n \in Node |-> IF n \in up THEN ptView ELSE NoView]
  /\ mServiceable = [n \in Node |-> n \in up \ left.back]
  /\ mIsRecovering = [n \in Node |-> FALSE] /\ cacheRecover = [n \in Node |-> FALSE]
  /\ sendQueue = [n \in Node |-> {}]
  /\ mRecoverNodes = [n \in Node |-> {}] /\ mRecoverTasks = [n \in Node |-> {}] /\ threads = {}
  /\ cache = [n \in Node |-> [k \in Key |-> IF mServiceable[n] /\ k \in left.stored
                                          THEN Entry(<<"a">>, 1, Home[k], FALSE) ELSE NoEntry]]
  /\ op = [k \in Key |-> NoOp]
  /\ subscribers = [n \in Node |-> IF n \in up THEN up \ {n} ELSE {}]
  /\ truth = [k \in Key |-> {IF k \in left.stored THEN <<"a">> ELSE <<>>}]
  /\ exposed = [n \in Node |-> {}] /\ lost = FALSE

Spend(what) == left[what] > 0 /\ left' = [left EXCEPT ![what] = @ - 1]

-----------------------------------------------------------------------------
(* Cluster manager: node states, copy states of the partitions, finished recoveries. *)

RunningOf(e) == {n \in Node : e.st[n] = "RUNNING"}

(* ViewPtUpdateCopyState: a copy that returns recovers from a running one; the first copy of a
   partition without any runs at once, whatever it holds. *)
ViewPtUpdateCopyState(e, n) ==
  [e EXCEPT !.version = @ + 1,
            !.st[n] = IF RunningOf(e) # {} THEN "RECOVERY" ELSE "RUNNING"]

NodeDown(e, n) == IF e.st[n] = "DOWN" THEN e ELSE [e EXCEPT !.version = @ + 1, !.st[n] = "DOWN"]

(* ViewPtEntryListUpdateNodeDown, once the session of a dead node has expired. *)
CmNodeDown(n) ==
  /\ n \in nodeView \ up
  /\ nodeView' = nodeView \ {n}
  /\ ptView' = [p \in Pt |-> NodeDown(ptView[p], n)]
  /\ UNCHANGED <<up, finish, viewVars, crbVars, srcVars, cache, op, subscribers, history, left>>

(* ViewPtEntryListUpdateNodeUp, when a restarted node has registered. *)
CmNodeUp(n) ==
  /\ n \in up \ nodeView
  /\ nodeView' = nodeView \cup {n}
  /\ ptView' = [p \in Pt |-> ViewPtUpdateCopyState(ptView[p], n)]
  /\ lost' = (lost \/ \E p \in Pt : RunningOf(ptView[p]) = {})
  /\ UNCHANGED <<up, finish, viewVars, crbVars, srcVars, cache, op, subscribers, truth, exposed, left>>

(* ViewPtEntryListUpdateNodeFinish: a report for another version of the partition is dropped. *)
Finished(f) ==
  IF ptView[f.pt].version = f.version /\ ptView[f.pt].st[f.node] = "RECOVERY"
  THEN [ptView EXCEPT ![f.pt].st[f.node] = "RUNNING"] ELSE ptView

CmNodeFinish(f) ==
  /\ f \in finish
  /\ finish' = finish \ {f}
  /\ ptView' = Finished(f)
  /\ UNCHANGED <<up, nodeView, viewVars, crbVars, srcVars, cache, op, subscribers, history, left>>

-----------------------------------------------------------------------------
(* Crash and restart of a node; multicast subscriptions. *)

(* What a request makes of a value, for the history. *)
Outcome(o, t) ==
  CASE o.kind = "put"     -> o.data
    [] o.kind = "delete"  -> <<>>
    [] o.kind = "update"  -> IF o.offset > Len(t) \/ t = <<>> THEN t ELSE Overlay(t, o.data, o.offset)
    [] o.kind = "replace" -> IF t = <<>> THEN o.data
                             ELSE IF o.offset > Len(t) THEN t ELSE Overlay(t, o.data, o.offset)

Outcomes(o, T) == {Outcome(o, t) : t \in T}

InFlight == {k \in Key : op[k] # NoOp}

Unknown(o) == [truth EXCEPT ![o.key] = @ \cup Outcomes(o, @)]

(* GetPtInfo: the running copies of the home partition other than the node itself. *)
Remotes(n) == RunningOf(mPtInfos[n][n]) \ {n}

Success == {MMS_OK, MMS_PUT_REPEAT, MMS_KEY_NOT_EXISTS}

(* mutant: the callback keeps the last result *)
MergeLast(o, m, ret) ==
  [o EXCEPT !.to = @ \ {m}, !.result = IF ret \in Success THEN MMS_OK ELSE ret]

(* The callback keeps the first failure. *)
Merge(o, m, ret) ==
  [o EXCEPT !.to = @ \ {m},
            !.result = IF @ = MMS_OK /\ ret \notin Success THEN ret ELSE @]

(* What a call that is not answered gives: unicast MMS_NET_RETRY; multicast MMS_INNER_RETRY, or
   nothing for a copy the local view does not count as running. *)
Unanswered(n, m) == CASE ~left.multicast                       -> MMS_NET_RETRY
                      [] left.multicast /\ m \in Remotes(n)    -> MMS_INNER_RETRY
                      [] left.multicast /\ m \notin Remotes(n) -> MMS_OK

(* A process dies, and the calls it had not answered fail. *)
Crash(n) ==
  /\ n \in up /\ left.crash # <<>> /\ n = Head(left.crash)
  /\ left' = [left EXCEPT !.crash = Tail(@)]
  /\ up' = up \ {n}
  /\ op' = [k \in Key |-> CASE Home[k] = n \/ k \notin InFlight                    -> NoOp
                            [] Home[k] # n /\ k \in InFlight /\ n \in op[k].to    -> Merge(op[k], n, Unanswered(Home[k], n))
                            [] Home[k] # n /\ k \in InFlight /\ n \notin op[k].to -> op[k]]
  /\ truth' = [k \in Key |-> truth[k] \cup (IF Home[k] = n /\ k \in InFlight THEN Outcomes(op[k], truth[k]) ELSE {})]
  /\ exposed' = [exposed EXCEPT ![n] = {}]
  /\ cache' = [cache EXCEPT ![n] = Empty]
  /\ mNodes' = [mNodes EXCEPT ![n] = {}]
  /\ mPtInfos' = [mPtInfos EXCEPT ![n] = NoView]
  /\ mServiceable' = [mServiceable EXCEPT ![n] = FALSE]
  /\ mIsRecovering' = [mIsRecovering EXCEPT ![n] = FALSE]
  /\ cacheRecover' = [cacheRecover EXCEPT ![n] = FALSE]
  /\ sendQueue' = [sendQueue EXCEPT ![n] = {}]
  /\ mRecoverNodes' = [mRecoverNodes EXCEPT ![n] = {}]
  /\ mRecoverTasks' = [mRecoverTasks EXCEPT ![n] = {}]
  /\ threads' = {t \in threads : t.src # n}
  /\ subscribers' = [m \in Node |-> IF m = n THEN {} ELSE subscribers[m] \ {n}]
  /\ UNCHANGED <<cmVars, lost>>

(* A process starts, with an empty cache, and registers when its old session is gone; that the
   cluster manager has seen it go is an assumption.  Bound: none starts when no running copy is
   left, as what was written is then gone. *)
Restart(n) ==
  /\ ~lost /\ (\A p \in Pt : RunningOf(ptView[p]) \cap up # {}) /\ n \in Node \ (up \cup nodeView)
  /\ up' = up \cup {n}
  /\ exposed' = [exposed EXCEPT ![n] = InFlight]
  /\ UNCHANGED <<cmVars, viewVars, crbVars, srcVars, cache, op, subscribers, truth, lost, left>>

(* CreateSubscribers and ReCreateSubscriber: n subscribes to every node its list says is up. *)
CreateSubscriber(n, m) ==
  /\ left.multicast /\ n # m /\ {n, m} \subseteq up /\ m \in mNodes[n] /\ n \notin subscribers[m]
  /\ subscribers' = [subscribers EXCEPT ![m] = @ \cup {n}]
  /\ UNCHANGED <<up, cmVars, viewVars, crbVars, srcVars, cache, op, history, left>>

(* PublisherSubscriberEpBroken: the link of a subscriber breaks. *)
BreakSubscription(n, m) ==
  /\ left.multicast /\ n \in subscribers[m] /\ Spend("break")
  /\ subscribers' = [subscribers EXCEPT ![m] = @ \ {n}]
  /\ UNCHANGED <<up, cmVars, viewVars, crbVars, srcVars, cache, op, history>>

(* Can n call m: over its channel, or as the publisher m subscribes to. *)
Reaches(n, m) == m \in up /\ (left.multicast => m \in subscribers[n])

-----------------------------------------------------------------------------
(* Requests: Put, Update, Delete and Replace of MmsKvServer. *)

(* The nodes a request goes to: HandlePutDefImpl and its like, or HandlePutMultiImpl. *)
Targets(n) == CASE ~left.multicast                       -> Remotes(n)
                [] left.multicast /\ Remotes(n) = {}     -> {}
                [] left.multicast /\ Remotes(n) # {}     -> subscribers[n]

(* A node that does not serve may hold something else in the end: a write that does not reach it
   is missing there when its bucket has been copied; an update or a replacement of a key not yet
   copied leaves its own bytes only, and the copy, of a lower version, is refused; and one of a
   version the key has already may be overlaid by a copy read before it. *)
Exposes(o, n, reached) ==
  \/ n \notin reached
  \/ ~mServiceable[n] /\ (o.kind \in {"update", "replace"} \/ o.version <= cache[Home[o.key]][o.key].version)

Expose(o, reached) ==
  [n \in Node |-> IF n \in up /\ Exposes(o, n, reached) THEN exposed[n] \cup {o.key} ELSE exposed[n]]

(* The API refuses a node that is not serviceable.  A request of another version than the server's
   (MMS_NEED_UPDATE_PT_VERSION), or while the partition changes hands (CM_PT_MST_MIGRATE), is
   turned away before anything is done: it is the request that comes later.  The version is the
   one the request is encoded under, and stays when it is sent again. *)
Request(n, k, in) ==
  LET o == [kind |-> in.kind, key |-> k, data |-> in.data, offset |-> in.offset,
            version |-> mPtInfos[n][n].version, to |-> {n} \cup Targets(n), result |-> MMS_OK] IN
  /\ n \in up /\ n = Home[k] /\ mServiceable[n] /\ op[k] = NoOp
  /\ in \in left.inputs /\ left.ops > 0
  /\ left' = [left EXCEPT !.ops = @ - 1]
  /\ op' = [op EXCEPT ![k] = o]
  /\ exposed' = Expose(o, o.to)
  /\ UNCHANGED <<up, cmVars, viewVars, crbVars, srcVars, cache, subscribers, truth, lost>>

HandlePut(n, k, in) == in.kind = "put" /\ Request(n, k, in)
HandleUpdate(n, k, in) == in.kind = "update" /\ Request(n, k, in)
HandleDelete(n, k, in) == in.kind = "delete" /\ Request(n, k, in)
HandleReplace(n, k, in) == in.kind = "replace" /\ Request(n, k, in)

(* What a copy does: one that is not serviceable replaces instead of putting or updating. *)
ReplaceLocal(m, o, offset, alloc) ==
  Replace(cache[m][o.key], o.data, offset, o.version, Home[o.key], alloc)

PutLocal(m, o, alloc) ==
  IF mServiceable[m] THEN Put(cache[m][o.key], o.data, o.version, Home[o.key], alloc)
  ELSE ReplaceLocal(m, o, 0, alloc)

UpdateLocal(m, o, alloc) ==
  IF mServiceable[m] THEN Update(cache[m][o.key], o.data, o.offset, o.version, alloc)
  ELSE ReplaceLocal(m, o, o.offset, alloc)

DeleteLocal(m, o, alloc, stalePt) ==
  Delete(cache[m][o.key], o.version, cacheRecover[m], stalePt, alloc)

Local(m, o, alloc, stalePt) ==
  CASE o.kind = "put"     -> PutLocal(m, o, alloc)
    [] o.kind = "update"  -> UpdateLocal(m, o, alloc)
    [] o.kind = "delete"  -> DeleteLocal(m, o, alloc, stalePt)
    [] o.kind = "replace" -> ReplaceLocal(m, o, o.offset, alloc)

(* The request reaches a copy, which answers. *)
Apply(k, m) ==
  /\ k \in InFlight /\ m \in op[k].to /\ m \in up
  /\ \E alloc \in BOOLEAN, stalePt \in Pt :
       /\ IF alloc THEN UNCHANGED left ELSE Spend("nomem")
       /\ cache' = [cache EXCEPT ![m][k] = Local(m, op[k], alloc, stalePt).entry]
       /\ op' = [op EXCEPT ![k] = Merge(@, m, Local(m, op[k], alloc, stalePt).ret)]
  /\ UNCHANGED <<up, cmVars, viewVars, crbVars, srcVars, subscribers, history>>

(* The request or its answer is lost, or the copy is down. *)
NoAnswer(k, m) ==
  /\ k \in InFlight /\ m \in op[k].to \ {Home[k]}
  /\ IF m \in up THEN Spend("lose") ELSE UNCHANGED left
  /\ op' = [op EXCEPT ![k] = Merge(@, m, Unanswered(Home[k], m))]
  /\ \E seen \in (IF m \in up THEN BOOLEAN ELSE {FALSE}), stalePt \in Pt :
       cache' = IF seen THEN [cache EXCEPT ![m][k] = Local(m, op[k], TRUE, stalePt).entry] ELSE cache
  /\ UNCHANGED <<up, cmVars, viewVars, crbVars, srcVars, subscribers, history>>

Retryable == {MMS_ALLOC_FAIL, MMS_INNER_RETRY, MMS_NET_RETRY, MMS_CHECK_PT_FAIL}

Done(k) == k \in InFlight /\ op[k].to = {}

(* All have answered: the client is told. *)
Answer(k) ==
  /\ Done(k) /\ op[k].result = MMS_OK
  /\ op' = [op EXCEPT ![k] = NoOp]
  /\ truth' = [truth EXCEPT ![k] = Outcomes(op[k], @)]
  /\ UNCHANGED <<up, cmVars, viewVars, crbVars, srcVars, cache, subscribers, exposed, lost,
                 left>>

(* SendSingleReq: a failure that may pass is sent again, to the copies of then, until mIoTimeOut. *)
Resend(k) ==
  LET to == {Home[k]} \cup Targets(Home[k]) IN
  /\ Done(k) /\ op[k].result \in Retryable
  /\ op' = [op EXCEPT ![k].to = to, ![k].result = MMS_OK]
  /\ exposed' = Expose(op[k], to)
  /\ UNCHANGED <<up, cmVars, viewVars, crbVars, srcVars, cache, subscribers, truth, lost, left>>

GiveUp(k) ==
  /\ Done(k) /\ op[k].result # MMS_OK
  /\ op' = [op EXCEPT ![k] = NoOp]
  /\ truth' = Unknown(op[k])
  /\ UNCHANGED <<up, cmVars, viewVars, crbVars, srcVars, cache, subscribers, exposed, lost,
                 left>>

-----------------------------------------------------------------------------
(* The node's view: NotifyNodeListChange and NotifyPtListChange, two watches. *)

NotifyNodeListChange(n) ==
  /\ n \in up /\ mNodes[n] # nodeView
  /\ mNodes' = [mNodes EXCEPT ![n] = nodeView]
  /\ UNCHANGED <<up, cmVars, mPtInfos, mServiceable, crbVars, srcVars, cache, op, subscribers, history,
                 left>>

(* The end of NotifyPtListChange: a copy of the node that does not run makes it abnormal. *)
Serviceable(n) == \A p \in Pt : ptView[p].st[n] = "RUNNING"

(* HandleRecoverData: a request to copy partition p to node n; the task that exists goes on. *)
NewThread(m, n, p) == [src |-> m, dst |-> n, pt |-> p, next |-> 1, buf |-> <<>>]

StartedBy(n, req) == {NewThread(r[1], n, r[2]) : r \in {q \in req : <<n, q[2]>> \notin mRecoverTasks[q[1]]}}

TasksWith(n, req) == [m \in Node |-> mRecoverTasks[m] \cup {<<n, r[2]>> : r \in {q \in req : q[1] = m}}]

(* CrbBrokenHandle on a recovering node: what it expected of nodes that failed is asked of a
   running one; with none left the node leaves recovery, tombstones and all. *)
Orphaned(n) == {r \in mRecoverNodes[n] : r[1] \notin mNodes[n]}

MigrateTo(n) == {m \in RunningOf(ptView[n]) \ {n} : Reaches(n, m)}

Reassigned(n, f) == {<<f[r], r[2]>> : r \in Orphaned(n)}

(* CrbBrokenHandle on a source: tasks for nodes that failed are dropped. *)
TasksKept(n) == {t \in mRecoverTasks[n] : t[1] \in mNodes[n]}

(* CrbScheduler::NotifyServiceable: the end of recovery clears the tombstones. *)
NotifyServiceable(n, recovering, yes) ==
  /\ mServiceable' = [mServiceable EXCEPT ![n] = yes]
  /\ mIsRecovering' = [mIsRecovering EXCEPT ![n] = recovering /\ ~yes]
  /\ cacheRecover' = [cacheRecover EXCEPT ![n] = recovering /\ ~yes]
  /\ cache' = IF recovering /\ yes THEN [cache EXCEPT ![n] = ClearDeletedData(@)] ELSE cache

(* NotifyPtListChange with HandleCmPtEvent: UpdateLocalCopys waits for SendCrbRequests; then
   CrbBrokenHandle, then NotifyServiceable. *)
NotifyPtListChange(n) ==
  /\ n \in up /\ mNodes[n] # {} /\ sendQueue[n] = {} /\ mPtInfos[n] # ptView
  /\ mPtInfos' = [mPtInfos EXCEPT ![n] = ptView]
  /\ \/ /\ mIsRecovering[n] /\ (Orphaned(n) = {} \/ MigrateTo(n) # {})
        /\ \E f \in [Orphaned(n) -> MigrateTo(n)] :
             /\ mRecoverNodes' = [mRecoverNodes EXCEPT ![n] = (@ \ Orphaned(n)) \cup Reassigned(n, f)]
             /\ mRecoverTasks' = TasksWith(n, Reassigned(n, f))
             /\ threads' = threads \cup StartedBy(n, Reassigned(n, f))
        /\ NotifyServiceable(n, TRUE, Serviceable(n))
     \/ /\ mIsRecovering[n] /\ Orphaned(n) # {} /\ MigrateTo(n) = {}
        /\ mRecoverNodes' = [mRecoverNodes EXCEPT ![n] = @ \ Orphaned(n)]
        /\ UNCHANGED srcVars
        /\ NotifyServiceable(n, FALSE, Serviceable(n))
     \/ /\ ~mIsRecovering[n]
        /\ mRecoverTasks' = [mRecoverTasks EXCEPT ![n] = TasksKept(n)]
        /\ UNCHANGED <<mRecoverNodes, threads>>
        /\ NotifyServiceable(n, FALSE, Serviceable(n))
  /\ UNCHANGED <<up, cmVars, mNodes, sendQueue, op, subscribers, history, left>>

-----------------------------------------------------------------------------
(* Recovery: the returning node asks, the sources copy. *)

(* For the history: nothing is being copied to the node, so what was written before is copied. *)
FirstAttempt(n) == mRecoverNodes[n] = {} /\ \A t \in threads : t.dst # n

(* StartCatchUp and SelectNodeForRecover: the partitions are dealt to the running copies in turn. *)
StartCatchUp(n) ==
  LET src == SetToSeq(RunningOf(mPtInfos[n][n]) \ {n}) IN
  /\ n \in up /\ ~mServiceable[n] /\ ~mIsRecovering[n] /\ src # <<>>
  /\ \E s \in 0 .. Len(src) - 1 :
       LET asked == {<<src[((p + s) % Len(src)) + 1], p>> : p \in Pt} IN
       /\ mRecoverNodes' = [mRecoverNodes EXCEPT ![n] = asked]
       /\ sendQueue' = [sendQueue EXCEPT ![n] = asked]
  /\ mIsRecovering' = [mIsRecovering EXCEPT ![n] = TRUE]
  /\ cacheRecover' = [cacheRecover EXCEPT ![n] = TRUE]
  /\ exposed' = [exposed EXCEPT ![n] = InFlight \cup {k \in @ : cache[n][k].valid \/ ~FirstAttempt(n)}]
  /\ UNCHANGED <<up, cmVars, viewVars, srcVars, cache, op, subscribers, truth, lost, left>>

(* SendCrbRequests: one request, answered by HandleNotifyStartRecover, whether its node serves or
   not: one that has restarted since the view was read copies what it has, which is nothing. *)
SendCrbRequest(n) ==
  \E r \in sendQueue[n] :
    /\ Reaches(n, r[1])
    /\ sendQueue' = [sendQueue EXCEPT ![n] = @ \ {r}]
    /\ mRecoverTasks' = TasksWith(n, {r})
    /\ threads' = threads \cup StartedBy(n, {r})
    /\ exposed' = [exposed EXCEPT ![n] = @ \cup {k \in Key : Home[k] = r[2] /\ ~mServiceable[r[1]]}]
    /\ UNCHANGED <<up, cmVars, viewVars, mIsRecovering, cacheRecover, mRecoverNodes, cache, op,
                   subscribers, truth, lost, left>>

(* A request that fails ends the attempt; the sources already asked go on. *)
SendCrbRequestFails(n) ==
  /\ \E r \in sendQueue[n] : IF Reaches(n, r[1]) THEN Spend("lose") ELSE UNCHANGED left
  /\ sendQueue' = [sendQueue EXCEPT ![n] = {}]
  /\ mIsRecovering' = [mIsRecovering EXCEPT ![n] = FALSE]
  /\ cacheRecover' = [cacheRecover EXCEPT ![n] = FALSE]
  /\ UNCHANGED <<up, cmVars, viewVars, mRecoverNodes, srcVars, cache, op, subscribers, history>>

Alive(t) == <<t.dst, t.pt>> \in mRecoverTasks[t.src]
Entering(t) == cache[t.src][t.next].valid /\ cache[t.src][t.next].ptId = t.pt
Full(t) == Entering(t) /\ Len(t.buf) = BatchLen
Item(t) == [key |-> t.next, data |-> cache[t.src][t.next].data, version |-> cache[t.src][t.next].version]

(* PutLocal of a recovery message. *)
Store(c, serviceable, it, p) ==
  [c EXCEPT ![it.key] = (IF serviceable THEN Put(@, it.data, it.version, p, TRUE)
                         ELSE Replace(@, it.data, 0, it.version, p, TRUE)).entry]

(* The items that find memory are stored, whatever becomes of the others. *)
Received(t, stored) ==
  [cache EXCEPT ![t.dst] = FoldLeft(LAMBDA c, i : IF i \in stored THEN Store(c, mServiceable[t.dst], t.buf[i], t.pt) ELSE c,
                                    @, [i \in DOMAIN t.buf |-> i])]
ReceivedAll(t) == Received(t, DOMAIN t.buf)

(* HandleCrbReceiveData refuses a node that does not recover. *)
Accepts(t) == Reaches(t.src, t.dst) /\ mIsRecovering[t.dst]

(* A message that has failed for good: no memory for an item, or the answer is lost, at every
   attempt; or it never arrives. *)
Failed(t) ==
  \/ ~Accepts(t) /\ UNCHANGED <<cache, left>>
  \/ Accepts(t) /\ Spend("nomem") /\ \E i \in DOMAIN t.buf : cache' = Received(t, DOMAIN t.buf \ {i})
  \/ Accepts(t) /\ Spend("lose") /\ cache' \in {cache, ReceivedAll(t)}

WithItem(t) ==
  [t EXCEPT !.next = @ + 1, !.buf = IF Full(t) THEN <<Item(t)>> ELSE Append(@, Item(t))]

(* TaskDone; the thread ends, and nobody is told. *)
WithoutTask(t) == [mRecoverTasks EXCEPT ![t.src] = @ \ {<<t.dst, t.pt>>}]

EndTask(t) == threads' = threads \ {t} /\ mRecoverTasks' = WithoutTask(t)

(* BackGroundRecoverTask, one bucket (ProcessBucket, ProcessIndexValue): the task may have been
   dropped; a full message is sent first; an entry without data ends the task. *)
RecoverBucket(t) ==
  /\ t \in threads /\ t.next \in Key
  /\ \/ /\ ~Alive(t) /\ threads' = threads \ {t}
        /\ UNCHANGED <<mRecoverTasks, cache, left>>
     \/ /\ Alive(t) /\ ~Entering(t)
        /\ threads' = (threads \ {t}) \cup {[t EXCEPT !.next = @ + 1]}
        /\ UNCHANGED <<mRecoverTasks, cache, left>>
     \/ /\ Alive(t) /\ Entering(t) /\ Full(t) /\ Failed(t) /\ EndTask(t)
     \/ /\ Alive(t) /\ Entering(t) /\ (Full(t) => Accepts(t))
        /\ cache' = IF Full(t) THEN ReceivedAll(t) ELSE cache
        /\ UNCHANGED left
        /\ threads' = (threads \ {t}) \cup (IF Item(t).data = <<>> THEN {} ELSE {WithItem(t)})
        /\ mRecoverTasks' = IF Item(t).data = <<>> THEN WithoutTask(t) ELSE mRecoverTasks
  /\ UNCHANGED <<up, cmVars, viewVars, crbVars, op, subscribers, history>>

(* The last message carries the finish flag: ReportPtRecoverDone reports the partition with the
   version the recovering node has, unless it no longer expects it of this source. *)
RecoverDone(t) ==
  /\ t \in threads /\ t.next \notin Key
  /\ EndTask(t)
  /\ \/ /\ Accepts(t)
        /\ cache' = ReceivedAll(t)
        /\ finish' = IF <<t.src, t.pt>> \in mRecoverNodes[t.dst]
                     THEN finish \cup {[node |-> t.dst, pt |-> t.pt, version |-> mPtInfos[t.dst][t.pt].version]}
                     ELSE finish
        /\ mRecoverNodes' = [mRecoverNodes EXCEPT ![t.dst] = @ \ {<<t.src, t.pt>>}]
        /\ UNCHANGED left
     \/ /\ Failed(t) /\ UNCHANGED <<finish, mRecoverNodes>>
  /\ UNCHANGED <<up, nodeView, ptView, viewVars, mIsRecovering, cacheRecover, sendQueue, op, subscribers,
                 history>>

-----------------------------------------------------------------------------
Cluster == \/ \E n \in Node : CmNodeDown(n) \/ CmNodeUp(n)
           \/ \E f \in finish : CmNodeFinish(f)
View == \E n \in Node : NotifyNodeListChange(n) \/ NotifyPtListChange(n)
Connect == \E n, m \in Node : CreateSubscriber(n, m)
Serve == \E k \in Key : \/ \E m \in Node : Apply(k, m) \/ NoAnswer(k, m)
                        \/ Answer(k) \/ Resend(k) \/ GiveUp(k)
Recover == \/ \E n \in Node : StartCatchUp(n) \/ SendCrbRequest(n) \/ SendCrbRequestFails(n)
           \/ \E t \in threads : RecoverBucket(t) \/ RecoverDone(t)
Faults == \/ \E n \in Node : Crash(n) \/ Restart(n)
          \/ \E n, m \in Node : BreakSubscription(n, m)

Next == \/ Cluster \/ View \/ Connect \/ Serve \/ Recover \/ Faults
        \/ \E n \in Node, k \in Key, in \in left.inputs :
             HandlePut(n, k, in) \/ HandleUpdate(n, k, in) \/ HandleDelete(n, k, in) \/ HandleReplace(n, k, in)

Spec == Init /\ [][Next]_vars

-----------------------------------------------------------------------------
Settled(k) == k \notin InFlight /\ ~lost

(* A copy the cluster counts as running, its tombstones aside, or a node that serves, has for every key whose writes no
   recovery of the node may have undone a value an acknowledged client may read. *)
ServedIsAcked ==
  \A n \in up, k \in Key :
    (Settled(k) /\ k \notin exposed[n] /\ (mServiceable[n] \/ ptView[Home[k]].st[n] = "RUNNING"))
      => Get(IF mServiceable[n] THEN cache[n] ELSE ClearDeletedData(cache[n]), k) \in truth[k]

(* A node that serves holds no tombstone: Get does not look at the mark. *)
NoTombstoneServed ==
  \A n \in up, k \in Key : (Settled(k) /\ mServiceable[n]) => ~cache[n][k].isDelete

(* A key whose deletion was acknowledged is not read on a node that serves. *)
DeletedIsGone ==
  \A n \in up, k \in Key : (Settled(k) /\ mServiceable[n] /\ truth[k] = {<<>>}) => Get(cache[n], k) = <<>>
=============================================================================
