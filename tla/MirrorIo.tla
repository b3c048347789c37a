------------------------------ MODULE MirrorIo ------------------------------
(***************************************************************************)
(* The I/O path of BoostIO for one partition with two copies: the mirror   *)
(* client (sdk/mirror_client), the mirror server's handlers                *)
(* (server/mirror_server, cache/cache.cpp, cache/write/wcache_manager) and *)
(* the rebuilding of a copy (server/mirror_server_crb).  A put is written  *)
(* to a flow that the client has created on every copy; a copy moves its   *)
(* slices from memory to disk and, on the master, to the under file        *)
(* system; every request carries the version of the client's view and is   *)
(* refused by a server that has another one.  The cluster manager is       *)
(* external: it takes the copy of a crashed node down, lets it recover     *)
(* when it is back and makes it RUNNING when the rebuilding is reported.   *)
(***************************************************************************)
EXTENDS Integers, Sequences, FiniteSets, SequencesExt

CONSTANTS Node, Thread, Key,
          MaxFlow,   \* bound on the flows created
          Scenarios  \* initial master, the nodes that have just come back, home node and
                     \* operations of each thread, the
                     \* attempts of an operation, the crashes, lost replies and added disks
                     \* that may happen, and whether the disks of replicas pass their
                     \* water level

VARIABLES cm,     \* the cluster manager's entry: version, master, state of each copy, CM_PT_BYPASS
          view,   \* the entry each server has (Cm::GetPtInfo)
          cview,  \* the entry each client has (mPtView)
          up,     \* the nodes whose server runs
          flow,   \* mFlowMap of each client: none, busy or a flow and its version
          wc,     \* mWCacheManager of each server
          idx,    \* WCacheIndex of each server: the flow whose slice serves the key
          ufs,    \* external: the keys in the under file system
          th,     \* the operation each thread is in
          reqs,   \* requests on their way or being handled
          crb,    \* the rebuilding each node is in
          made,   \* flows created so far
          hist,   \* keys put, being deleted, deleted, put more than once, put in bypass
          env     \* the scenario, with the faults that may still happen
servers == <<view, wc, idx, ufs, crb>>
vars == <<cm, view, cview, up, flow, wc, idx, ufs, th, reqs, crb, made, hist, env>>

Flow == 1 .. MaxFlow
Live == {"RUNNING", "RECOVERY"}
\* CalcPtQuota and the loops over ptEntry.copys: the copies a request goes to.
Copies(e) == {n \in Node : e.st[n] \in Live}
Whole(e) == \A n \in Node : e.st[n] = "RUNNING"
\* PutCheckPtState: CM_PT_NORMAL, or CM_PT_BYPASS.
PutCheckPtState(e) == Whole(e) \/ e.bypass
NoFlow == [st |-> "none", id |-> 0, ptv |-> 0]
Busy == [st |-> "busy", id |-> 0, ptv |-> 0]
NoSlice == [at |-> "none", valid |-> TRUE]
NoCache == [live |-> FALSE, normal |-> FALSE, forced |-> FALSE, ptv |-> 0, sl |-> [k \in Key |-> NoSlice]]
NoAnswer == [key |-> {}, said |-> "none"]
NoJob == [ver |-> 0, pc |-> "idle"]
Idle == [pc |-> "idle", op |-> "none", key |-> 0, e |-> 0, ce |-> 0, try |-> 0, flow |-> 0, then |-> "none",
         wait |-> {}, bad |-> FALSE, must |-> FALSE, not |-> FALSE]

Init ==
    \E s \in Scenarios :
      LET e == [ver |-> 1, master |-> s.master, bypass |-> FALSE,
                st |-> [n \in Node |-> IF n \in s.back THEN "RECOVERY" ELSE "RUNNING"]]
      IN
      /\ env = s
      /\ cm = e /\ view = [n \in Node |-> e] /\ cview = [n \in Node |-> e]
      /\ up = Node /\ flow = [n \in Node |-> NoFlow]
      /\ wc = [n \in Node |-> [f \in Flow |-> NoCache]]
      /\ idx = [n \in Node |-> [k \in Key |-> 0]] /\ ufs = {}
      /\ th = [t \in Thread |-> [todo |-> s.todo[t], run |-> Idle, got |-> NoAnswer]]
      /\ crb = [n \in Node |-> IF n \in s.back THEN [ver |-> 1, pc |-> "sync"] ELSE NoJob]
      /\ reqs = {} /\ made = 0
      /\ hist = [acked |-> {}, deleting |-> {}, deleted |-> {}, again |-> {}, bypass |-> {}]

-----------------------------------------------------------------------------
(* Threads.                                                                *)

\* Acknowledged and not deleted, except the puts repeated in bypass: see EveryCopyServes.
Kept == hist.acked \ (hist.deleting \cup (hist.again \cap hist.bypass))

Run(t) == th[t].run
At(t, pc) == Run(t).pc = pc
Set(t, r) == th' = [th EXCEPT ![t].run = r]
Stop(t) == Set(t, Idle)

\* The operation a thread is in, or calls next.
Called(t) ==
    IF ~At(t, "idle") \/ th[t].todo = << >> THEN Run(t)
    ELSE LET o == Head(th[t].todo) IN
         [Idle EXCEPT !.pc = o.op, !.op = o.op, !.key = o.key, !.try = 1,
                      !.must = o.key \in Kept, !.not = o.key \in hist.deleted \ hist.again]
Go(t, r, got) ==
    th' = [th EXCEPT ![t] = [todo |-> IF At(t, "idle") THEN Tail(@.todo) ELSE @.todo, run |-> r, got |-> got]]

\* FailHandler: another attempt with a fresh entry, or the error is returned.
Again(r) ==
    IF r.try < env.tries THEN [r EXCEPT !.pc = r.op, !.try = @ + 1, !.e = 0, !.ce = 0, !.flow = 0, !.then = "none",
                                     !.wait = {}, !.bad = FALSE]
                      ELSE Idle
FailHandler(t) == Set(t, Again(Run(t)))

\* MirrorClient::Put up to PutImpl: only a partition with all its copies takes a put, or
\* one that lost a copy before a disk was added.
Put(t) ==
    LET e == cview[env.home[t]] IN
    /\ Called(t).pc = "put"
    /\ Go(t, IF PutCheckPtState(e) THEN [Called(t) EXCEPT !.pc = "alloc", !.e = e] ELSE Idle, th[t].got)
    /\ UNCHANGED <<cm, servers, cview, up, flow, reqs, made, hist, env>>

\* AllocPutOffset: no flow, one being created by another thread, one of an older
\* version (deleted, created again, and the put retried), or the one to write to.
AllocPutOffset(t) ==
    LET f == flow[env.home[t]]
        r == Run(t)
        create == f.st = "none" /\ r.then # "alloc"
    IN
    /\ At(t, "alloc")
    /\ flow' = IF create THEN [flow EXCEPT ![env.home[t]] = Busy] ELSE flow
    /\ IF f.st # "normal" /\ ~create THEN FailHandler(t)
       ELSE Set(t, IF create THEN [r EXCEPT !.pc = "create", !.then = "alloc"]
                   ELSE IF f.ptv # r.e.ver THEN [r EXCEPT !.pc = "drop", !.flow = f.id, !.then = "insert"]
                   ELSE [r EXCEPT !.pc = "prepare", !.flow = f.id])
    /\ UNCHANGED <<cm, servers, cview, up, reqs, made, hist, env>>

\* Insert after a Delete: somebody else may have been faster.
Insert(t) ==
    /\ At(t, "insert")
    /\ flow' = [flow EXCEPT ![env.home[t]] = IF @.st = "none" THEN Busy ELSE @]
    /\ Set(t, IF flow[env.home[t]].st = "none" THEN [Run(t) EXCEPT !.pc = "create", !.then = "retry"] ELSE Again(Run(t)))
    /\ UNCHANGED <<cm, servers, cview, up, reqs, made, hist, env>>

\* GetWCache: a flow that is closed is not found.
GetWCache(n, f) == wc[n][f].live /\ wc[n][f].normal

\* CheckAll: the request's version is the one of the server's entry.
CheckAll(n, ptv) == n \in up /\ view[n].ver = ptv
\* The handlers whose effect is the called function's once the request is accepted.
HandleCreateFlow(n, ptv) == CheckAll(n, ptv)
HandleGetSlice(n, ptv, f) == CheckAll(n, ptv) /\ GetWCache(n, f)
HandleGet(n, ptv) == CheckAll(n, ptv)
HandleDelete(n, ptv) == CheckAll(n, ptv)
HandleSyncData(n, ptv) == CheckAll(n, ptv)
HandleGetEvictOffset(n, ptv) == CheckAll(n, ptv)

\* HandleDestroyFlow: while copies are being rebuilt the request has no effect.
HandleDestroyFlow(n, ptv) == crb[n].pc = "idle" /\ CheckAll(n, ptv)

\* One request to every copy; one to a server that is down fails at once.
Requests(t, r, op, e) ==
    {[th |-> t, try |-> r.try, op |-> op, to |-> n, key |-> r.key, flow |-> r.flow,
      ptv |-> e.ver, pc |-> "sent"] : n \in Copies(e) \cap up}
Sent(r, pc, e) == [r EXCEPT !.pc = pc, !.e = e, !.wait = Copies(e) \cap up, !.bad = ~(Copies(e) \subseteq up)]

\* DestroyFlow: on the copies of the entry the client has by now.
DestroyFlow(t, r, e) == {q \in Requests(t, r, "destroy", e) : HandleDestroyFlow(q.to, q.ptv)}

\* Delete, a second after it was called: only the flow it was called for is erased
\* and destroyed.
DeleteFlow(t) ==
    LET c == env.home[t]
        r == Run(t)
        erased == flow[c].st # "none" /\ flow[c].id = r.flow
    IN
    /\ At(t, "drop")
    /\ flow' = IF erased THEN [flow EXCEPT ![c] = NoFlow] ELSE flow
    /\ reqs' = IF erased /\ r.flow # 0
               THEN reqs \cup DestroyFlow(t, r, cview[c]) ELSE reqs
    /\ IF r.then = "insert" THEN Set(t, [r EXCEPT !.pc = "insert"]) ELSE FailHandler(t)
    /\ UNCHANGED <<cm, servers, cview, up, made, hist, env>>

NewCache(ptv) == [NoCache EXCEPT !.live = TRUE, !.normal = TRUE, !.ptv = ptv]
CreateFailed(t) == Set(t, [Run(t) EXCEPT !.pc = "drop", !.flow = 0, !.then = "retry"])

\* CreateFlow on the master (opType 0), with the entry the client has by now.
CreateFlowMaster(t) ==
    LET e == cview[env.home[t]] IN
    /\ At(t, "create")
    /\ \/ /\ HandleCreateFlow(e.master, e.ver) /\ made < MaxFlow
          /\ made' = made + 1
          /\ wc' = [wc EXCEPT ![e.master][made + 1] = NewCache(e.ver)]
          /\ Set(t, [Run(t) EXCEPT !.pc = "slave", !.ce = e, !.flow = made + 1])
       \/ ~HandleCreateFlow(e.master, e.ver) /\ CreateFailed(t) /\ UNCHANGED <<wc, made>>
    /\ UNCHANGED <<cm, view, idx, ufs, crb, cview, up, flow, reqs, hist, env>>

\* CreateFlow on the other copies (opType 1) and Update of the flow table.
CreateFlowSlave(t) ==
    LET r == Run(t)
        others == Copies(r.ce) \ {r.ce.master}
        ok == \A n \in others : HandleCreateFlow(n, r.ce.ver)
    IN
    /\ At(t, "slave")
    /\ wc' = [n \in Node |-> IF n \in others /\ HandleCreateFlow(n, r.ce.ver)
                             THEN [wc[n] EXCEPT ![r.flow] = NewCache(r.ce.ver)] ELSE wc[n]]
    /\ flow' = IF ok THEN [flow EXCEPT ![env.home[t]] = [st |-> "normal", id |-> r.flow, ptv |-> r.ce.ver]] ELSE flow
    /\ IF ~ok THEN CreateFailed(t)
       ELSE IF r.then = "alloc" THEN Set(t, [r EXCEPT !.pc = "alloc"]) ELSE FailHandler(t)
    /\ UNCHANGED <<cm, view, idx, ufs, crb, cview, up, reqs, made, hist, env>>

\* Prepare: with a local copy the space comes from the local server (GetSlice), which
\* must know the flow; then SendPutRequestImpl to every copy.
Prepare(t) ==
    LET r == Run(t)
        local == env.home[t] \in Copies(r.e)
        ready == local => HandleGetSlice(env.home[t], r.e.ver, r.flow)
    IN
    /\ At(t, "prepare")
    /\ Set(t, IF ready THEN Sent(r, "wait", r.e) ELSE [r EXCEPT !.pc = "drop", !.then = "retry"])
    /\ reqs' = IF ready THEN reqs \cup Requests(t, r, "put", r.e) ELSE reqs
    /\ UNCHANGED <<cm, servers, cview, up, flow, made, hist, env>>

\* The callback of a request: any failure fails the operation; a request of an earlier
\* attempt is no longer waited for.
Replied(q, ok) ==
    LET r == th[q.th].run IN
    IF r.pc = "wait" /\ r.try = q.try /\ r.op = q.op /\ r.key = q.key /\ q.to \in r.wait
    THEN [th EXCEPT ![q.th].run = [r EXCEPT !.wait = @ \ {q.to}, !.bad = @ \/ ~ok]] ELSE th

\* The last reply posts the semaphore.
Answered(t) ==
    LET r == Run(t) IN
    /\ At(t, "wait") /\ r.wait = {}
    /\ IF r.bad
       THEN IF r.op = "put" THEN Set(t, [r EXCEPT !.pc = "drop", !.then = "retry"]) ELSE FailHandler(t)
       ELSE Stop(t)
    /\ hist' = IF r.op = "put"
               THEN [hist EXCEPT !.again = IF r.bad THEN @ \cup {r.key} ELSE @,
                                 !.acked = IF r.bad THEN @ ELSE @ \cup {r.key},
                                 !.bypass = IF r.e.bypass THEN @ \cup {r.key} ELSE @]
               ELSE IF r.bad THEN hist
               ELSE IF r.must THEN [hist EXCEPT !.deleted = @ \cup {r.key}] ELSE hist
    /\ UNCHANGED <<cm, servers, cview, up, flow, reqs, made, env>>

\* DeleteKeyImpl and SendDeleteRequest: to all copies, whatever the partition's state.
Delete(t) ==
    LET e == cview[env.home[t]]
        r == Called(t)
    IN
    /\ r.pc = "delete"
    /\ Go(t, Sent(r, "wait", e), th[t].got)
    /\ reqs' = reqs \cup Requests(t, r, "delete", e)
    /\ hist' = [hist EXCEPT !.deleting = @ \cup {r.key}]
    /\ UNCHANGED <<cm, servers, cview, up, flow, made, env>>

\* Where Cache::Get finds a key: the write cache's index, then the under file system.
Found(n, k) == idx[n][k] # 0 \/ k \in ufs

Answer(n, k) == [key |-> {k}, said |-> IF Found(n, k) THEN "found" ELSE "missing"]

\* mutant: the version is not checked
GetUnchecked(t) ==
    LET m == cview[env.home[t]].master
        r == Called(t)
    IN
    /\ r.pc = "get"
    /\ IF m \in up THEN Go(t, Idle, Answer(m, r.key))
       ELSE Go(t, Again(r), th[t].got)
    /\ UNCHANGED <<cm, servers, cview, up, flow, reqs, made, hist, env>>

\* GetImpl: the master of the client's entry answers.
Get(t) ==
    LET e == cview[env.home[t]]
        r == Called(t)
    IN
    /\ r.pc = "get"
    /\ IF HandleGet(e.master, e.ver)
       THEN Go(t, Idle, Answer(e.master, r.key))
       ELSE Go(t, Again(r), th[t].got)
    /\ UNCHANGED <<cm, servers, cview, up, flow, reqs, made, hist, env>>

\* RebuildPtView: the client takes the entry of its local server.
RebuildPtView(c) ==
    /\ c \in up /\ cview[c] # view[c] /\ \E t \in Thread : env.home[t] = c
    /\ cview' = [cview EXCEPT ![c] = view[c]]
    /\ UNCHANGED <<cm, servers, up, flow, th, reqs, made, hist, env>>

-----------------------------------------------------------------------------
(* Handlers of the servers.                                                *)

Finish(q, ok) == reqs' = reqs \ {q} /\ th' = Replied(q, ok)

\* MirrorServer::Put: the version is checked first ...
HandlePut(q) ==
    /\ q.op = "put" /\ q.pc = "sent" /\ q.to \in up
    /\ IF CheckAll(q.to, q.ptv) THEN reqs' = (reqs \ {q}) \cup {[q EXCEPT !.pc = "checked"]} /\ UNCHANGED th
       ELSE Finish(q, FALSE)
    /\ UNCHANGED <<cm, servers, cview, up, flow, made, hist, env>>

\* ... then the slice is written to the flow and the index, where the first slice of a
\* key stays ("Repeat put").
CachePut(q) ==
    LET ok == GetWCache(q.to, q.flow) IN
    /\ q.op = "put" /\ q.pc = "checked" /\ q.to \in up
    /\ wc' = IF ok THEN [wc EXCEPT ![q.to][q.flow].sl[q.key] = [at |-> "mem", valid |-> TRUE]] ELSE wc
    /\ idx' = IF ok /\ idx[q.to][q.key] = 0 THEN [idx EXCEPT ![q.to][q.key] = q.flow] ELSE idx
    /\ Finish(q, ok)
    /\ UNCHANGED <<cm, view, ufs, crb, cview, up, flow, made, hist, env>>

\* mutant: the key is only removed from the write cache
CacheDeleteWCache(q) ==
    LET n == q.to
        f == idx[n][q.key]
        ok == HandleDelete(n, q.ptv) /\ (f # 0 => GetWCache(n, f))
    IN
    /\ q.op = "delete" /\ n \in up
    /\ wc' = IF ok /\ f # 0 THEN [wc EXCEPT ![n][f].sl[q.key].valid = FALSE] ELSE wc
    /\ idx' = IF ok THEN [idx EXCEPT ![n][q.key] = 0] ELSE idx
    /\ Finish(q, ok)
    /\ UNCHANGED <<cm, view, ufs, crb, cview, up, flow, made, hist, env>>

\* Cache::Delete: the slice of the index is marked, then the under file system's copy
\* goes; a flow that is being flushed refuses.
CacheDelete(q) ==
    LET n == q.to
        f == idx[n][q.key]
        ok == HandleDelete(n, q.ptv) /\ (f # 0 => GetWCache(n, f))
    IN
    /\ q.op = "delete" /\ n \in up
    /\ wc' = IF ok /\ f # 0 THEN [wc EXCEPT ![n][f].sl[q.key].valid = FALSE] ELSE wc
    /\ idx' = IF ok THEN [idx EXCEPT ![n][q.key] = 0] ELSE idx
    /\ ufs' = IF ok THEN ufs \ {q.key} ELSE ufs
    /\ Finish(q, ok)
    /\ UNCHANGED <<cm, view, crb, cview, up, flow, made, hist, env>>

\* HandleCacheBrokenHdl, queued by the destruction of a flow: it takes no more puts.
CloseFlow(q) ==
    /\ q.op = "destroy" /\ q.to \in up
    /\ wc' = IF wc[q.to][q.flow].live THEN [wc EXCEPT ![q.to][q.flow].normal = FALSE] ELSE wc
    /\ reqs' = reqs \ {q}
    /\ UNCHANGED <<cm, view, idx, ufs, crb, cview, up, flow, th, made, hist, env>>

\* A reply is lost or is too late; the request itself may still be handled.
Unanswered(q) ==
    /\ env.loss > 0 /\ q.op = "put" /\ Replied(q, FALSE) # th
    /\ th' = Replied(q, FALSE) /\ env' = [env EXCEPT !.loss = @ - 1]
    /\ UNCHANGED <<cm, servers, cview, up, flow, reqs, made, hist>>

-----------------------------------------------------------------------------
(* Eviction.                                                               *)

Slices(n) == {s \in Flow \X Key : wc[n][s[1]].live}
Slice(n, s) == wc[n][s[1]].sl[s[2]]
Empty(c) == \A k \in Key : c.sl[k].at \in {"none", "gone"}

EvictFromMemToDisk(n, s) ==
    /\ n \in up /\ Slice(n, s).at = "mem"
    /\ wc' = [wc EXCEPT ![n][s[1]].sl[s[2]].at = "disk"]
    /\ UNCHANGED <<cm, view, idx, ufs, crb, cview, up, flow, th, reqs, made, hist, env>>

\* GetEvictOffset: the disk tier has passed the slice, or there is no such flow that is
\* open (BIO_NOT_EXISTS).
GetEvictOffset(m, s) == ~GetWCache(m, s[1]) \/ wc[m][s[1]].sl[s[2]].at = "gone"

\* GetFlowGlobEvictOffset: a replica asks the master of its entry.
Passed(n, s) ==
    LET m == view[n].master IN
    HandleGetEvictOffset(m, view[n].ver) /\ GetEvictOffset(m, s)

\* EvictAllDiskSliceToUnderFs: the master writes the slice to the under file system
\* first; a replica drops it once the master has passed it, and one whose flow is flushed
\* drops it without asking.  FlushDisk, the task of the flush itself, always writes.
EvictFromDiskToUnderFs(n, s) ==
    LET forced == wc[n][s[1]].forced
        master == view[n].master = n
    IN
    /\ n \in up /\ Slice(n, s).at = "disk"
    /\ \E write \in {master} \cup {x \in {TRUE} : forced} :
         /\ master \/ forced \/ (env.pressure /\ Passed(n, s))
         /\ ufs' = IF write /\ Slice(n, s).valid THEN ufs \cup {s[2]} ELSE ufs
    /\ wc' = [wc EXCEPT ![n][s[1]].sl[s[2]] = [at |-> "gone", valid |-> TRUE]]
    /\ idx' = IF Slice(n, s).valid /\ idx[n][s[2]] = s[1] THEN [idx EXCEPT ![n][s[2]] = 0] ELSE idx
    /\ UNCHANGED <<cm, view, crb, cview, up, flow, th, reqs, made, hist, env>>

\* HandleCacheBrokenHdl: a closed flow is flushed by the master, and destroyed when empty.
HandleCacheBroken(n, f) ==
    LET c == wc[n][f] IN
    /\ n \in up /\ c.live /\ ~c.normal
    /\ \/ ~Empty(c) /\ view[n].master = n /\ ~c.forced /\ wc' = [wc EXCEPT ![n][f].forced = TRUE]
       \/ Empty(c) /\ wc' = [wc EXCEPT ![n][f] = NoCache]
    /\ UNCHANGED <<cm, view, idx, ufs, crb, cview, up, flow, th, reqs, made, hist, env>>

-----------------------------------------------------------------------------
(* Crashes, views and the rebuilding of a copy.                            *)

\* A second failure before the first is repaired may lose data: both copies are needed.
Crash(n) ==
    /\ env.crash > 0 /\ up = Node /\ Whole(cm)
    /\ up' = up \ {n} /\ env' = [env EXCEPT !.crash = @ - 1]
    /\ reqs' = {q \in reqs : q.to # n}
    /\ th' = [t \in Thread |-> [th[t] EXCEPT !.run = [@ EXCEPT !.wait = @ \ {n}, !.bad = @ \/ n \in th[t].run.wait]]]
    /\ UNCHANGED <<cm, servers, cview, flow, made, hist>>

\* external: the cluster manager notices that the server of n is gone or is back.
NodeEvent(n) ==
    /\ \/ n \notin up /\ cm.st[n] = "RUNNING"
          /\ cm' = [ver |-> cm.ver + 1, st |-> [cm.st EXCEPT ![n] = "DOWN"], bypass |-> FALSE,
                    master |-> IF cm.master = n THEN CHOOSE m \in Node : m # n ELSE cm.master]
       \/ n \in up /\ cm.st[n] = "DOWN"
          /\ cm' = [cm EXCEPT !.ver = @ + 1, !.st[n] = "RECOVERY", !.bypass = FALSE]
    /\ UNCHANGED <<servers, cview, up, flow, th, reqs, made, hist, env>>

\* external: a disk is added somewhere; the partitions that have lost a copy take puts.
DiskAdded ==
    /\ env.disk > 0 /\ ~Whole(cm) /\ ~cm.bypass
    /\ cm' = [cm EXCEPT !.bypass = TRUE]
    /\ env' = [env EXCEPT !.disk = @ - 1]
    /\ UNCHANGED <<servers, cview, up, flow, th, reqs, made, hist>>

\* RecoverCache: the valid slices on disk are found again, in flows of version 0.
Recovered(n) ==
    [f \in Flow |->
      IF wc[n][f].live /\ \E k \in Key : wc[n][f].sl[k] = [at |-> "disk", valid |-> TRUE]
      THEN [NewCache(0) EXCEPT !.sl = [k \in Key |->
              IF wc[n][f].sl[k] = [at |-> "disk", valid |-> TRUE] THEN wc[n][f].sl[k]
              ELSE IF wc[n][f].sl[k].at = "none" THEN NoSlice ELSE [at |-> "gone", valid |-> TRUE]]]
      ELSE NoCache]

Restart(n) ==
    /\ n \notin up /\ cm.st[n] = "DOWN"
    /\ up' = up \cup {n}
    /\ view' = [view EXCEPT ![n] = cm]
    /\ wc' = [wc EXCEPT ![n] = Recovered(n)]
    /\ idx' = [idx EXCEPT ![n] = [k \in Key |->
           Min({f \in Flow : Recovered(n)[f].sl[k].at = "disk"} \cup {MaxFlow + 1}) % (MaxFlow + 1)]]
    /\ crb' = [crb EXCEPT ![n] = NoJob]
    /\ UNCHANGED <<cm, ufs, cview, flow, th, reqs, made, hist, env>>

\* A server learns the new entry (NotifyPtChangeEvent); RunJobThread has work to do
\* only for a copy in recovery.
PtChange(n) ==
    /\ n \in up /\ view[n] # cm
    /\ view' = [view EXCEPT ![n] = cm]
    /\ crb' = [crb EXCEPT ![n] = IF cm.st[n] = "RECOVERY" THEN [ver |-> cm.ver, pc |-> "sync"] ELSE NoJob]
    /\ UNCHANGED <<cm, wc, idx, ufs, cview, up, flow, th, reqs, made, hist, env>>

Older(n, v) == {f \in Flow : wc[n][f].live /\ wc[n][f].ptv < v}

\* WCacheManager::Flush: the flows take no more puts and are flushed.
Flush(m, old) ==
    [f \in Flow |-> IF f \in old THEN [wc[m][f] EXCEPT !.normal = FALSE, !.forced = @ \/ ~Empty(wc[m][f])] ELSE wc[m][f]]

\* mutant: the master reports its old flows flushed at once
SyncDataAtOnce(n) ==
    LET m == view[n].master IN
    /\ n \in up /\ crb[n].pc = "sync" /\ HandleSyncData(m, crb[n].ver)
    /\ wc' = [wc EXCEPT ![m] = [f \in Flow |-> IF f \in Older(m, crb[n].ver) THEN [@[f] EXCEPT !.normal = FALSE] ELSE @[f]]]
    /\ crb' = [crb EXCEPT ![n].pc = "clear"]
    /\ UNCHANGED <<cm, view, idx, ufs, cview, up, flow, th, reqs, made, hist, env>>

\* JobSyncData, first half: the master flushes the flows older than the entry and
\* answers when they are empty.
SyncData(n) ==
    LET m == view[n].master
        old == Older(m, crb[n].ver)
        done == \A f \in old : Empty(wc[m][f])
    IN
    /\ n \in up /\ crb[n].pc = "sync" /\ HandleSyncData(m, crb[n].ver)
    /\ done \/ \E f \in old : ~wc[m][f].forced \/ wc[m][f].normal
    /\ wc' = [wc EXCEPT ![m] = Flush(m, old)]
    /\ crb' = [crb EXCEPT ![n].pc = IF done THEN "clear" ELSE "sync"]
    /\ UNCHANGED <<cm, view, idx, ufs, cview, up, flow, th, reqs, made, hist, env>>

\* JobExpiredClear: the copy's own old flows are dropped, and what the index says of them.
ExpiredClear(n) ==
    /\ n \in up /\ crb[n].pc = "clear"
    /\ wc' = [wc EXCEPT ![n] = [f \in Flow |-> IF f \in Older(n, crb[n].ver) THEN NoCache ELSE @[f]]]
    /\ idx' = [idx EXCEPT ![n] = [k \in Key |-> IF @[k] \in Older(n, crb[n].ver) THEN 0 ELSE @[k]]]
    /\ crb' = [crb EXCEPT ![n].pc = "finish"]
    /\ UNCHANGED <<cm, view, ufs, cview, up, flow, th, reqs, made, hist, env>>

\* ReportPtFinish: the cluster manager makes the copy RUNNING if the entry has not
\* changed since; it may become the master.
ReportPtFinish(n) ==
    /\ n \in up /\ crb[n].pc = "finish"
    /\ crb' = [crb EXCEPT ![n] = NoJob]
    /\ \E m \in {cm.master, n} :
         cm' = IF cm.ver # crb[n].ver THEN cm
               ELSE [ver |-> cm.ver + 1, master |-> m, st |-> [cm.st EXCEPT ![n] = "RUNNING"], bypass |-> FALSE]
    /\ UNCHANGED <<view, wc, idx, ufs, cview, up, flow, th, reqs, made, hist, env>>

Next ==
    \/ \E t \in Thread :
         \/ Put(t) \/ AllocPutOffset(t) \/ Insert(t) \/ DeleteFlow(t) \/ CreateFlowMaster(t)
         \/ CreateFlowSlave(t) \/ Prepare(t) \/ Answered(t) \/ Delete(t) \/ Get(t)
    \/ \E q \in reqs : HandlePut(q) \/ CachePut(q) \/ CacheDelete(q) \/ CloseFlow(q) \/ Unanswered(q)
    \/ \E n \in Node :
         \/ RebuildPtView(n) \/ Crash(n) \/ NodeEvent(n) \/ Restart(n) \/ PtChange(n)
         \/ SyncData(n) \/ ExpiredClear(n) \/ ReportPtFinish(n)
         \/ \E s \in Slices(n) : EvictFromMemToDisk(n, s) \/ EvictFromDiskToUnderFs(n, s)
         \/ \E f \in Flow : HandleCacheBroken(n, f)
    \/ DiskAdded

Spec == Init /\ [][Next]_vars

-----------------------------------------------------------------------------
(* Properties.                                                             *)

\* Every RUNNING copy of a partition that has lost none can serve every acknowledged
\* object that nobody deletes, from its write cache or from the under file system: so
\* the failure of any one node loses nothing.  Excepted are the objects whose put was
\* repeated when an attempt of it was made in bypass (a disk was added while a copy was
\* being rebuilt): the index keeps the slice of the first attempt, "Repeat put", and loses
\* the object when that slice's flow is cleared as an old one, or is dropped by a node that
\* is no longer the master.
EveryCopyServes ==
    Whole(cm) => \A n \in up, k \in Kept : Found(n, k)

\* The master of the current entry serves every acknowledged object.
MasterServes ==
    cm.master \in up => \A k \in Kept : Found(cm.master, k)

\* An object whose deletion was acknowledged does not come back, unless its put had to
\* be repeated: a flow may then hold a second slice of it, which the deletion does not
\* reach and an eviction brings back.  Copies in the read cache are not modelled.
DeletedStaysGone ==
    cm.master \in up => \A k \in hist.deleted \ hist.again : ~Found(cm.master, k)

\* What the threads see is an object store: every step of the mirrored cache is a step
\* of ObjStore or leaves what is promised there alone.  Objects whose put was repeated
\* count as never deleted, and in bypass as never stored.
Store == INSTANCE ObjStore WITH
    status <- [k \in Key |-> IF k \in hist.deleted \ hist.again THEN "deleted" ELSE IF k \in Kept THEN "stored"
                             ELSE IF k \in hist.acked \cup hist.deleting THEN "doomed" ELSE "absent"],
    call <- [t \in Thread |-> IF ~At(t, "get") THEN [on |-> {}, may |-> {}]
                              ELSE [on |-> {Run(t).key}, may |-> IF Run(t).must THEN {"found"} ELSE IF Run(t).not THEN {"missing"}
                                                           ELSE {"found", "missing"}]],
    answer <- [t \in Thread |-> th[t].got]
ServesAsStore == Store!Spec
=============================================================================
