------------------------------- MODULE MCLive -------------------------------
(* What has to happen in the end, for TLC: the write cache of this module's     *)
(* constants is flushed ("wcache"), callers wait for a flow's preload           *)
(* ("flow"), the read cache evicts ("rcache"), and two nodes agree on what may  *)
(* be evicted ("nego").  The variables of the other three are v1 to v14; the    *)
(* fairness of each is its module's, while it is the part that runs.            *)
EXTENDS WCache

CONSTANT k1
VARIABLES part, v1, v2, v3, v4, v5, v6, v7, v8, v9, v10, v11, v12, v13, v14

MCKeyOf == [i \in 0 .. N - 1 |-> k1]

Fl == INSTANCE Flow WITH
        Threads <- {"t", "u"}, Truncators <- {}, Sealers <- {}, Workers <- {"w"}, ChunkIds <- 1 .. 2,
        ChunkSize <- 1, PreLoadSize <- 1, MaxOffset <- 3, MaxLen <- 1, SubmitMayFail <- TRUE, Crashes <- 0,
        chunkList <- v1, truncateOffset <- v2, writenOffset <- v3, preLoadOffset <- v4, preLoadFlag <- v5,
        sealed <- v6, holdList <- v7, media <- v8, usedSize <- v9, frame <- v10, queued <- v11,
        worker <- v12, up <- v13, crashes <- v14
RC == INSTANCE RCache WITH
        Thread <- {"t1", "t2"}, Key <- {"k1", "k2"}, Length <- [k1 |-> 1, k2 |-> 2], MaxOff <- 4, MaxOps <- 3,
        Segment <- 2, Ahead <- 2, MemCap <- 6, MemWater <- 1, DiskCap <- 8, DiskWater <- 3, MaxFaults <- 1,
        flow <- v1, chunk <- v2, index <- v3, lock <- v4, under <- v5, th <- v6, ev <- v7, life <- v8,
        left <- v9, hist <- v10
Ng == INSTANCE Negotiation WITH
        N <- 3, ArraySize <- 3, Limit <- 2, Invalid <- 3, Losses <- 1,
        arrays <- v1, refNum <- v2, waiting <- v3, queue <- v4, cur <- v5, call <- v6, requests <- v7,
        replies <- v8, busy <- v9, put <- v10, losses <- v11

ASSUME Ng!NegotiationConstants

slots == <<v1, v2, v3, v4, v5, v6, v7, v8, v9, v10, v11, v12, v13, v14>>
mcvars == <<vars, part, slots>>

MCInit ==
    /\ Init
    /\ \/ part = "wcache" /\ v1 = 0 /\ v2 = 0 /\ v3 = 0 /\ v4 = 0 /\ v5 = 0 /\ v6 = 0 /\ v7 = 0
          /\ v8 = 0 /\ v9 = 0 /\ v10 = 0 /\ v11 = 0 /\ v12 = 0 /\ v13 = 0 /\ v14 = 0
       \/ part = "flow" /\ Fl!Init
       \/ part = "rcache" /\ RC!Init /\ v11 = 0 /\ v12 = 0 /\ v13 = 0 /\ v14 = 0
       \/ part = "nego" /\ Ng!Init /\ v12 = 0 /\ v13 = 0 /\ v14 = 0

\* A step of each part, and of that part alone.
WcStep(A) == part = "wcache" /\ A /\ UNCHANGED <<part, slots>>
FlStep(A) == part = "flow" /\ A /\ UNCHANGED <<part, vars>>
RcStep(A) == part = "rcache" /\ A /\ UNCHANGED <<part, vars, v11, v12, v13, v14>>
NgStep(A) == part = "nego" /\ A /\ UNCHANGED <<part, vars, v12, v13, v14>>

MCNext == WcStep(Next) \/ FlStep(Fl!Next) \/ RcStep(RC!Next) \/ NgStep(Ng!Next)

WcFairness ==
    /\ \A c \in Clients : WF_mcvars(WcStep(ClientStep(c) \/ EvictStep(c)))
    /\ \A w \in Workers : WF_mcvars(WcStep(WorkerStep(w) \/ EvictStep(w)))
    /\ WF_mcvars(WcStep(NegotiateEnd)) /\ \A t \in Tiers : WF_mcvars(WcStep(RetryEvictTask(t)))
    /\ WF_mcvars(WcStep(ScanOldCache \/ ScanCheck \/ Flush))
FlFairness ==
    /\ \A t \in {"t", "u"} : WF_mcvars(FlStep(Fl!CallerStep(t)))
    /\ WF_mcvars(FlStep(Fl!WorkerStep("w")))
RcFairness ==
    /\ \A p \in {"t1", "t2"} : WF_mcvars(RcStep(RC!ThreadStep(p)))
    /\ \A t \in RC!Tier : WF_mcvars(RcStep(RC!EvictStart(t))) /\ WF_mcvars(RcStep(RC!EvictEnd(t)))
    /\ WF_mcvars(RcStep(RC!EvictMemDataImpl)) /\ WF_mcvars(RcStep(RC!EvictDiskDataImpl))
    /\ WF_mcvars(RcStep(RC!DeleteRCache)) /\ WF_mcvars(RcStep(RC!CreateRCache))
NgFairness ==
    /\ \A s \in Ng!Sides, i \in Ng!Slices : WF_mcvars(NgStep(Ng!AddMap(s, i) \/ Ng!AddIndex(s, i)))
    /\ WF_mcvars(NgStep(Ng!Ask)) /\ WF_mcvars(NgStep(Ng!ReleaseNext \/ Ng!ReleaseDone))
    /\ WF_mcvars(NgStep(\E a \in v8 : Ng!CallReturned(a)))
    /\ WF_mcvars(NgStep(\E r \in v7 : Ng!Accept(r) \/ Ng!Refuse(r)))
    /\ SF_mcvars(NgStep(\E r \in v7 : Ng!Accept(r)))
    /\ WF_mcvars(NgStep(Ng!AllowNext \/ Ng!Reply))

MCSpec == MCInit /\ [][MCNext]_mcvars
MCFairSpec == MCSpec /\ WcFairness /\ FlFairness /\ RcFairness /\ NgFairness
-----------------------------------------------------------------------------
\* A preload on its way releases every caller that is held in HoldWait, by
\* reaching the caller's need or by a failed allocation.  The code promises no
\* more: a caller that enters after PreLoadHandle took its decision and before
\* HoldClean cleared mPreLoadFlag, or whose task the pool refused, stays until a
\* later call schedules a preload, which must then release it.  Nobody seals: a
\* Seal sets mWritenOffset back and the preload may stop short of the need.  The
\* two callers are alike; it is stated of one.
HeldIsReleased ==
    (part = "flow" /\ Fl!At("t", "wait") /\ Fl!PreloadComing) ~> (part = "flow" /\ ~Fl!At("t", "wait"))

\* Eviction from the read cache catches up once the reads stop: what a tier still
\* holds over its eviction level is less than the next chunk to evict, or nothing
\* is left to evict.  It does not when an offset was lost by a read that failed
\* after reserving it, or a copy to disk failed.
EvictionProgress == <>[](part = "rcache" => RC!Relieved)

\* The negotiation comes to an end: UpdateNegotiateState releases every slice on
\* both sides, so that neither memory fills up with slices nobody may evict,
\* unless failed calls stranded a slice.
NegotiationCompletes == <>[](part = "nego" => Ng!Completed)

\* What the read cache's index serves is still there: a chunk that is not
\* deleted, and whatever a reader is copying out, lies inside the part of its
\* tier's flow that has not been truncated, and no two live chunks share a place.
ServedInWindow == part = "rcache" => RC!ServedInWindow
=============================================================================
