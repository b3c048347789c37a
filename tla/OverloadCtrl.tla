---------------------------- MODULE OverloadCtrl ----------------------------
(***************************************************************************)
(* The statistics behind the quota of BoostIO's write cache                *)
(* (cache/overloadctrl/cache_overload_ctrl.cpp): bandwidth counters of     *)
(* foreground writes and of eviction, closed once a period into a ring,    *)
(* and the piece of quota a client is told to ask for next.                *)
(***************************************************************************)
EXTENDS Integers, FiniteSets, FiniteSetsExt, Functions

CONSTANTS
  MAX_OVERLOAD_STAT_CYCLE_NUM, CycleNum,  \* the ring, and how much of it is averaged
  Count, MaxTotal, MaxPeriod,
  NO_100, Page,                           \* a percent and the page, scaled down
  MAX_PRELOAD_QUOTA_SIZE, MIN_PRELOAD_QUOTA_SIZE,
  Available                               \* what GetAvailableQuota may return

VARIABLES
  bwStatObj,      \* per type: curValue, curIdx, hisValue, calcBwValue
  reading,        \* per type: what the statistics thread has loaded, or -1
  mAdjustWQuota,
  isAdjust,       \* the adjustment cycle is over
  added, period

vars == <<bwStatObj, reading, mAdjustWQuota, isAdjust, added, period>>

Type == {"BW_STAT_FRONT_WRITE", "BW_STAT_EVICT_TO_DISK"}
Ring == 0 .. MAX_OVERLOAD_STAT_CYCLE_NUM - 1
Level == {"low", "mid", "high"}           \* up to 50, below 80, from 80 percent

Init ==
  /\ bwStatObj = [y \in Type |-> [curValue |-> 0, curIdx |-> 0, hisValue |-> [i \in Ring |-> 0], calcBwValue |-> 0]]
  /\ reading = [y \in Type |-> -1]
  /\ mAdjustWQuota = MIN_PRELOAD_QUOTA_SIZE
  /\ isAdjust = FALSE
  /\ added = [y \in Type |-> 0]
  /\ period = 0

(* AddBandwidth, by any thread *)
AddBandwidth(y, count) ==
  /\ added[y] + count <= MaxTotal
  /\ bwStatObj' = [bwStatObj EXCEPT ![y].curValue = @ + count]
  /\ added' = [added EXCEPT ![y] = @ + count]
  /\ UNCHANGED <<reading, mAdjustWQuota, isAdjust, period>>

(* GetBwStatAverageValue: the last CycleNum entries before curIdx *)
GetBwStatAverageValue(o) ==
  FoldFunctionOnSet(LAMBDA x, acc : acc + x, 0, o.hisValue,
                    {(o.curIdx + 2 * MAX_OVERLOAD_STAT_CYCLE_NUM - k) % MAX_OVERLOAD_STAT_CYCLE_NUM : k \in 1 .. CycleNum})

(* UpdateBwStatValue: the average, then the counter is loaded ... *)
CloseLoads(y) ==
  /\ reading[y] = -1 /\ period < MaxPeriod
  /\ period' = period + 1
  /\ reading' = [reading EXCEPT ![y] = bwStatObj[y].curValue]
  /\ bwStatObj' = [bwStatObj EXCEPT ![y].calcBwValue = GetBwStatAverageValue(bwStatObj[y])]
  /\ isAdjust' = TRUE
  /\ UNCHANGED <<mAdjustWQuota, added>>

(* ... and lowered by what was loaded: writers go on in between. *)
CloseStores(y) ==
  /\ reading[y] # -1
  /\ LET o == bwStatObj[y] IN
     bwStatObj' = [bwStatObj EXCEPT ![y] = [o EXCEPT !.hisValue[o.curIdx] = reading[y],
                     !.curIdx = (o.curIdx + 1) % MAX_OVERLOAD_STAT_CYCLE_NUM, !.curValue = @ - reading[y]]]
  /\ reading' = [reading EXCEPT ![y] = -1]
  /\ UNCHANGED <<mAdjustWQuota, isAdjust, added, period>>

-----------------------------------------------------------------------------
RoundDown(x) == x - (x % Page)
Raised(step) == Min({mAdjustWQuota + RoundDown(step), MAX_PRELOAD_QUOTA_SIZE})
Lowered(step) == Max({mAdjustWQuota - RoundDown(step), MIN_PRELOAD_QUOTA_SIZE})

(* LowWaterLevelQuota, MidWaterLevelQuota, HighWaterLevelQuota *)
LowWaterLevelQuota(front, evict, avail) ==
  CASE front <= evict -> Raised((avail \div NO_100) * 2)
    [] front > evict /\ evict # 0 /\ front <= evict * 4 -> Raised(avail \div NO_100)
    [] OTHER -> Lowered(mAdjustWQuota \div NO_100)

MidWaterLevelQuota(front, evict, avail) ==
  CASE front <= evict -> Raised(avail \div NO_100)
    [] front > evict /\ evict # 0 /\ front <= evict * 4 -> Lowered((mAdjustWQuota \div NO_100) * 2)
    [] OTHER -> Lowered((mAdjustWQuota \div NO_100) * 5)

HighWaterLevelQuota(front, evict, avail) ==
  IF front <= evict THEN Raised(avail \div NO_100) ELSE MIN_PRELOAD_QUOTA_SIZE

(* CalculateWriteQuota *)
CalculateWriteQuota(front, evict, avail, vm) ==
  CASE vm = "low" -> LowWaterLevelQuota(front, evict, avail)
    [] vm = "mid" -> MidWaterLevelQuota(front, evict, avail)
    [] vm = "high" -> HighWaterLevelQuota(front, evict, avail)

(* GetAdjustWriteQuota, at most once a cycle, by the thread that allocates *)
(* quota; both bandwidths are read while they are computed.                *)
GetAdjustWriteQuota(avail, vm) ==
  /\ isAdjust
  /\ isAdjust' = FALSE
  /\ mAdjustWQuota' = CalculateWriteQuota(bwStatObj["BW_STAT_FRONT_WRITE"].calcBwValue,
                                          bwStatObj["BW_STAT_EVICT_TO_DISK"].calcBwValue, avail, vm)
  /\ UNCHANGED <<bwStatObj, reading, added, period>>

Next ==
  \/ \E y \in Type : CloseLoads(y) \/ CloseStores(y) \/ \E c \in Count : AddBandwidth(y, c)
  \/ \E a \in Available, vm \in Level : GetAdjustWriteQuota(a, vm)

Spec == Init /\ [][Next]_vars

-----------------------------------------------------------------------------
(* No traffic is lost or counted twice: as long as the ring has not come   *)
(* round, its entries and the open counter add up to what was added,       *)
(* however writers interleave with the closing of a period                 *)
(* (UpdateBwStatValue, AddBandwidth); and the piece of quota stays within  *)
(* its two bounds, whatever the levels and the bandwidths were             *)
(* (CalculateWriteQuota).                                                  *)
TrafficCounted ==
  /\ \A y \in Type :
       added[y] = bwStatObj[y].curValue + FoldFunction(LAMBDA x, acc : acc + x, 0, bwStatObj[y].hisValue)
  /\ mAdjustWQuota \in MIN_PRELOAD_QUOTA_SIZE .. MAX_PRELOAD_QUOTA_SIZE
=============================================================================
