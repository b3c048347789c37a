------------------------------ MODULE BdmDisk ------------------------------
(***************************************************************************)
(* The disks of a BoostIO server: the table of block device managers       *)
(* (disk/common/bdm_obj.c, bdm_core.c), the open devices behind it         *)
(* (bdm_disk.c), synchronous reads and writes with their retries and the   *)
(* fault they report, and the adding of a new or a repaired disk           *)
(* (MirrorServer::AddDisk, BioServer::BioDiskReset).  What the cluster     *)
(* manager knows of the disks is the local node information that           *)
(* cm_client_event.c keeps; recording it in ZooKeeper may fail.            *)
(***************************************************************************)
EXTENDS Integers, Sequences, FiniteSets

CONSTANTS
  Device,         \* the paths of the devices of the node
  Configured,     \* the devices of the configuration, a sequence
  Thread,         \* the threads that read and write
  DISK_DEV_NUM,   \* usable disks at most
  DISK_MAX_SIZE,  \* disks at most
  MaxBreak, MaxFail, MaxCmFail

VARIABLES
  used, item,   \* per disk id: the used mark and the open device, if created
  num,          \* g_bdmDisk.num, read as the number of normal disks
  count,        \* g_bdmCount
  diskList,     \* the devices of the configuration, in memory
  cm,           \* the disk states of the node, by id, as last recorded
  io,           \* per thread: the operation under way
  admin,        \* the add-disk request under way (mDiskViewMutex)
  broken,       \* the devices that fail every transfer
  late,         \* the disks on which a transfer overlapped a repair (history)
  left          \* faults still to come

vars == <<used, item, num, count, diskList, cm, io, admin, broken, late, left>>

Id == 0 .. DISK_MAX_SIZE - 1
NoDisk == [dev |-> "none", open |-> FALSE, allocator |-> "none"]
Created(d) == [dev |-> d, open |-> TRUE, allocator |-> "live"]
Idle == [at |-> "idle", id |-> 0, dev |-> "none"]

(* BdmStart creates the configured disks; one that fails is left out, all  *)
(* failing is an error.  BioCmInit registers each with its state.          *)
Init ==
  \E bad \in SUBSET (1 .. Len(Configured)) :
    /\ Cardinality(bad) < Len(Configured)
    /\ used = [i \in Id |-> i < Len(Configured) /\ i + 1 \notin bad]
    /\ item = [i \in Id |-> IF i < Len(Configured) /\ i + 1 \notin bad
                              THEN Created(Configured[i + 1]) ELSE NoDisk]
    /\ num = Len(Configured) - Cardinality(bad)
    /\ count = Len(Configured)
    /\ diskList = Configured
    /\ cm = [i \in Id |-> IF i >= Len(Configured) THEN "none" ELSE IF i + 1 \in bad THEN "fault" ELSE "normal"]
    /\ io = [t \in Thread |-> Idle]
    /\ admin = Idle
    /\ broken = {Configured[i] : i \in bad}
    /\ late = {}
    /\ left = [break |-> MaxBreak, fail |-> MaxFail, cm |-> MaxCmFail]

-----------------------------------------------------------------------------
(* BdmGetBdmObj and BdmGetBdmStatus *)
BdmGetBdmObj(i) == used[i] /\ item[i] # NoDisk
BdmGetBdmStatus(i) == IF used[i] /\ item[i] # NoDisk THEN "normal" ELSE "fault"

Breaks(d) ==
  /\ d \notin broken /\ left.break > 0
  /\ broken' = broken \cup {d}
  /\ left' = [left EXCEPT !.break = @ - 1]
  /\ UNCHANGED <<used, item, num, count, diskList, cm, io, admin, late>>

IsReplaced(d) ==
  /\ d \in broken
  /\ broken' = broken \ {d}
  /\ UNCHANGED <<used, item, num, count, diskList, cm, io, admin, left, late>>

(* BdmRead and BdmWrite, on the disks the cluster has placed data on: the  *)
(* object is looked up once.                                               *)
BdmRead(t, i) ==
  /\ io[t] = Idle
  /\ BdmGetBdmObj(i) /\ cm[i] # "none"
  /\ late' = IF admin # Idle /\ admin.id = i THEN late \cup {i} ELSE late
  /\ io' = [io EXCEPT ![t] = [at |-> "transfer", id |-> i, dev |-> "none"]]
  /\ UNCHANGED <<used, item, num, count, diskList, cm, admin, broken, left>>

(* BdmDiskInnerReadWrite: BDM_IO_RETRY_NUM more attempts, on whatever the  *)
(* item's descriptors are by then.                                         *)
Transfer(t) ==
  /\ io[t].at = "transfer"
  /\ io' = [io EXCEPT ![t] =
       IF item[io[t].id].open /\ item[io[t].id].dev \notin broken THEN Idle ELSE [@ EXCEPT !.at = "report"]]
  /\ UNCHANGED <<used, item, num, count, diskList, cm, admin, broken, left, late>>

(* CM_SetDiskStatus(FAULT), under Cm's lock: the number of normal disks is *)
(* lowered before the record, the local state changes after it.            *)
CmReportDiskStatus(t) ==
  /\ io[t].at = "report"
  /\ LET i == io[t].id IN
     IF cm[i] = "fault" THEN UNCHANGED <<num, cm, left>>
     ELSE /\ num' = IF num > 0 THEN num - 1 ELSE 0
          /\ \/ cm' = [cm EXCEPT ![i] = "fault"] /\ UNCHANGED left
             \/ left.cm > 0 /\ left' = [left EXCEPT !.cm = @ - 1] /\ UNCHANGED cm
  /\ io' = [io EXCEPT ![t].at = "unuse"]
  /\ UNCHANGED <<used, item, count, diskList, admin, broken, late>>

(* BdmSetDiskUsedStatus(bdmId, false) *)
SetUnused(t) ==
  /\ io[t].at = "unuse"
  /\ used' = [used EXCEPT ![io[t].id] = FALSE]
  /\ io' = [io EXCEPT ![t] = Idle]
  /\ UNCHANGED <<item, num, count, diskList, cm, admin, broken, left, late>>

-----------------------------------------------------------------------------
IndexOf(d) == CHOOSE i \in 1 .. Len(diskList) : diskList[i] = d
CheckDiskIsExist(d) == \E i \in 1 .. Len(diskList) : diskList[i] = d

(* AddDiskImpl, up to the branch.  A configured disk is reset: refused     *)
(* while it counts as normal; one that was never created has no object.    *)
(* Otherwise BdmDiskReset destroys the allocator and closes the device.    *)
AddDiskImpl(d) ==
  /\ admin = Idle
  /\ num < DISK_DEV_NUM
  /\ CheckDiskIsExist(d)
  /\ LET i == IndexOf(d) - 1 IN
     /\ BdmGetBdmStatus(i) # "normal"
     /\ item[i] # NoDisk
     /\ used' = [used EXCEPT ![i] = TRUE]
     /\ item' = [item EXCEPT ![i].open = FALSE, ![i].allocator = "freed"]
     /\ admin' = [at |-> "reopen", id |-> i, dev |-> d]
     /\ late' = IF \E t \in Thread : io[t] # Idle /\ io[t].id = i THEN late \cup {i} ELSE late
  /\ UNCHANGED <<num, count, diskList, cm, io, broken, left>>

(* BdmReopenDisk and BdmDiskNewAllocator; either may fail, and a failure   *)
(* leaves the mark set.                                                    *)
BdmDiskReset ==
  /\ admin.at = "reopen"
  /\ LET i == admin.id IN
     \/ /\ admin.dev \notin broken
        /\ item' = [item EXCEPT ![i] = Created(admin.dev)]
        /\ admin' = [admin EXCEPT !.at = "normal"]
        /\ UNCHANGED left
     \/ /\ left.fail > 0
        /\ left' = [left EXCEPT !.fail = @ - 1]
        /\ \E opened \in BOOLEAN : item' = [item EXCEPT ![i].open = opened]
        /\ admin' = Idle
  /\ UNCHANGED <<used, num, count, diskList, cm, io, broken, late>>

\* mutant: the number of normal disks is not raised for a repaired disk
CmAddOldDiskUncounted ==
  /\ admin.at = "normal"
  /\ LET i == admin.id IN
     IF cm[i] = "normal" THEN UNCHANGED <<num, cm, left>>
     ELSE /\ num' = num
          /\ \/ cm' = [cm EXCEPT ![i] = "normal"] /\ UNCHANGED left
             \/ left.cm > 0 /\ left' = [left EXCEPT !.cm = @ - 1] /\ UNCHANGED cm
  /\ admin' = Idle
  /\ UNCHANGED <<used, item, count, diskList, io, broken, late>>

(* CmAddNewDisk(diskId, NORMAL, false): ProcessDiskList counts the disk,   *)
(* then the record.                                                        *)
CmAddOldDisk ==
  /\ admin.at = "normal"
  /\ LET i == admin.id IN
     IF cm[i] = "normal" THEN UNCHANGED <<num, cm, left>>
     ELSE /\ num' = num + 1
          /\ \/ cm' = [cm EXCEPT ![i] = "normal"] /\ UNCHANGED left
             \/ left.cm > 0 /\ left' = [left EXCEPT !.cm = @ - 1] /\ UNCHANGED cm
  /\ admin' = Idle
  /\ UNCHANGED <<used, item, count, diskList, io, broken, late>>

(* AddNewDiskImpl: BdmUpdate creates the disk under the next id (a failed  *)
(* create gives the id back and changes nothing).                          *)
AddNewDiskImpl(d) ==
  /\ admin = Idle
  /\ num < DISK_DEV_NUM
  /\ ~CheckDiskIsExist(d)
  /\ count < DISK_MAX_SIZE
  /\ d \notin broken
  /\ used' = [used EXCEPT ![count] = TRUE]
  /\ item' = [item EXCEPT ![count] = Created(d)]
  /\ num' = num + 1
  /\ count' = count + 1
  /\ admin' = [at |-> "new", id |-> count, dev |-> d]
  /\ UNCHANGED <<diskList, cm, io, broken, left, late>>

(* CmAddNewDisk(diskId, NORMAL, true), then the configuration. *)
CmAddNewDisk ==
  /\ admin.at = "new"
  /\ \/ /\ cm' = [cm EXCEPT ![admin.id] = "normal"]
        /\ diskList' = Append(diskList, admin.dev)
        /\ UNCHANGED left
     \/ /\ left.cm > 0
        /\ left' = [left EXCEPT !.cm = @ - 1]
        /\ UNCHANGED <<cm, diskList>>
  /\ admin' = Idle
  /\ UNCHANGED <<used, item, num, count, io, broken, late>>

Next ==
  \/ \E d \in Device : Breaks(d) \/ IsReplaced(d) \/ AddDiskImpl(d) \/ AddNewDiskImpl(d)
  \/ \E t \in Thread :
       \/ \E i \in Id : BdmRead(t, i)
       \/ Transfer(t) \/ CmReportDiskStatus(t) \/ SetUnused(t)
  \/ BdmDiskReset \/ CmAddOldDisk \/ CmAddNewDisk

Spec == Init /\ [][Next]_vars

-----------------------------------------------------------------------------
Quiet == admin = Idle /\ \A t \in Thread : io[t] = Idle
AllRecorded == left.cm = MaxCmFail

(* As long as no record of the cluster manager fails, whenever no          *)
(* operation is under way: a disk the cluster takes for normal is in use   *)
(* and has an open device and an allocator, unless a transfer overlapped   *)
(* its repair; the number of normal disks is the number the cluster        *)
(* counts; and no device is open under two ids (BdmDiskInnerReadWrite,     *)
(* BioDiskReset, AddDiskImpl, CM_SetDiskStatus and ProcessDiskList).       *)
CmSeesTheDisks ==
  Quiet /\ AllRecorded =>
    /\ \A i \in Id \ late : cm[i] = "normal" => used[i] /\ item[i] = Created(item[i].dev)
    /\ num = Cardinality({i \in Id : cm[i] = "normal"})
    /\ \A i, j \in Id : i # j /\ item[i].open /\ item[j].open => item[i].dev # item[j].dev

=============================================================================
