------------------------------ MODULE MCStores ------------------------------
(* Allocators, tables and protocols that keep books, for TLC: the device        *)
(* allocator ("bdm"), the layout of a device ("layout"), the disks of a node    *)
(* ("disk"), MemStore's memory pools ("buddy", "fixed"), the eviction           *)
(* negotiation ("nego"), MemStore's sequence numbers ("seq") and configuration  *)
(* ("conf").  A part has its variables in v1, v2, ...                           *)
EXTENDS Integers, Sequences, SequencesExt, TLC

CONSTANTS o1, o2, u1, u2, n1, n2, n3
VARIABLES part, v1, v2, v3, v4, v5, v6, v7, v8, v9, v10, v11

slots == <<v1, v2, v3, v4, v5, v6, v7, v8, v9, v10, v11>>
vars == <<part, slots>>

\* Five chunks and two lists, so that the second mixes lengths; one crash.
Bdm == INSTANCE BdmAllocator WITH
         Owners <- {o1, o2}, ChunkNum <- 5, FreeListNum <- 2, LengthLimit <- 32, Requests <- {1, 3},
         Zeroed <- 2, Crashes <- 1,
         length <- v1, tree <- v2, free <- v3, disk <- v4, op <- v5, held <- v6, usedSize <- v7,
         fault <- v8, crashes <- v9

\* A chunk is twice the alignment, as 4 MiB is of 2 MiB.
Layout == INSTANCE BdmLayout WITH
         HeadSize <- 3, ElemSize <- 2, ChunkSize <- 32, AlignSize <- 16, MaxTotal <- 1200,
         totalSize <- v1, layout <- v2

\* Two configured disks and one that may be added.
Disk == INSTANCE BdmDisk WITH
         Device <- {"sda", "sdb", "sdc"}, Configured <- <<"sda", "sdb">>, Thread <- {"t1", "t2"},
         DISK_DEV_NUM <- 2, DISK_MAX_SIZE <- 4, MaxBreak <- 1, MaxFail <- 1, MaxCmFail <- 1,
         used <- v1, item <- v2, num <- v3, count <- v4, diskList <- v5, cm <- v6, io <- v7, admin <- v8,
         broken <- v9, late <- v10, left <- v11

\* Two nodes of unequal size, a cache that refills two blocks at a time.
Buddy == INSTANCE MmsAllocator WITH
         Thread <- {u1, u2}, Numa <- {0, 1}, Mode <- "buddy", UnitCount <- 0 :> 3 @@ 1 :> 1, Unit <- 3,
         Header <- 1, ClassSize <- <<2>>, ClassNum <- 2, CacheMaxOrder <- 0, Limit <- 2, Refill <- 2,
         Drain <- 1, SwitchThreshold <- 2, ReprobeInterval <- 2, Size <- {2, 3}, MaxHeld <- 2,
         free <- v1, cache <- v2, pref <- v3, held <- v4
Fixed == INSTANCE MmsAllocator WITH
         Thread <- {u1, u2}, Numa <- {0, 1}, Mode <- "fixed", UnitCount <- 0 :> 3 @@ 1 :> 1, Unit <- 3,
         Header <- 1, ClassSize <- <<2>>, ClassNum <- 2, CacheMaxOrder <- 0, Limit <- 2, Refill <- 1,
         Drain <- 1, SwitchThreshold <- 2, ReprobeInterval <- 2, Size <- {2, 6}, MaxHeld <- 2,
         free <- v1, cache <- v2, pref <- v3, held <- v4

\* Four slices in two arrays, batches of two, a counter that can wrap.
Nego == INSTANCE Negotiation WITH
         N <- 4, ArraySize <- 3, Limit <- 2, Invalid <- 3, Losses <- 1,
         arrays <- v1, refNum <- v2, waiting <- v3, queue <- v4, cur <- v5, call <- v6, requests <- v7,
         replies <- v8, busy <- v9, put <- v10, losses <- v11

\* A master and two replicas; seven numbers go around a queue of four.
Sequence == INSTANCE MmsSequence WITH
         Copy <- {n1, n2, n3}, Master <- n1, QueueLen <- 4, Span <- 2, MaxSeq <- 7,
         master <- v1, copies <- v2, cursor <- v3, finish <- v4, slot <- v5, negoSeqNo <- v6,
         commitSeqNo <- v7, requests <- v8, applied <- v9, conflict <- v10

\* Segments of two bits; numerals that start with a zero; a number that is in the
\* range of a port once it is cut to an int.
Numeral == [n \in {"-1", "0", "1", "2", "3", "4", "5", "6", "7", "8", "10", "16", "32", "40", "50", "64", "90",
                   "256", "4096", "5000", "7201", "40000", "72737"} |->
              CHOOSE k \in {-1, 0, 1, 2, 3, 4, 5, 6, 7, 8, 10, 16, 32, 40, 50, 64, 90, 256, 4096, 5000, 7201,
                            40000, 72737} : ToString(k) = n] @@ ("00" :> 0) @@ ("05" :> 5)

Separator == {".", ":", ",", "/", "~"}
Token == {"0", "1", "2", "5", "00", "05", "-1", "x"} \cup Separator
V(k) == [kind |-> k, empty |-> FALSE]
Ip == <<"1", ".", "0", ".", "3", ".", "2">>

\* A validator and a text it accepts
Samples ==
    {<<[V("range") EXCEPT !.empty = TRUE] @@ [lo |-> 1, hi |-> 5], <<"1", "~", "5">> >>,
     <<V("array") @@ [lo |-> 0, hi |-> 2, count |-> 3], <<"0", ",", "1", ",", "2">> >>,
     <<V("enum") @@ [enum |-> {"x", "1"}], <<"x">> >>,
     <<V("bool"), <<"true">> >>,
     <<V("ip"), Ip>>,
     <<[V("mask") EXCEPT !.empty = TRUE], Ip \o <<"/", "5">> >>,
     <<V("port"), Ip \o <<":", "2">> >>,
     <<V("ports"), Ip \o <<":", "1", ",">> \o Ip \o <<":", "2">> >>,
     <<V("permission") @@ [ordered |-> TRUE], <<"7", "5", "5">> >>,
     <<V("permission") @@ [ordered |-> FALSE], <<"4", "5", "0">> >>,
     <<V("ratio"), <<"5", ":", "5">> >>,
     <<V("ratio"), <<"10", ":", "0">> >>,
     <<V("pool"), <<"0", ":", "x", ",", "1", ":", "x">> >>}

\* A text with one token left out, replaced or put in, and such a text again when
\* it is short.  Two words side by side would be one.
Edits(t) ==
    {t} \cup {RemoveAt(t, i) : i \in DOMAIN t}
        \cup {ReplaceAt(t, p[1], p[2]) : p \in (DOMAIN t) \X Token}
        \cup {InsertAt(t, p[1], p[2]) : p \in (1 .. Len(t) + 1) \X Token}
Spelled(t) == \A i \in 1 .. Len(t) - 1 : t[i] \in Separator \/ t[i + 1] \in Separator
Texts(t) == IF Len(t) < 4 THEN UNION {Edits(e) : e \in Edits(t)} ELSE Edits(t)
Probes == UNION {{[v |-> s[1], t |-> t] : t \in {e \in Texts(s[2]) : s[1].kind = "permission" \/ Spelled(e)}} :
                   s \in Samples}

Line(k, t) == [key |-> k, text |-> t, comment |-> FALSE]
Lines(d) == <<Line("tls", <<"false">>), Line("disk", d)>>
Budget(c, f, a, b) == [crash |-> c, fail |-> f, add |-> a, broken |-> b]

\* A node with a disk to which two are added, over crashes and a failure; lists
\* that are empty, a comment or too long; and files with another value.
BioFiles ==
    {[lines |-> Lines(<<"sda">>), left |-> Budget(c, f, 2, b)] : c \in {2}, f \in 0 .. 1, b \in 0 .. 1}
    \cup {[lines |-> Lines(<<>>), left |-> Budget(1, 0, 1, 0)],
          [lines |-> <<[Line("disk", <<"sdb">>) EXCEPT !.comment = TRUE]>> \o Lines(<<"sda", ":">>),
           left |-> Budget(1, 0, 1, 0)],
          [lines |-> <<Line("tls", <<"false">>)>>, left |-> Budget(1, 0, 0, 0)]}
    \cup {[lines |-> Append(Lines(<<"sda">>), l), left |-> Budget(0, 0, 0, 0)] :
            l \in {Line("disk", <<"sda", ":", "sdb", ":", "sdc">>), Line("disk", <<"sdx">>),
                   Line("disk", <<"sda", ":", "link">>), Line("mem", <<"256">>), Line("mem", <<"5000">>),
                   Line("mem", <<"0">>), Line("mem", <<"x">>), Line("mem", <<"40000">>),
                   Line("mem", <<"-1">>), Line("copy_num", <<"3">>), Line("other", <<"1">>),
                   Line("ratio", <<"4", ":", "6", ":">>), Line("ratio", <<"4", ":", "5">>),
                   Line("pool", <<"1", ":", "x", ",", "1", ":", "y">>), Line("level", <<"loud">>),
                   Line("tls", <<"true">>), Line("cfg", <<"none">>)}
                  \cup {Line("ip_mask", Ip \o <<"/", w>>) : w \in {"0", "1", "2", "3", "4", "5", "6", "7", "8"}}}

\* One node, or three; and files with another value.
Single ==
    <<Line("tls", <<"false">>), Line("nodes", <<"1">>), Line("notify", <<"2", "-", "3">>)>>
Three ==
    <<Line("tls", <<"false">>), Line("notify", <<"2", "-", "3">>), Line("publisher", <<"0", "-", "1", ",", "3", "-", "3">>),
      Line("subscriber", <<"2", "-", "2">>), Line("crb", <<"1", "-", "2">>)>>
MmsFiles ==
    {Append(f, l) : f \in {Single, Three},
       l \in {Line("tls", <<"true">>), Line("mode", <<"converge">>), Line("mode", <<"x">>), Line("port", <<"72737">>),
              Line("depth", <<"5">>), Line("depth", <<"7">>), Line("depth", <<"x">>),
              Line("notify", <<"3", "-", "2">>), Line("notify", <<"3", "-", "4">>), Line("notify", <<"3">>),
              Line("notify", <<"-", "2">>), Line("notify", <<"00", "-", "3">>),
              Line("publisher", <<"0", "-", "3", ",", "1", "-", "2">>), Line("publisher", <<",">>),
              Line("publisher", <<"0", "-", "2", ",">>), Line("subscriber", <<"2", "-", "5">>),
              Line("subscriber", <<"2", "-", "3", "-">>), Line("crb", <<"0", "-", "5">>),
              Line("ip_mask", Ip \o <<"/", "6">>), Line("ip_mask", <<"3">>),
              Line("ipc", <<"1", ",", "1", ",", "1">>), Line("rpc", <<"1", ",", "1", ",", "1">>),
              Line("numa_id", <<"0">>), Line("numa_id", <<"0", ",", "2">>), Line("numa_id", <<"-1", ",", "1">>),
              Line("numa_id", <<"1", ",", "0", ",">>), Line("numa_id", <<"x", ",", "1">>),
              Line("numa_size", <<"0", ",", "5000">>), Line("numa_size", <<"0", ",", "4096">>)}}
    \cup {Three \o <<Line("depth", <<d>>), Line("workers", <<w>>)>> : d \in {"4", "8", "16"}, w \in {"0", "1", "2", "3"}}

Conf == INSTANCE Config WITH
         Canonical <- [p \in {"sda", "sdb", "sdc", "link", "ceph.conf"} |-> IF p = "link" THEN "sda" ELSE p],
         Addable <- {"link", "sdb", "sdc"}, IntMax <- 32767, OctetBits <- 2, PORT_MAX <- 4,
         Local <- << <<1, 0, 0, 2>>, <<1, 0, 3, 2>>, <<2, 1, 0, 0>> >>, SysFreeMem <- 64,
         DISK_DEV_NUM <- 2, DISK_MAX_SIZE <- 3, CpuNum <- 4, NumaNum <- 2, MinDepth <- 4, MaxWorkers <- 3,
         MAX_NUMAS_NUM <- 2, MAX_GROUPS_NUM <- 2, MAX_CPUS <- 4, NumaLimit <- 65536, Probe <- Probes,
         pc <- v1, file <- v2, arg <- v3, mem <- v4, bdm <- v5, acked <- v6, spoilt <- v7, probe <- v8,
         left <- v9

ASSUME Bdm!BdmConstants /\ Layout!LayoutConstants /\ Nego!NegotiationConstants /\ Sequence!SequenceConstants

Init ==
    \/ part = "bdm" /\ Bdm!Init /\ v10 = 0 /\ v11 = 0
    \/ part = "conf" /\ Conf!Init /\ v10 = 0 /\ v11 = 0
    \/ /\ part = "layout" /\ Layout!Init
       /\ v3 = 0 /\ v4 = 0 /\ v5 = 0 /\ v6 = 0 /\ v7 = 0 /\ v8 = 0 /\ v9 = 0 /\ v10 = 0 /\ v11 = 0
    \/ part = "disk" /\ Disk!Init
    \/ /\ \/ part = "buddy" /\ Buddy!Init
          \/ part = "fixed" /\ Fixed!Init
       /\ v5 = 0 /\ v6 = 0 /\ v7 = 0 /\ v8 = 0 /\ v9 = 0 /\ v10 = 0 /\ v11 = 0
    \/ part = "nego" /\ Nego!Init
    \/ part = "seq" /\ Sequence!Init /\ v11 = 0

Next ==
    /\ UNCHANGED part
    /\ \/ part = "bdm" /\ Bdm!Next /\ UNCHANGED <<v10, v11>>
       \/ part = "conf" /\ Conf!Next /\ UNCHANGED <<v10, v11>>
       \/ part = "layout" /\ Layout!Next /\ UNCHANGED <<v3, v4, v5, v6, v7, v8, v9, v10, v11>>
       \/ part = "disk" /\ Disk!Next
       \/ part = "buddy" /\ Buddy!Next /\ UNCHANGED <<v5, v6, v7, v8, v9, v10, v11>>
       \/ part = "fixed" /\ Fixed!Next /\ UNCHANGED <<v5, v6, v7, v8, v9, v10, v11>>
       \/ part = "nego" /\ Nego!Next
       \/ part = "seq" /\ Sequence!Next /\ UNCHANGED v11

Spec == Init /\ [][Next]_vars

\* Owners of device chunks are interchangeable, and threads that allocate.
Symmetry == Permutations({o1, o2}) \cup Permutations({u1, u2})
-----------------------------------------------------------------------------
\* The free areas and the allocated ones tile the data area of a device: no chunk
\* is handed out twice and none is lost to splitting and merging.  A free area is
\* on the list of its length, the capacity reported is what is allocated, and an
\* access is let through to every allocated chunk (bdm_allocator.c).
BdmConsistent ==
    part = "bdm" => Bdm!AreasTile /\ Bdm!ListsMatchTree /\ Bdm!UsedSizeExact /\ Bdm!CheckChunkExact

\* A restart after a crash at any point finds every chunk that was allocated, at
\* its owner and length, and no chunk that was not; only the operation cut short
\* may have happened or not.
RestartKeepsChunks == [][part = "bdm" => Bdm!RestartKeeps]_vars

\* The data area ends within the device, so that the chunk ids handed out are all
\* backed by it, and at most two chunks of the device are given up to metadata and
\* rounding (GetSplitSize, bdm_disk.c).
DataFits == part = "layout" => Layout!DataFits /\ Layout!LittleIsWasted

\* "Only the data area is used for chunk allocation": no metadata record lies
\* in it.
RecordsOutsideData == part = "layout" => Layout!RecordsOutsideData

\* As long as no record of the cluster manager fails, whenever no operation is
\* under way: a disk the cluster takes for normal is in use, the number of normal
\* disks is the number the cluster counts, and no device is open under two ids.
CmSeesTheDisks == part = "disk" => Disk!CmSeesTheDisks

\* Every cell of MemStore's memory belongs to exactly one block, free, cached by
\* one thread or held by one caller, and no two buddies are free side by side.
PoolsConsistent ==
    /\ part = "buddy" => Buddy!BlocksDisjoint /\ Buddy!FreeCoalesced
    /\ part = "fixed" => Fixed!BlocksDisjoint /\ Fixed!FreeCoalesced

\* The replica releases a slice for eviction only after MasterEvictNegotiate has
\* released it on the master, and neither before the put has reached both, also
\* when calls fail and are repeated; a slice waits or was released, never both.
\* Under the first master of a partition of MemStore no copy refuses a sequence
\* number, and a request that some copy has and another has not is kept by every
\* copy that has it (mms_sequence.cpp).
CopiesAgree ==
    /\ part = "nego" => Nego!ReplicaAfterMaster /\ Nego!BothHave /\ Nego!WaitsOrReleased
    /\ part = "seq" => Sequence!NoSeqConflict /\ Sequence!PartialIsKept

\* A value passes its validator exactly when it has the form asked for, and what a
\* server takes from a file it accepts can be used: shares, memory, devices, the
\* address, queues, cpus and NUMA nodes (bio_config_validator.h,
\* bio_config_instance.cpp, mms_config_instance.cpp).
ConfigurationRight == part = "conf" => Conf!Judged /\ Conf!BioFits /\ Conf!MmsFits

\* A node to which disks are added finds them again after crashes between any two
\* steps on its configuration files, under the ids the cluster knows.
DisksKept == part = "conf" => Conf!DisksKept

=============================================================================
