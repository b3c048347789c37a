------------------------------- MODULE MCFlow -------------------------------
(* Flow for TLC: a flow in memory, given by the constants of this module, and  *)
(* a flow on disk, which preloads ahead of its writers, is truncated by both   *)
(* callers and meets a crash of the process.                                   *)
EXTENDS Flow, TLC

VARIABLE part

Disk == INSTANCE Flow WITH PreLoadSize <- 2, MaxOffset <- 2,
                           MaxLen <- 2, SubmitMayFail <- FALSE, Crashes <- 1

mcvars == <<vars, part>>

ChunkSymmetry == Permutations(ChunkIds)

MCInit == Init /\ part \in {"memory", "disk"}
MCNext ==
    /\ UNCHANGED part
    /\ \/ part = "memory" /\ Next
       \/ part = "disk" /\ Disk!Next
MCSpec == MCInit /\ [][MCNext]_mcvars
=============================================================================
