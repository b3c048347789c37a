------------------------------ MODULE MmsPtCalc ------------------------------
(***************************************************************************)
(* The calculator of MemStore's partition table (cm_pt_calc_fixed.c and    *)
(* cm_pt_calc_fixed_state.c of ubsio-memstore).  Every node has a copy of  *)
(* every partition, NodeNum = CopyNum, and the memory of a node is its one *)
(* disk.  The code that places copies is BoostIO's; what differs is that   *)
(* any copy may run again when none does, that every change of a copy      *)
(* gives the partition a new birth version, and that the first RUNNING     *)
(* copy is made master when a recovery ends.                               *)
(***************************************************************************)
EXTENDS PtTable

Fixed == INSTANCE PtCalc

ViewCalcCheckNodeIsNormal(info, st, n) == Fixed!ViewCalcCheckNodeIsNormal(info, st, n)
ViewCalcCheckNodeIsFault(st, n) == Fixed!ViewCalcCheckNodeIsFault(st, n)
ViewCalcNormNodeNum(info, st) ==
    Cardinality({n \in Node : ViewCalcCheckNodeIsNormal(info, st, n)})

ViewCalcBuildBusyList(info, st) == Fixed!ViewCalcBuildBusyList(info, st)
ViewCalcResetBusyList(busy) == Fixed!ViewCalcResetBusyList(busy)
ViewCalcBuildPtEntry(w, i, p) == Fixed!ViewCalcBuildPtEntry(w, i, p)
ViewPtEntryUpdatePtState(e) == Fixed!ViewPtEntryUpdatePtState(e)

\* Slot by slot, each partition gets a copy on the next node without one.
ViewCalcBuildPtEntryList(w) ==
    FoldLeft(LAMBDA v, i : [FoldLeft(LAMBDA u, p : IF u.ok THEN ViewCalcBuildPtEntry(u, i, p) ELSE u,
                                     v, Ascending(PtNum))
                            EXCEPT !.busy = ViewCalcResetBusyList(@)],
             w, Ascending(CopyNum))

ViewCalculatorInitial(pt, info, st) ==
    LET blank == [state |-> "INIT", birth |-> pt.gv + 1, master |-> NODE_ID_INVALID,
                  copyNum |-> CopyNum, copies |-> [i \in Slots |-> NoCopy("INIT")]]
        built == ViewCalcBuildPtEntryList(
                     [entries |-> [p \in 1 .. PtNum |-> blank], ok |-> TRUE,
                      busy |-> ViewCalcBuildBusyList(info, st)])
    IN  [ok |-> built.ok,
         pt |-> [gv |-> pt.gv + 1, entries |->
                    [p \in 1 .. PtNum |-> ViewPtEntryUpdatePtState(built.entries[p])]]]

\* A copy on a node that has left the cluster asks for a rebalance; no normal node is
\* without a copy.
ViewCalculatorNeedRebalance(pt, info, st) ==
    /\ pt.entries # << >>
    /\ ViewCalcNormNodeNum(info, st) >= 1
    /\ \E p \in DOMAIN pt.entries, i \in 1 .. CopyNum :
         ViewCalcCheckNodeIsFault(st, pt.entries[p].copies[i].node)

\* The rebalance needs as many normal nodes as copies.  All nodes have copies, so one of
\* them is not normal whenever a rebalance is needed.
ViewCalculatorRebalance(pt, info, st, event) ==
    [ok |-> ViewCalcNormNodeNum(info, st) >= CopyNum, pt |-> pt]

-----------------------------------------------------------------------------
(* State of the copies.                                                    *)

\* mutant: the birth version stays
SetCopyStateOnly(e, i, s) == [e EXCEPT !.copies[i].state = s]

\* Copy i takes the state s, and the partition a new birth version.
SetCopyState(e, i, s) == [e EXCEPT !.copies[i].state = s, !.birth = @ + 1]

\* Copy i comes back: it recovers while any copy runs, and runs at once otherwise.
ViewPtUpdateCopyState(e, i) ==
    SetCopyState(e, i, IF RunningNum(e) >= 1 THEN "RECOVERY" ELSE "RUNNING")

\* The copies of node n in one of the states S change as f says.
UpdateNode(pt, n, S, f(_, _)) ==
    [pt EXCEPT !.entries = [p \in DOMAIN @ |->
        LET at == {i \in Used(@[p]) : @[p].copies[i].node = n /\ @[p].copies[i].state \in S}
        IN  IF at = {} THEN @[p] ELSE f(@[p], CHOOSE i \in at : \A j \in at : i <= j)]]

ViewPtEntryListUpdateNodeDown(pt, n) ==
    LET down(e, i) == IF e.copies[i].state = "RECOVERY" THEN SetCopyState(e, i, "DOWN")
                      ELSE ViewPtEntryUpdatePtState(SetCopyState(e, i, "DOWN"))
    IN  UpdateNode(pt, n, {"RUNNING", "RECOVERY"}, down)

ViewPtEntryListUpdateNodeUp(pt, n, info) ==
    LET back(e, i) == ViewPtEntryUpdatePtState(ViewPtUpdateCopyState(e, i))
    IN  IF info[n] = "FAULT" THEN ViewPtEntryListUpdateNodeDown(pt, n)
        ELSE UpdateNode(pt, n, {"DOWN"}, back)

\* The end of a recovery: the state as for any change, the first RUNNING copy is master.
ViewPtUpdateCopyState1(e) ==
    LET running == InState(e, "RUNNING")
    IN  [ViewPtEntryUpdatePtState(e) EXCEPT
            !.master = e.copies[CHOOSE i \in running : \A j \in running : i <= j].node]

\* A report of another birth of the partition is ignored.
ViewPtEntryListUpdateNodeFinish(pt, n, list, validNum) ==
    LET at(e) == {i \in InState(e, "RECOVERY") : e.copies[i].node = n}
        one(entries, done) ==
            IF \/ done.pt \notin DOMAIN entries \/ entries[done.pt].birth # done.birth
               \/ at(entries[done.pt]) = {}
            THEN entries
            ELSE [entries EXCEPT ![done.pt] = ViewPtUpdateCopyState1(
                     [@ EXCEPT !.copies[CHOOSE i \in at(@) : TRUE].state = "RUNNING"])]
    IN  [pt EXCEPT !.entries = FoldLeft(one, @, list)]
=============================================================================
