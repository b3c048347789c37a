------------------------------- MODULE PtCalc -------------------------------
(***************************************************************************)
(* The calculator of BoostIO's partition table: the pure functions the     *)
(* cluster manager's master applies to the table when a node goes down or  *)
(* comes back, when a copy finishes its recovery, and when the table is    *)
(* built or rebalanced (cm_pt_calc_fixed.c, cm_pt_calc_fixed_state.c).     *)
(***************************************************************************)
EXTENDS PtTable

-----------------------------------------------------------------------------
(* Node states.  st[n] is the node's record of the state list: the node's  *)
(* state, its cluster state and the cluster state of its disk; info[n] is  *)
(* the state of its disk as the node itself reports it.                    *)

ViewCalcCheckNodeIsNormal(info, st, n) ==
    /\ n # NODE_ID_INVALID
    /\ st[n].state = "UP" /\ st[n].cluster = "IN"
    /\ info[n] = "NORMAL" /\ st[n].disk = "IN"

ViewCalcCheckNodeIsFault(st, n) ==
    \/ n = NODE_ID_INVALID
    \/ st[n].cluster = "OUT"
    \/ st[n].disk = "OUT"

ViewCalcNormNodeNum(info, st) ==
    Cardinality({n \in Node : ViewCalcCheckNodeIsNormal(info, st, n)})

-----------------------------------------------------------------------------
(* The busy list: the normal nodes in the order in which they are offered  *)
(* new copies, the least loaded first.                                     *)

ViewCalcBuildBusyList(info, st) ==
    LET ids == SelectSeq([i \in 1 .. NodeNum |-> i - 1],
                         LAMBDA n : ViewCalcCheckNodeIsNormal(info, st, n))
    IN  [i \in DOMAIN ids |-> [node |-> ids[i], refer |-> 0]]

\* Changes the load of node n by d and moves it behind its equals; a node that is
\* not in the list leaves it alone (the code logs "Impossible.").
ViewCalcFillUpdateBusyList(busy, n, d) ==
    LET at == SelectInSeq(busy, LAMBDA b : b.node = n)
        new == [node |-> n, refer |-> busy[at].refer + d]
        rest == RemoveAt(busy, at)
        before == SelectInSeq(rest, LAMBDA b : b.refer > new.refer)
    IN  IF at = 0 THEN busy
        ELSE IF before = 0 THEN Append(rest, new) ELSE InsertAt(rest, before, new)

ViewCalcFillBusyList(busy, i, info, st, entries) ==
    FoldLeft(LAMBDA b, e :
                 LET n == e.copies[SlotIndex(e, i)].node
                 IN  IF ViewCalcCheckNodeIsNormal(info, st, n)
                     THEN ViewCalcFillUpdateBusyList(b, n, 1) ELSE b,
             busy, entries)

ViewCalcResetBusyList(busy) ==
    LET zero == [i \in DOMAIN busy |-> [busy[i] EXCEPT !.refer = 0]]
    IN  Append(Tail(zero), Head(zero))

-----------------------------------------------------------------------------
(* State of an entry.                                                      *)

\* The master stays while its copy is RUNNING, otherwise the first RUNNING copy takes
\* over; the entry's state follows from the number of RUNNING copies.
ViewPtEntryUpdatePtState(e) ==
    LET running == InState(e, "RUNNING")
        num == Cardinality(running)
        stays == \E i \in running : e.copies[i].node = e.master
        first == CHOOSE i \in running : \A j \in running : i <= j
    IN  [e EXCEPT !.master = IF running = {} \/ stays THEN @ ELSE e.copies[first].node,
                  !.state = CASE num < MinCopyNum -> "FAULT"
                              [] num >= MinCopyNum /\ num = CopyNum -> "NORMAL"
                              [] num >= MinCopyNum /\ num + 1 = CopyNum -> "LOSS1"
                              [] num >= MinCopyNum /\ num + 2 = CopyNum -> "LOSS2"
                              [] OTHER -> "FAULT"]

SetKeepAlive(e, v) ==
    [e EXCEPT !.copies = [i \in Slots |->
        IF i \in InState(e, "RUNNING") THEN [@[i] EXCEPT !.keepAlive = v] ELSE @[i]]]

\* keepAlive marks the copies that are the last ones to hold all the data.
ViewPtUpdateCopyKeepAlive(e) ==
    IF RunningNum(e) < MinCopyNum THEN e
    ELSE SetKeepAlive(e, RunningNum(e) = MinCopyNum)

SetCopyState(e, i, s) == [e EXCEPT !.copies[i].state = s]

\* Changes the first copy of e on node n whose state is in S, as f says.
ChangeCopy(e, n, S, f(_, _)) ==
    LET at == {i \in Used(e) : e.copies[i].node = n /\ e.copies[i].state \in S}
    IN  IF at = {} THEN e ELSE f(e, CHOOSE i \in at : \A j \in at : i <= j)

CopyDown(e, i) ==
    IF e.copies[i].state = "RECOVERY" THEN SetCopyState(e, i, "DOWN")
    ELSE ViewPtEntryUpdatePtState(ViewPtUpdateCopyKeepAlive(SetCopyState(e, i, "DOWN")))

\* mutant: without enough RUNNING copies any copy becomes RUNNING
ViewPtUpdateCopyStateAny(e, i) ==
    IF RunningNum(e) < MinCopyNum
    THEN SetKeepAlive(SetCopyState(e, i, "RUNNING"), TRUE) ELSE SetCopyState(e, i, "RECOVERY")

\* A copy that comes back recovers from the RUNNING ones; without enough of them the
\* last holder of the data becomes RUNNING at once.
ViewPtUpdateCopyState(e, i) ==
    SetCopyState(e, i, IF RunningNum(e) < MinCopyNum /\ e.copies[i].keepAlive
                       THEN "RUNNING" ELSE "RECOVERY")

CopyUp(e, i) == ViewPtEntryUpdatePtState(ViewPtUpdateCopyState(e, i))

ViewPtEntryListUpdateNodeDown(pt, n) ==
    [pt EXCEPT !.entries = [p \in DOMAIN @ |->
        ChangeCopy(@[p], n, {"RUNNING", "RECOVERY"}, CopyDown)]]

\* With the disk at fault the copies go down as if the node had.
ViewPtEntryListUpdateNodeUp(pt, n, info) ==
    IF info[n] = "FAULT" THEN ViewPtEntryListUpdateNodeDown(pt, n)
    ELSE [pt EXCEPT !.entries = [p \in DOMAIN @ |-> ChangeCopy(@[p], n, {"DOWN"}, CopyUp)]]

-----------------------------------------------------------------------------
(* Recovery finished.                                                      *)

GenMasterList(pt) ==
    [n \in Node |-> Cardinality({p \in DOMAIN pt.entries : pt.entries[p].master = n})]

Satisfied(e) == RunningNum(e) >= MinCopyNum

\* With all copies RUNNING the extensions move into their main slots, and node n may
\* take the mastership over from a node that has more than its share.
ViewPtEntryTrim(e, masters, n, validNum) ==
    LET folded == [i \in Slots |->
            IF i <= CopyNum
            THEN IF e.copies[i].state # "RUNNING" /\ e.copies[i + CopyNum].state = "RUNNING"
                 THEN e.copies[i + CopyNum] ELSE e.copies[i]
            ELSE IF e.copies[i - CopyNum].state # "RUNNING" /\ e.copies[i].state = "RUNNING"
                 THEN NoCopy("OUT") ELSE e.copies[i]]
        t == [e EXCEPT !.copies = folded, !.state = "NORMAL", !.copyNum = CopyNum]
        share == PtNum \div validNum
        takes == /\ validNum # 0
                 /\ \E i \in 1 .. CopyNum : folded[i].node = n
                 /\ masters[n] < share /\ masters[e.master] > share
    IN  [entry |-> IF takes THEN [t EXCEPT !.master = n] ELSE t,
         masters |-> IF takes THEN [masters EXCEPT ![e.master] = @ - 1, ![n] = @ + 1]
                              ELSE masters]

\* One pair of partition and birth version reported as recovered by node n.  The
\* report of an older birth of the entry is ignored.
FinishEntry(acc, done, n, validNum) ==
    LET e == acc.entries[done.pt]
        at == {i \in InState(e, "RECOVERY") : e.copies[i].node = n}
        i == CHOOSE k \in at : \A j \in at : k <= j
        up == ViewPtUpdateCopyKeepAlive(SetCopyState(e, i, "RUNNING"))
        trim == ViewPtEntryTrim(up, acc.masters, n, validNum)
    IN  IF done.birth # e.birth \/ ~Satisfied(e) \/ at = {} THEN acc
        ELSE IF RunningNum(up) = CopyNum
             THEN [entries |-> [acc.entries EXCEPT ![done.pt] = trim.entry],
                   masters |-> trim.masters]
             ELSE [acc EXCEPT !.entries[done.pt] = ViewPtEntryUpdatePtState(up)]

ViewPtEntryListUpdateNodeFinish(pt, n, list, validNum) ==
    LET acc == FoldLeft(LAMBDA a, done : FinishEntry(a, done, n, validNum),
                        [entries |-> pt.entries, masters |-> GenMasterList(pt)],
                        SelectSeq(list, LAMBDA done : done.pt \in DOMAIN pt.entries))
    IN  [pt EXCEPT !.entries = acc.entries]

-----------------------------------------------------------------------------
(* Building and rebalancing the table.  The accumulator w of these folds   *)
(* is the work in progress: entries, busy list, and ok, FALSE once the     *)
(* code has returned CM_ERR.                                               *)

\* mutant: a copy that is recovering does not count
HeldByRunning(e) == {e.copies[j].node : j \in InState(e, "RUNNING")}

\* The nodes with a live copy.
HeldBy(e) == {e.copies[j].node : j \in {k \in Used(e) : Live(e.copies[k])}}

\* Gives slot i of partition p to the first node of the busy list that holds no live
\* copy of p: at once while the table is being built, by a recovery afterwards.
ViewCalcBuildPtEntry(w, i, p) ==
    LET e == w.entries[p]
        at == SelectInSeq(w.busy, LAMBDA b : b.node \notin HeldBy(e))
        n == w.busy[at].node
        new == IF e.copies[i].state = "INIT"
               THEN [e EXCEPT !.copies[i].node = n, !.copies[i].state = "RUNNING"]
               ELSE [e EXCEPT !.copies[i + CopyNum].node = n,
                              !.copies[i + CopyNum].state = "RECOVERY",
                              !.copyNum = 2 * CopyNum]
    IN  IF at = 0 THEN [w EXCEPT !.ok = FALSE]
        ELSE [w EXCEPT !.entries[p] = new,
                       !.busy = ViewCalcFillUpdateBusyList(@, n, 1)]

\* mutant: the master's copy may move too
ViewCalcBuildPreCheckMaster(e, i, gv) ==
    /\ e.birth # gv
    /\ e.state \in {"NORMAL", "LOSS1"}
    /\ e.copies[SlotIndex(e, i)].node # NODE_ID_INVALID

\* May slot i of an entry be moved to a less loaded node?
ViewCalcBuildPreCheck(e, i, gv) ==
    /\ e.birth # gv
    /\ e.state \in {"NORMAL", "LOSS1"}
    /\ e.copies[SlotIndex(e, i)].node \notin {e.master, NODE_ID_INVALID}

\* Slot i of partition p moves to node "to", which recovers it.
MoveCopy(w, i, p, gv, to) ==
    LET e == w.entries[p]
        moved == [e EXCEPT !.copies[i].node = NODE_ID_INVALID, !.copies[i].state = "OUT",
                           !.copies[i + CopyNum].node = to,
                           !.copies[i + CopyNum].state = "RECOVERY",
                           !.copyNum = 2 * CopyNum, !.birth = gv]
        less == ViewCalcFillUpdateBusyList(w.busy, e.copies[SlotIndex(e, i)].node, -1)
    IN  [w EXCEPT !.entries[p] = IF CopyNum = MinCopyNum + 1
                                 THEN SetKeepAlive(moved, TRUE) ELSE moved,
                  !.busy = ViewCalcFillUpdateBusyList(less, to, 1)]

\* Moves slot i of partition p to a node with at least two copies less, if its own
\* node (or, when that is not in the busy list, the most loaded one) has such a peer.
ViewCalcBuildPtEntry1(w, i, p, gv) ==
    LET e == w.entries[p]
        busy == w.busy
        own == SelectInSeq(busy, LAMBDA b : b.node = e.copies[SlotIndex(e, i)].node)
        start == IF own = 0 THEN Len(busy) ELSE own
        free(k) == \A j \in Used(e) : e.copies[j].node # busy[k].node
        at == {k \in 1 .. start - 1 :
                 free(k) /\ \A j \in 1 .. k : busy[j].refer + 1 < busy[start].refer}
    IN  IF \/ Last(busy).refer <= busy[1].refer + 1
           \/ ~ViewCalcBuildPreCheck(e, i, gv)
           \/ at = {}
        THEN w ELSE MoveCopy(w, i, p, gv, busy[Min(at)].node)

\* The table of version gv that the work w has come to, its entries completed by f.
Calculated(w, gv, f(_)) ==
    [ok |-> w.ok,
     pt |-> [gv |-> gv, entries |-> [p \in DOMAIN w.entries |->
                IF w.ok THEN f(w.entries[p]) ELSE w.entries[p]]]]

\* Slot by slot, each partition gets a copy on the next node without one.
ViewCalcBuildPtEntryList(w) ==
    FoldLeft(LAMBDA v, i : [FoldLeft(LAMBDA u, p : IF u.ok THEN ViewCalcBuildPtEntry(u, i, p) ELSE u,
                                     v, Ascending(PtNum))
                            EXCEPT !.busy = ViewCalcResetBusyList(@)],
             w, Ascending(CopyNum))

ViewCalculatorInitial(pt, info, st) ==
    LET gv == pt.gv + 1
        blank == [state |-> "INIT", birth |-> gv, master |-> NODE_ID_INVALID,
                  copyNum |-> CopyNum, copies |-> [i \in Slots |-> NoCopy("INIT")]]
        built == ViewCalcBuildPtEntryList([entries |-> [p \in 1 .. PtNum |-> blank], ok |-> TRUE,
                                           busy |-> ViewCalcBuildBusyList(info, st)])
    IN  Calculated(built, gv, ViewPtEntryUpdatePtState)

\* Drops the copies that are on nodes or disks out of the cluster.
ViewCalcInitPtEntryList1(e, st, gv) ==
    LET fault == {j \in {SlotIndex(e, i) : i \in 1 .. CopyNum} :
                    ViewCalcCheckNodeIsFault(st, e.copies[j].node)}
    IN  IF fault = {} THEN e
        ELSE [e EXCEPT !.birth = gv,
                       !.copies = [j \in Slots |-> IF j \in fault THEN NoCopy("OUT") ELSE @[j]]]

\* Too many copies lost: the first copies at hand are declared complete.
ViewCalcUpdatePtEntryList11(e) ==
    LET have == Cardinality({i \in 1 .. CopyNum :
                                Holds(e.copies[i]) \/ Holds(e.copies[i + CopyNum])})
        declare(a, i) ==
            LET c == a.e.copies[i]
            IN  IF a.left = 0 \/ Holds(c) \/ c.state \notin {"RECOVERY", "DOWN"} THEN a
                ELSE [left |-> a.left - 1,
                      e |-> [a.e EXCEPT !.copies[i].keepAlive = TRUE,
                                        !.copies[i].state = IF @ = "RECOVERY" THEN "RUNNING" ELSE @]]
    IN  IF have >= MinCopyNum THEN e
        ELSE FoldLeft(declare, [e |-> e, left |-> MinCopyNum - have], Ascending(e.copyNum)).e

\* Slot by slot, the copies that are missing are placed, then some are moved to the less
\* loaded nodes.
ViewCalcBuildPtEntryList1(work, info, st, gv) ==
    LET slot(w, i) ==
            LET loaded == [w EXCEPT !.busy = ViewCalcFillBusyList(@, i, info, st, w.entries)]
                fill(v, p) == IF v.ok /\ ~Live(v.entries[p].copies[SlotIndex(v.entries[p], i)])
                              THEN ViewCalcBuildPtEntry(v, i, p) ELSE v
                move(v, p) == IF v.ok THEN ViewCalcBuildPtEntry1(v, i, p, gv) ELSE v
                moved == FoldLeft(move, FoldLeft(fill, loaded, Ascending(PtNum)), Ascending(PtNum))
            IN  IF w.ok THEN [moved EXCEPT !.busy = ViewCalcResetBusyList(@)] ELSE w
    IN  FoldLeft(slot, work, Ascending(CopyNum))

\* event is the node event that caused the rebalance, "NONE" without one.
ViewCalculatorRebalance(pt, info, st, event) ==
    LET gv == pt.gv + 1
        built == ViewCalcBuildPtEntryList1(
                     [entries |-> [p \in DOMAIN pt.entries |->
                                     ViewCalcInitPtEntryList1(pt.entries[p], st, gv)],
                      ok |-> TRUE, busy |-> ViewCalcBuildBusyList(info, st)], info, st, gv)
        bypass(e) == IF event = "ADD_DISK" /\ e.state = "LOSS1"
                     THEN [e EXCEPT !.state = "LOSS1_BYPASS"] ELSE e
    IN  Calculated(built, gv, LAMBDA e : bypass(
            ViewPtEntryUpdatePtState(ViewCalcUpdatePtEntryList11(e))))

ViewCalculatorNeedRebalance(pt, info, st) ==
    LET placed == {pt.entries[p].copies[SlotIndex(pt.entries[p], i)].node :
                     p \in DOMAIN pt.entries, i \in 1 .. CopyNum}
        idle == {n \in Node : ViewCalcCheckNodeIsNormal(info, st, n)} \ placed
    IN  /\ pt.entries # << >>
        /\ ViewCalcNormNodeNum(info, st) >= CopyNum
        /\ \/ \E n \in placed : ViewCalcCheckNodeIsFault(st, n)
           \/ idle # {} /\ \E p \in DOMAIN pt.entries : pt.entries[p].state = "NORMAL"
=============================================================================
