---------------------------- MODULE BioCmSession ----------------------------
(* The sessions of BoostIO: node ids come from ZooKeeper's sequence numbers.   *)
EXTENDS Naturals, Sequences, FiniteSets

CONSTANTS Proc, MaxNodeNum, Starts
VARIABLES pool, ids, seq, nodeZ, metaZ, masterZ, list, live, proc, left

(* mutant: the id is the number of addresses recorded so far                   *)
GenNodeIdByCount(p, known, next) ==
  LET used == {q \in Proc : known[q] # MaxNodeNum + 10} IN
  IF p \in used THEN [ok |-> TRUE, id |-> known[p], seq |-> next]
  ELSE [ok |-> TRUE, id |-> Cardinality(used), seq |-> next]

(* The id recorded for the address, else that of a new sequence znode.         *)
GenNodeId(p, known, next) ==
  IF known[p] # MaxNodeNum + 10 THEN [ok |-> TRUE, id |-> known[p], seq |-> next]
  ELSE [ok |-> TRUE, id |-> next, seq |-> next + 1]

S == INSTANCE CmSession

Init == S!Init
Next == S!Next
=============================================================================
