---------------------------- MODULE MCMmsStore ----------------------------
EXTENDS MmsStore

Scenario(nodes, away, stored, mc, inputs, ops, crash, brk, lose, nomem) ==
  [nodes |-> nodes, away |-> away, back |-> {}, stored |-> stored, multicast |-> mc, inputs |-> inputs, ops |-> ops, crash |-> crash, break |-> brk,
   lose |-> lose, nomem |-> nomem]

Back(s) == [s EXCEPT !.back = s.away, !.away = {}]

In(kind, data, offset) == [kind |-> kind, data |-> data, offset |-> offset]
PutBB == In("put", <<"b", "b">>, 0)
UpdC == In("update", <<"c">>, 1)
RepD == In("replace", <<"d">>, 0)
Del == In("delete", <<>>, 0)

MCHome == [k \in Key |-> 0]
Two == {0, 1}
Three == {0, 1, 2}

(* Requests with lost messages and empty allocators, unicast and multicast; a copy that crashes and
   returns; the home node that crashes and returns; a copy that returns and subscribes; the source
   that crashes while it is copied; three nodes; a recovery with lost messages. *)
MCScenarios == {
  Scenario(Two, {}, {1}, FALSE, {PutBB, UpdC, Del}, 2, <<>>, 0, 1, 1),
  Scenario(Two, {}, {1}, TRUE, {PutBB, UpdC, RepD, Del}, 2, <<>>, 1, 1, 1),
  Scenario(Two, {}, {1}, FALSE, {PutBB, UpdC, Del}, 1, <<1>>, 0, 0, 0),
  Scenario(Two, {}, {1}, FALSE, {PutBB, UpdC, Del}, 1, <<0>>, 0, 0, 0),
  Scenario(Two, {1}, {1}, TRUE, {PutBB, UpdC, Del}, 1, <<>>, 0, 0, 0),
  Scenario(Two, {1}, {1}, FALSE, {}, 0, <<0>>, 0, 0, 0),
  Scenario(Three, {1}, {1}, FALSE, {}, 0, <<>>, 0, 0, 0),
  Scenario(Two, {1}, {1, 2}, FALSE, {}, 0, <<>>, 0, 1, 0)}

(* Once nothing is in flight or lost, a copy the cluster counts as running and a node that serves
   have, for every key not written while they were away, a value an acknowledged client may read; and
   a node that serves holds no tombstone (mms_kv_server.cpp, mms_crb_scheduler.cpp). *)
ServedIsRight == ServedIsAcked /\ NoTombstoneServed
===========================================================================
