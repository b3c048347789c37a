----------------------------- MODULE MCMirrorIo -----------------------------
(***************************************************************************)
(* Small instances of MirrorIo.  Node "a" is the first master.             *)
(***************************************************************************)
EXTENDS MirrorIo

Op(o, k) == <<[op |-> o, key |-> k]>>
Scenario(h1, h2, p1, p2, n, c, l, p, d) ==
    [master |-> "a", back |-> {}, home |-> [t1 |-> h1, t2 |-> h2], todo |-> [t1 |-> p1, t2 |-> p2],
     tries |-> n, crash |-> c, loss |-> l, pressure |-> p, disk |-> d]
\* Node "a" has just come back, and "b" is the master.
Back(s) == [s EXCEPT !.master = "b", !.back = {"a"}]
WholeLife == Op("put", "k") \o Op("delete", "k") \o Op("get", "k")

\* A node crashes and is back during the life of an object, or during a put that is
\* tried again; a reader on the other node has an old view meanwhile; a disk is added
\* while a copy is rebuilt; replies are lost; two threads share a flow; the replica's disk
\* is full.
Mixed == {
    Scenario("b", "b", WholeLife, << >>, 1, 1, 0, FALSE, 0),
    Scenario("b", "b", Op("put", "k") \o Op("get", "k"), << >>, 2, 1, 0, FALSE, 0),
    Back(Scenario("b", "b", Op("put", "k") \o Op("get", "k"), << >>, 2, 0, 0, FALSE, 1)),
    Scenario("a", "b", Op("put", "k"), Op("get", "k"), 1, 1, 0, FALSE, 0),
    Scenario("b", "b", WholeLife, << >>, 2, 0, 1, FALSE, 0),
    Scenario("b", "b", Op("put", "k"), Op("put", "j"), 1, 0, 1, FALSE, 0),
    Scenario("b", "b", Op("put", "k"), Op("put", "j"), 2, 0, 0, FALSE, 0),
    Scenario("b", "b", Op("put", "k") \o Op("get", "k"), << >>, 1, 1, 0, TRUE, 0)}

\* A put fails after another was acknowledged in the same flow; the replica's disk is
\* full; one node crashes.
FullReplica == {Scenario("b", "b", Op("put", "k") \o Op("put", "j"), << >>, 1, 1, 1, TRUE, 0)}
=============================================================================
