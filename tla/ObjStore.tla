------------------------------ MODULE ObjStore ------------------------------
(***************************************************************************)
(* What the mirrored cache promises to the threads of its clients, whatever *)
(* nodes, flows and tiers it is made of: an object whose put was           *)
(* acknowledged is found, one whose deletion was acknowledged is not, and  *)
(* while a put has not been acknowledged or a deletion is under way a get  *)
(* may say either.  Objects are written once.                              *)
(***************************************************************************)
CONSTANTS Thread, Key

VARIABLES status,  \* absent, stored, doomed (a deletion was called) or deleted
          call,    \* the get a thread is in, with the answers it may give
          answer   \* the last answer a thread was given
vars == <<status, call, answer>>

NoCall == [on |-> {}, may |-> {}]
NoAnswer == [key |-> {}, said |-> "none"]
Answers(s) ==
    CASE s = "stored" -> {"found"}
      [] s = "deleted" -> {"missing"}
      [] OTHER -> {"found", "missing"}

Init ==
    /\ status = [k \in Key |-> "absent"]
    /\ call = [t \in Thread |-> NoCall]
    /\ answer = [t \in Thread |-> NoAnswer]

Change(k, from, to) ==
    /\ status[k] \in from
    /\ status' = [status EXCEPT ![k] = to]
    /\ UNCHANGED <<call, answer>>

\* A get that has to be tried again: what held when it was called stays allowed.
Ask(t, k) ==
    /\ call[t] = NoCall
    /\ call' = [call EXCEPT ![t] = [on |-> {k}, may |-> Answers(status[k])]]
    /\ UNCHANGED <<status, answer>>

Tell(t, k) ==
    /\ call[t].on \subseteq {k}
    /\ \E a \in call[t].may \cup Answers(status[k]) : answer' = [answer EXCEPT ![t] = [key |-> {k}, said |-> a]]
    /\ call' = [call EXCEPT ![t] = NoCall]
    /\ UNCHANGED status

Fail(t) ==
    /\ call' = [call EXCEPT ![t] = NoCall]
    /\ UNCHANGED <<status, answer>>

Next ==
    \/ \E k \in Key :
         \/ Change(k, {"absent"}, "stored")
         \/ Change(k, {"absent", "stored"}, "doomed")
         \/ Change(k, {"doomed"}, "deleted")
    \/ \E t \in Thread : Fail(t) \/ \E k \in Key : Ask(t, k) \/ Tell(t, k)

Spec == Init /\ [][Next]_vars
=============================================================================
