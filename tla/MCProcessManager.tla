-------------------------- MODULE MCProcessManager --------------------------
(* Instances of ProcessManager for TLC. *)
EXTENDS ProcessManager

CONSTANTS A, B, P1, P2, P3, P4, P5

None == [e \in Events |-> 0]

Each == [e \in Events |-> 1]

\* A container that starts with nothing, and with few pids; a restart of it makes
\* all of them free.
Fresh ==
    /\ Init!1 /\ Init!3 /\ Init!4 /\ Init!5
    /\ proc = [pid \in Pids |-> IF pid \in {P4, P5}
                               THEN [Unborn EXCEPT !.phase = "gone"] ELSE Unborn]
    /\ left \in {[None EXCEPT !["restart"] = 1],
                 [None EXCEPT !["crash"] = 1, !["fail"] = 1]}

\* A container that starts where a restart has left the reports of an earlier
\* life, whose pids this life hands out again.  Chains and pids can be exchanged,
\* so that the report of A names P1, if any, that of B names P2, and the younger
\* one is A's.
Restarted ==
    /\ Init!1 /\ Init!2 /\ Init!4 /\ Init!5
    /\ left \in {[None EXCEPT !["stuck"] = 1],
                 [None EXCEPT !["leave"] = 1, !["raise"] = 1]}
    /\ report \in [Chains -> {NoReport} \cup [pid : {P1, P2}, age : {0, Stale}]]
    /\ report[A].pid # P2 /\ report[B].pid # P1
    /\ report[A].age <= report[B].age

LifeSpec == (Fresh \/ Restarted) /\ [][Next]_vars /\ Fairness
=============================================================================
