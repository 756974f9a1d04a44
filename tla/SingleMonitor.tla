--------------------------- MODULE SingleMonitor ---------------------------
(***************************************************************************)
(* What the process manager promises to the rest of the program: a chain   *)
(* has at most one monitor process, and a new one starts only after the    *)
(* old one has ended.  SchainMonitor is written on this ground: its thread *)
(* states belong to the one process of the chain.                          *)
(***************************************************************************)
CONSTANTS Chains, Pids

VARIABLE monitors    \* the processes that run start_tasks, for each chain

Init == monitors = [chain \in Chains |-> {}]

Start(chain, pid) ==
    /\ monitors[chain] = {}
    /\ monitors' = [monitors EXCEPT ![chain] = {pid}]

\* A process ends by itself or is terminated.
End(chain) ==
    /\ monitors[chain] # {}
    /\ monitors' = [monitors EXCEPT ![chain] = {}]

\* The container restarts.
EndAll == monitors' = [chain \in Chains |-> {}]

Next ==
    \/ \E chain \in Chains, pid \in Pids : Start(chain, pid)
    \/ \E chain \in Chains : End(chain)
    \/ EndAll

Spec == Init /\ [][Next]_monitors
=============================================================================
