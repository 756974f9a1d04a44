--------------------------- MODULE ProcessManager --------------------------
(***************************************************************************)
(* The admin's main process: rounds of the process manager, which starts,  *)
(* watches and terminates one monitor process per chain                    *)
(* (core/schains/process_manager.py), and rounds of the cleaner, which     *)
(* stops the monitor of a chain that left the node and removes the chain's *)
(* directory (core/schains/cleaner.py).                                    *)
(*                                                                         *)
(* A monitor process is known only by its report, the file process.json    *)
(* with its pid and the second it was last seen alive.  The file outlives  *)
(* the container; a pid is only unique within one life of the container.   *)
(*                                                                         *)
(* The clock is kept as the age of each report, in ticks of one loop of    *)
(* execute_tasks; ages beyond AllowedDiff are not told apart.              *)
(***************************************************************************)
EXTENDS Integers, FiniteSets

CONSTANTS
    Chains,
    Pids,           \* the pids one life of the container hands out
    NoPid,          \* there is no report
    NoChain,        \* the main process is between two chains
    AllowedDiff,    \* int(dkg_timeout * DKG_TIMEOUT_COEFFICIENT)
    Cleaning,       \* admin.py runs the cleaner, sync_node.py does not
    Budget          \* bound on each kind of outside event

Events == {"crash", "stuck", "raise", "fail", "restart", "leave"}

\* The allowed difference is longer than one loop of execute_tasks, which sleeps
\* for ten seconds; otherwise every live monitor would look old between two loops.
ASSUME ManagerAssumption ==
    /\ NoPid \notin Pids
    /\ NoChain \notin Chains
    /\ AllowedDiff \in Nat \ {0}
    /\ Cleaning \in BOOLEAN
    /\ Budget \in [Events -> Nat]

VARIABLES
    contract,   \* whether the node is in the group, leaves it, or is out
    proc,       \* the processes of this life of the container
    report,     \* process.json of each chain
    written,    \* history: the chains whose report a process of this life wrote
    main,       \* where the main process is
    left        \* what remains of Budget

vars == <<contract, proc, report, written, main, left>>

-----------------------------------------------------------------------------
\* A process runs from "new" to "draining"; a zombie has ended, but its parent
\* has not waited for it yet.
Phases   == {"unused", "new", "live", "draining", "zombie", "gone"}
Working  == {"new", "live", "draining"}
Existing == Working \cup {"zombie"}

Steps == {"pm", "read", "act", "cleaner", "clean", "rmdir"}

Processes == [phase : Phases, chain : Chains \cup {NoChain}]
Reports   == [pid : Pids \cup {NoPid}, age : 0..(AllowedDiff + 1)]
Mains     == [at : Steps, todo : SUBSET Chains, chain : Chains \cup {NoChain},
              pid : Pids \cup {NoPid}, old : BOOLEAN]

TypeOK ==
    /\ contract \in [Chains -> {"in", "leaving", "out"}]
    /\ proc \in [Pids -> Processes]
    /\ report \in [Chains -> Reports]
    /\ written \subseteq Chains
    /\ main \in Mains
    /\ left \in [Events -> Nat]

Stale    == AllowedDiff + 1
NoReport == [pid |-> NoPid, age |-> Stale]
Resting  == [at |-> "pm", todo |-> {}, chain |-> NoChain, pid |-> NoPid, old |-> FALSE]
Unborn   == [phase |-> "unused", chain |-> NoChain]

Init ==
    /\ contract = [chain \in Chains |-> "in"]
    /\ proc = [pid \in Pids |-> Unborn]
    /\ report = [chain \in Chains |-> NoReport]
    /\ written = {}
    /\ main = Resting
    /\ left = Budget

Spend(e)   == left[e] > 0 /\ left' = [left EXCEPT ![e] = @ - 1]
Booting    == \E pid \in Pids : proc[pid].phase = "new"
Enter(at)  == main' = [Resting EXCEPT !.at = at]
NextRound  == IF Cleaning THEN "cleaner" ELSE "pm"

\* multiprocessing waits for ended children whenever another one is started.
Reaped == [pid \in Pids |-> IF proc[pid].phase = "zombie"
                            THEN [proc[pid] EXCEPT !.phase = "gone"]
                            ELSE proc[pid]]

-----------------------------------------------------------------------------
(* Process manager. *)

\* Variant: chains whose rotation is over are monitored too.
StartRoundOfAll ==
    /\ main.at = "pm"
    /\ ~ Booting
    /\ main' = [Resting EXCEPT !.at = "read", !.todo = Chains]
    /\ UNCHANGED <<contract, proc, report, written, left>>

\* fetch_schains_to_monitor.  The sleep before it is longer than a process
\* takes to write its first report.
StartRound ==
    /\ main.at = "pm"
    /\ ~ Booting
    /\ main' = [Resting EXCEPT !.at = "read",
                               !.todo = {chain \in Chains : contract[chain] # "out"}]
    /\ UNCHANGED <<contract, proc, report, written, left>>

\* Variants: a report is old one tick too early; it never is.
ReadReportEarly(chain) ==
    /\ main.at = "read"
    /\ chain \in main.todo
    /\ main' = [main EXCEPT !.at = "act", !.todo = @ \ {chain}, !.chain = chain,
                            !.pid = report[chain].pid,
                            !.old = report[chain].age >= AllowedDiff]
    /\ UNCHANGED <<contract, proc, report, written, left>>

ReadReportNeverOld(chain) ==
    /\ main.at = "read"
    /\ chain \in main.todo
    /\ main' = [main EXCEPT !.at = "act", !.todo = @ \ {chain}, !.chain = chain,
                            !.pid = report[chain].pid, !.old = FALSE]
    /\ UNCHANGED <<contract, proc, report, written, left>>

\* get_schain_process_info.
ReadReport(chain) ==
    /\ main.at = "read"
    /\ chain \in main.todo
    /\ main' = [main EXCEPT !.at = "act", !.todo = @ \ {chain}, !.chain = chain,
                            !.pid = report[chain].pid,
                            !.old = report[chain].age > AllowedDiff]
    /\ UNCHANGED <<contract, proc, report, written, left>>

\* Variant: a process that drains counts as ended.
AliveIfLive(pid) == pid # NoPid /\ proc[pid].phase = "live"

\* is_monitor_process_alive: the signal 0 reaches whatever has this pid.
Alive(pid) == pid # NoPid /\ proc[pid].phase \in Existing

NextChain == main' = [main EXCEPT !.at = "read", !.chain = NoChain,
                                  !.pid = NoPid, !.old = FALSE]

LeaveRunning ==
    /\ main.at = "act"
    /\ Alive(main.pid)
    /\ ~ main.old
    /\ NextChain
    /\ UNCHANGED <<contract, proc, report, written, left>>

\* terminate_process by the parent, which also waits for the process.
TerminateOld ==
    /\ main.at = "act"
    /\ Alive(main.pid)
    /\ main.old
    /\ proc' = [proc EXCEPT ![main.pid].phase = "gone"]
    /\ NextChain
    /\ UNCHANGED <<contract, report, written, left>>

StartProcess(pid) ==
    /\ main.at = "act"
    /\ ~ Alive(main.pid)
    /\ proc[pid].phase = "unused"
    /\ proc' = [Reaped EXCEPT ![pid] = [phase |-> "new", chain |-> main.chain]]
    /\ NextChain
    /\ UNCHANGED <<contract, report, written, left>>

\* The round is over, or an exception ends it.
EndRound ==
    /\ \/ main.at = "read" /\ main.todo = {} /\ UNCHANGED left
       \/ main.at \in {"read", "act"} /\ Spend("fail")
    /\ Enter(NextRound)
    /\ UNCHANGED <<contract, proc, report, written>>

-----------------------------------------------------------------------------
(* Cleaner.  The main process waits for it, so the two never overlap. *)

\* get_schains_on_node, less the chains the contracts give to the node.
StartCleaner ==
    /\ main.at = "cleaner"
    /\ ~ Booting
    /\ proc' = Reaped
    /\ main' = [Resting EXCEPT !.at = "clean",
                   !.todo = {chain \in Chains : report[chain] # NoReport
                                                /\ contract[chain] # "in"}]
    /\ UNCHANGED <<contract, report, written, left>>

\* ensure_schain_removed keeps a chain while its rotation is active.
SkipChain(chain) ==
    /\ main.at = "clean"
    /\ chain \in main.todo
    /\ contract[chain] # "out"
    /\ main' = [main EXCEPT !.todo = @ \ {chain}]
    /\ UNCHANGED <<contract, proc, report, written, left>>

\* Variant: the directory is removed under a running monitor.
CleanRunning(chain) ==
    /\ main.at = "clean"
    /\ chain \in main.todo
    /\ contract[chain] = "out"
    /\ main' = [main EXCEPT !.at = "rmdir", !.todo = @ \ {chain}, !.chain = chain]
    /\ UNCHANGED <<contract, proc, report, written, left>>

\* remove_schain terminates the process of the report.  The cleaner is not its
\* parent: the process stays as a zombie.
CleanChain(chain) ==
    /\ main.at = "clean"
    /\ chain \in main.todo
    /\ contract[chain] = "out"
    /\ proc' = IF Alive(report[chain].pid)
               THEN [proc EXCEPT ![report[chain].pid].phase = "zombie"]
               ELSE proc
    /\ main' = [main EXCEPT !.at = "rmdir", !.todo = @ \ {chain}, !.chain = chain]
    /\ UNCHANGED <<contract, report, written, left>>

\* cleanup_schain ends with the chain's directory, the report in it.
RemoveDir ==
    /\ main.at = "rmdir"
    /\ report' = [report EXCEPT ![main.chain] = NoReport]
    /\ main' = [main EXCEPT !.at = "clean", !.chain = NoChain]
    /\ UNCHANGED <<contract, proc, written, left>>

\* The cleaner is done, or terminated after JOIN_TIMEOUT.
EndCleaner ==
    /\ \/ main.at = "clean" /\ main.todo = {} /\ UNCHANGED left
       \/ main.at \in {"clean", "rmdir"} /\ Spend("fail")
    /\ Enter("pm")
    /\ UNCHANGED <<contract, proc, report, written>>

-----------------------------------------------------------------------------
(* Monitor processes. *)

End(pid) == proc' = [proc EXCEPT ![pid].phase = "zombie"]

\* start_tasks: the report comes first; a chain the node has left ends it.
Boot(pid) ==
    /\ proc[pid].phase = "new"
    /\ report' = [report EXCEPT ![proc[pid].chain] = [pid |-> pid, age |-> 0]]
    /\ written' = written \cup {proc[pid].chain}
    /\ IF contract[proc[pid].chain] = "out"
       THEN End(pid)
       ELSE proc' = [proc EXCEPT ![pid].phase = "live"]
    /\ UNCHANGED <<contract, main, left>>

\* execute_tasks: the end of each loop.
Beat(pid) ==
    /\ proc[pid].phase = "live"
    /\ report' = [report EXCEPT ![proc[pid].chain].age = 0]
    /\ UNCHANGED <<contract, proc, written, main, left>>

\* A task ran past its stuck_timeout: ts is set to 0, but leaving the executor
\* still waits for the task.
Subvert(pid) ==
    /\ proc[pid].phase = "live"
    /\ Spend("stuck")
    /\ report' = [report EXCEPT ![proc[pid].chain].age = Stale]
    /\ proc' = [proc EXCEPT ![pid].phase = "draining"]
    /\ UNCHANGED <<contract, written, main>>

\* The loop itself raises, as in the contract call of ConfigTask.needed: it
\* waits for its tasks too, and ts is not touched any more.
LoopRaises(pid) ==
    /\ proc[pid].phase = "live"
    /\ Spend("raise")
    /\ proc' = [proc EXCEPT ![pid].phase = "draining"]
    /\ UNCHANGED <<contract, report, written, main>>

\* The last task ends, if it ever does.
Drained(pid) ==
    /\ proc[pid].phase = "draining"
    /\ End(pid)
    /\ UNCHANGED <<contract, report, written, main, left>>

Crash(pid) ==
    /\ proc[pid].phase \in Working
    /\ Spend("crash")
    /\ End(pid)
    /\ UNCHANGED <<contract, report, written, main>>

-----------------------------------------------------------------------------
(* Outside. *)

\* Every process of the container ends, the files stay, pids start anew.
RestartContainer ==
    /\ Spend("restart")
    /\ proc' = [pid \in Pids |-> Unborn]
    /\ main' = Resting
    /\ written' = {}
    /\ UNCHANGED <<contract, report>>

\* The node leaves the group of the chain; the old group stops after a while.
Leave(chain) ==
    /\ \/ contract[chain] = "in" /\ Spend("leave")
          /\ contract' = [contract EXCEPT ![chain] = "leaving"]
       \/ contract[chain] = "leaving" /\ UNCHANGED left
          /\ contract' = [contract EXCEPT ![chain] = "out"]
    /\ UNCHANGED <<proc, report, written, main>>

\* Time passes; a live monitor is never a whole tick behind.
Tick ==
    /\ \A pid \in Pids : proc[pid].phase = "live" => report[proc[pid].chain].age = 0
    /\ report' = [chain \in Chains |->
                    [report[chain] EXCEPT !.age = IF @ < Stale THEN @ + 1 ELSE @]]
    /\ UNCHANGED <<contract, proc, written, main, left>>

-----------------------------------------------------------------------------
ManagerStep ==
    \/ StartRound
    \/ \E chain \in Chains : ReadReport(chain)
    \/ LeaveRunning
    \/ TerminateOld
    \/ \E pid \in Pids : StartProcess(pid)
    \/ EndRound

CleanerStep ==
    \/ StartCleaner
    \/ \E chain \in Chains : SkipChain(chain)
    \/ \E chain \in Chains : CleanChain(chain)
    \/ RemoveDir
    \/ EndCleaner

MonitorStep ==
    \E pid \in Pids :
        \/ Boot(pid)
        \/ Beat(pid)
        \/ Subvert(pid)
        \/ LoopRaises(pid)
        \/ Drained(pid)
        \/ Crash(pid)

Next ==
    \/ ManagerStep
    \/ CleanerStep
    \/ MonitorStep
    \/ RestartContainer
    \/ \E chain \in Chains : Leave(chain)
    \/ Tick

Spec == Init /\ [][Next]_vars

\* The main loop goes on, a started process boots and beats, a rotation ends,
\* and time passes.  Nothing is assumed of a stuck task.
Fairness ==
    /\ WF_vars(ManagerStep)
    /\ WF_vars(CleanerStep)
    /\ \A pid \in Pids : WF_vars(Boot(pid)) /\ WF_vars(Beat(pid))
    /\ \A chain \in Chains : WF_vars(contract[chain] = "leaving" /\ Leave(chain))
    /\ WF_vars(Tick)

FairSpec == Spec /\ Fairness

-----------------------------------------------------------------------------
(* Properties. *)

Monitors(chain) == {pid \in Pids : proc[pid].chain = chain /\ proc[pid].phase \in Working}

\* A chain never has two monitor processes: a replacement is started only when
\* nothing of the old one works on, be it a task that hangs in a drained loop.
OneMonitor == \A chain \in Chains : \A p, q \in Monitors(chain) : p = q

\* The report leads to the process, so that both the process manager and the
\* cleaner can stop it: no restart, crash or cleanup leaves a monitor nobody
\* can find.
ReportLeadsToMonitor ==
    \A pid \in Pids : proc[pid].phase \in {"live", "draining"} =>
                         report[proc[pid].chain].pid = pid

\* Only a monitor that stopped beating is replaced, and it is the one of the chain
\* whose report was read: what the manager read some steps ago still leads to it,
\* through crashes, stuck tasks and restarts of the container.  (The pid of a
\* report which an earlier life left may belong to the monitor of another chain.)
LiveMonitorSpared ==
    [][\A pid \in Pids :
          TerminateOld /\ pid = main.pid /\ main.chain \in written =>
              proc[pid].phase # "live" /\ proc[pid].chain = main.chain]_vars

\* The process manager implements the promise SchainMonitor is built on.
Promise == INSTANCE SingleMonitor WITH monitors <- [chain \in Chains |-> Monitors(chain)]
SingleMonitorSpec == Promise!Spec

\* A chain of this node gets a working monitor again, after a crash, a stuck
\* task, a loop that failed or a restart of the container.
MonitorReturns ==
    \A chain \in Chains :
        contract[chain] = "in" ~>
            \/ contract[chain] # "in"
            \/ \E pid \in Monitors(chain) : proc[pid].phase = "live"

\* A chain that left the node ends up without monitor and without directory.
LeftChainCleaned ==
    \A chain \in Chains :
        contract[chain] = "out" ~> [](Monitors(chain) = {} /\ report[chain] = NoReport)
=============================================================================
