----------------------- MODULE ProcessManager_proofs -----------------------
(***************************************************************************)
(* Theorems about ProcessManager, for any chains, pids and events.         *)
(***************************************************************************)
EXTENDS ProcessManager, TLAPS

\* A process that is or was there works for a chain.
ChainsKnown == \A pid \in Pids : proc[pid].phase # "unused" => proc[pid].chain \in Chains

\* Between reading a report and acting on it, nothing makes it wrong: no process
\* of the chain has yet to write its first report.
ReadStands ==
    /\ main.at \in {"read", "act"} =>
          \A pid \in Pids : proc[pid].phase = "new" => proc[pid].chain \notin main.todo
    /\ main.at = "act" =>
          /\ main.chain \in Chains \ main.todo
          /\ main.pid = report[main.chain].pid
          /\ \A pid \in Pids : proc[pid].phase = "new" => proc[pid].chain # main.chain

\* Nothing boots while the cleaner works, and a directory is removed only after
\* the monitor of the chain has ended.
CleanerAlone ==
    /\ main.at \in {"clean", "rmdir"} => ~ Booting
    /\ main.at = "rmdir" => main.chain \in Chains /\ Monitors(main.chain) = {}

\* The inductive invariant.
IInv ==
    /\ TypeOK
    /\ ChainsKnown
    /\ OneMonitor
    /\ ReportLeadsToMonitor
    /\ ReadStands
    /\ CleanerAlone

-----------------------------------------------------------------------------
(* Type correctness. *)

\* Before the first round there is no process and no report.
LEMMA InitTypeOK == Init => TypeOK
  BY ManagerAssumption DEF Init, TypeOK, NoReport, Stale, Resting, Unborn, Phases, Steps,
     Processes, Reports, Mains

\* What is left of a budget stays a number.
LEMMA SpendTyped ==
    ASSUME TypeOK, NEW e \in Events, Spend(e)
    PROVE  left' \in [Events -> Nat]
  BY DEF TypeOK, Spend

\* The end of a process, and waiting for ended ones, leave processes.
LEMMA ProcTyped ==
    ASSUME TypeOK
    PROVE  /\ \A pid \in Pids, phase \in Phases :
                 [proc EXCEPT ![pid].phase = phase] \in [Pids -> Processes]
           /\ Reaped \in [Pids -> Processes]
  BY DEF TypeOK, Reaped, Phases, Processes

\* No step of the main process, a monitor or the outside leaves the types.
LEMMA NextTypeOK == TypeOK /\ ChainsKnown /\ ReadStands /\ CleanerAlone /\ [Next]_vars => TypeOK'
  <1> SUFFICES ASSUME TypeOK, ChainsKnown, ReadStands, CleanerAlone, [Next]_vars
               PROVE  TypeOK'
    OBVIOUS
  <1> USE ManagerAssumption
  <1>0. /\ "zombie" \in Phases /\ "gone" \in Phases /\ "live" \in Phases
        /\ "draining" \in Phases /\ "new" \in Phases
    BY DEF Phases
  <1>1. CASE ManagerStep
    <2>1. CASE StartRound
      BY <2>1 DEF StartRound, TypeOK, Resting, Steps, Mains
    <2>2. ASSUME NEW chain \in Chains, ReadReport(chain)
          PROVE  TypeOK'
      <3>1. report[chain].pid \in Pids \cup {NoPid}
        BY DEF TypeOK, Reports
      <3>2. (report[chain].age > AllowedDiff) \in BOOLEAN
        OBVIOUS
      <3>3. main.todo \ {chain} \in SUBSET Chains
        BY DEF TypeOK, Mains
      <3>4. main' \in Mains
        BY <2>2, <3>1, <3>2, <3>3 DEF ReadReport, TypeOK, Steps, Mains
      <3>. QED BY <2>2, <3>4 DEF ReadReport, TypeOK
    <2>3. CASE LeaveRunning
      BY <2>3 DEF LeaveRunning, NextChain, TypeOK, Steps, Mains
    <2>4. CASE TerminateOld
      <3>1. main.pid \in Pids
        BY <2>4 DEF TerminateOld, Alive, TypeOK, Mains
      <3>2. proc' \in [Pids -> Processes]
        BY <1>0, <2>4, <3>1, ProcTyped DEF TerminateOld
      <3>. QED BY <2>4, <3>2 DEF TerminateOld, NextChain, TypeOK, Steps, Mains
    <2>5. ASSUME NEW pid \in Pids, StartProcess(pid)
          PROVE  TypeOK'
      <3>1. [phase |-> "new", chain |-> main.chain] \in Processes
        BY <1>0 DEF TypeOK, Mains, Processes
      <3>2. proc' \in [Pids -> Processes]
        BY <2>5, <3>1, ProcTyped DEF StartProcess
      <3>. QED BY <2>5, <3>2 DEF StartProcess, NextChain, TypeOK, Steps, Mains
    <2>6. CASE EndRound
      <3>1. left' \in [Events -> Nat]
        BY <2>6, SpendTyped DEF EndRound, TypeOK, Events
      <3>. QED BY <2>6, <3>1 DEF EndRound, Enter, NextRound, Resting, TypeOK, Steps, Mains
    <2>. QED BY <1>1, <2>1, <2>2, <2>3, <2>4, <2>5, <2>6 DEF ManagerStep
  <1>2. CASE CleanerStep
    <2>1. CASE StartCleaner
      <3>1. proc' \in [Pids -> Processes]
        BY <2>1, ProcTyped DEF StartCleaner
      <3>. QED BY <2>1, <3>1 DEF StartCleaner, Resting, TypeOK, Steps, Mains
    <2>2. CASE \E chain \in Chains : SkipChain(chain)
      BY <2>2 DEF SkipChain, TypeOK, Steps, Mains
    <2>3. ASSUME NEW chain \in Chains, CleanChain(chain)
          PROVE  TypeOK'
      <3>1. report[chain].pid \in Pids \cup {NoPid}
        BY DEF TypeOK, Reports
      <3>2. proc' \in [Pids -> Processes]
        BY <1>0, <2>3, <3>1, ProcTyped DEF CleanChain, Alive, TypeOK
      <3>3. main' \in Mains
        BY <2>3 DEF CleanChain, TypeOK, Steps, Mains
      <3>. QED BY <2>3, <3>2, <3>3 DEF CleanChain, TypeOK
    <2>4. CASE RemoveDir
      <3>1. NoReport \in Reports
        BY DEF NoReport, Stale, Reports
      <3>2. report' \in [Chains -> Reports]
        BY <2>4, <3>1 DEF RemoveDir, TypeOK
      <3>3. main' \in Mains
        BY <2>4 DEF RemoveDir, TypeOK, Steps, Mains
      <3>. QED BY <2>4, <3>2, <3>3 DEF RemoveDir, TypeOK
    <2>5. CASE EndCleaner
      <3>1. left' \in [Events -> Nat]
        BY <2>5, SpendTyped DEF EndCleaner, TypeOK, Events
      <3>. QED BY <2>5, <3>1 DEF EndCleaner, Enter, Resting, TypeOK, Steps, Mains
    <2>. QED BY <1>2, <2>1, <2>2, <2>3, <2>4, <2>5 DEF CleanerStep
  <1>3. ASSUME NEW pid \in Pids,
               Boot(pid) \/ Beat(pid) \/ Subvert(pid) \/ LoopRaises(pid)
               \/ Drained(pid) \/ Crash(pid)
        PROVE  TypeOK'
    <2>1. proc' \in [Pids -> Processes]
      <3>1. \/ proc' = proc
            \/ \E phase \in Phases : proc' = [proc EXCEPT ![pid].phase = phase]
        BY <1>0, <1>3 DEF Boot, Beat, Subvert, LoopRaises, Drained, Crash, End
      <3>. QED BY <3>1, ProcTyped DEF TypeOK
    <2>2. report' \in [Chains -> Reports]
      BY <1>3 DEF Boot, Beat, Subvert, LoopRaises, Drained, Crash, Stale, TypeOK,
                  ChainsKnown, Reports
    <2>3. left' \in [Events -> Nat]
      BY <1>3, SpendTyped DEF Boot, Beat, Subvert, LoopRaises, Drained, Crash, Events, TypeOK
    <2>4. written' \subseteq Chains
      BY <1>3 DEF Boot, Beat, Subvert, LoopRaises, Drained, Crash, TypeOK, ChainsKnown
    <2>. QED BY <1>3, <2>1, <2>2, <2>3, <2>4
             DEF Boot, Beat, Subvert, LoopRaises, Drained, Crash, TypeOK
  <1>4. CASE RestartContainer
    <2>1. left' \in [Events -> Nat]
      BY <1>4, SpendTyped DEF RestartContainer, Events
    <2>. QED BY <1>4, <2>1 DEF RestartContainer, Resting, Unborn, TypeOK, Phases, Steps,
                              Processes, Mains
  <1>5. CASE \E chain \in Chains : Leave(chain)
    <2>1. left' \in [Events -> Nat]
      BY <1>5, SpendTyped DEF Leave, Events, TypeOK
    <2>. QED BY <1>5, <2>1 DEF Leave, TypeOK
  <1>6. CASE Tick
    BY <1>6 DEF Tick, Stale, TypeOK, Reports
  <1>7. CASE UNCHANGED vars
    BY <1>7 DEF vars, TypeOK
  <1>. QED BY <1>1, <1>2, <1>3, <1>4, <1>5, <1>6, <1>7 DEF Next, MonitorStep

-----------------------------------------------------------------------------
(* What a step does to a process and to a report. *)

\* A process stays as it is, ends, is forgotten with the container, is started,
\* writes its first report, or leaves its loop.
LEMMA ProcessMoves ==
    ASSUME TypeOK, [Next]_vars, NEW pid \in Pids
    PROVE  \/ proc'[pid] = proc[pid]
           \/ /\ proc[pid].phase \in Existing
              /\ proc'[pid].phase \in {"zombie", "gone"}
              /\ proc'[pid].chain = proc[pid].chain
           \/ RestartContainer /\ proc'[pid] = Unborn
           \/ StartProcess(pid) /\ proc'[pid] = [phase |-> "new", chain |-> main.chain]
           \/ /\ Boot(pid) /\ proc[pid].phase = "new" /\ proc'[pid].phase = "live"
              /\ proc'[pid].chain = proc[pid].chain
           \/ /\ proc[pid].phase = "live" /\ proc'[pid].phase = "draining"
              /\ proc'[pid].chain = proc[pid].chain
              /\ \A chain \in Chains : report'[chain].pid = report[chain].pid
  <1>1. CASE ManagerStep
    <2>1. CASE TerminateOld
      BY <2>1 DEF TerminateOld, Alive, TypeOK, Processes, Mains
    <2>2. ASSUME NEW p \in Pids, StartProcess(p)
          PROVE  \/ proc'[pid] = proc[pid]
                 \/ /\ proc[pid].phase \in Existing
                    /\ proc'[pid].phase \in {"zombie", "gone"}
                    /\ proc'[pid].chain = proc[pid].chain
                 \/ StartProcess(pid) /\ proc'[pid] = [phase |-> "new", chain |-> main.chain]
      BY <2>2 DEF StartProcess, Reaped, TypeOK, Processes, Existing
    <2>. QED BY <1>1, <2>1, <2>2
             DEF ManagerStep, StartRound, ReadReport, LeaveRunning, EndRound
  <1>2. CASE CleanerStep
    <2>1. CASE StartCleaner
      BY <2>1 DEF StartCleaner, Reaped, TypeOK, Processes, Existing
    <2>2. CASE \E chain \in Chains : CleanChain(chain)
      BY <2>2 DEF CleanChain, Alive, TypeOK, Processes, Reports
    <2>. QED BY <1>2, <2>1, <2>2
             DEF CleanerStep, SkipChain, RemoveDir, EndCleaner
  <1>3. ASSUME NEW p \in Pids,
               Boot(p) \/ Beat(p) \/ Subvert(p) \/ LoopRaises(p) \/ Drained(p) \/ Crash(p)
        PROVE  \/ proc'[pid] = proc[pid]
               \/ /\ proc[pid].phase \in Existing
                  /\ proc'[pid].phase \in {"zombie", "gone"}
                  /\ proc'[pid].chain = proc[pid].chain
               \/ /\ Boot(pid) /\ proc[pid].phase = "new" /\ proc'[pid].phase = "live"
                  /\ proc'[pid].chain = proc[pid].chain
               \/ /\ proc[pid].phase = "live" /\ proc'[pid].phase = "draining"
                  /\ proc'[pid].chain = proc[pid].chain
                  /\ \A chain \in Chains : report'[chain].pid = report[chain].pid
    <2>1. CASE p = pid
      <3>1. CASE Boot(pid)
        BY <3>1 DEF Boot, End, TypeOK, Processes, Existing, Working
      <3>2. CASE Subvert(pid) \/ LoopRaises(pid)
        BY <3>2 DEF Subvert, LoopRaises, TypeOK, Processes, Reports
      <3>3. CASE Beat(pid) \/ Drained(pid) \/ Crash(pid)
        BY <3>3 DEF Beat, Drained, Crash, End, TypeOK, Processes, Existing, Working
      <3>. QED BY <1>3, <2>1, <3>1, <3>2, <3>3
    <2>2. CASE p # pid
      BY <1>3, <2>2 DEF Boot, Beat, Subvert, LoopRaises, Drained, Crash, End, TypeOK
    <2>. QED BY <2>1, <2>2
  <1>4. CASE RestartContainer
    BY <1>4 DEF RestartContainer
  <1>5. CASE (\E chain \in Chains : Leave(chain)) \/ Tick \/ UNCHANGED vars
    BY <1>5 DEF Leave, Tick, vars
  <1>. QED BY <1>1, <1>2, <1>3, <1>4, <1>5 DEF Next, MonitorStep

\* A report changes its pid only by the first report of another process, or with
\* the directory it is in.
LEMMA ReportMoves ==
    ASSUME TypeOK, ChainsKnown, [Next]_vars, NEW chain \in Chains
    PROVE  \/ report'[chain].pid = report[chain].pid
           \/ \E p \in Pids : /\ Boot(p) /\ proc[p].phase = "new"
                              /\ proc[p].chain = chain
                              /\ report'[chain].pid = p
           \/ RemoveDir /\ main.chain = chain /\ main.at = "rmdir"
  <1>1. CASE ManagerStep
    BY <1>1 DEF ManagerStep, StartRound, ReadReport, LeaveRunning, TerminateOld,
                StartProcess, EndRound
  <1>2. CASE CleanerStep
    BY <1>2 DEF CleanerStep, StartCleaner, SkipChain, CleanChain, RemoveDir, EndCleaner,
                TypeOK, Reports
  <1>3. ASSUME NEW p \in Pids, Boot(p)
        PROVE  \/ report'[chain].pid = report[chain].pid
               \/ /\ proc[p].phase = "new" /\ proc[p].chain = chain
                  /\ report'[chain].pid = p
    BY <1>3 DEF Boot, TypeOK, Reports
  <1>4. ASSUME NEW p \in Pids,
               Beat(p) \/ Subvert(p) \/ LoopRaises(p) \/ Drained(p) \/ Crash(p)
        PROVE  report'[chain].pid = report[chain].pid
    BY <1>4 DEF Beat, Subvert, LoopRaises, Drained, Crash, TypeOK, Reports
  <1>5. CASE Tick
    BY <1>5 DEF Tick, TypeOK, Reports
  <1>6. CASE RestartContainer \/ (\E other \in Chains : Leave(other)) \/ UNCHANGED vars
    BY <1>6 DEF RestartContainer, Leave, vars
  <1>. QED BY <1>1, <1>2, <1>3, <1>4, <1>5, <1>6 DEF Next, MonitorStep

-----------------------------------------------------------------------------
(* The parts of the invariant, each kept by every step. *)

\* A process keeps the chain it was started for.
LEMMA NextChainsKnown ==
    TypeOK /\ ChainsKnown /\ ReadStands /\ [Next]_vars => ChainsKnown'
  <1> SUFFICES ASSUME TypeOK, ChainsKnown, ReadStands, [Next]_vars,
                      NEW pid \in Pids, proc'[pid].phase # "unused"
               PROVE  proc'[pid].chain \in Chains
    BY DEF ChainsKnown
  <1>1. StartProcess(pid) => main.chain \in Chains
    BY DEF StartProcess, ReadStands
  <1>. QED BY <1>1, ProcessMoves DEF ChainsKnown, Existing, Working, Unborn

\* A process is started for a chain whose report, read before, leads nowhere.
LEMMA StartsAlone ==
    ASSUME TypeOK, ReportLeadsToMonitor, ReadStands, NEW pid \in Pids, StartProcess(pid)
    PROVE  Monitors(main.chain) = {}
  <1> SUFFICES ASSUME NEW q \in Pids, proc[q].chain = main.chain, proc[q].phase \in Working
               PROVE  FALSE
    BY DEF Monitors
  <1>1. proc[q].phase # "new" /\ main.pid = report[main.chain].pid
    BY DEF StartProcess, ReadStands
  <1>2. main.pid = q
    BY <1>1 DEF ReportLeadsToMonitor, Working
  <1>. QED BY <1>2, ManagerAssumption DEF StartProcess, Alive, Existing

\* A monitor of this step was there before, or is the one being started.
LEMMA MonitorMoves ==
    ASSUME TypeOK, [Next]_vars, NEW chain \in Chains, NEW pid \in Monitors(chain)'
    PROVE  \/ pid \in Monitors(chain)
           \/ StartProcess(pid) /\ chain = main.chain
  <1>1. pid \in Pids /\ proc'[pid].chain = chain /\ proc'[pid].phase \in Working
    BY DEF Monitors
  <1>. QED BY <1>1, ProcessMoves DEF Monitors, Working, Existing, Unborn

\* Only one process is started at a time.
LEMMA StartsOne ==
    ASSUME TypeOK, NEW p \in Pids, NEW q \in Pids, StartProcess(p), StartProcess(q)
    PROVE  p = q
  <1>1. proc[q].phase = "unused" /\ proc[p].phase = "unused"
    BY DEF StartProcess
  <1>2. proc'[p].phase = "new"
    BY DEF StartProcess, Reaped
  <1>3. p # q => proc'[p] = proc[p]
    BY <1>1 DEF StartProcess, Reaped
  <1>. QED BY <1>1, <1>2, <1>3

\* At most one monitor per chain.
LEMMA NextOneMonitor ==
    /\ TypeOK /\ OneMonitor /\ ReportLeadsToMonitor /\ ReadStands
    /\ [Next]_vars
    => OneMonitor'
  <1> SUFFICES ASSUME TypeOK, OneMonitor, ReportLeadsToMonitor, ReadStands, [Next]_vars,
                      NEW chain \in Chains,
                      NEW p \in Monitors(chain)', NEW q \in Monitors(chain)'
               PROVE  p = q
    BY DEF OneMonitor
  <1>0. p \in Pids /\ q \in Pids
    BY DEF Monitors
  <1>1. CASE p \in Monitors(chain) /\ q \in Monitors(chain)
    BY <1>1 DEF OneMonitor
  <1>2. CASE StartProcess(p) /\ chain = main.chain
    BY <1>0, <1>2, StartsAlone, StartsOne, MonitorMoves
  <1>3. CASE StartProcess(q) /\ chain = main.chain
    BY <1>0, <1>3, StartsAlone, StartsOne, MonitorMoves
  <1>. QED BY <1>1, <1>2, <1>3, MonitorMoves

\* The report of a chain names its monitor: it is written when that begins, and
\* removed when none is left.
LEMMA NextReportLeadsToMonitor ==
    /\ TypeOK /\ ChainsKnown /\ OneMonitor /\ ReportLeadsToMonitor /\ CleanerAlone
    /\ [Next]_vars
    => ReportLeadsToMonitor'
  <1> SUFFICES ASSUME TypeOK, ChainsKnown, OneMonitor, ReportLeadsToMonitor, CleanerAlone,
                      [Next]_vars,
                      NEW pid \in Pids, proc'[pid].phase \in {"live", "draining"}
               PROVE  report'[proc'[pid].chain].pid = pid
    BY DEF ReportLeadsToMonitor
  <1>1. CASE Boot(pid) /\ proc'[pid].chain = proc[pid].chain
    BY <1>1 DEF Boot, ChainsKnown, TypeOK
  <1>2. CASE /\ proc[pid].phase \in {"live", "draining"}
             /\ proc'[pid].chain = proc[pid].chain
    <2>1. /\ report[proc[pid].chain].pid = pid
          /\ proc[pid].chain \in Chains
          /\ pid \in Monitors(proc[pid].chain)
      BY <1>2 DEF ReportLeadsToMonitor, ChainsKnown, Monitors, Working
    <2>2. ASSUME NEW p \in Pids, proc[p].phase = "new", proc[p].chain = proc[pid].chain
          PROVE  FALSE
      <3>1. p \in Monitors(proc[pid].chain)
        BY <2>2 DEF Monitors, Working
      <3>2. p = pid
        BY <2>1, <3>1 DEF OneMonitor
      <3>. QED BY <1>2, <2>2, <3>2
    <2>3. ~ (main.chain = proc[pid].chain /\ main.at = "rmdir")
      BY <2>1 DEF CleanerAlone
    <2>. QED BY <1>2, <2>1, <2>2, <2>3, ReportMoves
  <1>. QED BY <1>1, <1>2, ProcessMoves DEF Unborn

\* Where the main process goes: nowhere, to its rest or another round, or one
\* chain on.
LEMMA MainMoves ==
    ASSUME TypeOK, [Next]_vars
    PROVE  \/ main' = main /\ (\A pid \in Pids : ~ StartProcess(pid))
           \/ main'.at \in {"pm", "cleaner"}
           \/ StartRound \/ StartCleaner
           \/ \E chain \in Chains : ReadReport(chain) \/ SkipChain(chain) \/ CleanChain(chain)
           \/ main.at = "act" /\ NextChain
           \/ RemoveDir
  <1>1. CASE ManagerStep
    BY <1>1 DEF ManagerStep, LeaveRunning, TerminateOld, StartProcess, EndRound, Enter,
                NextRound, Resting
  <1>2. CASE CleanerStep
    BY <1>2 DEF CleanerStep, EndCleaner, Enter, Resting
  <1>3. CASE MonitorStep
    <2>1. main' = main
      BY <1>3 DEF MonitorStep, Boot, Beat, Subvert, LoopRaises, Drained, Crash
    <2>2. \A pid \in Pids : ~ StartProcess(pid)
      BY <2>1 DEF StartProcess, NextChain, TypeOK, Mains
    <2>. QED BY <2>1, <2>2
  <1>4. CASE RestartContainer
    BY <1>4 DEF RestartContainer, Resting
  <1>5. CASE (\E chain \in Chains : Leave(chain)) \/ Tick \/ UNCHANGED vars
    <2>1. main' = main
      BY <1>5 DEF Leave, Tick, vars
    <2>2. \A pid \in Pids : ~ StartProcess(pid)
      BY <2>1 DEF StartProcess, NextChain, TypeOK, Mains
    <2>. QED BY <2>1, <2>2
  <1>. QED BY <1>1, <1>2, <1>3, <1>4, <1>5 DEF Next

\* A process that boots after a step booted before it, or was just started.
LEMMA NewMoves ==
    ASSUME TypeOK, [Next]_vars, NEW pid \in Pids, proc'[pid].phase = "new"
    PROVE  \/ proc[pid].phase = "new" /\ proc'[pid].chain = proc[pid].chain
           \/ StartProcess(pid) /\ proc'[pid].chain = main.chain
  BY ProcessMoves DEF Unborn

\* What was read of a report stands until it is acted upon.
LEMMA NextReadStands ==
    /\ TypeOK /\ ChainsKnown /\ ReadStands /\ [Next]_vars => ReadStands'
  <1> SUFFICES ASSUME TypeOK, ChainsKnown, ReadStands, [Next]_vars
               PROVE  ReadStands'
    OBVIOUS
  <1>1. CASE main' = main /\ (\A pid \in Pids : ~ StartProcess(pid))
    <2>1. \A pid \in Pids : proc'[pid].phase = "new" =>
              proc[pid].phase = "new" /\ proc'[pid].chain = proc[pid].chain
      BY <1>1, NewMoves
    <2>2. main.at = "act" => report'[main.chain].pid = report[main.chain].pid
      BY ReportMoves DEF ReadStands
    <2>. QED BY <1>1, <2>1, <2>2 DEF ReadStands
  <1>2. CASE StartRound
    BY <1>2 DEF StartRound, Booting, ReadStands, TypeOK, Mains, Resting
  <1>3. ASSUME NEW chain \in Chains, ReadReport(chain)
        PROVE  ReadStands'
    <2>1. /\ main'.at = "act" /\ main'.todo = main.todo \ {chain}
          /\ main'.chain = chain /\ main'.pid = report[chain].pid
      BY <1>3 DEF ReadReport, TypeOK, Mains
    <2>2. proc' = proc /\ report' = report
      BY <1>3 DEF ReadReport
    <2>3. \A pid \in Pids : proc[pid].phase = "new" => proc[pid].chain \notin main.todo
      BY <1>3 DEF ReadReport, ReadStands
    <2>4. chain \in main.todo
      BY <1>3 DEF ReadReport
    <2>. QED BY <2>1, <2>2, <2>3, <2>4 DEF ReadStands
  <1>4. CASE main.at = "act" /\ NextChain
    <2>1. main'.at = "read" /\ main'.todo = main.todo
      BY <1>4 DEF NextChain, TypeOK, Mains
    <2>2. \A pid \in Pids : proc'[pid].phase = "new" => proc'[pid].chain \notin main.todo
      BY <1>4, NewMoves DEF ReadStands
    <2>. QED BY <2>1, <2>2 DEF ReadStands
  <1>5. CASE StartCleaner
    BY <1>5 DEF StartCleaner, ReadStands, TypeOK, Mains, Resting
  <1>6. CASE \E chain \in Chains : SkipChain(chain) \/ CleanChain(chain)
    BY <1>6 DEF SkipChain, CleanChain, ReadStands, TypeOK, Mains
  <1>7. CASE RemoveDir
    BY <1>7 DEF RemoveDir, ReadStands, TypeOK, Mains
  <1>8. CASE main'.at \in {"pm", "cleaner"}
    BY <1>8 DEF ReadStands
  <1>. QED BY <1>1, <1>2, <1>3, <1>4, <1>5, <1>6, <1>7, <1>8, MainMoves

\* The main process waits for the cleaner: meanwhile nothing is started.
LEMMA NextCleanerAlone ==
    /\ TypeOK /\ ChainsKnown /\ OneMonitor /\ ReportLeadsToMonitor /\ CleanerAlone
    /\ [Next]_vars
    => CleanerAlone'
  <1> SUFFICES ASSUME TypeOK, ChainsKnown, OneMonitor, ReportLeadsToMonitor, CleanerAlone,
                      [Next]_vars
               PROVE  CleanerAlone'
    OBVIOUS
  <1>1. CASE main' = main /\ (\A pid \in Pids : ~ StartProcess(pid))
    <2>1. \A pid \in Pids : proc'[pid].phase = "new" => proc[pid].phase = "new"
      BY <1>1, NewMoves
    <2>2. ASSUME NEW chain \in Chains, NEW pid \in Monitors(chain)'
          PROVE  pid \in Monitors(chain)
      <3>1. pid \in Pids
        BY DEF Monitors
      <3>. QED BY <1>1, <3>1, MonitorMoves
    <2>. QED BY <1>1, <2>1, <2>2 DEF CleanerAlone, Booting
  <1>2. CASE StartRound
    BY <1>2 DEF StartRound, CleanerAlone, TypeOK, Mains, Resting
  <1>3. CASE StartCleaner
    <2>1. \A pid \in Pids : proc'[pid].phase # "new"
      BY <1>3 DEF StartCleaner, Booting, Reaped
    <2>. QED BY <1>3, <2>1 DEF StartCleaner, Booting, CleanerAlone, Resting
  <1>4. CASE \E chain \in Chains : ReadReport(chain) \/ SkipChain(chain)
    BY <1>4 DEF ReadReport, SkipChain, CleanerAlone, Booting, TypeOK, Mains
  <1>5. ASSUME NEW chain \in Chains, CleanChain(chain)
        PROVE  CleanerAlone'
    <2>1. main'.at = "rmdir" /\ main'.chain = chain /\ main.at = "clean"
      BY <1>5 DEF CleanChain, TypeOK, Mains
    <2>2. \A pid \in Pids : ~ StartProcess(pid)
      BY <2>1 DEF StartProcess
    <2>3. \A pid \in Pids : proc'[pid].phase # "new"
      BY <2>1, <2>2, NewMoves DEF CleanerAlone, Booting
    <2>4. ASSUME NEW pid \in Monitors(chain)'
          PROVE  FALSE
      <3>1. pid \in Monitors(chain) /\ pid \in Pids
        BY <2>2, <2>4, MonitorMoves DEF Monitors
      <3>2. proc[pid].phase # "new"
        BY <2>1, <3>1 DEF CleanerAlone, Booting
      <3>3. report[chain].pid = pid
        BY <3>1, <3>2 DEF ReportLeadsToMonitor, Monitors, Working
      <3>4. proc'[pid].phase = "zombie"
        BY <1>5, <3>1, <3>3, ManagerAssumption
           DEF CleanChain, Alive, Existing, Monitors, TypeOK, Processes
      <3>. QED BY <2>4, <3>4 DEF Monitors, Working
    <2>. QED BY <2>1, <2>3, <2>4 DEF CleanerAlone, Booting
  <1>6. CASE main.at = "act" /\ NextChain
    BY <1>6 DEF NextChain, CleanerAlone, TypeOK, Mains
  <1>7. CASE RemoveDir
    BY <1>7 DEF RemoveDir, CleanerAlone, Booting, TypeOK, Mains
  <1>8. CASE main'.at \in {"pm", "cleaner"}
    BY <1>8 DEF CleanerAlone
  <1>. QED BY <1>1, <1>2, <1>3, <1>4, <1>5, <1>6, <1>7, <1>8, MainMoves

-----------------------------------------------------------------------------
(* The invariant, and what follows from it. *)

\* Before the first round there is nothing to keep apart.
LEMMA InitIInv == Init => IInv
  BY InitTypeOK DEF Init, IInv, ChainsKnown, OneMonitor, ReportLeadsToMonitor, ReadStands,
     CleanerAlone, Booting, Monitors, Working, Unborn, Resting

\* Every step of the main process, a monitor or the outside keeps it.
LEMMA NextIInv == IInv /\ [Next]_vars => IInv'
  BY NextTypeOK, NextChainsKnown, NextOneMonitor, NextReportLeadsToMonitor, NextReadStands,
     NextCleanerAlone DEF IInv

\* The inductive invariant holds of every reachable state.
THEOREM Invariance == Spec => []IInv
  BY InitIInv, NextIInv, PTL DEF Spec

\* Every variable keeps its type.
THEOREM TypeCorrect == Spec => []TypeOK
  <1>1. IInv => TypeOK
    BY DEF IInv
  <1>. QED BY Invariance, <1>1, PTL

\* Whatever crashes, hangs or restarts, and whatever pids are handed out again,
\* a chain never has two monitors.
THEOREM OneMonitorAlways == Spec => []OneMonitor
  <1>1. IInv => OneMonitor
    BY DEF IInv
  <1>. QED BY Invariance, <1>1, PTL

\* No monitor is ever out of reach of the process manager and the cleaner.
THEOREM ReportLeadsToMonitorAlways == Spec => []ReportLeadsToMonitor
  <1>1. IInv => ReportLeadsToMonitor
    BY DEF IInv
  <1>. QED BY Invariance, <1>1, PTL

-----------------------------------------------------------------------------
(* No live monitor is terminated as an old one. *)

\* The loops of a live monitor keep its report young.
MonitorsBeat ==
    \A pid \in Pids : proc[pid].phase = "live" => report[proc[pid].chain].age <= 1

\* When a process of this life wrote a report, its pid is that of the process; and
\* if it was read as old, it has lost its monitor: what ended can not come back
\* before the main process acts on it.
ReportsOwned ==
    /\ \A chain \in written : report[chain].pid # NoPid =>
          /\ report[chain].pid \in Pids
          /\ proc[report[chain].pid].chain = chain
          /\ proc[report[chain].pid].phase \notin {"unused", "new"}
    /\ main.at = "act" /\ main.old /\ main.pid # NoPid /\ main.chain \in written =>
          proc[main.pid].phase # "live"

\* Only the first report of a process makes a chain written, and a restart of the
\* container leaves none.
LEMMA WrittenMoves ==
    ASSUME [Next]_vars
    PROVE  \/ RestartContainer /\ written' = {}
           \/ ~ RestartContainer /\ written' = written
           \/ \E p \in Pids : Boot(p) /\ written' = written \cup {proc[p].chain}
  <1>1. CASE ManagerStep
    BY <1>1 DEF ManagerStep, StartRound, ReadReport, LeaveRunning, TerminateOld,
                StartProcess, EndRound, RestartContainer
  <1>2. CASE CleanerStep
    BY <1>2 DEF CleanerStep, StartCleaner, SkipChain, CleanChain, RemoveDir, EndCleaner,
                RestartContainer
  <1>3. CASE MonitorStep
    BY <1>3 DEF MonitorStep, Boot, Beat, Subvert, LoopRaises, Drained, Crash,
                RestartContainer
  <1>4. CASE RestartContainer
    BY <1>4 DEF RestartContainer
  <1>5. CASE (\E chain \in Chains : Leave(chain)) \/ Tick \/ UNCHANGED vars
    BY <1>5 DEF Leave, Tick, vars, RestartContainer
  <1>. QED BY <1>1, <1>2, <1>3, <1>4, <1>5 DEF Next

\* What a step does to the age of a report: a loop makes it young, and only the
\* monitor itself, the clock or the removal of its directory make it old.
LEMMA AgeMoves ==
    ASSUME TypeOK, ChainsKnown, [Next]_vars, NEW chain \in Chains
    PROVE  \/ report'[chain].age = report[chain].age
           \/ report'[chain].age = 0
           \/ \E p \in Pids : /\ proc[p].phase = "live" /\ proc[p].chain = chain
                              /\ proc'[p].phase = "draining"
           \/ RemoveDir /\ main.chain = chain /\ main.at = "rmdir"
           \/ Tick
  <1>1. CASE ManagerStep
    BY <1>1 DEF ManagerStep, StartRound, ReadReport, LeaveRunning, TerminateOld,
                StartProcess, EndRound
  <1>2. CASE CleanerStep
    BY <1>2 DEF CleanerStep, StartCleaner, SkipChain, CleanChain, RemoveDir, EndCleaner,
                TypeOK, Reports
  <1>3. ASSUME NEW p \in Pids, Boot(p) \/ Beat(p)
        PROVE  report'[chain].age = report[chain].age \/ report'[chain].age = 0
    BY <1>3 DEF Boot, Beat, TypeOK, Reports
  <1>4. ASSUME NEW p \in Pids, Subvert(p)
        PROVE  \/ report'[chain].age = report[chain].age
               \/ /\ proc[p].phase = "live" /\ proc[p].chain = chain
                  /\ proc'[p].phase = "draining"
    BY <1>4 DEF Subvert, TypeOK, Reports, Processes
  <1>5. ASSUME NEW p \in Pids, LoopRaises(p) \/ Drained(p) \/ Crash(p)
        PROVE  report'[chain].age = report[chain].age
    BY <1>5 DEF LoopRaises, Drained, Crash
  <1>6. CASE RestartContainer \/ (\E other \in Chains : Leave(other)) \/ UNCHANGED vars
    BY <1>6 DEF RestartContainer, Leave, vars
  <1>. QED BY <1>1, <1>2, <1>3, <1>4, <1>5, <1>6 DEF Next, MonitorStep

\* A monitor that is live after a step was live before it, or has just booted.
LEMMA LiveMoves ==
    ASSUME TypeOK, [Next]_vars, NEW pid \in Pids, proc'[pid].phase = "live"
    PROVE  /\ proc'[pid].chain = proc[pid].chain
           /\ \/ proc[pid].phase = "live"
              \/ Boot(pid) /\ proc[pid].phase = "new"
  BY ProcessMoves DEF Unborn

\* No step of a live monitor, and nobody else, lets its report grow old.
LEMMA NextMonitorsBeat == IInv /\ MonitorsBeat /\ [Next]_vars => MonitorsBeat'
  <1> SUFFICES ASSUME IInv, MonitorsBeat, [Next]_vars,
                      NEW pid \in Pids, proc'[pid].phase = "live"
               PROVE  report'[proc'[pid].chain].age <= 1
    BY DEF MonitorsBeat
  <1>0. TypeOK /\ ChainsKnown /\ OneMonitor /\ CleanerAlone
    BY DEF IInv
  <1> DEFINE chain == proc[pid].chain
  <1>1. /\ proc'[pid].chain = chain
        /\ proc[pid].phase = "live" \/ (Boot(pid) /\ proc[pid].phase = "new")
    BY <1>0, LiveMoves
  <1>2. chain \in Chains /\ pid \in Monitors(chain)
    BY <1>0, <1>1 DEF ChainsKnown, Monitors, Working
  <1>3. CASE Boot(pid)
    BY <1>0, <1>1, <1>2, <1>3 DEF Boot, TypeOK
  <1>4. CASE proc[pid].phase = "live"
    <2>1. report[chain].age <= 1
      BY <1>4 DEF MonitorsBeat
    <2>2. ASSUME NEW p \in Pids, proc[p].phase = "live", proc[p].chain = chain,
                 proc'[p].phase = "draining"
          PROVE  FALSE
      <3>1. p \in Monitors(chain)
        BY <2>2 DEF Monitors, Working
      <3>2. p = pid
        BY <1>0, <1>2, <3>1 DEF OneMonitor
      <3>. QED BY <2>2, <3>2
    <2>3. CASE RemoveDir /\ main.chain = chain /\ main.at = "rmdir"
      BY <1>0, <1>2, <2>3 DEF CleanerAlone
    <2>4. CASE Tick
      BY <1>0, <1>2, <1>4, <2>4 DEF Tick, TypeOK, Reports, Stale
    <2>. QED BY <1>0, <1>1, <1>2, <2>1, <2>2, <2>3, <2>4, AgeMoves
  <1>. QED BY <1>1, <1>3, <1>4

\* A pid that is in a report stays with its process while the container lives.
LEMMA OwnerStays ==
    ASSUME TypeOK, [Next]_vars, ~ RestartContainer,
           NEW pid \in Pids, proc[pid].phase \notin {"unused", "new"}
    PROVE  /\ proc'[pid].chain = proc[pid].chain
           /\ proc'[pid].phase \notin {"unused", "new"}
           /\ proc'[pid].phase = "live" => proc[pid].phase = "live"
  BY ProcessMoves DEF StartProcess

\* Every step keeps the pids of the reports apart, and what was read of an old one.
LEMMA NextReportsOwned == IInv /\ MonitorsBeat /\ ReportsOwned /\ [Next]_vars => ReportsOwned'
  <1> SUFFICES ASSUME IInv, MonitorsBeat, ReportsOwned, [Next]_vars
               PROVE  ReportsOwned'
    OBVIOUS
  <1>0. TypeOK /\ ChainsKnown /\ ReadStands
    BY DEF IInv
  <1>1. CASE written' = {}
    BY <1>1 DEF ReportsOwned
  <1>2. CASE written' # {}
    <2>1. ~ RestartContainer
      BY <1>2 DEF RestartContainer
    <2>2. ASSUME NEW chain \in written', report'[chain].pid # NoPid
          PROVE  /\ report'[chain].pid \in Pids
                 /\ proc'[report'[chain].pid].chain = chain
                 /\ proc'[report'[chain].pid].phase \notin {"unused", "new"}
      <3>1. CASE chain \in written
        <4>1. chain \in Chains
          BY <1>0, <3>1 DEF TypeOK
        <4>2. CASE report'[chain].pid = report[chain].pid
          BY <1>0, <2>1, <2>2, <3>1, <4>2, OwnerStays DEF ReportsOwned
        <4>3. ASSUME NEW p \in Pids, Boot(p), proc[p].phase = "new", proc[p].chain = chain,
                     report'[chain].pid = p
              PROVE  proc'[p].chain = chain /\ proc'[p].phase \notin {"unused", "new"}
          BY <1>0, <4>3 DEF Boot, End, TypeOK, Processes
        <4>4. CASE RemoveDir /\ main.chain = chain
          BY <1>0, <2>2, <4>1, <4>4 DEF RemoveDir, NoReport, TypeOK
        <4>. QED BY <1>0, <4>1, <4>2, <4>3, <4>4, ReportMoves
      <3>2. CASE chain \notin written
        <4>1. PICK p \in Pids : Boot(p) /\ proc[p].chain = chain
          BY <2>2, <3>2, WrittenMoves
        <4>2. chain \in Chains /\ report'[chain].pid = p
          BY <1>0, <4>1 DEF Boot, ChainsKnown, TypeOK
        <4>. QED BY <1>0, <4>1, <4>2 DEF Boot, End, TypeOK, Processes
      <3>. QED BY <3>1, <3>2
    <2>3. ASSUME main'.at = "act", main'.old, main'.pid # NoPid, main'.chain \in written'
          PROVE  proc'[main'.pid].phase # "live"
      <3>1. CASE main' = main
        <4>1. main.chain \in Chains /\ main.pid = report[main.chain].pid
          BY <1>0, <2>3, <3>1 DEF ReadStands
        <4>2. main.chain \in written
          <5>1. ASSUME NEW p \in Pids, Boot(p)
                PROVE  proc[p].chain # main.chain
            BY <1>0, <2>3, <3>1, <5>1 DEF Boot, ReadStands
          <5>. QED BY <2>3, <3>1, <5>1, WrittenMoves
        <4>3. main.pid \in Pids /\ proc[main.pid].phase \notin {"unused", "new", "live"}
          BY <2>3, <3>1, <4>1, <4>2 DEF ReportsOwned
        <4>. QED BY <1>0, <2>1, <3>1, <4>3, OwnerStays
      <3>2. ASSUME NEW chain \in Chains, ReadReport(chain)
            PROVE  proc'[main'.pid].phase # "live"
        <4>1. /\ main'.pid = report[chain].pid /\ main'.chain = chain /\ proc' = proc
              /\ main'.old = (report[chain].age > AllowedDiff) /\ written' = written
          BY <1>0, <3>2 DEF ReadReport, TypeOK, Mains
        <4>2. main'.pid \in Pids /\ proc[main'.pid].chain = chain
          BY <2>3, <4>1 DEF ReportsOwned
        <4>3. report[chain].age \in Int /\ report[chain].age > 1
          <5>1. report[chain].age \in 0..(AllowedDiff + 1)
            BY <1>0 DEF TypeOK, Reports
          <5>2. report[chain].age > AllowedDiff
            BY <2>3, <4>1
          <5>. QED BY <5>1, <5>2, ManagerAssumption
        <4>. QED BY <4>1, <4>2, <4>3 DEF MonitorsBeat
      <3>3. main'.at = "act" => main' = main \/ \E chain \in Chains : ReadReport(chain)
        BY <1>0, MainMoves
           DEF StartRound, StartCleaner, SkipChain, CleanChain, NextChain, RemoveDir, TypeOK,
               Mains, Resting
      <3>. QED BY <2>3, <3>1, <3>2, <3>3
    <2>. QED BY <2>2, <2>3 DEF ReportsOwned
  <1>. QED BY <1>1, <1>2

\* Both parts hold of every reachable state.
LEMMA BeatAndOwned == Spec => [](IInv /\ MonitorsBeat /\ ReportsOwned)
  <1>1. Init => IInv /\ MonitorsBeat /\ ReportsOwned
    <2>1. Init => MonitorsBeat /\ ReportsOwned
      BY ManagerAssumption
         DEF Init, MonitorsBeat, ReportsOwned, Unborn, NoReport, Resting, Events
    <2>. QED BY <2>1, InitIInv
  <1>2. /\ IInv /\ MonitorsBeat /\ ReportsOwned /\ [Next]_vars
        => (IInv /\ MonitorsBeat /\ ReportsOwned)'
    BY NextIInv, NextMonitorsBeat, NextReportsOwned
  <1>. QED BY <1>1, <1>2, PTL DEF Spec

\* Through any number of restarts, the process manager terminates only a monitor
\* that stopped beating, and the one of the chain whose report it read, whenever
\* a process of this life wrote that report.
THEOREM LiveMonitorSparedAlways == Spec => LiveMonitorSpared
  <1>1. ASSUME IInv, ReportsOwned, NEW pid \in Pids,
               TerminateOld, pid = main.pid, main.chain \in written
        PROVE  proc[pid].phase # "live" /\ proc[pid].chain = main.chain
    <2>1. main.at = "act" /\ main.old /\ main.pid # NoPid
      BY <1>1 DEF TerminateOld, Alive
    <2>2. main.chain \in Chains /\ main.pid = report[main.chain].pid
      BY <1>1, <2>1 DEF IInv, ReadStands
    <2>. QED BY <1>1, <2>1, <2>2 DEF ReportsOwned
  <1>2. IInv /\ ReportsOwned =>
          [\A pid \in Pids :
              TerminateOld /\ pid = main.pid /\ main.chain \in written =>
                  proc[pid].phase # "live" /\ proc[pid].chain = main.chain]_vars
    BY <1>1
  <1>. QED BY <1>2, BeatAndOwned, PTL DEF LiveMonitorSpared

-----------------------------------------------------------------------------
(* The process manager implements SingleMonitor. *)

\* The processes of each chain, as SingleMonitor sees them.
AllMonitors == [chain \in Chains |-> Monitors(chain)]

\* Unless the container restarts, a step makes at most one process begin or
\* cease to be a monitor.
LEMMA OneProcessMoves ==
    ASSUME TypeOK, [Next]_vars, ~ RestartContainer
    PROVE  \/ proc' = proc
           \/ \E pid \in Pids : \A q \in Pids \ {pid} :
                 /\ proc'[q].chain = proc[q].chain
                 /\ proc'[q].phase \in Working <=> proc[q].phase \in Working
  <1>1. CASE ManagerStep
    <2>1. CASE TerminateOld
      BY <2>1 DEF TerminateOld, Alive, TypeOK, Processes, Mains
    <2>2. ASSUME NEW pid \in Pids, StartProcess(pid), NEW q \in Pids \ {pid}
          PROVE  /\ proc'[q].chain = proc[q].chain
                 /\ proc'[q].phase \in Working <=> proc[q].phase \in Working
      BY <2>2 DEF StartProcess, Reaped, TypeOK, Processes, Working
    <2>. QED BY <1>1, <2>1, <2>2 DEF ManagerStep, StartRound, ReadReport, LeaveRunning, EndRound
  <1>2. CASE CleanerStep
    <2>1. CASE StartCleaner
      <3>1. \A q \in Pids :
              /\ proc'[q].chain = proc[q].chain
              /\ proc'[q].phase \in Working <=> proc[q].phase \in Working
        BY <2>1 DEF StartCleaner, Reaped, TypeOK, Processes, Working
      <3>2. Pids = {} => proc' = proc
        BY <2>1 DEF StartCleaner, Reaped, TypeOK
      <3>3. CASE Pids # {}
        <4>1. PICK pid \in Pids : TRUE
          BY <3>3
        <4>. QED BY <3>1, <4>1
      <3>. QED BY <3>2, <3>3
    <2>2. ASSUME NEW chain \in Chains, CleanChain(chain)
          PROVE  \/ proc' = proc
                 \/ report[chain].pid \in Pids /\
                    \A q \in Pids \ {report[chain].pid} : proc'[q] = proc[q]
      BY <2>2 DEF CleanChain, Alive, TypeOK, Processes, Reports
    <2>. QED BY <1>2, <2>1, <2>2 DEF CleanerStep, SkipChain, RemoveDir, EndCleaner
  <1>3. ASSUME NEW p \in Pids, NEW q \in Pids \ {p},
               Boot(p) \/ Beat(p) \/ Subvert(p) \/ LoopRaises(p) \/ Drained(p) \/ Crash(p)
        PROVE  proc'[q] = proc[q]
    BY <1>3 DEF Boot, Beat, Subvert, LoopRaises, Drained, Crash, End, TypeOK
  <1>4. CASE (\E chain \in Chains : Leave(chain)) \/ Tick \/ UNCHANGED vars
    BY <1>4 DEF Leave, Tick, vars
  <1>. QED BY <1>1, <1>2, <1>3, <1>4 DEF Next, MonitorStep

\* What becomes of the monitors of a chain when one process moves.
LEMMA MonitorsChange ==
    ASSUME IInv, [Next]_vars, NEW pid \in Pids,
           \A q \in Pids \ {pid} :
                 /\ proc'[q].chain = proc[q].chain
                 /\ proc'[q].phase \in Working <=> proc[q].phase \in Working
    PROVE  \/ \A chain \in Chains : Monitors(chain)' = Monitors(chain)
           \/ \E chain \in Chains :
                 /\ \A other \in Chains \ {chain} : Monitors(other)' = Monitors(other)
                 /\ \/ Monitors(chain) = {} /\ Monitors(chain)' = {pid}
                    \/ Monitors(chain) # {} /\ Monitors(chain)' = {}
  <1>0. /\ TypeOK /\ OneMonitor /\ ReadStands /\ ReportLeadsToMonitor /\ ChainsKnown
    BY DEF IInv
  <1>1. CASE proc[pid].phase \in Working /\ proc'[pid].phase \in Working
    <2>1. proc'[pid].chain = proc[pid].chain
      BY <1>0, <1>1, ProcessMoves DEF Working, Unborn, StartProcess
    <2>. QED BY <1>1, <2>1 DEF Monitors
  <1>2. CASE proc[pid].phase \notin Working /\ proc'[pid].phase \notin Working
    BY <1>2 DEF Monitors
  <1>3. CASE proc[pid].phase \in Working /\ proc'[pid].phase \notin Working
    <2>1. PICK chain \in Chains : proc[pid].chain = chain
      BY <1>0, <1>3 DEF ChainsKnown, Working
    <2>2. Monitors(chain) = {pid}
      BY <1>0, <1>3, <2>1 DEF OneMonitor, Monitors
    <2>3. Monitors(chain)' = {}
      BY <1>3, <2>2 DEF Monitors
    <2>4. \A other \in Chains \ {chain} : Monitors(other)' = Monitors(other)
      BY <1>3, <2>1 DEF Monitors
    <2>. QED BY <2>2, <2>3, <2>4
  <1>4. CASE proc[pid].phase \notin Working /\ proc'[pid].phase \in Working
    <2>1. StartProcess(pid) /\ proc'[pid] = [phase |-> "new", chain |-> main.chain]
      BY <1>0, <1>4, ProcessMoves DEF Working, Existing, Unborn
    <2>2. PICK chain \in Chains : main.chain = chain
      BY <1>0, <2>1 DEF StartProcess, ReadStands
    <2>3. Monitors(chain) = {}
      BY <1>0, <2>1, <2>2, StartsAlone
    <2>4. Monitors(chain)' = {pid}
      BY <1>4, <2>1, <2>2, <2>3 DEF Monitors
    <2>5. \A other \in Chains \ {chain} : Monitors(other)' = Monitors(other)
      BY <1>4, <2>1, <2>2 DEF Monitors
    <2>. QED BY <2>3, <2>4, <2>5
  <1>. QED BY <1>1, <1>2, <1>3, <1>4

\* Every behaviour of the process manager, its monitors and the cleaner is one of
\* SingleMonitor: starts come one at a time, and to a chain without monitor.
THEOREM ImplementsSingleMonitor == Spec => SingleMonitorSpec
  <1>1. Init => Promise!Init
    BY DEF Init, Promise!Init, Monitors, Unborn, Working
  <1>2. IInv /\ [Next]_vars => [Promise!Next]_AllMonitors
    <2> SUFFICES ASSUME IInv, [Next]_vars
                 PROVE  Promise!Next \/ AllMonitors' = AllMonitors
      OBVIOUS
    <2>1. CASE RestartContainer
      <3>1. \A chain \in Chains : Monitors(chain)' = {}
        BY <2>1 DEF RestartContainer, Monitors, Unborn, Working
      <3>2. AllMonitors' = [chain \in Chains |-> {}]
        BY <3>1 DEF AllMonitors
      <3>. QED BY <3>2 DEF Promise!Next, Promise!EndAll, AllMonitors
    <2>2. CASE proc' = proc
      BY <2>2 DEF AllMonitors, Monitors
    <2>3. ASSUME NEW pid \in Pids,
                 \A q \in Pids \ {pid} :
                     /\ proc'[q].chain = proc[q].chain
                     /\ proc'[q].phase \in Working <=> proc[q].phase \in Working
          PROVE  Promise!Next \/ AllMonitors' = AllMonitors
      <3>1. CASE \A chain \in Chains : Monitors(chain)' = Monitors(chain)
        BY <3>1 DEF AllMonitors
      <3>2. ASSUME NEW chain \in Chains,
                   \A other \in Chains \ {chain} : Monitors(other)' = Monitors(other),
                   \/ Monitors(chain) = {} /\ Monitors(chain)' = {pid}
                   \/ Monitors(chain) # {} /\ Monitors(chain)' = {}
            PROVE  Promise!Next
        <4>1. AllMonitors' = [AllMonitors EXCEPT ![chain] = Monitors(chain)']
          BY <3>2 DEF AllMonitors
        <4>2. AllMonitors[chain] = Monitors(chain)
          BY DEF AllMonitors
        <4>3. CASE Monitors(chain) = {} /\ Monitors(chain)' = {pid}
          <5>1. AllMonitors' = [AllMonitors EXCEPT ![chain] = {pid}] /\ AllMonitors[chain] = {}
            BY <4>1, <4>2, <4>3
          <5>2. Promise!Start(chain, pid)
            BY <5>1 DEF Promise!Start, AllMonitors
          <5>. QED BY <5>2 DEF Promise!Next
        <4>4. CASE Monitors(chain) # {} /\ Monitors(chain)' = {}
          <5>1. AllMonitors' = [AllMonitors EXCEPT ![chain] = {}] /\ AllMonitors[chain] # {}
            BY <4>1, <4>2, <4>4
          <5>2. Promise!End(chain)
            BY <5>1 DEF Promise!End, AllMonitors
          <5>. QED BY <5>2 DEF Promise!Next
        <4>. QED BY <3>2, <4>3, <4>4
      <3>. QED BY <2>3, <3>1, <3>2, MonitorsChange
    <2>. QED BY <2>1, <2>2, <2>3, OneProcessMoves DEF IInv
  <1>. QED BY <1>1, <1>2, Invariance, PTL DEF Spec, SingleMonitorSpec, Promise!Spec, AllMonitors
=============================================================================
