------------------------ MODULE SchainMonitor_proofs ------------------------
(***************************************************************************)
(* Theorems about SchainMonitor, for every value of its constants.         *)
(***************************************************************************)
EXTENDS SchainMonitor, TLAPS

-----------------------------------------------------------------------------
(* The inductive invariant, one conjunct per piece of the argument. *)

\* A thread runs only inside a live process.
ThreadsInProcess == ~ up => c.pc = Idle /\ s.mode = Idle

\* f comes after every other file.
IsLatest(f, files) == \A g \in files : g = f \/ Precedes(g, f)

\* Upstream files are named after pipelines that ran before: a new file is the
\* latest one, and there is a latest one.  The skaled config was copied from one
\* of them.
FilesOrdered ==
    /\ c.rid <= chain.rid
    /\ \A f \in upstream : f.ts <= now /\ f.rid <= c.rid
    /\ upstream # {} => \E f \in upstream : IsLatest(f, upstream)
    /\ skaled # NoConfig => upstream # {}

\* A record of this version stands for a latest upstream file of this version.
VersionStamped ==
    /\ rec.ver <= stream
    /\ ~ syncNode => /\ rec.ver = stream =>
                           upstream # {} /\ Latest(upstream).cfg.ver = stream
                     /\ c.pc \in {"reload", "reset"} => rec.ver = stream
                     /\ skaled # NoConfig /\ (up \/ rec.ver = stream) =>
                           skaled.ver = stream

\* Every config on a group member names a key share that was saved before.
KeysSaved ==
    ~ syncNode =>
        /\ c.pc \in {"external", "generate", "reload", "reset"} => c.rid \in keys
        /\ \A f \in upstream : f.cfg.key \in keys
        /\ skaled # NoConfig => skaled.key \in keys
        /\ cont.cfg # NoConfig => cont.cfg.key \in keys

\* Configs only move forward: container, skaled config, latest upstream, and
\* the one that would be generated now.
ConfigsOrdered ==
    /\ chain.finish <= now + RotationDelay
    /\ \A f \in upstream : NotOlder(f.cfg, NewConfig)
    /\ skaled # NoConfig => NotOlder(skaled, Latest(upstream).cfg)
    /\ cont.cfg # NoConfig =>
          /\ upstream # {}
          /\ NotOlder(cont.cfg, Latest(upstream).cfg)
          /\ skaled # NoConfig => NotOlder(cont.cfg, skaled)

\* What the choice of a monitor established still holds at its blocks.
ChoiceHolds ==
    /\ s.mode \in Modes \ {"NoConfig", "Recreate", "UpdateConfig"} => skaled # NoConfig
    /\ s.mode = "NoConfig" /\ s.at = 1 => skaled = NoConfig
    /\ s.mode = "Recreate" /\ s.at = 3 => cont.st = "none"
    /\ s.mode = "UpdateConfig" /\ s.at <= 6 => cont.st # "running"
    /\ s.mode = "UpdateConfig" /\ s.at = 6 => cont.st = "none"
    /\ s.mode = "Repair" /\ s.at <= 2 => RepairRequested
    /\ ncli <= now
    /\ Running => cont.cfg # NoConfig

\* An exit is scheduled for a config that is behind; it stays behind until skaled
\* has exited, and the update resets the schedule before it starts skaled.
ExitAnnounced ==
    /\ exitTs # NoTs /\ ~ anew => skaled # NoConfig /\ (ConfigBehind \/ ConfigUpdateTime)
    /\ anew => exitTs # NoTs
    /\ s.mode \in {"ReloadGroup", "ReloadIp"} => ConfigBehind
    /\ s.mode = "UpdateConfig" /\ s.at <= 6 => status.exit
    /\ s.mode = "UpdateConfig" /\ s.at \in {5, 6} => exitTs = NoTs

\* The inductive invariant.
IInv ==
    /\ TypeOK
    /\ ThreadsInProcess
    /\ FilesOrdered
    /\ PipelineGated
    /\ VersionStamped
    /\ ConfigUnderPipeline
    /\ KeysSaved
    /\ ConfigsOrdered
    /\ ChoiceHolds
    /\ ExitAnnounced

-----------------------------------------------------------------------------
(* The latest upstream file. *)

\* latest_upstream_config: a file after all others is the one that is chosen.
LEMMA LatestIs ==
    ASSUME NEW U \in SUBSET Files, NEW f \in U, IsLatest(f, U)
    PROVE  Latest(U) = f
  <1>1. \A h \in U : IsLatest(h, U) => h = f
    BY DEF Files, Configs, OptTs, NoTs, Precedes, IsLatest
  <1>. QED BY <1>1 DEF Latest, IsLatest

\* save_new_upstream: a file that no other one follows becomes the latest,
\* whether or not it overwrites one of the same second.
LEMMA SavedIsLatest ==
    ASSUME NEW U \in SUBSET Files, NEW f \in Files,
           \A g \in U : g.rid <= f.rid /\ g.ts <= f.ts
    PROVE  /\ SaveNewUpstream(U, f) \in SUBSET Files
           /\ f \in SaveNewUpstream(U, f)
           /\ IsLatest(f, SaveNewUpstream(U, f))
           /\ Latest(SaveNewUpstream(U, f)) = f
  <1>1. /\ SaveNewUpstream(U, f) \in SUBSET Files
        /\ f \in SaveNewUpstream(U, f)
    BY DEF SaveNewUpstream
  <1>2. IsLatest(f, SaveNewUpstream(U, f))
    BY DEF SaveNewUpstream, IsLatest, SameName, Precedes, Files, Configs
  <1>. QED BY <1>1, <1>2, LatestIs

\* The latest file of this state is a file.
LEMMA LatestInUpstream ==
    ASSUME TypeOK, FilesOrdered, upstream # {}
    PROVE  /\ Latest(upstream) \in upstream
           /\ IsLatest(Latest(upstream), upstream)
           /\ Latest(upstream).cfg \in Configs
  <1>1. PICK f \in upstream : IsLatest(f, upstream)
    BY DEF FilesOrdered
  <1>2. Latest(upstream) = f
    BY <1>1, LatestIs DEF TypeOK
  <1>. QED BY <1>1, <1>2 DEF TypeOK, Files

-----------------------------------------------------------------------------
(* The order of the configs. *)

\* A config is no older than itself.
LEMMA NotOlderSelf ==
    ASSUME NEW a \in Configs
    PROVE  NotOlder(a, a)
  BY DEF NotOlder, Configs, OptTs, NoTs

\* Two configs neither of which is older are the same.
LEMMA NotOlderBoth ==
    ASSUME NEW a \in Configs, NEW b \in Configs, NotOlder(a, b), NotOlder(b, a)
    PROVE  a = b
  BY DEF NotOlder, Configs, OptTs, NoTs

\* Nor is one that follows another.
LEMMA NotOlderTrans ==
    ASSUME NEW a \in Configs, NEW b \in Configs, NEW d \in Configs,
           NotOlder(a, b), NotOlder(b, d)
    PROVE  NotOlder(a, d)
  BY DEF NotOlder, Configs, OptTs, NoTs

-----------------------------------------------------------------------------
(* Type correctness. *)

\* The state of a chain that was just created.
LEMMA InitTypeOK == Init => TypeOK
  <1> SUFFICES ASSUME Init PROVE TypeOK
    OBVIOUS
  <1> USE DEF Init, OptTs, NoTs, Idle
  <1>1. left \in [Events -> Nat]
    BY MonitorAssumption
  <1>2. chain \in ChainStates
    BY DEF ChainStates
  <1>3. rec \in Records
    BY DEF Records
  <1>4. status \in Statuses /\ cont \in Containers /\ wiped \in BOOLEAN
    BY DEF Statuses, Containers
  <1>5. c \in ConfigThreads /\ s \in SkaledThreads
    BY DEF ConfigThreads, SkaledThreads
  <1>. QED BY <1>1, <1>2, <1>3, <1>4, <1>5 DEF TypeOK

\* What is left of a budget stays a number.
LEMMA SpendTyped ==
    ASSUME TypeOK, NEW e \in Events, Spend(e)
    PROVE  left' \in [Events -> Nat]
  <1>1. left[e] - 1 \in Nat
    BY DEF TypeOK, Spend
  <1>. QED BY <1>1 DEF TypeOK, Spend

\* A started container is one, and so is the record of its certificate.
LEMMA StartedTyped ==
    ASSUME TypeOK, NEW snapshot \in BOOLEAN, Started(snapshot)
    PROVE  cont' \in Containers
  BY DEF TypeOK, Started, Containers

\* Neither the next block nor the end of the pipeline leaves the thread's type.
LEMMA MovedTyped ==
    ASSUME TypeOK, Advance \/ Raise
    PROVE  s' \in SkaledThreads
  <1>1. Advance => s' \in SkaledThreads
    BY DEF TypeOK, Advance, SkaledThreads
  <1>2. Raise => s' \in SkaledThreads
    <2>1. 1 \in Nat \ {0}
      OBVIOUS
    <2>. QED BY <2>1, Zenon DEF TypeOK, Raise, SkaledThreads
  <1>. QED BY <1>1, <1>2

\* Threads that end with their process are idle threads.
LEMMA StoppedTyped ==
    ASSUME TypeOK, ThreadsStop
    PROVE  c' \in ConfigThreads /\ s' \in SkaledThreads /\ up' \in BOOLEAN
  <1>1. s' \in SkaledThreads
    BY MovedTyped DEF ThreadsStop, Raise
  <1>2. c' \in ConfigThreads
    BY DEF TypeOK, ThreadsStop, ConfigThreads
  <1>. QED BY <1>1, <1>2 DEF ThreadsStop

\* No step of the two pipelines or of their environment leaves the types.
LEMMA NextTypeOK == TypeOK /\ FilesOrdered /\ [Next]_vars => TypeOK'
  <1> SUFFICES ASSUME TypeOK, FilesOrdered, [Next]_vars
               PROVE  TypeOK'
    OBVIOUS
  <1> USE DEF TypeOK, vars, envVars, fileVars, hostVars
  <1>1. CASE StartTasks
    BY <1>1 DEF StartTasks
  <1>2. CASE MonitorKilled
    BY <1>2, SpendTyped, StoppedTyped DEF MonitorKilled, Events
  <1>3. CASE AdminRestart
    <2>1. left' \in [Events -> Nat]
      BY <1>3, SpendTyped DEF AdminRestart, Events
    <2>2. rec' \in Records /\ stream' \in Nat
      <3>1. PICK version \in {stream, stream + 1}, pullConfig, backupRun \in BOOLEAN :
              /\ stream' = version
              /\ rec' = [rec EXCEPT !.first = TRUE, !.sync = @ \/ pullConfig,
                                    !.backup = @ \/ backupRun]
        BY <1>3 DEF AdminRestart
      <3>2. (rec.sync \/ pullConfig) \in BOOLEAN /\ (rec.backup \/ backupRun) \in BOOLEAN
        OBVIOUS
      <3>3. rec' \in Records
        BY <3>1, <3>2, Zenon DEF Records
      <3>. QED BY <3>1, <3>3
    <2>3. c' \in ConfigThreads /\ s' \in SkaledThreads /\ up' \in BOOLEAN
      BY <1>3, StoppedTyped DEF AdminRestart
    <2>. QED BY <1>3, <2>1, <2>2, <2>3 DEF AdminRestart
  <1>4. CASE ConfigStep
    <2> USE DEF ConfigGoto, ConfigThreads
    <2>1. CASE ConfigStart
      BY <2>1 DEF ConfigStart, ChainStates
    <2>2. CASE ConfigDkg
      BY <2>2 DEF ConfigDkg
    <2>3. CASE ConfigDkgFails
      BY <2>3 DEF ConfigDkgFails
    <2>4. CASE ConfigExternalState
      BY <2>4 DEF ConfigExternalState, OptTs, NoTs
    <2>5. CASE ConfigGenerate
      <3>1. NewConfig \in Configs
        BY DEF NewConfig, Configs, ChainStates
      <3>2. upstream' \subseteq Files
        BY <2>5, <3>1 DEF ConfigGenerate, SaveNewUpstream, Files
      <3>3. rec' \in Records
        BY <2>5 DEF ConfigGenerate, Records
      <3>. QED BY <2>5, <3>2, <3>3 DEF ConfigGenerate
    <2>6. CASE ConfigSkipGenerate
      BY <2>6 DEF ConfigSkipGenerate
    <2>7. CASE ConfigReloadTs
      BY <2>7, MonitorAssumption DEF ConfigReloadTs, OptTs, NoTs
    <2>8. CASE ConfigReset
      BY <2>8 DEF ConfigReset, Records
    <2>. QED
      BY <1>4, <2>1, <2>2, <2>3, <2>4, <2>5, <2>6, <2>7, <2>8 DEF ConfigStep
  <1>5. CASE ConfigFails
    BY <1>5, SpendTyped DEF ConfigFails, ConfigGoto, ConfigThreads, Events
  <1>6. CASE SkaledStep
    <2>1. CASE SkaledStart
      BY <2>1 DEF SkaledStart, SkaledThreads, Priority, Modes, Plan
    <2>2. CASE BlockUpdateConfig
      BY <2>2, MovedTyped, LatestInUpstream DEF BlockUpdateConfig
    <2>3. CASE BlockFirewall
      <3>1. fw' \in OptTs
        BY <2>3, LatestInUpstream DEF BlockFirewall, FilesOrdered, Configs, OptTs
      <3>2. s' \in SkaledThreads
        BY <2>3, MovedTyped DEF BlockFirewall
      <3>. QED BY <2>3, <3>1, <3>2 DEF BlockFirewall
    <2>4. CASE BlockVolume
      BY <2>4, MovedTyped DEF BlockVolume
    <2>5. CASE BlockRemoveContainer
      BY <2>5, MovedTyped DEF BlockRemoveContainer, Containers
    <2>6. CASE BlockRemoveVolume
      <3>1. wiped' \in BOOLEAN /\ vol' \in BOOLEAN
        BY <2>6 DEF BlockRemoveVolume
      <3>. QED BY <2>6, <3>1, MovedTyped DEF BlockRemoveVolume
    <2>7. CASE BlockContainer
      <3>1. cont' \in Containers
        BY <2>7, StartedTyped DEF BlockContainer, MonitorContainer, RunContainer,
                    RestartContainer, LeaveContainer, Containers
      <3>4. s' \in SkaledThreads
        BY <2>7, MovedTyped DEF BlockContainer, MonitorContainer, RunContainer,
                    RestartContainer, LeaveContainer
      <3>2. rec' \in Records
        BY <2>7 DEF BlockContainer, MonitorContainer, RunContainer, RestartContainer,
                    LeaveContainer, Records
      <3>3. wiped' \in BOOLEAN
        BY <2>7 DEF BlockContainer, MonitorContainer, RunContainer, RestartContainer,
                    LeaveContainer
      <3>. QED BY <2>7, <3>1, <3>2, <3>3, <3>4 DEF BlockContainer
    <2>8. CASE BlockRpc
      <3>1. left' \in [Events -> Nat]
        BY <2>8, SpendTyped DEF BlockRpc, Events
      <3>2. cont' \in Containers
        BY <2>8, StartedTyped DEF BlockRpc, Containers
      <3>. QED BY <2>8, <3>1, <3>2, MovedTyped DEF BlockRpc
    <2>9. CASE BlockExitGroup \/ BlockExitIp
      <3>1. UpstreamFinishTs \in OptTs
        BY LatestInUpstream DEF UpstreamFinishTs, Configs, OptTs, NoTs
      <3>. QED
        BY <2>9, <3>1, MovedTyped DEF BlockExitGroup, BlockExitIp, ScheduleExit
    <2>10. CASE BlockResetExit
      BY <2>10, MovedTyped DEF BlockResetExit, OptTs, NoTs
    <2>11. CASE BlockRepairTs
      BY <2>11, MovedTyped DEF BlockRepairTs, Records
    <2>12. CASE BlockDisableBackup
      <3>1. rec' \in Records
        BY <2>12 DEF BlockDisableBackup, Records
      <3>. QED BY <2>12, <3>1, MovedTyped DEF BlockDisableBackup
    <2>13. CASE SkaledFinish
      BY <2>13, MovedTyped DEF SkaledFinish, Records
    <2>. QED
      BY <1>6, <2>1, <2>2, <2>3, <2>4, <2>5, <2>6, <2>7, <2>8, <2>9, <2>10, <2>11,
         <2>12, <2>13 DEF SkaledStep
  <1>7. CASE SkaledFails
    BY <1>7, SpendTyped, MovedTyped DEF SkaledFails, Events
  <1>8. CASE Rotate
    <2>1. left' \in [Events -> Nat]
      BY <1>8, SpendTyped DEF Rotate, Events
    <2>2. chain' \in ChainStates
      <3>1. PICK stays \in BOOLEAN, ipTs \in {0, chain.ipTs} :
              chain' = [chain EXCEPT !.rid = @ + 1, !.ips = @ + 1, !.ipTs = ipTs,
                                     !.finish = now + RotationDelay,
                                     !.member = @ /\ stays, !.ok = FALSE]
        BY <1>8 DEF Rotate
      <3>2. /\ (chain.member /\ stays) \in BOOLEAN
            /\ chain.rid + 1 \in Nat /\ chain.ips + 1 \in Nat
            /\ ipTs \in Nat /\ now + RotationDelay \in OptTs
        BY MonitorAssumption DEF ChainStates, OptTs
      <3>. QED BY <3>1, <3>2, Zenon DEF ChainStates
    <2>. QED BY <1>8, <2>1, <2>2 DEF Rotate
  <1>9. CASE DkgCompletes
    BY <1>9 DEF DkgCompletes, ChainStates
  <1>10. CASE ChangeIp
    <2>1. left' \in [Events -> Nat]
      BY <1>10, SpendTyped DEF ChangeIp, Events
    <2>2. chain' \in ChainStates
      <3>1. chain.ips + 1 \in Nat
        BY DEF ChainStates
      <3>. QED BY <1>10, <3>1, Zenon DEF ChangeIp, ChainStates
    <2>. QED BY <1>10, <2>1, <2>2 DEF ChangeIp
  <1>11. CASE SkaledBoots
    BY <1>11 DEF SkaledBoots, Containers, Statuses
  <1>12. CASE SkaledExits
    BY <1>12 DEF SkaledExits, Containers, Statuses
  <1>13. CASE SkaledDown
    BY <1>13, SpendTyped DEF SkaledDown, Events, Containers, Statuses
  <1>14. CASE NodeCliRepair
    BY <1>14, SpendTyped DEF NodeCliRepair, Events, OptTs
  <1>15. CASE CertificateUploaded
    BY <1>15, SpendTyped DEF CertificateUploaded, Events
  <1>16. CASE Tick
    BY <1>16 DEF Tick
  <1>17. CASE UNCHANGED vars
    BY <1>17
  <1>. QED
    BY <1>1, <1>2, <1>3, <1>4, <1>5, <1>6, <1>7, <1>8, <1>9, <1>10, <1>11, <1>12,
       <1>13, <1>14, <1>15, <1>16, <1>17 DEF Next

-----------------------------------------------------------------------------
(* Which steps write which part of the state. *)

\* The steps of the config thread, and those that end it.
ConfigWrites ==
    \/ ConfigStep
    \/ ConfigFails
    \/ MonitorKilled
    \/ AdminRestart

\* The steps of the skaled thread, and those that end it.
SkaledWrites ==
    \/ SkaledStep
    \/ SkaledFails
    \/ MonitorKilled
    \/ AdminRestart

\* Each variable the invariant speaks of, with the steps that may change it.
LEMMA Writers ==
    ASSUME [Next]_vars
    PROVE  /\ syncNode' = syncNode
           /\ now' = now \/ Tick
           /\ chain' = chain \/ Rotate \/ DkgCompletes \/ ChangeIp
           /\ stream' = stream \/ AdminRestart
           /\ \/ rec' = rec
              \/ AdminRestart \/ ConfigGenerate \/ ConfigReset \/ BlockContainer
              \/ BlockRepairTs \/ BlockDisableBackup \/ SkaledFinish
           /\ keys' = keys \/ ConfigDkg
           /\ upstream' = upstream \/ ConfigGenerate
           /\ skaled' = skaled \/ StartTasks \/ BlockUpdateConfig
           /\ exitTs' = exitTs \/ BlockExitGroup \/ BlockExitIp \/ BlockResetExit
           /\ anew' = anew \/ StartTasks \/ BlockResetExit
           /\ status' = status \/ SkaledBoots \/ SkaledExits \/ SkaledDown
           /\ \/ cont' = cont
              \/ BlockRemoveContainer \/ BlockContainer \/ BlockRpc
              \/ SkaledBoots \/ SkaledExits \/ SkaledDown
           /\ vol' = vol \/ BlockVolume \/ BlockRemoveVolume
           /\ ncli' = ncli \/ NodeCliRepair
           /\ up' = up \/ StartTasks \/ MonitorKilled \/ AdminRestart
           /\ c' = c \/ ConfigWrites
           /\ s' = s \/ SkaledWrites
  <1> USE DEF vars, envVars, fileVars, hostVars
  <1>1. CASE StartTasks
    BY <1>1 DEF StartTasks
  <1>2. CASE MonitorKilled
    BY <1>2 DEF MonitorKilled, ConfigWrites, SkaledWrites
  <1>3. CASE AdminRestart
    BY <1>3 DEF AdminRestart, ConfigWrites, SkaledWrites
  <1>4. CASE ConfigStart
    BY <1>4 DEF ConfigStart, ConfigWrites, ConfigStep
  <1>5. CASE ConfigDkg
    BY <1>5 DEF ConfigDkg, ConfigWrites, ConfigStep
  <1>6. CASE ConfigDkgFails
    BY <1>6 DEF ConfigDkgFails, ConfigWrites, ConfigStep
  <1>7. CASE ConfigExternalState
    BY <1>7 DEF ConfigExternalState, ConfigWrites, ConfigStep
  <1>8. CASE ConfigGenerate
    BY <1>8 DEF ConfigGenerate, ConfigWrites, ConfigStep
  <1>9. CASE ConfigSkipGenerate
    BY <1>9 DEF ConfigSkipGenerate, ConfigWrites, ConfigStep
  <1>10. CASE ConfigReloadTs
    BY <1>10 DEF ConfigReloadTs, ConfigWrites, ConfigStep
  <1>11. CASE ConfigReset
    BY <1>11 DEF ConfigReset, ConfigWrites, ConfigStep
  <1>12. CASE ConfigFails
    BY <1>12 DEF ConfigFails, ConfigWrites
  <1>13. CASE SkaledStart
    BY <1>13 DEF SkaledStart, SkaledWrites, SkaledStep
  <1>14. CASE BlockUpdateConfig
    BY <1>14 DEF BlockUpdateConfig, SkaledWrites, SkaledStep
  <1>15. CASE BlockFirewall
    BY <1>15 DEF BlockFirewall, SkaledWrites, SkaledStep
  <1>16. CASE BlockVolume
    BY <1>16 DEF BlockVolume, SkaledWrites, SkaledStep
  <1>17. CASE BlockRemoveContainer
    BY <1>17 DEF BlockRemoveContainer, SkaledWrites, SkaledStep
  <1>18. CASE BlockRemoveVolume
    BY <1>18 DEF BlockRemoveVolume, SkaledWrites, SkaledStep
  <1>19. CASE BlockContainer
    BY <1>19 DEF BlockContainer, SkaledWrites, SkaledStep
  <1>20. CASE BlockRpc
    BY <1>20 DEF BlockRpc, SkaledWrites, SkaledStep
  <1>21. CASE BlockExitGroup
    BY <1>21 DEF BlockExitGroup, ScheduleExit, SkaledWrites, SkaledStep
  <1>22. CASE BlockExitIp
    BY <1>22 DEF BlockExitIp, ScheduleExit, SkaledWrites, SkaledStep
  <1>23. CASE BlockResetExit
    BY <1>23 DEF BlockResetExit, SkaledWrites, SkaledStep
  <1>24. CASE BlockRepairTs
    BY <1>24 DEF BlockRepairTs, SkaledWrites, SkaledStep
  <1>25. CASE BlockDisableBackup
    BY <1>25 DEF BlockDisableBackup, SkaledWrites, SkaledStep
  <1>26. CASE SkaledFinish
    BY <1>26 DEF SkaledFinish, SkaledWrites, SkaledStep
  <1>27. CASE SkaledFails
    BY <1>27 DEF SkaledFails, SkaledWrites
  <1>28. CASE Rotate
    BY <1>28 DEF Rotate
  <1>29. CASE DkgCompletes
    BY <1>29 DEF DkgCompletes
  <1>30. CASE ChangeIp
    BY <1>30 DEF ChangeIp
  <1>31. CASE SkaledBoots
    BY <1>31 DEF SkaledBoots
  <1>32. CASE SkaledExits
    BY <1>32 DEF SkaledExits
  <1>33. CASE SkaledDown
    BY <1>33 DEF SkaledDown
  <1>34. CASE NodeCliRepair
    BY <1>34 DEF NodeCliRepair
  <1>35. CASE CertificateUploaded
    BY <1>35 DEF CertificateUploaded
  <1>36. CASE Tick
    BY <1>36 DEF Tick
  <1>37. CASE UNCHANGED vars
    BY <1>37
  <1>. QED
    BY <1>1, <1>2, <1>3, <1>4, <1>5, <1>6, <1>7, <1>8, <1>9, <1>10, <1>11, <1>12,
       <1>13, <1>14, <1>15, <1>16, <1>17, <1>18, <1>19, <1>20, <1>21, <1>22,
       <1>23, <1>24, <1>25, <1>26, <1>27, <1>28, <1>29, <1>30, <1>31, <1>32,
       <1>33, <1>34, <1>35, <1>36, <1>37
       DEF Next, ConfigStep, SkaledStep

-----------------------------------------------------------------------------
(* The parts of the invariant, each kept by every step. *)

\* Threads end with the process, and start only in one that runs.
LEMMA NextThreadsInProcess ==
    TypeOK /\ ThreadsInProcess /\ [Next]_vars => ThreadsInProcess'
  <1> SUFFICES ASSUME TypeOK, ThreadsInProcess, [Next]_vars
               PROVE  ThreadsInProcess'
    OBVIOUS
  <1>1. MonitorKilled \/ AdminRestart => c'.pc = Idle /\ s'.mode = Idle
    BY DEF MonitorKilled, AdminRestart, ThreadsStop, TypeOK, ConfigThreads, SkaledThreads
  <1>2. StartTasks => up'
    BY DEF StartTasks
  <1>3. ConfigStep \/ ConfigFails => up /\ up' = up
    BY DEF ConfigStep, ConfigFails, ConfigAt, ConfigStart, ConfigDkg, ConfigDkgFails,
           ConfigExternalState, ConfigGenerate, ConfigSkipGenerate, ConfigReloadTs, ConfigReset
  <1>4. SkaledStep \/ SkaledFails => up /\ up' = up
    BY DEF SkaledStep, SkaledFails, SkaledStart, At, BlockUpdateConfig, BlockFirewall,
           BlockVolume, BlockRemoveContainer, BlockRemoveVolume, BlockContainer, BlockRpc,
           BlockExitGroup, BlockExitIp, ScheduleExit, BlockResetExit, BlockRepairTs,
           BlockDisableBackup, SkaledFinish
  <1>. QED
    BY <1>1, <1>2, <1>3, <1>4, Writers
       DEF ThreadsInProcess, ConfigWrites, SkaledWrites

\* create_new_upstream_config and save_new_upstream: whether a file is written
\* or found to be there, the latest one then holds the new config.
LEMMA GeneratedIsLatest ==
    ASSUME TypeOK, FilesOrdered, ConfigGenerate
    PROVE  /\ upstream' \in SUBSET Files
           /\ Latest(upstream') \in upstream'
           /\ IsLatest(Latest(upstream'), upstream')
           /\ Latest(upstream').cfg = NewConfig
           /\ \A f \in upstream' : \/ f \in upstream
                                   \/ f = [rid |-> c.rid, ts |-> now, cfg |-> NewConfig]
  <1> DEFINE file == [rid |-> c.rid, ts |-> now, cfg |-> NewConfig]
  <1>1. CASE upstream # {} /\ NewConfig = Latest(upstream).cfg
    <2>1. upstream' = upstream
      BY <1>1 DEF ConfigGenerate
    <2>. QED BY <1>1, <2>1, LatestInUpstream DEF TypeOK
  <1>2. CASE ~ (upstream # {} /\ NewConfig = Latest(upstream).cfg)
    <2>1. upstream' = SaveNewUpstream(upstream, file)
      BY <1>2 DEF ConfigGenerate
    <2>2. file \in Files
      BY DEF TypeOK, NewConfig, Configs, Files, ChainStates, ConfigThreads
    <2>3. \A g \in upstream : g.rid <= file.rid /\ g.ts <= file.ts
      BY DEF FilesOrdered
    <2>4. file.cfg = NewConfig
      OBVIOUS
    <2>5. \A f \in upstream' : f \in upstream \/ f = file
      BY <2>1 DEF SaveNewUpstream
    <2>. HIDE DEF file
    <2>6. upstream' \in SUBSET Files /\ file \in upstream' /\ IsLatest(file, upstream')
          /\ Latest(upstream') = file
      BY <2>1, <2>2, <2>3, SavedIsLatest DEF TypeOK
    <2>. QED BY <2>4, <2>5, <2>6 DEF file
  <1>. QED BY <1>1, <1>2

\* The rotation a pipeline reads is the newest at its start, and pipelines read
\* one after another.
LEMMA RotationRead ==
    ASSUME TypeOK, FilesOrdered, [Next]_vars
    PROVE  c.rid <= c'.rid /\ c'.rid <= chain'.rid
  <1>1. chain.rid <= chain'.rid
    <2>1. Rotate => chain'.rid = chain.rid + 1
      BY DEF Rotate, TypeOK, ChainStates
    <2>2. DkgCompletes \/ ChangeIp => chain'.rid = chain.rid
      BY DEF DkgCompletes, ChangeIp, TypeOK, ChainStates
    <2>. QED BY <2>1, <2>2, Writers DEF TypeOK, ChainStates
  <1>2. CASE ConfigStart
    BY <1>2 DEF ConfigStart, envVars, FilesOrdered, TypeOK, ChainStates
  <1>3. CASE ~ ConfigStart
    <2>1. c'.rid = c.rid
      BY <1>3, Writers
         DEF ConfigWrites, ConfigStep, ConfigFails, MonitorKilled, AdminRestart,
             ThreadsStop, ConfigGoto, ConfigDkg, ConfigDkgFails, ConfigExternalState,
             ConfigGenerate, ConfigSkipGenerate, ConfigReloadTs, ConfigReset,
             TypeOK, ConfigThreads
    <2>2. c.rid \in Nat /\ chain.rid \in Nat /\ chain'.rid \in Nat
      BY NextTypeOK DEF TypeOK, ChainStates, ConfigThreads
    <2>. QED BY <1>1, <2>1, <2>2 DEF FilesOrdered
  <1>. QED BY <1>2, <1>3

\* Upstream files stay ordered: a pipeline names its file after the rotation it
\* started with, and no earlier pipeline of the process had a later one.
LEMMA NextFilesOrdered ==
    TypeOK /\ FilesOrdered /\ [Next]_vars => FilesOrdered'
  <1> SUFFICES ASSUME TypeOK, FilesOrdered, [Next]_vars
               PROVE  FilesOrdered'
    OBVIOUS
  <1>1. now <= now'
    BY Writers DEF Tick, TypeOK
  <1>2. c.rid <= c'.rid /\ c'.rid <= chain'.rid
    BY RotationRead
  <1>3. /\ \A f \in upstream' :
              f.ts <= now' /\ f.rid <= c'.rid
        /\ upstream' # {} => \E f \in upstream' : IsLatest(f, upstream')
        /\ upstream # {} => upstream' # {}
    <2>0. \A f \in upstream :
              f.ts <= now' /\ f.rid <= c'.rid
      <3>1. now' \in Nat /\ c'.rid \in Nat
        BY NextTypeOK DEF TypeOK, ConfigThreads
      <3>. QED
        BY <1>1, <1>2, <3>1 DEF FilesOrdered, TypeOK, Files, ConfigThreads
    <2>1. CASE ConfigGenerate
      <3>1. now' = now /\ c'.rid = c.rid
        BY <2>1 DEF ConfigGenerate, ConfigGoto, envVars, TypeOK, ConfigThreads
      <3>. QED
        BY <2>0, <2>1, <3>1, GeneratedIsLatest DEF TypeOK, ConfigThreads
    <2>2. CASE ~ ConfigGenerate
      BY <2>0, <2>2, Writers DEF FilesOrdered
    <2>. QED BY <2>1, <2>2
  <1>4. skaled' # NoConfig => upstream' # {}
    BY <1>3, Writers DEF StartTasks, BlockUpdateConfig, FilesOrdered
  <1>. QED BY <1>2, <1>3, <1>4 DEF FilesOrdered

\* Every step of the skaled pipeline but its start belongs to a chosen monitor.
LEMMA BlocksAreBusy == SkaledStep \/ SkaledFails => SkaledStart \/ (up /\ Busy)
  BY DEF SkaledStep, SkaledFails, At, Busy, BlockUpdateConfig, BlockFirewall,
         BlockVolume, BlockRemoveContainer, BlockRemoveVolume, BlockContainer, BlockRpc,
         BlockExitGroup, BlockExitIp, BlockResetExit, BlockRepairTs, BlockDisableBackup,
         SkaledFinish, BlocksDone

\* SkaledTask.needed holds for as long as the pipeline it admitted runs.
LEMMA NextPipelineGated ==
    TypeOK /\ ThreadsInProcess /\ PipelineGated /\ [Next]_vars => PipelineGated'
  <1> SUFFICES ASSUME TypeOK, ThreadsInProcess, PipelineGated, [Next]_vars
               PROVE  PipelineGated'
    OBVIOUS
  <1>1. CASE MonitorKilled \/ AdminRestart
    <2>1. s'.mode = Idle
      BY <1>1 DEF MonitorKilled, AdminRestart, ThreadsStop, TypeOK, SkaledThreads
    <2>. QED BY <2>1 DEF PipelineGated, Busy
  <1>2. CASE SkaledStart
    BY <1>2 DEF SkaledStart, PipelineGated, Busy, Outdated, envVars
  <1>3. CASE ~ (MonitorKilled \/ AdminRestart \/ SkaledStart)
    <2>1. stream' = stream
      BY <1>3, Writers
    <2>2. ~ Outdated(rec) => ~ Outdated(rec')
      <3>1. ConfigGenerate \/ ConfigReset => rec'.ver = stream /\ (rec'.sync => rec.sync)
                                              /\ rec'.first = rec.first
        BY DEF ConfigGenerate, ConfigReset, TypeOK, Records
      <3>2. BlockContainer \/ BlockRepairTs \/ BlockDisableBackup \/ SkaledFinish =>
              rec'.ver = rec.ver /\ rec'.sync = rec.sync /\ (rec'.first => rec.first)
        BY DEF BlockContainer, MonitorContainer, RunContainer, RestartContainer,
               LeaveContainer, BlockRepairTs, BlockDisableBackup, SkaledFinish,
               TypeOK, Records
      <3>. QED BY <1>3, <2>1, <3>1, <3>2, Writers DEF Outdated
    <2>3. Busy' => Busy
      BY <1>3, BlocksAreBusy, Writers DEF Busy, SkaledWrites
    <2>. QED BY <2>1, <2>2, <2>3 DEF PipelineGated, Outdated
  <1>. QED BY <1>1, <1>2, <1>3

\* The version in the record is kept, or stamped with the version of the node.
LEMMA VersionWriters ==
    ASSUME TypeOK, [Next]_vars
    PROVE  /\ \/ rec'.ver = rec.ver
              \/ (ConfigGenerate \/ ConfigReset) /\ rec'.ver = stream
           /\ \/ stream' = stream
              \/ AdminRestart /\ stream' = stream + 1
  <1>1. ConfigGenerate \/ ConfigReset => rec'.ver = stream
    BY DEF ConfigGenerate, ConfigReset, TypeOK, Records
  <1>2. BlockContainer => rec'.ver = rec.ver
    BY DEF BlockContainer, MonitorContainer, RunContainer, RestartContainer,
           LeaveContainer, TypeOK, Records
  <1>3. AdminRestart => rec'.ver = rec.ver /\ (stream' = stream \/ stream' = stream + 1)
    BY DEF AdminRestart, TypeOK, Records
  <1>4. BlockRepairTs \/ BlockDisableBackup \/ SkaledFinish => rec'.ver = rec.ver
    BY DEF BlockRepairTs, BlockDisableBackup, SkaledFinish, TypeOK, Records
  <1>. QED BY <1>1, <1>2, <1>3, <1>4, Writers

\* Only a pass that found or wrote a config of this version stamps the record,
\* and a new process drops the skaled config before such a pass.
LEMMA NextVersionStamped ==
    /\ TypeOK /\ ThreadsInProcess /\ FilesOrdered /\ PipelineGated /\ VersionStamped
    /\ [Next]_vars
    => VersionStamped'
  <1> SUFFICES ASSUME TypeOK, ThreadsInProcess, FilesOrdered, PipelineGated,
                      VersionStamped, [Next]_vars
               PROVE  VersionStamped'
    OBVIOUS
  <1>0. rec.ver \in Nat /\ rec'.ver \in Nat /\ stream \in Nat /\ stream' \in Nat
    BY NextTypeOK DEF TypeOK, Records
  <1>1. rec'.ver <= stream'
    BY <1>0, VersionWriters DEF VersionStamped
  <1>2. AdminRestart \/ MonitorKilled => c'.pc = Idle /\ ~ up'
    BY DEF AdminRestart, MonitorKilled, ThreadsStop, TypeOK, ConfigThreads
  <1>3. ASSUME ~ syncNode, rec'.ver = stream'
        PROVE  upstream' # {} /\ Latest(upstream').cfg.ver = stream'
    <2>1. CASE ConfigGenerate
      BY <2>1, GeneratedIsLatest DEF NewConfig, ConfigGenerate, envVars
    <2>2. CASE ~ ConfigGenerate
      <3>1. upstream' = upstream
        BY <2>2, Writers
      <3>2. rec.ver = stream /\ stream' = stream
        <4>1. ConfigReset => rec.ver = stream /\ stream' = stream
          BY <1>3 DEF ConfigReset, ConfigAt, VersionStamped, envVars
        <4>. QED BY <1>0, <1>3, <2>2, <4>1, VersionWriters DEF VersionStamped
      <3>. QED BY <1>3, <3>1, <3>2 DEF VersionStamped
    <2>. QED BY <2>1, <2>2
  <1>4. ASSUME ~ syncNode, c'.pc \in {"reload", "reset"}
        PROVE  rec'.ver = stream'
    <2>1. ~ AdminRestart /\ ~ MonitorKilled /\ stream' = stream
      BY <1>2, <1>4, VersionWriters DEF Idle
    <2>2. CASE ConfigGenerate
      BY <2>1, <2>2, VersionWriters DEF ConfigGenerate, TypeOK, Records
    <2>3. CASE ~ ConfigGenerate
      <3>1. CASE c' = c
        BY <1>4, <2>1, <3>1, VersionWriters DEF VersionStamped
      <3>2. CASE ConfigSkipGenerate
        BY <1>4, <2>1, <3>2, VersionWriters
           DEF ConfigSkipGenerate, UpstreamConfigOk, VersionStamped
      <3>3. CASE ConfigReloadTs
        BY <1>4, <2>1, <3>3, VersionWriters
           DEF ConfigReloadTs, ConfigAt, VersionStamped
      <3>4. ConfigFails \/ ConfigStart \/ ConfigDkg \/ ConfigDkgFails \/ ConfigExternalState
              \/ ConfigReset => c'.pc \notin {"reload", "reset"}
        BY DEF ConfigFails, ConfigStart, ConfigDkg, ConfigDkgFails, ConfigExternalState,
               ConfigReset, ConfigGoto, Idle, TypeOK, ConfigThreads
      <3>. QED
        BY <1>4, <2>1, <2>3, <3>1, <3>2, <3>3, <3>4, Writers DEF ConfigWrites, ConfigStep
    <2>. QED BY <2>2, <2>3
  <1>5. ASSUME ~ syncNode, skaled' # NoConfig, up' \/ rec'.ver = stream'
        PROVE  skaled'.ver = stream'
    <2>1. CASE StartTasks
      <3>1. skaled' = skaled /\ rec.ver = stream /\ stream' = stream
        BY <1>5, <2>1 DEF StartTasks, Outdated, envVars
      <3>. QED BY <1>5, <3>1 DEF VersionStamped
    <2>2. CASE BlockUpdateConfig
      <3>1. stream' = stream /\ rec.ver = stream
        BY <2>2 DEF BlockUpdateConfig, envVars, At, PipelineGated, Busy, Outdated
      <3>2. skaled' = Latest(upstream).cfg \/ skaled' = skaled
        BY <2>2 DEF BlockUpdateConfig
      <3>3. Latest(upstream).cfg.ver = stream
        BY <1>5, <3>1 DEF VersionStamped
      <3>. QED BY <1>5, <3>1, <3>2, <3>3 DEF VersionStamped
    <2>3. CASE ~ StartTasks /\ ~ BlockUpdateConfig
      <3>1. skaled' = skaled
        BY <2>3, Writers
      <3>2. stream' = stream /\ (up \/ rec.ver = stream)
        <4>1. ConfigGenerate \/ ConfigReset => up
          BY DEF ConfigGenerate, ConfigReset, ConfigAt
        <4>2. AdminRestart => rec'.ver = rec.ver /\ ~ up'
          BY <1>2 DEF AdminRestart, TypeOK, Records
        <4>. QED
          BY <1>0, <1>2, <1>5, <2>3, <4>1, <4>2, VersionWriters, Writers
             DEF VersionStamped
      <3>. QED BY <1>5, <3>1, <3>2 DEF VersionStamped
    <2>. QED BY <2>1, <2>2, <2>3
  <1>6. syncNode' = syncNode
    BY Writers
  <1>. QED BY <1>1, <1>3, <1>4, <1>5, <1>6 DEF VersionStamped

\* get_skaled_monitor: what the chosen monitor's place in the order implies.
LEMMA ChoiceOf ==
    ASSUME SkaledStart
    PROVE  /\ s'.at = 1 /\ s'.mode \in Modes /\ Applies(s'.mode)
           /\ syncNode => s'.mode \notin {"Backup", "Repair", "NewNode"}
           /\ s'.mode = "Regular" => skaled # NoConfig
           /\ ~ syncNode /\ s'.mode # "NoConfig" => skaled # NoConfig
  <1>1. PICK i \in DOMAIN Priority : Chosen(i) /\ s' = [mode |-> Priority[i], at |-> 1]
    BY DEF SkaledStart
  <1>2. Applies(Priority[i])
    BY <1>1 DEF Chosen
  <1>3. Priority[i] \in Modes
    BY <1>1 DEF Priority, Modes, Plan
  <1>4. CASE syncNode
    <2>1. Priority[5] = "NoConfig" /\ Priority[6] = "Regular" /\ i \in 1..6
      BY <1>1, <1>4 DEF Priority
    <2>2. Priority[i] = "Regular" => i = 6
      BY <1>4, <2>1 DEF Priority
    <2>3. Priority[i] = "Regular" => ~ Applies("NoConfig")
      BY <1>1, <2>1, <2>2 DEF Chosen
    <2>4. Priority[i] \notin {"Backup", "Repair", "NewNode"}
      BY <1>4, <2>1 DEF Priority
    <2>. QED BY <1>1, <1>2, <1>3, <1>4, <2>3, <2>4 DEF Applies
  <1>5. CASE ~ syncNode
    <2>1. Priority[1] = "NoConfig" /\ i \in 1..9
      BY <1>1, <1>5 DEF Priority
    <2>2. Priority[i] # "NoConfig" => ~ Applies("NoConfig")
      BY <1>1, <2>1 DEF Chosen
    <2>. QED BY <1>1, <1>2, <1>3, <1>5, <2>2 DEF Applies
  <1>. QED BY <1>4, <1>5

\* Where in the plans the blocks stand that change the config or the container.
LEMMA BlockPlaces ==
    ASSUME TypeOK
    PROVE  /\ At("update") => s.mode \in {"NoConfig", "UpdateConfig"} /\ s.at = 1
           /\ At("rmvolume") => s.mode = "Repair" /\ s.at = 2
           /\ At("repairts") => s.mode = "Repair" /\ s.at = 6
           /\ At("force") => s.mode = "UpdateConfig" /\ s.at = 6
           /\ At("snapshot") => \/ s.mode = "Repair" /\ s.at = 5
                                \/ s.mode \in {"Backup", "NewNode"}
           /\ At("container") => \/ s.mode = "Recreate" /\ s.at = 3
                                 \/ s.mode \in {"Regular", "ReloadGroup", "ReloadIp"}
           /\ At("rpc") => s.mode \in {"Regular", "ReloadGroup", "ReloadIp"}
           /\ At("exitgroup") => s.mode = "ReloadGroup"
           /\ At("exitip") => s.mode = "ReloadIp"
           /\ At("noexit") => s.mode = "UpdateConfig" /\ s.at = 4
           /\ \A block : At(block) =>
                 /\ s.mode = "Recreate" /\ s.at = 2 => block = "rmcontainer"
                 /\ s.mode = "UpdateConfig" /\ s.at = 5 => block = "rmcontainer"
                 /\ s.mode = "UpdateConfig" /\ s.at = 4 => block = "noexit"
  <1>1. s.at \in Nat \ {0} /\ s.mode \in Modes \cup {Idle}
    BY DEF TypeOK, SkaledThreads
  <1>2. CASE s.mode = "Regular"
    <2>1. Plan[s.mode] = <<"firewall", "volume", "container", "rpc">>
      BY <1>2 DEF Plan
    <2>. QED BY <1>1, <1>2, <2>1 DEF At
  <1>3. CASE s.mode = "Repair"
    <2>1. Plan[s.mode] = <<"rmcontainer", "rmvolume", "firewall", "volume", "snapshot", "repairts">>
      BY <1>3 DEF Plan
    <2>. QED BY <1>1, <1>3, <2>1 DEF At
  <1>4. CASE s.mode = "Backup"
    <2>1. Plan[s.mode] = <<"volume", "firewall", "snapshot", "nobackup">>
      BY <1>4 DEF Plan
    <2>. QED BY <1>1, <1>4, <2>1 DEF At
  <1>5. CASE s.mode = "Recreate"
    <2>1. Plan[s.mode] = <<"volume", "rmcontainer", "container">>
      BY <1>5 DEF Plan
    <2>. QED BY <1>1, <1>5, <2>1 DEF At
  <1>6. CASE s.mode = "UpdateConfig"
    <2>1. Plan[s.mode] = <<"update", "firewall", "volume", "noexit", "rmcontainer", "force">>
      BY <1>6 DEF Plan
    <2>. QED BY <1>1, <1>6, <2>1 DEF At
  <1>7. CASE s.mode = "ReloadGroup"
    <2>1. Plan[s.mode] = <<"firewall", "volume", "container", "rpc", "exitgroup">>
      BY <1>7 DEF Plan
    <2>. QED BY <1>1, <1>7, <2>1 DEF At
  <1>8. CASE s.mode = "ReloadIp"
    <2>1. Plan[s.mode] = <<"fwupstream", "volume", "container", "rpc", "exitip">>
      BY <1>8 DEF Plan
    <2>. QED BY <1>1, <1>8, <2>1 DEF At
  <1>9. CASE s.mode = "NoConfig"
    <2>1. Plan[s.mode] = <<"update">>
      BY <1>9 DEF Plan
    <2>. QED BY <1>1, <1>9, <2>1 DEF At
  <1>10. CASE s.mode = "NewNode"
    <2>1. Plan[s.mode] = <<"volume", "firewall", "snapshot">>
      BY <1>10 DEF Plan
    <2>. QED BY <1>1, <1>10, <2>1 DEF At
  <1>11. CASE s.mode = Idle
    BY <1>11 DEF At, Idle
  <1>. QED
    BY <1>1, <1>2, <1>3, <1>4, <1>5, <1>6, <1>7, <1>8, <1>9, <1>10, <1>11 DEF Modes, Plan

\* The skaled thread stays, ends its pipeline, chooses, or goes one block on.
LEMMA Moves ==
    ASSUME TypeOK, [Next]_vars
    PROVE  \/ s' = s
           \/ s'.mode = Idle
           \/ SkaledStart
           \/ SkaledStep /\ up /\ Busy /\ s'.mode = s.mode /\ s'.at = s.at + 1
  <1>1. MonitorKilled \/ AdminRestart => s'.mode = Idle
    BY DEF MonitorKilled, AdminRestart, ThreadsStop, TypeOK, SkaledThreads
  <1>2. Raise => s'.mode = Idle
    BY DEF Raise, TypeOK, SkaledThreads
  <1>3. Advance => s'.mode = s.mode /\ s'.at = s.at + 1
    BY DEF Advance, TypeOK, SkaledThreads
  <1>4. SkaledFails \/ SkaledFinish => Raise
    BY DEF SkaledFails, SkaledFinish
  <1>5. SkaledStep => SkaledStart \/ Raise \/ Advance
    BY <1>4 DEF SkaledStep, BlockUpdateConfig, BlockFirewall, BlockVolume,
           BlockRemoveContainer, BlockRemoveVolume, BlockContainer, MonitorContainer,
           RunContainer, RestartContainer, LeaveContainer, BlockRpc, BlockExitGroup,
           BlockExitIp, ScheduleExit, BlockResetExit, BlockRepairTs, BlockDisableBackup
  <1>. QED
    BY <1>1, <1>2, <1>3, <1>4, <1>5, Writers, BlocksAreBusy DEF SkaledWrites

\* A container that a step does not start keeps its config and is not brought
\* up; one that is started reads a config file, which is there.
LEMMA StartsWithConfig ==
    ASSUME TypeOK, ChoiceHolds, [Next]_vars
    PROVE  \/ /\ cont'.cfg = cont.cfg
              /\ cont'.st = "running" => Running
              /\ cont.st = "none" => cont'.st = "none"
           \/ /\ BlockContainer \/ BlockRpc
              /\ up /\ Busy
              /\ cont'.cfg = skaled /\ skaled # NoConfig
              /\ UNCHANGED <<now, upstream, skaled, keys, status, ncli>>
  <1>1. BlockRemoveContainer \/ SkaledBoots \/ SkaledExits \/ SkaledDown =>
            /\ cont'.cfg = cont.cfg
            /\ cont'.st = "running" => Running
            /\ cont.st = "none" => cont'.st = "none"
    BY DEF BlockRemoveContainer, SkaledBoots, SkaledExits, SkaledDown, Running,
           TypeOK, Containers
  <1>2. CASE BlockContainer
    <2>1. UNCHANGED <<now, upstream, skaled, keys, status, ncli>> /\ up /\ Busy
      BY <1>2 DEF BlockContainer, envVars, fileVars, At, Busy
    <2>2. skaled # NoConfig \/ cont.st = "none"
      BY <1>2, BlockPlaces DEF BlockContainer, ChoiceHolds, Modes, Plan
    <2>3. cont' = cont \/ (cont'.cfg = skaled /\ skaled # NoConfig)
      BY <1>2, <2>2
         DEF BlockContainer, MonitorContainer, RunContainer, RestartContainer,
             LeaveContainer, Started
    <2>. QED BY <1>2, <2>1, <2>3 DEF Running
  <1>3. CASE BlockRpc
    <2>1. UNCHANGED <<now, upstream, skaled, keys, status, ncli>> /\ up /\ Busy
      BY <1>3 DEF BlockRpc, fileVars, At, Busy
    <2>2. skaled # NoConfig
      BY <1>3, BlockPlaces DEF BlockRpc, ChoiceHolds, Modes, Plan
    <2>3. cont' = cont \/ cont'.cfg = skaled
      BY <1>3 DEF BlockRpc, Started
    <2>. QED BY <1>3, <2>1, <2>2, <2>3 DEF Running
  <1>. QED BY <1>1, <1>2, <1>3, Writers DEF Running

\* A block that may start the container moves the thread.
LEMMA StartsMove ==
    ASSUME TypeOK, BlockContainer \/ BlockRpc
    PROVE  s' # s
  <1>1. (Advance \/ Raise) /\ s.mode # Idle => s' # s
    <2>1. Advance => s'.at = s.at + 1
      BY DEF Advance, TypeOK, SkaledThreads
    <2>2. Raise => s'.mode = Idle
      BY DEF Raise, TypeOK, SkaledThreads
    <2>3. s.at \in Nat
      BY DEF TypeOK, SkaledThreads
    <2>. QED BY <2>1, <2>2, <2>3
  <1>2. (Advance \/ Raise) /\ s.mode # Idle
    BY DEF BlockContainer, MonitorContainer, RunContainer, RestartContainer,
           LeaveContainer, BlockRpc, At
  <1>. QED BY <1>1, <1>2

\* A repair request holds until the repair has removed the data.
LEMMA RequestStands ==
    ASSUME TypeOK, ChoiceHolds, [Next]_vars,
           s.mode = "Repair", s.at <= 2
    PROVE  RepairRequested'
  <1>0. rec.repair \in Nat /\ s.at \in Nat \ {0} /\ now \in Nat /\ now' \in Nat
    BY NextTypeOK, Writers DEF TypeOK, Records, SkaledThreads, Tick
  <1>1. rec'.repair = rec.repair
    <2>1. ~ BlockRepairTs
      BY <1>0, BlockPlaces DEF BlockRepairTs
    <2>2. AdminRestart \/ ConfigGenerate \/ ConfigReset \/ BlockContainer
            \/ BlockDisableBackup \/ SkaledFinish => rec'.repair = rec.repair
      BY DEF AdminRestart, ConfigGenerate, ConfigReset, BlockContainer, MonitorContainer,
             RunContainer, RestartContainer, LeaveContainer, BlockDisableBackup,
             SkaledFinish, TypeOK, Records
    <2>. QED BY <2>1, <2>2, Writers
  <1>2. ncli' = ncli \/ (ncli' = now /\ ncli <= now)
    BY Writers DEF NodeCliRepair, ChoiceHolds
  <1>3. ~ Running => ~ Running' /\ status' = status
    <2>1. ~ BlockContainer /\ ~ BlockRpc
      <3>1. ~ At("snapshot") /\ ~ At("container") /\ ~ At("force") /\ ~ At("rpc")
        BY <1>0, BlockPlaces
      <3>. QED BY <3>1 DEF BlockContainer, BlockRpc
    <2>2. SkaledBoots \/ SkaledExits \/ SkaledDown => Running
      BY DEF SkaledBoots, SkaledExits, SkaledDown
    <2>. QED BY <2>1, <2>2, StartsWithConfig, Writers DEF Running
  <1>4. RepairRequested
    BY DEF ChoiceHolds
  <1>5. ncli \in OptTs
    BY DEF TypeOK
  <1>. QED
    BY <1>0, <1>1, <1>2, <1>3, <1>4, <1>5 DEF RepairRequested, OptTs, NoTs

\* The skaled config is removed by start_tasks alone, when no thread runs.
LEMMA NextConfigUnderPipeline ==
    /\ TypeOK /\ ThreadsInProcess /\ FilesOrdered /\ ConfigUnderPipeline
    /\ [Next]_vars
    => ConfigUnderPipeline'
  <1> SUFFICES ASSUME TypeOK, ThreadsInProcess, FilesOrdered, ConfigUnderPipeline,
                      [Next]_vars
               PROVE  ConfigUnderPipeline'
    OBVIOUS
  <1>0. syncNode' = syncNode
    BY Writers
  <1>1. CASE StartTasks
    BY <1>1 DEF StartTasks, ThreadsInProcess, ConfigUnderPipeline, Busy
  <1>2. CASE BlockUpdateConfig
    <2>1. s'.mode = s.mode
      BY <1>2 DEF BlockUpdateConfig, Advance, TypeOK, SkaledThreads
    <2>2. skaled' = skaled \/ skaled' \in Configs
      BY <1>2, LatestInUpstream DEF BlockUpdateConfig
    <2>. QED
      BY <1>0, <1>2, <2>1, <2>2, NoConfigAssumption
         DEF ConfigUnderPipeline, Busy, BlockUpdateConfig, At
  <1>3. CASE ~ StartTasks /\ ~ BlockUpdateConfig
    <2>1. skaled' = skaled
      BY <1>3, Writers
    <2>. QED BY <1>0, <2>1, Moves, ChoiceOf DEF ConfigUnderPipeline, Busy
  <1>. QED BY <1>1, <1>2, <1>3

\* What get_skaled_monitor saw is not undone by the config thread, skaled or
\* the operator before the block that relies on it.
LEMMA NextChoiceHolds ==
    /\ TypeOK /\ ThreadsInProcess /\ FilesOrdered /\ ChoiceHolds
    /\ [Next]_vars
    => ChoiceHolds'
  <1> SUFFICES ASSUME TypeOK, ThreadsInProcess, FilesOrdered, ChoiceHolds, [Next]_vars
               PROVE  ChoiceHolds'
    OBVIOUS
  <1>0. s.at \in Nat \ {0} /\ s.mode \in Modes \cup {Idle} /\ s'.mode \in Modes \cup {Idle}
    BY NextTypeOK DEF TypeOK, SkaledThreads
  <1>1. s'.mode \in Modes \ {"NoConfig", "Recreate", "UpdateConfig"} => skaled' # NoConfig
    <2>1. CASE StartTasks \/ BlockUpdateConfig
      <3>1. ~ up => s.mode = Idle
        BY DEF ThreadsInProcess
      <3>2. BlockUpdateConfig => s'.mode \in {"NoConfig", "UpdateConfig"}
        BY BlockPlaces DEF BlockUpdateConfig, Advance, TypeOK, SkaledThreads
      <3>. QED BY <2>1, <3>1, <3>2 DEF StartTasks, Modes, Plan, Idle
    <2>2. CASE skaled' = skaled
      <3>1. SkaledStart /\ s'.mode \notin {"NoConfig", "Recreate", "UpdateConfig"} =>
              skaled # NoConfig
        BY ChoiceOf DEF Applies, ConfigBehind, Modes, Plan
      <3>. QED BY <2>2, <3>1, Moves DEF ChoiceHolds, Modes, Plan, Idle
    <2>. QED BY <2>1, <2>2, Writers
  <1>2. s'.mode = "NoConfig" /\ s'.at = 1 => skaled' = NoConfig
    <2>1. SkaledStart /\ s'.mode = "NoConfig" => skaled' = NoConfig
      BY ChoiceOf DEF Applies, SkaledStart, fileVars
    <2>2. StartTasks => s' = s /\ s.mode = Idle
      BY DEF StartTasks, ThreadsInProcess
    <2>3. BlockUpdateConfig => s'.at = s.at + 1
      BY DEF BlockUpdateConfig, Advance, TypeOK, SkaledThreads
    <2>. QED BY <1>0, <2>1, <2>2, <2>3, Moves, Writers DEF ChoiceHolds, Idle
  <1>3. /\ s'.mode = "Recreate" /\ s'.at = 3 => cont'.st = "none"
        /\ s'.mode = "UpdateConfig" /\ s'.at = 6 => cont'.st = "none"
    <2>1. CASE s' = s
      <3>1. ~ BlockContainer /\ ~ BlockRpc
        BY <2>1, StartsMove
      <3>. QED BY <2>1, <3>1, StartsWithConfig DEF ChoiceHolds
    <2>2. CASE s'.mode = Idle \/ SkaledStart
      BY <2>2, ChoiceOf DEF Idle
    <2>3. CASE SkaledStep /\ Busy /\ s'.mode = s.mode /\ s'.at = s.at + 1 /\ ~ SkaledStart
      <3>1. BlockRemoveContainer => cont'.st = "none"
        BY DEF BlockRemoveContainer, TypeOK, Containers
      <3>2. (s.mode = "Recreate" /\ s.at = 2) \/ (s.mode = "UpdateConfig" /\ s.at = 5)
              => BlockRemoveContainer
        <4>1. s.mode = "Recreate" => Plan[s.mode] = <<"volume", "rmcontainer", "container">>
          BY DEF Plan
        <4>2. s.mode = "UpdateConfig" =>
                Plan[s.mode] = <<"update", "firewall", "volume", "noexit", "rmcontainer", "force">>
          BY DEF Plan
        <4>3. ASSUME (s.mode = "Recreate" /\ s.at = 2) \/ (s.mode = "UpdateConfig" /\ s.at = 5),
                     ~ BlockRemoveContainer, ~ SkaledFinish
              PROVE  FALSE
          <5>1. \A block : At(block) => block = "rmcontainer"
            BY <4>3, BlockPlaces
          <5>. QED
            BY <2>3, <4>3, <5>1
               DEF SkaledStep, BlockUpdateConfig, BlockFirewall, BlockVolume,
                   BlockRemoveVolume, BlockContainer, BlockRpc, BlockExitGroup,
                   BlockExitIp, BlockResetExit, BlockRepairTs, BlockDisableBackup
        <4>4. SkaledFinish => ~ (s.mode = "Recreate" /\ s.at = 2)
                              /\ ~ (s.mode = "UpdateConfig" /\ s.at = 5)
          <5>1. ASSUME SkaledFinish, s.mode = "Recreate" PROVE s.at > 3
            BY <4>1, <5>1 DEF SkaledFinish, BlocksDone
          <5>2. ASSUME SkaledFinish, s.mode = "UpdateConfig" PROVE s.at > 6
            BY <4>2, <5>2 DEF SkaledFinish, BlocksDone
          <5>. QED BY <5>1, <5>2
        <4>. QED BY <4>3, <4>4
      <3>. QED BY <1>0, <2>3, <3>1, <3>2
    <2>. QED BY <2>1, <2>2, <2>3, Moves
  <1>4. s'.mode = "UpdateConfig" /\ s'.at <= 6 => cont'.st # "running"
    <2>1. BlockContainer /\ s.mode = "UpdateConfig" => s.at = 6
      BY BlockPlaces DEF BlockContainer
    <2>2. BlockRpc => s.mode # "UpdateConfig"
      BY BlockPlaces DEF BlockRpc
    <2>3. SkaledStart => cont' = cont
      BY DEF SkaledStart, hostVars
    <2>4. SkaledStart /\ s'.mode = "UpdateConfig" => ~ Running
      BY ChoiceOf DEF Applies, ConfigUpdateTime
    <2>5. s.mode = "UpdateConfig" /\ s.at <= 6 => ~ Running
      BY DEF ChoiceHolds, Running
    <2>6. BlockContainer \/ BlockRpc => s' # s
      BY StartsMove
    <2>. QED
      BY <1>0, <2>1, <2>2, <2>3, <2>4, <2>5, <2>6, Moves, StartsWithConfig
         DEF Running, Idle
  <1>5. s'.mode = "Repair" /\ s'.at <= 2 => RepairRequested'
    <2>1. SkaledStart /\ s'.mode = "Repair" => RepairRequested'
      BY ChoiceOf DEF Applies, RepairRequested, Running, SkaledStart, hostVars
    <2>. QED BY <1>0, <2>1, Moves, RequestStands DEF Idle
  <1>6. ncli' <= now'
    BY Writers DEF NodeCliRepair, Tick, ChoiceHolds, TypeOK, OptTs, NoTs
  <1>7. Running' => cont'.cfg # NoConfig
    BY StartsWithConfig DEF ChoiceHolds, Running
  <1>. QED BY <1>1, <1>2, <1>3, <1>4, <1>5, <1>6, <1>7 DEF ChoiceHolds

\* A config is generated after the key share of its rotation was saved, and
\* key share files are never removed while the chain is there.
LEMMA NextKeysSaved ==
    /\ TypeOK /\ FilesOrdered /\ ChoiceHolds /\ KeysSaved
    /\ [Next]_vars
    => KeysSaved'
  <1> SUFFICES ASSUME TypeOK, FilesOrdered, ChoiceHolds, KeysSaved, [Next]_vars, ~ syncNode
               PROVE  KeysSaved'
    BY Writers DEF KeysSaved
  <1>1. keys \subseteq keys'
    BY Writers DEF ConfigDkg
  <1>2. c'.pc \in {"external", "generate", "reload", "reset"} => c'.rid \in keys'
    <2>1. CASE ConfigDkg
      BY <2>1 DEF ConfigDkg, ConfigGoto, TypeOK, ConfigThreads
    <2>2. ConfigFails \/ ConfigStart \/ ConfigDkgFails \/ ConfigReset \/ MonitorKilled
            \/ AdminRestart => c'.pc \notin {"external", "generate", "reload", "reset"}
      <3>1. ConfigStart => c'.pc = "dkg"
        BY DEF ConfigStart
      <3>2. ConfigFails \/ ConfigDkgFails \/ ConfigReset \/ MonitorKilled \/ AdminRestart
              => c'.pc = Idle
        BY DEF ConfigFails, ConfigDkgFails, ConfigReset, MonitorKilled, AdminRestart,
               ThreadsStop, ConfigGoto, TypeOK, ConfigThreads
      <3>. QED BY <3>1, <3>2 DEF Idle
    <2>3. ConfigExternalState \/ ConfigGenerate \/ ConfigSkipGenerate \/ ConfigReloadTs =>
            c'.rid = c.rid /\ c.pc \in {"external", "generate", "reload"}
      BY DEF ConfigExternalState, ConfigGenerate, ConfigSkipGenerate, ConfigReloadTs,
             ConfigAt, ConfigGoto, TypeOK, ConfigThreads
    <2>. QED
      BY <1>1, <2>1, <2>2, <2>3, Writers DEF ConfigWrites, ConfigStep, KeysSaved
  <1>3. \A f \in upstream' : f.cfg.key \in keys'
    <2>1. CASE ConfigGenerate
      <3>1. NewConfig.key \in keys
        BY <2>1 DEF ConfigGenerate, ConfigAt, NewConfig, KeysSaved
      <3>. QED BY <1>1, <2>1, <3>1, GeneratedIsLatest DEF KeysSaved
    <2>2. CASE ~ ConfigGenerate
      BY <1>1, <2>2, Writers DEF KeysSaved
    <2>. QED BY <2>1, <2>2
  <1>4. skaled' # NoConfig => skaled'.key \in keys'
    <2>1. CASE BlockUpdateConfig
      <3>1. upstream # {} => Latest(upstream).cfg.key \in keys
        BY LatestInUpstream DEF KeysSaved
      <3>. QED BY <1>1, <2>1, <3>1 DEF BlockUpdateConfig, KeysSaved
    <2>2. CASE ~ BlockUpdateConfig
      BY <1>1, <2>2, Writers DEF StartTasks, KeysSaved
    <2>. QED BY <2>1, <2>2
  <1>5. cont'.cfg # NoConfig => cont'.cfg.key \in keys'
    BY <1>1, StartsWithConfig DEF KeysSaved
  <1>. QED BY <1>2, <1>3, <1>4, <1>5 DEF KeysSaved

\* What would be generated now is no older than what would have been before: the
\* contracts, the rotation a pipeline starts with and the version only grow, and
\* a rotation ends later than any before it.
LEMMA NewConfigGrows ==
    ASSUME TypeOK, FilesOrdered, ConfigsOrdered, [Next]_vars
    PROVE  /\ NewConfig \in Configs /\ NewConfig' \in Configs
           /\ NotOlder(NewConfig, NewConfig')
           /\ chain'.finish <= now' + RotationDelay
  <1>0. /\ TypeOK /\ TypeOK' /\ RotationDelay \in Nat
    BY NextTypeOK, MonitorAssumption
  <1>1. NewConfig \in Configs /\ NewConfig' \in Configs
    BY <1>0 DEF NewConfig, Configs, TypeOK, ChainStates, ConfigThreads
  <1>2. now' = now \/ now' = now + 1
    BY Writers DEF Tick
  <1>3. /\ chain.rid <= chain'.rid /\ chain.ips <= chain'.ips
        /\ chain.finish <= chain'.finish /\ chain'.finish <= now' + RotationDelay
    <2>1. CASE Rotate
      <3>1. /\ chain'.rid = chain.rid + 1 /\ chain'.ips = chain.ips + 1
            /\ chain'.finish = now + RotationDelay /\ now' = now
        BY <2>1 DEF Rotate, TypeOK, ChainStates
      <3>. QED BY <1>0, <3>1 DEF ConfigsOrdered, TypeOK, ChainStates, OptTs, NoTs
    <2>2. CASE ChangeIp
      <3>1. /\ chain'.rid = chain.rid /\ chain'.ips = chain.ips + 1
            /\ chain'.finish = chain.finish /\ now' = now
        BY <2>2 DEF ChangeIp, TypeOK, ChainStates
      <3>. QED BY <1>0, <3>1 DEF ConfigsOrdered, TypeOK, ChainStates, OptTs, NoTs
    <2>3. CASE DkgCompletes
      <3>1. /\ chain'.rid = chain.rid /\ chain'.ips = chain.ips
            /\ chain'.finish = chain.finish /\ now' = now
        BY <2>3 DEF DkgCompletes, TypeOK, ChainStates
      <3>. QED BY <1>0, <3>1 DEF ConfigsOrdered, TypeOK, ChainStates, OptTs, NoTs
    <2>4. CASE chain' = chain
      BY <1>0, <1>2, <2>4 DEF ConfigsOrdered, TypeOK, ChainStates, OptTs, NoTs
    <2>. QED BY <2>1, <2>2, <2>3, <2>4, Writers
  <1>4. stream <= stream'
    BY <1>0, VersionWriters DEF TypeOK
  <1>5. c.rid <= c'.rid
    BY RotationRead
  <1>. QED BY <1>1, <1>3, <1>4, <1>5 DEF NotOlder, NewConfig

\* The latest upstream config is replaced by none that is older.
LEMMA LatestGrows ==
    ASSUME TypeOK, FilesOrdered, ConfigsOrdered, [Next]_vars, upstream # {}
    PROVE  /\ upstream' # {}
           /\ Latest(upstream).cfg \in Configs /\ Latest(upstream').cfg \in Configs
           /\ NotOlder(Latest(upstream).cfg, Latest(upstream').cfg)
  <1>1. Latest(upstream) \in upstream /\ Latest(upstream).cfg \in Configs
    BY LatestInUpstream
  <1>2. CASE ConfigGenerate
    <2>1. upstream' # {} /\ Latest(upstream').cfg = NewConfig
      BY <1>2, GeneratedIsLatest
    <2>. QED BY <1>1, <2>1, NewConfigGrows DEF ConfigsOrdered
  <1>3. CASE upstream' = upstream
    BY <1>1, <1>3, NotOlderSelf
  <1>. QED BY <1>2, <1>3, Writers

\* A generated config is the newest there is, the skaled config is copied from
\* the latest one and the container started with the skaled config.
LEMMA NextConfigsOrdered ==
    /\ TypeOK /\ FilesOrdered /\ ChoiceHolds /\ ConfigsOrdered
    /\ [Next]_vars
    => /\ ConfigsOrdered'
       /\ cont.cfg # NoConfig => cont'.cfg # NoConfig /\ NotOlder(cont.cfg, cont'.cfg)
  <1> SUFFICES ASSUME TypeOK, FilesOrdered, ChoiceHolds, ConfigsOrdered, [Next]_vars
               PROVE  /\ ConfigsOrdered'
                      /\ cont.cfg # NoConfig =>
                           cont'.cfg # NoConfig /\ NotOlder(cont.cfg, cont'.cfg)
    OBVIOUS
  <1>0. skaled \in Configs \cup {NoConfig} /\ cont.cfg \in Configs \cup {NoConfig}
    BY DEF TypeOK, Containers
  <1>1. \A f \in upstream' : NotOlder(f.cfg, NewConfig')
    <2>1. ASSUME NEW f \in upstream
          PROVE  NotOlder(f.cfg, NewConfig')
      <3>1. f.cfg \in Configs /\ NotOlder(f.cfg, NewConfig)
        BY DEF ConfigsOrdered, TypeOK, Files
      <3>. QED BY <3>1, NewConfigGrows, NotOlderTrans
    <2>2. CASE ConfigGenerate
      BY <2>1, <2>2, GeneratedIsLatest, NewConfigGrows
    <2>3. CASE upstream' = upstream
      BY <2>1, <2>3
    <2>. QED BY <2>2, <2>3, Writers
  <1>2. CASE BlockUpdateConfig /\ upstream # {}
    <2>1. skaled' = Latest(upstream).cfg /\ upstream' = upstream /\ cont' = cont
      BY <1>2 DEF BlockUpdateConfig, hostVars
    <2>2. NotOlder(skaled', Latest(upstream').cfg)
      BY <1>2, <2>1, LatestGrows
    <2>. QED BY <1>0, <1>1, <1>2, <2>1, <2>2, NewConfigGrows, NotOlderSelf DEF ConfigsOrdered
  <1>3. CASE skaled' = skaled \/ skaled' = NoConfig
    <2>1. skaled # NoConfig => NotOlder(skaled, Latest(upstream').cfg)
      BY <1>0, LatestGrows, NotOlderTrans DEF ConfigsOrdered, FilesOrdered
    <2>2. CASE cont'.cfg = cont.cfg
      <3>1. cont.cfg # NoConfig => upstream' # {} /\ NotOlder(cont.cfg, Latest(upstream').cfg)
        BY <1>0, LatestGrows, NotOlderTrans DEF ConfigsOrdered
      <3>. QED BY <1>0, <1>1, <1>3, <2>1, <2>2, <3>1, NewConfigGrows, NotOlderSelf
               DEF ConfigsOrdered
    <2>3. CASE cont'.cfg = skaled /\ skaled # NoConfig /\ UNCHANGED <<upstream, skaled>>
      <3>1. upstream' # {} /\ NotOlder(skaled, skaled)
        BY <1>0, <2>3, NotOlderSelf DEF FilesOrdered
      <3>2. cont.cfg # NoConfig => NotOlder(cont.cfg, skaled)
        BY <2>3 DEF ConfigsOrdered
      <3>. QED BY <1>1, <2>1, <2>3, <3>1, <3>2, NewConfigGrows DEF ConfigsOrdered
    <2>. QED BY <2>2, <2>3, StartsWithConfig
  <1>. QED BY <1>2, <1>3, Writers DEF BlockUpdateConfig, StartTasks

\* A config that is behind the latest one stays behind until it is replaced: no
\* config generated later is the old one again.
LEMMA BehindStays ==
    ASSUME TypeOK, FilesOrdered, ConfigsOrdered, [Next]_vars, ConfigBehind, skaled' = skaled
    PROVE  ConfigBehind'
  <1>1. /\ skaled \in Configs /\ upstream # {} /\ Latest(upstream).cfg # skaled
        /\ NotOlder(skaled, Latest(upstream).cfg)
    BY DEF ConfigBehind, SyncedWithUpstream, ConfigsOrdered, TypeOK
  <1>2. ASSUME Latest(upstream').cfg = skaled
        PROVE  FALSE
    BY <1>1, <1>2, LatestGrows, NotOlderBoth
  <1>. QED BY <1>1, <1>2, LatestGrows DEF ConfigBehind, SyncedWithUpstream

\* Between the exit of skaled and its next start it stays exited.
LEMMA ExitedStays ==
    ASSUME TypeOK, [Next]_vars, ConfigUpdateTime
    PROVE  \/ ConfigUpdateTime'
           \/ s.mode = "UpdateConfig" /\ s.at = 6 /\ UNCHANGED <<exitTs, anew, skaled, upstream>>
  <1>1. SkaledBoots \/ SkaledExits \/ SkaledDown => Running
    BY DEF SkaledBoots, SkaledExits, SkaledDown
  <1>2. status' = status
    BY <1>1, Writers DEF ConfigUpdateTime
  <1>3. CASE BlockContainer
    <2>1. CASE At("force")
      BY <1>3, <2>1, BlockPlaces DEF BlockContainer, fileVars
    <2>2. CASE ~ At("force")
      BY <1>2, <1>3, <2>2
         DEF BlockContainer, MonitorContainer, LeaveContainer, ConfigUpdateTime, Running
    <2>. QED BY <2>1, <2>2
  <1>4. BlockRpc => cont' = cont
    BY DEF BlockRpc, ConfigUpdateTime
  <1>5. BlockRemoveContainer => cont'.st = "none"
    BY DEF BlockRemoveContainer, TypeOK, Containers
  <1>. QED BY <1>1, <1>2, <1>3, <1>4, <1>5, Writers DEF ConfigUpdateTime, Running

\* No step between the schedule of an exit and the exit makes the files agree,
\* and none after it starts skaled before the schedule is reset.
LEMMA NextExitAnnounced ==
    /\ TypeOK /\ ThreadsInProcess /\ FilesOrdered /\ ConfigsOrdered /\ ChoiceHolds
    /\ ExitAnnounced /\ [Next]_vars
    => ExitAnnounced'
  <1> SUFFICES ASSUME TypeOK, ThreadsInProcess, FilesOrdered, ConfigsOrdered, ChoiceHolds,
                      ExitAnnounced, [Next]_vars
               PROVE  ExitAnnounced'
    OBVIOUS
  <1>0. s.at \in Nat \ {0} /\ s'.at \in Nat \ {0}
    BY NextTypeOK DEF TypeOK, SkaledThreads
  <1>1. /\ BlockExitGroup \/ BlockExitIp =>
              /\ s.mode \in {"ReloadGroup", "ReloadIp"} /\ anew' = anew
              /\ exitTs = exitTs' \/ exitTs' # NoTs
        /\ BlockResetExit => exitTs' = NoTs /\ ~ anew' /\ s.mode = "UpdateConfig" /\ s.at = 4
    BY BlockPlaces DEF BlockExitGroup, BlockExitIp, ScheduleExit, BlockResetExit
  <1>2. anew' => exitTs' # NoTs
    <2>1. StartTasks => exitTs' = exitTs /\ (anew' => anew \/ exitTs # NoTs)
      BY DEF StartTasks
    <2>. QED BY <1>1, <2>1, Writers DEF ExitAnnounced
  <1>3. s'.mode \in {"ReloadGroup", "ReloadIp"} => ConfigBehind'
    <2>1. SkaledStart /\ s'.mode \in {"ReloadGroup", "ReloadIp"} => ConfigBehind /\ skaled' = skaled
      BY ChoiceOf DEF Applies, SkaledStart, fileVars
    <2>2. StartTasks => s'.mode = Idle
      BY DEF StartTasks, ThreadsInProcess
    <2>3. BlockUpdateConfig => s'.mode \in {"NoConfig", "UpdateConfig"}
      BY BlockPlaces DEF BlockUpdateConfig, Advance, TypeOK, SkaledThreads
    <2>. QED BY <2>1, <2>2, <2>3, BehindStays, Moves, Writers DEF ExitAnnounced, Idle
  <1>4. s'.mode = "UpdateConfig" /\ s'.at <= 6 => status'.exit
    <2>1. SkaledStart /\ s'.mode = "UpdateConfig" => status'.exit
      BY ChoiceOf DEF Applies, ConfigUpdateTime, SkaledStart, hostVars
    <2>2. s.mode = "UpdateConfig" /\ s.at <= 6 => status'.exit
      BY Writers DEF ExitAnnounced, ChoiceHolds, Running, SkaledBoots, SkaledExits, SkaledDown
    <2>. QED BY <1>0, <2>1, <2>2, Moves DEF Idle
  <1>5. s'.mode = "UpdateConfig" /\ s'.at \in {5, 6} => exitTs' = NoTs
    <2>1. s.mode = "UpdateConfig" /\ s.at \in {5, 6} => exitTs' = NoTs
      BY <1>1, Writers DEF ExitAnnounced
    <2>2. s.mode = "UpdateConfig" /\ s.at = 4 /\ s'.mode = "UpdateConfig" /\ s'.at = 5
            => exitTs' = NoTs
      <3>1. ASSUME s.mode = "UpdateConfig", s.at = 4, SkaledStep, ~ SkaledStart, ~ SkaledFinish
            PROVE  BlockResetExit
        <4>1. \A block : At(block) => block = "noexit"
          BY <3>1, BlockPlaces
        <4>. QED
          BY <3>1, <4>1
             DEF SkaledStep, BlockUpdateConfig, BlockFirewall, BlockVolume,
                 BlockRemoveContainer, BlockRemoveVolume, BlockContainer, BlockRpc,
                 BlockExitGroup, BlockExitIp, BlockResetExit, BlockRepairTs,
                 BlockDisableBackup
      <3>2. SkaledFinish => s'.mode = Idle
        BY DEF SkaledFinish, Raise, TypeOK, SkaledThreads
      <3>3. SkaledStart => s'.at = 1
        BY ChoiceOf
      <3>. QED BY <1>1, <3>1, <3>2, <3>3, Moves DEF Idle
    <2>3. SkaledStart => s'.at = 1
      BY ChoiceOf
    <2>. QED BY <1>0, <2>1, <2>2, <2>3, Moves DEF Idle
  <1>6. ASSUME exitTs' # NoTs, ~ anew'
        PROVE  skaled' # NoConfig /\ (ConfigBehind' \/ ConfigUpdateTime')
    <2>1. CASE StartTasks
      <3>1. exitTs' = exitTs /\ ~ anew /\ skaled' = skaled /\ status' = status /\ cont' = cont
        BY <1>6, <2>1 DEF StartTasks, hostVars
      <3>. QED BY <1>6, <3>1, BehindStays DEF ExitAnnounced, ConfigUpdateTime, Running
    <2>2. CASE BlockUpdateConfig
      <3>1. exitTs' = exitTs /\ anew' = anew /\ status' = status /\ cont' = cont
        BY <2>2 DEF BlockUpdateConfig, hostVars
      <3>2. skaled # NoConfig
        BY <1>6, <3>1 DEF ExitAnnounced
      <3>3. s.mode = "UpdateConfig" /\ s.at = 1
        BY <2>2, <3>2, BlockPlaces DEF BlockUpdateConfig, ChoiceHolds
      <3>4. ConfigUpdateTime'
        BY <3>1, <3>3 DEF ExitAnnounced, ChoiceHolds, ConfigUpdateTime, Running
      <3>5. skaled' # NoConfig
        BY <2>2, <3>2, LatestInUpstream, NoConfigAssumption DEF BlockUpdateConfig
      <3>. QED BY <3>4, <3>5
    <2>3. CASE BlockExitGroup \/ BlockExitIp
      <3>1. ConfigBehind /\ skaled' = skaled
        BY <1>1, <2>3 DEF ExitAnnounced, BlockExitGroup, BlockExitIp, ScheduleExit
      <3>. QED BY <3>1, BehindStays DEF ConfigBehind
    <2>4. CASE ~ StartTasks /\ ~ BlockUpdateConfig /\ ~ BlockExitGroup /\ ~ BlockExitIp
      <3>1. skaled' = skaled /\ exitTs' = exitTs /\ anew' = anew
        BY <1>1, <1>6, <2>4, Writers
      <3>2. skaled # NoConfig /\ (ConfigBehind \/ ConfigUpdateTime)
        BY <1>6, <3>1 DEF ExitAnnounced
      <3>3. ~ (s.mode = "UpdateConfig" /\ s.at = 6)
        BY <1>6, <3>1 DEF ExitAnnounced
      <3>. QED BY <3>1, <3>2, <3>3, BehindStays, ExitedStays
    <2>. QED BY <2>1, <2>2, <2>3, <2>4
  <1>. QED BY <1>2, <1>3, <1>4, <1>5, <1>6 DEF ExitAnnounced

-----------------------------------------------------------------------------
(* The invariant, and what follows from it. *)

\* A chain that was just created satisfies the inductive invariant.
LEMMA InitIInv == Init => IInv
  <1> SUFFICES ASSUME Init
               PROVE  IInv
    OBVIOUS
  <1>1. ConfigsOrdered
    BY MonitorAssumption DEF Init, ConfigsOrdered, NoTs
  <1>2. ExitAnnounced
    BY DEF Init, ExitAnnounced, Idle
  <1>3. ThreadsInProcess /\ FilesOrdered /\ PipelineGated /\ VersionStamped
    BY DEF Init, ThreadsInProcess, FilesOrdered, PipelineGated, VersionStamped, Busy,
           Running, Idle, Modes, Plan, NoTs
  <1>4. ConfigUnderPipeline /\ KeysSaved
    BY DEF Init, ConfigUnderPipeline, KeysSaved, Busy, Running, Idle, Modes, Plan
  <1>5. ChoiceHolds
    <2>1. s.mode \notin Modes
      BY DEF Init, Idle, Modes, Plan
    <2>2. s.mode = "Idle" /\ ncli <= now /\ ~ Running
      BY DEF Init, Idle, NoTs, Running
    <2>. QED BY <2>1, <2>2 DEF ChoiceHolds
  <1>. QED BY <1>1, <1>2, <1>3, <1>4, <1>5, InitTypeOK DEF IInv

\* Every step of the pipelines and of their environment keeps it.
LEMMA NextIInv == IInv /\ [Next]_vars => IInv'
  BY NextTypeOK, NextThreadsInProcess, NextFilesOrdered, NextPipelineGated,
     NextVersionStamped, NextConfigUnderPipeline, NextKeysSaved, NextConfigsOrdered,
     NextChoiceHolds, NextExitAnnounced
     DEF IInv

\* The inductive invariant holds of every reachable state.
THEOREM Invariance == Spec => []IInv
  BY InitIInv, NextIInv, PTL DEF Spec

\* Every variable keeps its type, whatever the interleaving of the pipelines.
THEOREM TypeCorrect == Spec => []TypeOK
  <1>1. IInv => TypeOK
    BY DEF IInv
  <1>. QED BY <1>1, Invariance, PTL

\* SkaledTask.needed stays true under every skaled pipeline it admitted.
THEOREM PipelineGatedAlways == Spec => []PipelineGated
  <1>1. IInv => PipelineGated
    BY DEF IInv
  <1>. QED BY <1>1, Invariance, PTL

\* No skaled pipeline works with a config of an older node version.
THEOREM ConfigOfThisVersionAlways == Spec => []ConfigOfThisVersion
  <1>1. IInv => ConfigOfThisVersion
    BY DEF IInv, ConfigOfThisVersion, VersionStamped, ThreadsInProcess, PipelineGated,
           Outdated, Busy
  <1>. QED BY <1>1, Invariance, PTL

\* The skaled config never vanishes under a running skaled pipeline.
THEOREM ConfigUnderPipelineAlways == Spec => []ConfigUnderPipeline
  <1>1. IInv => ConfigUnderPipeline
    BY DEF IInv
  <1>. QED BY <1>1, Invariance, PTL

\* A running skaled of a group member names a key share that was saved.
THEOREM KeyHeldAlways == Spec => []KeyHeld
  <1>1. IInv => KeyHeld
    BY DEF IInv, KeyHeld, KeysSaved, ChoiceHolds
  <1>. QED BY <1>1, Invariance, PTL

\* No start of the container takes skaled back to an older config.
THEOREM ConfigsAdvanceAlways == Spec => ConfigsAdvance
  <1>1. IInv /\ [Next]_vars =>
          [cont.cfg # NoConfig =>
             cont'.cfg # NoConfig /\ NotOlder(cont.cfg, cont'.cfg)]_vars
    BY NextConfigsOrdered DEF IInv
  <1>. QED BY <1>1, Invariance, PTL DEF Spec, ConfigsAdvance

\* Until skaled has exited on schedule, update-safe names the chain.
THEOREM ExitIsUnsafeAlways == Spec => []ExitIsUnsafe
  <1>1. IInv => ExitIsUnsafe
    BY DEF IInv, ExitAnnounced, ExitIsUnsafe, UpdateUnsafe
  <1>. QED BY <1>1, Invariance, PTL

\* schedule_skaled_exit never replaces a schedule, and the update alone removes
\* it, after skaled has exited.
THEOREM ExitStandsAlways == Spec => ExitStands
  <1>1. ASSUME IInv, [Next]_vars, exitTs # NoTs, exitTs' # exitTs
        PROVE  exitTs' = NoTs /\ ConfigUpdateTime
    <2>1. BlockResetExit
      BY <1>1, Writers DEF BlockExitGroup, BlockExitIp, ScheduleExit
    <2>2. s.mode = "UpdateConfig" /\ s.at = 4
      BY <1>1, <2>1, BlockPlaces DEF BlockResetExit, IInv
    <2>. QED BY <1>1, <2>1, <2>2
             DEF BlockResetExit, IInv, ChoiceHolds, ExitAnnounced, ConfigUpdateTime, Running
  <1>2. IInv /\ [Next]_vars =>
          [exitTs # NoTs /\ exitTs' # exitTs => exitTs' = NoTs /\ ConfigUpdateTime]_vars
    BY <1>1
  <1>. QED BY <1>2, Invariance, PTL DEF Spec, ExitStands

\* sync_skaled_config_with_upstream replaces a config only while skaled is down.
THEOREM ConfigSwappedWhenDownAlways == Spec => ConfigSwappedWhenDown
  <1>1. ASSUME IInv, [Next]_vars, skaled # NoConfig, skaled' # NoConfig, skaled' # skaled
        PROVE  ~ Running
    <2>1. BlockUpdateConfig
      BY <1>1, Writers DEF StartTasks
    <2>2. s.mode = "UpdateConfig" /\ s.at = 1
      BY <1>1, <2>1, BlockPlaces DEF BlockUpdateConfig, IInv, ChoiceHolds
    <2>. QED BY <1>1, <2>2 DEF IInv, ChoiceHolds, Running
  <1>2. IInv /\ [Next]_vars =>
          [skaled # NoConfig /\ skaled' # NoConfig /\ skaled' # skaled => ~ Running]_vars
    BY <1>1
  <1>. QED BY <1>2, Invariance, PTL DEF Spec, ConfigSwappedWhenDown

\* The volume is removed only for a repair request that still stands.
THEOREM WipeOnRequestAlways == Spec => WipeOnRequest
  <1>1. ASSUME IInv, [Next]_vars, vol, ~ vol'
        PROVE  RepairRequested
    <2>1. BlockRemoveVolume
      BY <1>1, Writers DEF BlockVolume
    <2>. QED BY <1>1, <2>1, BlockPlaces DEF BlockRemoveVolume, IInv, ChoiceHolds
  <1>2. IInv /\ [Next]_vars =>
          [vol /\ ~ vol' => ncli > rec.repair \/ (status.repair /\ ~ Running)]_vars
    BY <1>1 DEF RepairRequested
  <1>. QED BY <1>2, Invariance, PTL DEF Spec, WipeOnRequest
=============================================================================
