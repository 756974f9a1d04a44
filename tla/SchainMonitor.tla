--------------------------- MODULE SchainMonitor ---------------------------
(***************************************************************************)
(* The monitor process of one sChain on one node: the two pipelines that   *)
(* core/schains/monitor/main.py runs as threads of that process.           *)
(*                                                                         *)
(* The config pipeline (config_monitor.py) reads the contracts, takes part *)
(* in the DKG, writes upstream configs and external.json.  The skaled      *)
(* pipeline (skaled_monitor.py) picks one monitor from the state of the    *)
(* files, the record and the container, and runs its blocks one by one.    *)
(* They share the files, the database record and nothing else; a step here *)
(* is one block, so every interleaving of blocks is covered.  The database *)
(* row is updated field by field in this module.                           *)
(*                                                                         *)
(* Around them: the contracts, the clock, the skaled container, node-cli,  *)
(* certificate uploads, and the admin being killed or restarted.  Every    *)
(* such event is counted in a member of Budgets: an instance is finite.     *)
(***************************************************************************)
EXTENDS ConfigFiles, FiniteSets, Sequences

CONSTANTS
    AutoRepair,     \* get_automatic_repair_option()
    RotationDelay,  \* how long an old group serves after a rotation
    IpDelay,        \* get_node_delay(index): CHANGE_IP_DELAY * (index + 1)
    MaxTime,        \* bound on the clock
    Budgets         \* for each kind of node, the mixes of outside events: a bound on each kind

Events == {"rotate", "ip", "cert", "repair", "down", "fail", "kill", "restart"}

ASSUME MonitorAssumption ==
    /\ AutoRepair \in BOOLEAN
    /\ RotationDelay \in Nat
    /\ IpDelay \in Nat
    /\ MaxTime \in Nat
    /\ Budgets \in [BOOLEAN -> SUBSET [Events -> Nat]]

VARIABLES
    syncNode,   \* SYNC_NODE: this node follows the chain without a key share
    now,        \* int(time.time())
    left,       \* what remains of the mix
    chain,      \* what the contracts say of the chain
    stream,     \* get_skale_node_version()
    rec,        \* the SChainRecord row
    keys,       \* rotation ids whose secret key share file exists
    upstream,   \* the upstream config files
    skaled,     \* the skaled config file
    reload,     \* reload_ts of external.json
    exitTs,     \* the exit schedule file rotation.json
    anew,       \* history: the skaled config was dropped since that exit was scheduled
    status,     \* skaled.status: exit_time_reached; clear_data_dir with start_from_snapshot
    cont,       \* the skaled container; cfg and snap are those of its last start
    vol,        \* whether the data volume exists
    wiped,      \* history: data was removed and no container with a snapshot started since
    fw,         \* the node IPs the firewall rules were made from
    ncli,       \* repair_ts of node_cli.status
    cert,       \* modification date of the certificate file
    up,         \* whether the monitor process runs
    c,          \* config thread: next block, and what it read from the contracts
    s           \* skaled thread: chosen monitor and the index of its next block

envVars   == <<syncNode, now, left, chain, stream>>
fileVars  == <<keys, upstream, skaled, reload, exitTs, anew>>
hostVars  == <<status, cont, vol, wiped, fw, ncli, cert>>
vars      == <<envVars, rec, fileVars, hostVars, up, c, s>>

-----------------------------------------------------------------------------
Idle == "Idle"

\* The skaled monitors, in the order get_skaled_monitor tries them.
Priority ==
    IF syncNode
    THEN <<"Recreate", "UpdateConfig", "ReloadGroup", "ReloadIp", "NoConfig", "Regular">>
    ELSE <<"NoConfig", "Backup", "Repair", "Recreate", "NewNode", "UpdateConfig",
           "ReloadGroup", "ReloadIp", "Regular">>

\* The blocks of each monitor's execute().  A handler that touches docker more
\* than once is a block per call, because any of the calls can raise.
Plan ==
    [Regular      |-> <<"firewall", "volume", "container", "rpc">>,
     Repair       |-> <<"rmcontainer", "rmvolume", "firewall", "volume", "snapshot", "repairts">>,
     Backup       |-> <<"volume", "firewall", "snapshot", "nobackup">>,
     Recreate     |-> <<"volume", "rmcontainer", "container">>,
     UpdateConfig |-> <<"update", "firewall", "volume", "noexit", "rmcontainer", "force">>,
     ReloadGroup  |-> <<"firewall", "volume", "container", "rpc", "exitgroup">>,
     ReloadIp     |-> <<"fwupstream", "volume", "container", "rpc", "exitip">>,
     NoConfig     |-> <<"update">>,
     NewNode      |-> <<"volume", "firewall", "snapshot">>]

Modes == DOMAIN Plan

ChainStates   == [rid : Nat, ips : Nat, ipTs : Nat, finish : OptTs,
                  member : BOOLEAN, ok : BOOLEAN]
Records       == [first : BOOLEAN, fresh : BOOLEAN, ver : Nat, sync : BOOLEAN,
                  backup : BOOLEAN, repair : Nat, cert : Nat]
Statuses      == [exit : BOOLEAN, repair : BOOLEAN]
Containers    == [st : {"none", "running", "exited", "failed"},
                  cfg : Configs \cup {NoConfig}, snap : BOOLEAN, booted : BOOLEAN]
ConfigThreads == [pc : {Idle, "dkg", "external", "generate", "reload", "reset"},
                  rid : Nat, ips : Nat, ipTs : Nat, ok : BOOLEAN]
SkaledThreads == [mode : Modes \cup {Idle}, at : Nat \ {0}]

TypeOK ==
    /\ syncNode \in BOOLEAN
    /\ now \in Nat
    /\ left \in [Events -> Nat]
    /\ chain \in ChainStates
    /\ stream \in Nat
    /\ rec \in Records
    /\ keys \subseteq Nat
    /\ upstream \subseteq Files
    /\ skaled \in Configs \cup {NoConfig}
    /\ reload \in OptTs
    /\ exitTs \in OptTs
    /\ anew \in BOOLEAN
    /\ status \in Statuses
    /\ cont \in Containers
    /\ vol \in BOOLEAN
    /\ wiped \in BOOLEAN
    /\ fw \in OptTs
    /\ ncli \in OptTs
    /\ cert \in Nat
    /\ up \in BOOLEAN
    /\ c \in ConfigThreads
    /\ s \in SkaledThreads

-----------------------------------------------------------------------------
(* The state after the chain is created and its first monitor process has  *)
(* inserted the record: nothing on disk, DKG of rotation 0 not done.       *)
Init ==
    /\ syncNode \in BOOLEAN
    /\ now = 1
    /\ left \in Budgets[syncNode]
    /\ chain = [rid |-> 0, ips |-> 0, ipTs |-> 0, finish |-> NoTs,
                member |-> TRUE, ok |-> FALSE]
    /\ stream = 1
    /\ rec = [first |-> TRUE, fresh |-> TRUE, ver |-> 0, sync |-> FALSE,
              backup |-> FALSE, repair |-> 0, cert |-> 0]
    /\ keys = {}
    /\ upstream = {}
    /\ skaled = NoConfig
    /\ reload = NoTs
    /\ exitTs = NoTs
    /\ anew = FALSE
    /\ status = [exit |-> FALSE, repair |-> FALSE]
    /\ cont = [st |-> "none", cfg |-> NoConfig, snap |-> FALSE, booted |-> FALSE]
    /\ vol = FALSE
    /\ wiped = FALSE
    /\ fw = NoTs
    /\ ncli = NoTs
    /\ cert = 0
    /\ up = TRUE
    /\ c = [pc |-> Idle, rid |-> 0, ips |-> 0, ipTs |-> 0, ok |-> FALSE]
    /\ s = [mode |-> Idle, at |-> 1]

-----------------------------------------------------------------------------
(* The monitor process. *)

RotationActive == ~ chain.ok \/ now < chain.finish

\* The record asks for a configuration generated from scratch.
Outdated(r) == r.ver # stream \/ (r.sync /\ r.first)

\* Variant: the config of the previous version stays.
StartKeepingConfig ==
    /\ ~ up
    /\ syncNode \/ chain.member \/ RotationActive
    /\ up' = TRUE
    /\ UNCHANGED <<envVars, rec, fileVars, hostVars, c, s>>

\* start_tasks: a process for a chain the node has left ends at once; any other
\* drops the skaled config when a new one has to be fetched.
StartTasks ==
    /\ ~ up
    /\ syncNode \/ chain.member \/ RotationActive
    /\ up' = TRUE
    /\ skaled' = IF Outdated(rec) THEN NoConfig ELSE skaled
    /\ anew' = (anew \/ (Outdated(rec) /\ exitTs # NoTs))
    /\ UNCHANGED <<envVars, rec, keys, upstream, reload, exitTs, hostVars, c, s>>

\* Both threads end with the process, wherever they are.
ThreadsStop ==
    /\ up' = FALSE
    /\ c' = [c EXCEPT !.pc = Idle]
    /\ s' = [s EXCEPT !.mode = Idle, !.at = 1]

Spend(e) == left[e] > 0 /\ left' = [left EXCEPT ![e] = @ - 1]

\* terminate_process, or the process dies by itself.
MonitorKilled ==
    /\ up
    /\ Spend("kill")
    /\ ThreadsStop
    /\ UNCHANGED <<syncNode, now, chain, stream, rec, fileVars, hostVars>>

\* The admin container restarts, perhaps as a newer version, and init() marks
\* every record: first_run, and the options the operator set.
AdminRestart ==
    /\ Spend("restart")
    /\ ThreadsStop
    /\ \E version \in {stream, stream + 1}, pullConfig, backupRun \in BOOLEAN :
          /\ stream' = version
          /\ rec' = [rec EXCEPT !.first = TRUE,
                                !.sync = @ \/ pullConfig,
                                !.backup = @ \/ backupRun]
    /\ UNCHANGED <<syncNode, now, chain, fileVars, hostVars>>

-----------------------------------------------------------------------------
(* The config pipeline.  It reads the contracts once, when it starts.      *)

ConfigAt(pc) == up /\ c.pc = pc

ConfigStart ==
    /\ ConfigAt(Idle)
    /\ syncNode \/ chain.member
    /\ c' = [pc |-> IF syncNode THEN "external" ELSE "dkg",
             rid |-> chain.rid, ips |-> chain.ips, ipTs |-> chain.ipTs, ok |-> chain.ok]
    /\ UNCHANGED <<envVars, rec, fileVars, hostVars, up, s>>

ConfigGoto(pc) == c' = [c EXCEPT !.pc = pc]

\* The key share of this rotation is there already, or the DKG of the rotation
\* the pipeline read completes on chain and its result is saved.
ConfigDkg ==
    /\ ConfigAt("dkg")
    /\ c.rid \in keys \/ (chain.ok /\ chain.rid = c.rid)
    /\ keys' = keys \cup {c.rid}
    /\ ConfigGoto("external")
    /\ UNCHANGED <<envVars, rec, upstream, skaled, reload, exitTs, anew, hostVars, up, s>>

\* 'DKG failed' is raised and ends the pipeline: the round it joined was
\* superseded by another rotation.
ConfigDkgFails ==
    /\ ConfigAt("dkg")
    /\ c.rid \notin keys
    /\ chain.rid # c.rid
    /\ ConfigGoto(Idle)
    /\ UNCHANGED <<envVars, rec, fileVars, hostVars, up, s>>

\* external_state: the state to save has no reload_ts yet, so a saved one makes
\* the files differ and is dropped until update_reload_ts sets it again.
ConfigExternalState ==
    /\ ConfigAt("external")
    /\ reload' = NoTs
    /\ ConfigGoto("generate")
    /\ UNCHANGED <<envVars, rec, keys, upstream, skaled, exitTs, anew, hostVars, up, s>>

\* Variant: a change of the node IPs does not make the config stale.
UpstreamOkWithOldIps ==
    /\ UpstreamExistForRotationId(upstream, c.rid)
    /\ rec.ver = stream
    /\ ~ rec.sync

\* ConfigChecks.upstream_config.
UpstreamConfigOk ==
    /\ UpstreamExistForRotationId(upstream, c.rid)
    /\ Latest(upstream).cfg.ips = c.ips
    /\ rec.ver = stream
    /\ ~ rec.sync

\* Variant: the key share is named after the rotation read last.
ConfigWithNewestKey == [key |-> chain.rid, grp |-> chain.rid, ips |-> chain.ips,
                        finish |-> chain.finish, ver |-> stream]

\* create_new_upstream_config: the rotation id is the one the pipeline read at
\* its start, nodes and node groups are read again.
NewConfig == [key |-> c.rid, grp |-> chain.rid, ips |-> chain.ips,
              finish |-> chain.finish, ver |-> stream]

\* upstream_config: save unless the latest file already says the same.
ConfigGenerate ==
    /\ ConfigAt("generate")
    /\ ~ UpstreamConfigOk
    /\ syncNode => c.ok
    /\ upstream' = IF upstream # {} /\ NewConfig = Latest(upstream).cfg
                   THEN upstream
                   ELSE SaveNewUpstream(upstream,
                            [rid |-> c.rid, ts |-> now, cfg |-> NewConfig])
    /\ rec' = [rec EXCEPT !.ver = stream]
    /\ ConfigGoto("reload")
    /\ UNCHANGED <<envVars, keys, skaled, reload, exitTs, anew, hostVars, up, s>>

\* Nothing to generate.  A sync node then also leaves reload_ts alone.
ConfigSkipGenerate ==
    /\ ConfigAt("generate")
    /\ UpstreamConfigOk \/ (syncNode /\ ~ c.ok)
    /\ ConfigGoto(IF syncNode THEN "reset" ELSE "reload")
    /\ UNCHANGED <<envVars, rec, fileVars, hostVars, up, s>>

\* update_reload_ts: no reload while the skaled config has the current IPs, and
\* none to compute when no IP ever changed; a node outside the group returns.
ConfigReloadTs ==
    /\ ConfigAt("reload")
    /\ LET matched == skaled # NoConfig /\ skaled.ips = c.ips
           planned == IF c.ipTs = 0 THEN NoTs ELSE c.ipTs + IpDelay
       IN  reload' = IF matched THEN NoTs
                     ELSE IF syncNode \/ chain.member THEN planned
                     ELSE reload
    /\ ConfigGoto("reset")
    /\ UNCHANGED <<envVars, rec, keys, upstream, skaled, exitTs, anew, hostVars, up, s>>

\* Variant: the request to pull a config is not taken back.
ResetKeepingSync ==
    /\ ConfigAt("reset")
    /\ rec' = [rec EXCEPT !.ver = stream]
    /\ ConfigGoto(Idle)
    /\ UNCHANGED <<envVars, fileVars, hostVars, up, s>>

\* reset_config_record.
ConfigReset ==
    /\ ConfigAt("reset")
    /\ rec' = [rec EXCEPT !.ver = stream, !.sync = FALSE]
    /\ ConfigGoto(Idle)
    /\ UNCHANGED <<envVars, fileVars, hostVars, up, s>>

\* Any block can raise (a contract call, the DKG, the disk): run() drops the rest.
ConfigFails ==
    /\ up /\ c.pc # Idle
    /\ Spend("fail")
    /\ ConfigGoto(Idle)
    /\ UNCHANGED <<syncNode, now, chain, stream, rec, fileVars, hostVars, up, s>>

ConfigStep ==
    \/ ConfigStart
    \/ ConfigDkg
    \/ ConfigDkgFails
    \/ ConfigExternalState
    \/ ConfigGenerate
    \/ ConfigSkipGenerate
    \/ ConfigReloadTs
    \/ ConfigReset

-----------------------------------------------------------------------------
(* The skaled pipeline: choosing a monitor. *)

Running == cont.st = "running"

\* The skaled config exists and differs from the latest upstream.
ConfigBehind == skaled # NoConfig /\ ~ SyncedWithUpstream(skaled, upstream)

UpstreamFinishTs == IF upstream = {} THEN NoTs ELSE Latest(upstream).cfg.finish
FinishTs         == IF skaled = NoConfig THEN NoTs ELSE skaled.finish

\* Variants: a request served in this second counts again; a chain that runs
\* is left alone.
RepairRequestedAgain ==
    \/ ncli >= rec.repair
    \/ AutoRepair /\ ~ Running /\ status.repair

RepairOnlyWhenDown ==
    ~ Running /\ (ncli > rec.repair \/ (AutoRepair /\ status.repair))

RepairRequested ==
    \/ ncli > rec.repair
    \/ AutoRepair /\ ~ Running /\ status.repair

\* Variants: the container is not looked at; nothing to copy, nothing to do.
UpdateOnStatusAlone == status.exit
UpdateWhenBehind    == ~ Running /\ status.exit /\ ConfigBehind

\* is_config_update_time: whether the config is behind does not matter, so that
\* an update cut short after copying the config is taken up again.
ConfigUpdateTime == ~ Running /\ status.exit

Applies(mode) ==
    CASE mode = "NoConfig"     -> skaled = NoConfig
      [] mode = "Backup"       -> rec.backup /\ ~ rec.fresh
      [] mode = "Repair"       -> RepairRequested
      [] mode = "Recreate"     -> Running /\ cert # rec.cert
      [] mode = "NewNode"      -> FinishTs > now /\ Cardinality(keys) = 1
      [] mode = "UpdateConfig" -> ConfigUpdateTime
      [] mode = "ReloadGroup"  -> UpstreamFinishTs > now /\ ConfigBehind
      [] mode = "ReloadIp"     -> reload # NoTs /\ ConfigBehind
      [] mode = "Regular"      -> TRUE

\* get_skaled_monitor: the first that applies.
Chosen(i) == /\ \A j \in 1..(i - 1) : ~ Applies(Priority[j])
             /\ Applies(Priority[i])

\* Variant: the pipeline is started whatever the record says.
StartUngated ==
    /\ up
    /\ s.mode = Idle
    /\ \E i \in DOMAIN Priority :
          Chosen(i) /\ s' = [mode |-> Priority[i], at |-> 1]
    /\ UNCHANGED <<envVars, rec, fileVars, hostVars, up, c>>

\* SkaledTask.needed: not before the config pipeline has stamped the record.
SkaledStart ==
    /\ up
    /\ s.mode = Idle
    /\ ~ Outdated(rec)
    /\ \E i \in DOMAIN Priority :
          Chosen(i) /\ s' = [mode |-> Priority[i], at |-> 1]
    /\ UNCHANGED <<envVars, rec, fileVars, hostVars, up, c>>

-----------------------------------------------------------------------------
(* The skaled pipeline: the blocks. *)

BlocksDone == s.mode # Idle /\ s.at > Len(Plan[s.mode])

At(block) ==
    /\ up
    /\ s.mode # Idle
    /\ s.at <= Len(Plan[s.mode])
    /\ Plan[s.mode][s.at] = block

Advance == s' = [s EXCEPT !.at = @ + 1]
Raise   == s' = [s EXCEPT !.mode = Idle, !.at = 1]

\* Variant: the files are not sorted.
UpdateUnsorted ==
    /\ At("update")
    /\ \/ upstream = {} /\ skaled' = skaled
       \/ \E f \in upstream : skaled' = f.cfg
    /\ Advance
    /\ UNCHANGED <<envVars, rec, keys, upstream, reload, exitTs, anew, hostVars, up, c>>

\* sync_skaled_config_with_upstream: nothing to copy without an upstream.
BlockUpdateConfig ==
    /\ At("update")
    /\ skaled' = IF upstream = {} THEN skaled ELSE Latest(upstream).cfg
    /\ Advance
    /\ UNCHANGED <<envVars, rec, keys, upstream, reload, exitTs, anew, hostVars, up, c>>

\* firewall_rules: the check compares with the skaled config, and ReloadIp then
\* takes the IPs of the latest upstream.  Without the config it raises.
BlockFirewall ==
    /\ At("firewall") \/ At("fwupstream")
    /\ LET wanted == IF At("fwupstream") THEN Latest(upstream).cfg ELSE skaled
       IN  IF skaled = NoConfig
           THEN fw' = fw /\ Raise
           ELSE fw' = (IF fw = skaled.ips THEN fw ELSE wanted.ips) /\ Advance
    /\ UNCHANGED <<envVars, rec, fileVars, status, cont, vol, wiped, ncli, cert, up, c>>

BlockVolume ==
    /\ At("volume")
    /\ vol' = TRUE
    /\ Advance
    /\ UNCHANGED <<envVars, rec, fileVars, status, cont, wiped, fw, ncli, cert, up, c>>

BlockRemoveContainer ==
    /\ At("rmcontainer")
    /\ cont' = [cont EXCEPT !.st = "none"]
    /\ Advance
    /\ UNCHANGED <<envVars, rec, fileVars, status, vol, wiped, fw, ncli, cert, up, c>>

BlockRemoveVolume ==
    /\ At("rmvolume")
    /\ vol' = FALSE
    /\ wiped' = TRUE
    /\ Advance
    /\ UNCHANGED <<envVars, rec, fileVars, status, cont, fw, ncli, cert, up, c>>

\* A start of skaled reads the config file as it is now.
Started(snapshot) ==
    cont' = [st |-> "running", cfg |-> skaled, snap |-> snapshot, booted |-> FALSE]

\* run_schain_container: the command line is made from the config, and raises
\* without one.  Downloading a snapshot restores the data.
RunContainer(snapshot) ==
    \/ /\ skaled # NoConfig
       /\ Started(snapshot)
       /\ rec' = [rec EXCEPT !.cert = cert]
       /\ wiped' = (wiped /\ ~ snapshot)
       /\ Advance
    \/ /\ skaled = NoConfig
       /\ UNCHANGED <<cont, rec, wiped>>
       /\ Raise

\* restart_container keeps the command line.  Whether the counters still allow
\* a restart is the matter of ContainerWatch.
RestartContainer ==
    /\ Started(cont.snap)
    /\ rec' = [rec EXCEPT !.cert = cert]
    /\ wiped' = wiped
    /\ Advance

LeaveContainer == UNCHANGED <<cont, rec, wiped>> /\ Advance

\* monitor_schain_container, behind the check that the container is not running.
MonitorContainer(snapshot, abortOnExit) ==
    LET skip == Running \/ ~ vol \/ (status.exit /\ abortOnExit)
    IN  \/ skip /\ LeaveContainer
        \/ ~ skip /\ cont.st = "none" /\ RunContainer(snapshot)
        \/ ~ skip /\ cont.st # "none" /\ status.repair /\ LeaveContainer
        \/ ~ skip /\ cont.st = "failed" /\ ~ status.repair
                  /\ (RestartContainer \/ LeaveContainer)
        \/ ~ skip /\ cont.st = "exited" /\ ~ status.repair /\ LeaveContainer

BlockContainer ==
    /\ \/ At("container") /\ MonitorContainer(FALSE, TRUE)
       \/ At("snapshot") /\ MonitorContainer(TRUE, TRUE)
       \/ At("force") /\ MonitorContainer(FALSE, FALSE)
    /\ UNCHANGED <<envVars, fileVars, status, vol, fw, ncli, cert, up, c>>

\* skaled_rpc: the endpoint answers, or a container that runs is restarted.
\* The restart does not renew the certificate date.
BlockRpc ==
    /\ At("rpc")
    /\ \/ UNCHANGED <<cont, left>>
       \/ Running /\ ~ status.exit /\ Spend("down") /\ Started(cont.snap)
    /\ Advance
    /\ UNCHANGED <<syncNode, now, chain, stream, rec, fileVars,
                   status, vol, wiped, fw, ncli, cert, up, c>>

\* schedule_skaled_exit: a schedule that exists is never replaced.
ScheduleExit(ts) ==
    /\ exitTs' = IF status.exit \/ exitTs # NoTs \/ ts = NoTs THEN exitTs ELSE ts
    /\ Advance
    /\ UNCHANGED <<envVars, rec, keys, upstream, skaled, reload, anew, hostVars, up, c>>

BlockExitGroup == At("exitgroup") /\ ScheduleExit(UpstreamFinishTs)
BlockExitIp    == At("exitip") /\ ScheduleExit(reload)

BlockResetExit ==
    /\ At("noexit")
    /\ exitTs' = NoTs
    /\ anew' = FALSE
    /\ Advance
    /\ UNCHANGED <<envVars, rec, keys, upstream, skaled, reload, hostVars, up, c>>

BlockRepairTs ==
    /\ At("repairts")
    /\ rec' = [rec EXCEPT !.repair = now]
    /\ Advance
    /\ UNCHANGED <<envVars, fileVars, hostVars, up, c>>

BlockDisableBackup ==
    /\ At("nobackup")
    /\ rec' = [rec EXCEPT !.backup = FALSE]
    /\ Advance
    /\ UNCHANGED <<envVars, fileVars, hostVars, up, c>>

\* _upd_schain_record, after the last block.
SkaledFinish ==
    /\ up
    /\ BlocksDone
    /\ rec' = [rec EXCEPT !.first = FALSE, !.fresh = FALSE]
    /\ Raise
    /\ UNCHANGED <<envVars, fileVars, hostVars, up, c>>

\* Any block can raise (docker, iptables, the disk): run() drops the rest.
SkaledFails ==
    /\ up /\ s.mode # Idle
    /\ Spend("fail")
    /\ Raise
    /\ UNCHANGED <<syncNode, now, chain, stream, rec, fileVars, hostVars, up, c>>

SkaledStep ==
    \/ SkaledStart
    \/ BlockUpdateConfig
    \/ BlockFirewall
    \/ BlockVolume
    \/ BlockRemoveContainer
    \/ BlockRemoveVolume
    \/ BlockContainer
    \/ BlockRpc
    \/ BlockExitGroup
    \/ BlockExitIp
    \/ BlockResetExit
    \/ BlockRepairTs
    \/ BlockDisableBackup
    \/ SkaledFinish

-----------------------------------------------------------------------------
(* Outside: contracts, clock, skaled, node-cli, certificate upload.  A change *)
(* in the contracts comes early enough for its delay to end within MaxTime.  *)

\* A node leaves the group and another replaces it; the old group serves for
\* RotationDelay more.  While a DKG fails the rotation is repeated.
Rotate ==
    /\ Spend("rotate") /\ now + RotationDelay <= MaxTime
    /\ ~ chain.ok \/ chain.finish <= now
    /\ \E stays \in BOOLEAN, ipTs \in {0, chain.ipTs} :
          chain' = [chain EXCEPT !.rid = @ + 1, !.ips = @ + 1, !.ipTs = ipTs,
                                 !.finish = now + RotationDelay,
                                 !.member = @ /\ stays, !.ok = FALSE]
    /\ UNCHANGED <<syncNode, now, stream, rec, fileVars, hostVars, up, c, s>>

\* Every node of the group has confirmed the DKG, this one too if it is in it.
DkgCompletes ==
    /\ ~ chain.ok
    /\ chain.member /\ ~ syncNode => ConfigAt("dkg") /\ c.rid = chain.rid
    /\ chain' = [chain EXCEPT !.ok = TRUE]
    /\ UNCHANGED <<syncNode, now, left, stream, rec, fileVars, hostVars, up, c, s>>

ChangeIp ==
    /\ Spend("ip") /\ now + IpDelay <= MaxTime
    /\ chain' = [chain EXCEPT !.ips = @ + 1, !.ipTs = now]
    /\ UNCHANGED <<syncNode, now, stream, rec, fileVars, hostVars, up, c, s>>

\* A new skaled process writes a clean skaled.status.
SkaledBoots ==
    /\ Running /\ ~ cont.booted
    /\ cont' = [cont EXCEPT !.booted = TRUE]
    /\ status' = [exit |-> FALSE, repair |-> FALSE]
    /\ UNCHANGED <<envVars, rec, fileVars, vol, wiped, fw, ncli, cert, up, c, s>>

SkaledExits ==
    /\ Running /\ cont.booted
    /\ exitTs # NoTs /\ exitTs <= now
    /\ cont' = [cont EXCEPT !.st = "exited"]
    /\ status' = [status EXCEPT !.exit = TRUE]
    /\ UNCHANGED <<envVars, rec, fileVars, vol, wiped, fw, ncli, cert, up, c, s>>

\* skaled crashes, or stops and asks for its data to be replaced.
SkaledDown ==
    /\ Running
    /\ Spend("down")
    /\ cont' = [cont EXCEPT !.st = "failed"]
    /\ \E repair \in BOOLEAN : status' = [status EXCEPT !.repair = @ \/ repair]
    /\ UNCHANGED <<syncNode, now, chain, stream, rec, fileVars,
                   vol, wiped, fw, ncli, cert, up, c, s>>

NodeCliRepair ==
    /\ Spend("repair")
    /\ ncli' = now
    /\ UNCHANGED <<syncNode, now, chain, stream, rec, fileVars,
                   status, cont, vol, wiped, fw, cert, up, c, s>>

CertificateUploaded ==
    /\ Spend("cert")
    /\ cert' = cert + 1
    /\ UNCHANGED <<syncNode, now, chain, stream, rec, fileVars,
                   status, cont, vol, wiped, fw, ncli, up, c, s>>

Tick ==
    /\ now < MaxTime
    /\ now' = now + 1
    /\ UNCHANGED <<syncNode, left, chain, stream, rec, fileVars, hostVars, up, c, s>>

-----------------------------------------------------------------------------
Next ==
    \/ StartTasks
    \/ MonitorKilled
    \/ AdminRestart
    \/ ConfigStep
    \/ ConfigFails
    \/ SkaledStep
    \/ SkaledFails
    \/ Rotate
    \/ DkgCompletes
    \/ ChangeIp
    \/ SkaledBoots
    \/ SkaledExits
    \/ SkaledDown
    \/ NodeCliRepair
    \/ CertificateUploaded
    \/ Tick

Spec == Init /\ [][Next]_vars

\* The process manager restarts a process that ended, execute_tasks submits
\* each task again and again, and time passes.  A DKG round the others finish
\* is finished; skaled starts and obeys its exit schedule.
Fairness ==
    /\ WF_vars(StartTasks)
    /\ WF_vars(ConfigStep)
    /\ WF_vars(SkaledStep)
    /\ WF_vars(DkgCompletes)
    /\ WF_vars(SkaledBoots)
    /\ WF_vars(SkaledExits)
    /\ WF_vars(Tick)

FairSpec == Spec /\ Fairness

-----------------------------------------------------------------------------
(* GET node/update-safe, which node-cli asks before it stops the containers. *)

\* Variant: the rotation alone is looked at.
UnsafeWhileRotating == RotationActive

\* update_unsafe_for_schains.
UpdateUnsafe == RotationActive \/ ConfigBehind

-----------------------------------------------------------------------------
(* Properties. *)

Busy == s.mode # Idle

\* While a skaled pipeline runs, the record carries the version of this node
\* software and no regeneration is outstanding.  SkaledTask.needed is tested
\* only when the pipeline is submitted; what it read must not turn false while
\* the config thread and the operator go on writing the record.
PipelineGated == Busy => ~ Outdated(rec)

\* What a pipeline works with was generated by this version: a config left by
\* an older admin is never started, although old upstream files stay on disk.
\* (A sync node may stamp the record while the last DKG is unsuccessful.)
ConfigOfThisVersion ==
    Busy /\ skaled # NoConfig /\ ~ syncNode => skaled.ver = stream

\* A skaled that runs on a group member names a key share this node holds.
KeyHeld == Running /\ ~ syncNode => cont.cfg.key \in keys

\* Every monitor that touches the container finds a skaled config: it can
\* vanish only between two processes, never under a running pipeline.
ConfigUnderPipeline ==
    Busy /\ s.mode # "NoConfig" /\ ~ syncNode => skaled # NoConfig

\* b is at least as new as a, in every respect.
NotOlder(a, b) ==
    /\ a.key <= b.key
    /\ a.grp <= b.grp
    /\ a.ips <= b.ips
    /\ a.finish <= b.finish
    /\ a.ver <= b.ver

\* skaled is never taken back to an older node group, key share, set of IPs or
\* node version, whatever the order of rotations, IP changes, restarts, repairs
\* and regenerated configs, and although a config is made of values that were
\* read at different moments.
ConfigsAdvance ==
    [][cont.cfg # NoConfig => cont'.cfg # NoConfig /\ NotOlder(cont.cfg, cont'.cfg)]_vars

\* A config file is replaced only while skaled is down (an update waits for
\* the exit); what runs differs from the file only after a version update.
ConfigSwappedWhenDown ==
    [][skaled # NoConfig /\ skaled' # NoConfig /\ skaled' # skaled => ~ Running]_vars

\* From when an exit of skaled is scheduled until it has exited the node is not
\* reported as safe to update: the report looks at the rotation and the config
\* files, the exit is in a third file, the exit status in a fourth, and all change
\* at moments of their own; crashes of skaled and kills of the monitor make no
\* gap.  (A process that fetches the config anew leaves the schedule of the old
\* one behind: then nothing tells that skaled is going to exit.)
ExitIsUnsafe ==
    exitTs # NoTs /\ ~ ConfigUpdateTime /\ ~ anew => UpdateUnsafe

\* An exit that is scheduled is neither moved nor taken back before skaled has
\* exited, be it by a later rotation or an IP change; the update resets it.
ExitStands ==
    [][exitTs # NoTs /\ exitTs' # exitTs => exitTs' = NoTs /\ ConfigUpdateTime]_vars

\* Data is removed only for a request: one of node-cli that no repair served
\* since, or one of a skaled that is down and still asks for it.
WipeOnRequest ==
    [][vol /\ ~ vol' => ncli > rec.repair \/ (status.repair /\ ~ Running)]_vars

\* A node update, or a config pull the operator asked for, always ends with the
\* record up to date, so that skaled is monitored again: no kill of the process
\* and no failed block loses it.
UpdateCompletes ==
    Outdated(rec) /\ chain.member ~> ~ Outdated(rec) \/ ~ chain.member

\* A skaled that exited on schedule comes back, and with the config file of
\* that moment, even when the process is killed between the blocks of the
\* update: the status file keeps the update due until skaled has started.
ExitThenRestart ==
    cont.st # "running" /\ status.exit /\ chain.member
      ~> (Running /\ cont.cfg = skaled) \/ ~ chain.member

\* A repair request is not repeated for ever and not forgotten: repair_date
\* catches up with it.
RepairCompletes == ncli > rec.repair ~> rec.repair >= ncli

\* The config pipeline drops reload_ts in each of its passes and sets it again
\* after the contract calls of upstream_config.  The two threads sleep and run
\* independently: neither of the two reads of reload_ts in the skaled pipeline
\* falls in that window every time.
ReloadSeen ==
    /\ []<>(reload # NoTs) => []<><<SkaledStart /\ reload # NoTs>>_vars
    /\ []<><<BlockExitIp>>_vars => []<><<BlockExitIp /\ reload # NoTs>>_vars

\* After an IP change in the group skaled comes to run with the new IPs: the
\* reload time passes through external.json, the exit schedule, the exit and
\* the update, with no acknowledgement between the two threads.
IpsAdopted ==
    ReloadSeen => <>[](Running /\ cont.cfg.ips = chain.ips /\ fw = chain.ips)

-----------------------------------------------------------------------------
(* What the comments of the code promise and its steps do not keep. *)

\* skaled_monitor.py:82 "When node-cli or skaled requested repair mode - remove
\* volume and download snapshot": data that a repair removed comes back from a
\* snapshot, so the next container over it is created to download one.
RepairDownloadsSnapshot ==
    [][wiped /\ ~ Running /\ Running' => cont'.snap]_vars
=============================================================================
