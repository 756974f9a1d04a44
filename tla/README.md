# skale-admin: a TLA+ model of the node's chain management

skale-admin runs on every node of the SKALE network.  For each sChain the
contracts assign to the node it keeps a *monitor process*, which takes part in
the distributed key generation (DKG), writes the configs of `skaled` (the chain
daemon), and starts, stops, repairs and reconfigures the `skaled` container.

The modules here model that part: the main process with its process manager
and cleaner, the two pipelines of a monitor process, the config files they
share, the counters of the container watch, the DKG between the nodes of a chain,
the record of a chain that two threads save as a whole, the IMA container next to
skaled, the removal of a chain that left, the firewall rules, and the life of the
node itself on the contracts: registration, maintenance, exit.  Each component has a
TLC instance (`MC...`) and a module with TLAPS proofs (`..._proofs`); `Firewall` is
checked and proved about as part of `Cleaner`.

    tlc -workers 2 -config nodes.cfg MCSchainMonitor.tla
    tlapm SchainMonitor_proofs.tla

## 1. Inventory of the system

### Main process (`admin.py`, `sync_node.py`, `core/schains/process_manager.py`, `core/schains/process.py`)

*State.* The child processes; per chain the file `process.json` (`pid`, `ts`),
which outlives the container.
*Operations.* A round of the process manager for the chains the contracts name:
read the report, terminate a process whose report is old, start one when none is
alive; then a round of the cleaner; then sleep.
*Interactions.* Signals to the monitors, the report file as their only answer.
*Hard.* Pids are handed out anew after a restart while the reports stay; a
zombie and a process that reuses the pid both answer signal 0; a process whose
task hangs goes on working without beating.
*Correct when* a chain has at most one monitor, one that works is spared, one
that stopped is replaced, and every one can be found again.

### Monitor process (`core/schains/monitor/main.py`, `tasks.py`)

*State.* Two futures (config task, skaled task) and their start times.
*Operations.* `start_tasks` (report, removal of an outdated skaled config),
`execute_tasks` (submit each needed task that is not running, beat, end as stuck
when a task runs past its limit).
*Hard.* `needed` is evaluated at submission only; leaving the executor waits
for the very task that is stuck.

### Config pipeline (`config_monitor.py`, `action.py` `ConfigActionManager`)

*State.* `upstream` configs, `external.json` with `reload_ts`, secret key shares,
the record.
*Operations.* `config_dir`, `dkg`, `external_state`, `upstream_config`,
`update_reload_ts`, `reset_config_record`.
*Interactions.* Contracts (read), SGX (DKG), the skaled pipeline through files.
*Hard.* The rotation id is read once per pass and the groups again later; the
group can rotate while a DKG is under way.

### Skaled pipeline (`skaled_monitor.py`, `action.py` `SkaledActionManager`, `containers.py`, `rpc.py`, `core/schains/runner.py`)

*State.* Skaled config, container, volume, firewall rules, exit schedule
`rotation.json`, `skaled.status` (written by skaled), the record.
*Operations.* One of nine monitors (`Regular`, `Repair`, `Backup`, `Recreate`,
`UpdateConfig`, `ReloadGroup`, `ReloadIp`, `NoConfig`, `NewNode`), chosen from
the files, the record and the container, run block by block.
*Hard.* Any block can raise, the process can be killed between any two, and
skaled changes its container and its status file meanwhile.
*Correct when* skaled never runs with a key the node lacks, never goes back to
an older group, never has its config swapped while it runs, loses data only
on request, and every update, exit, repair and IP change completes.

### Config files (`core/schains/config/file_manager.py`)

*State.* Upstream files ordered by rotation id and second, one skaled config.
*Operations.* save, find the newest, copy to skaled, remove.
*Hard.* The order is that of a sort of names; two writes of one second collide.

### Chain record (`web/models/schain.py`, `web/migrations.py`)

*State.* One sqlite row per chain: flags, counters, version, dates.
*Operations.* Setters, called by both threads; at a start of the admin container,
bulk updates that mark every row.
*Hard.* A setter saves the whole row it read, so it takes back what the other
thread saved since; the skaled thread holds one object while docker works.
*Correct when* no request to fetch a config, to repair or to reload is taken back
for good, and the skaled pipeline is not let in before the new config is there.

### Container and RPC watch (`containers.py`, `rpc.py`)

*State.* `restart_count`, `failed_rpc_count`.
*Operations.* Restart a failed container up to a limit; restart one whose
endpoint did not answer too often.
*Hard.* Five places reset the counters, in several handlers, and an exception
between a start and its reset leaves them behind.

### DKG client (`core/schains/dkg/*`)

*State.* Broadcasts received, last completed step; on chain: the channel, the
complaint, who broadcasted and who sent alright.
*Operations.* broadcast, receive and verify, complain, respond, alright, wait for
the failure of the round, generate the BLS key.
*Hard.* Nodes race each other's deadlines, and a restarted process joins a round
in the middle.

### Cleaner (`core/schains/cleaner.py`)

*Operations.* For each chain found by directory, container or record that the node
left: terminate the monitor, remove container, volume, rules, IMA container,
directory, mark the record deleted.
*Hard.* It is itself terminated after `JOIN_TIMEOUT`, mid-removal; each removal
relies on a check made before the first one.
*Correct when* whatever a chain left is found again until it is gone.

### Firewall (`core/schains/firewall/*`)

*State.* iptables rules. *Operations.* Compute the expected set from the config and
the sync ranges; add and remove the difference, one call at a time; flush.
*Hard.* The rules of a chain are those in its slot of ports, and a slot passes from
one chain to another; an update can be cut short between any two calls.
*Correct when* no source that stays is shut out, and the rules of a chain come to
be those of its config whatever was there before.

### IMA container (`core/schains/ima.py`, `containers.py` `monitor_ima_container`, `checks.py` `ima_container`)

*State.* The container with its image, time frame and environment; `migration_ts`.
*Operations.* The check, the pull of the new image, the choice between leaving,
replacing and starting the container; removal and start in updates and recreations.
*Hard.* Check, decision, removal and start each look at the clock, at docker or at
the config at their own moment; the key share of IMA is that of the config of its start.
*Correct when* IMA and skaled run with one node group, a chain that has migrated never
goes back, and every chain ends with the new image and the latest group.

### Node (`core/node.py`, `core/updates.py`, `core/node_config.py`, `tools/json_object.py`, `web/routes/node.py`)

*State.* `node_config.json` (SGX key, id, name, IP); the node on the contracts (status,
chains, leaving history, finish time).
*Operations.* Register, maintenance on and off, start of the exit and its status,
update-safe; at each start of the main process, the SGX key and the soft updates.
*Interactions.* Two API workers and the main process share the file; contracts.
*Hard.* Each field is a read, a truncation and a write of the whole file; a request can
be cut short between the transaction and the saves; an answer is put together from reads
of several moments.
*Correct when* the file names a node of this wallet with its own name and IP and loses
nothing, a registration cut short is completed, an exit ends, and nobody is told that
the machine may go while it is needed.

### Other parts

Health checks and HTTP API (`web/routes/*`,
`core/schains/checks.py`), certificates and nginx (`core/nginx.py`,
`core/schains/ssl.py`), resource limits, Telegram notifications, docker, wallet
and SGX clients.  `PROJECT.json` says of each how far it is modelled.

## 2. Modules

| module | what it models |
| --- | --- |
| `ConfigFiles` | names, order and contents of the config files; `Latest`, `SaveNewUpstream` |
| `SchainMonitor` | the monitor process of one chain: both pipelines, the files and the record they share, and around them the contracts, the clock, skaled, node-cli, kills and restarts |
| `SingleMonitor` | the abstract promise `SchainMonitor` is built on: per chain a set of monitors that has at most one member |
| `ProcessManager` | the main process, the cleaner, and the life of all monitor processes seen from there |
| `ContainerWatch` | `restart_count`, `failed_rpc_count` and the restarts they allow, finer than in `SchainMonitor` |
| `Dkg` | the DKG clients of all nodes of a chain around the contract |
| `Firewall` | the iptables rules by slot and source; the update of `update_rules` call by call |
| `Cleaner` | extends `Firewall`: the artifacts of each chain, the monitor that makes them, the cleaner that removes them |
| `SchainRecords` | the row of a chain under both threads, each read and each save a step |
| `Ima` | the IMA container of a chain next to its skaled, cut into reads and docker calls |
| `Node` | registration, maintenance and exit of the node, and `node_config.json` under three processes |
| `NodeRecord` | the abstract promise of `node_config.json`: fields that are written once, one at a time, and in an order |

How they compose: `ProcessManager` implements `SingleMonitor` (refinement
mapping: the processes of a chain that still work), and `SchainMonitor` models
exactly one process per chain, which may be killed and started again at any
step.  `ContainerWatch` cuts the blocks `container` and `rpc` of `SchainMonitor`
into the reads and writes of the counters, which `SchainMonitor` leaves out.  `Dkg`
opens up the block `dkg` of the config pipeline, which is one step in
`SchainMonitor`, for all nodes of the chain.  `Cleaner` opens up the steps
`CleanChain` and `RemoveDir` of `ProcessManager`; its monitor is the pass of
`RegularSkaledMonitor`, as far as it leaves something on the node.  `SchainRecords`
cuts both pipelines into what they read and save of the row, which `SchainMonitor`
updates field by field.  `Ima` opens up the block `ima_container`, which `SchainMonitor`
leaves out and `Cleaner` has as one step.  `Node` comes before all of them: the main
process of `ProcessManager` starts when `Node` has an id.  `Node` implements `NodeRecord`
(refinement mapping: what each field of the last whole content of the file holds), which is
what the rest of the program reads once and relies on from then on.

### SchainMonitor and the code

| state | code |
| --- | --- |
| `syncNode` | `SYNC_NODE`: the monitors of a group member or of a sync node, chosen once |
| `chain` | what the contracts answer: rotation id, node IPs and their date, finish time, membership, last DKG successful |
| `rec` | `SChainRecord`: `first_run`, `new_schain`, `config_version`, `sync_config_run`, `backup_run`, `repair_date`, certificate date |
| `keys` | `secret_key_<rotation>.json` |
| `upstream`, `skaled` | upstream configs and the skaled config |
| `reload`, `exitTs` | `reload_ts` of `external.json`, `rotation.json` |
| `status`, `cont`, `vol`, `fw` | `skaled.status`, container, volume, rules |
| `c`, `s` | the config thread and the skaled thread: the block each is at |

Each block of `ConfigActionManager` and `SkaledActionManager` is one action.
`Priority` and `Plan` are the choice in `get_skaled_monitor` and the `execute`
methods: the monitors differ only in the list of blocks.  A handler that talks
to docker more than once is split, because any call may raise; `SkaledFails`
and `ConfigFails` are those exceptions.  Two history variables, which no action
reads: `wiped` is when data was removed and whether it was restored, `anew` that the
skaled config was dropped since an exit was scheduled.

### ProcessManager and the code

`main.at` is the statement the main process is at; `ReadReport`, `LeaveRunning`,
`TerminateOld` and `StartProcess` are the branches of `run_pm_schain`;
`StartCleaner` to `EndCleaner` those of `run_cleaner` and `remove_schain`.
`Boot`, `Beat`, `Subvert`, `LoopRaises` and `Drained` are `start_tasks` and
`execute_tasks`.  The clock is kept as the age of each report.  The history variable
`written`, which no action reads, is the chains whose report was written by a process of
this life of the container.

### ContainerWatch and the code

A pass goes container check, watch, RPC check, second RPC check, finish; each
reads or writes the record as `monitor_schain_container`,
`handle_failed_schain_rpc` and `_upd_schain_record` do.  `seen` and `cut` are
history: restarts since a check found the container running, failed checks since
its start, and whether the updates after the start were lost.

### Dkg and the code

| state | code |
| --- | --- |
| `chan` | the channel on chain: round (rotation id), times, complaint, alrights, outcome |
| `log` | the broadcast events of all rounds |
| `node[i]` | the client of a node: the statement of `init_bls` it is at, its rotation id, the events received, the alrights seen |
| `keys[i]` | the secret key shares saved |
| `hist` | history: whether this is the first DKG of the chain, the rounds that succeeded, the alrights that are excused |

Every read of the contract that a later step depends on, and every transaction,
is a step of its own.  `Complain` is `DKGClient.send_complaint` with its three
outcomes, `ComplainAndGo` the wrapper of `utils.py`, `Respond` and `Answer` the
two transactions of `response` with `check_response` around them, and `Wait`
the loop of `wait_for_fail`, which gives up at a failure, a new round or the
timeout.  The contract is external: `Slash`, `Slashable`, `Accusable` and
`SendAlright` hold what the clients assume of it.  Wrong data is a set of nodes
for which a broadcast fails verification.  An exception that is not a
`DkgError`, and an SGX that cannot be reached, end the pass like `Killed`.

### Firewall, Cleaner and the code

| state | code |
| --- | --- |
| `table` | the rules of the INPUT chain that the admin can manage |
| `want[c]` | node IPs of the config and ranges of `external.json` |
| `sync[c]` | what is left of the two loops of `update_rules` |
| `life[c]` | what the contracts say: on the node, left with the rotation under way, left |
| `art[c]` | directory, config, container, volume, IMA container, `ima_linked`, record |
| `cl` | the statement of `cleanup_schain` the cleaner is at, and the results of its checks |
| `leaked` | history: chains whose rules the cleaner left |

`Check` is `checks.get_all()`, whose results the later statements use; `Failing`
is any exception of a removal, caught per chain in `monitor`; `CleanerKilled` is
the end of `JOIN_TIMEOUT` or a restart.  A rule stands for the ports of one kind
(`SkaledPorts`) open for one source, and `Foreign` are rules on ports of no chain.
The check before an update and the difference the update computes are one step:
were the rules changed in between, the step would be that of the later moment.

### SchainRecords and the code

| state | code |
| --- | --- |
| `row` | the row in sqlite: version, the flags of requests, the dates of repair and certificate |
| `c`, `s` | the pipeline each thread runs, where it is in it, and the object it holds |
| `ncli`, `cert` | `repair_ts` of `node_cli.status`, the date of the certificate |
| `owed`, `asked`, `wipes`, `lost` | history: a config asked for and not generated; requests and removals of data; repairs whose date was not saved |

`Plan` lists the reads and saves of each pipeline in their order; `Seen`, `Reset`,
`Container` and `Finish` are `_upd_last_seen`, the resets of counters,
`monitor_schain_container` and `_upd_schain_record`.  `Written` is what a setter
changes in the object before it saves the whole of it; `SkaledSaveOnly` are
`set_first_run` and `set_backup_run`, which save one field.  A save after which
the row differs only in fields kept elsewhere (counters, `monitor_last_seen`, DKG
status) is still a save of the whole object, and that is why it is there.

### Ima and the code

| state | code |
| --- | --- |
| `skaled`, `ima` | the two containers, with the group, image and time frame each was created with last |
| `file`, `upstream` | the node groups of the skaled config and of the latest upstream |
| `due` | `rotation.json`: an exit is scheduled |
| `linked`, `pulled` | `ima_linked` of `external.json`; whether docker has the new image |
| `s` | the pass: regular, update or recreate; its statement; what `monitor_ima_container` has read |
| `swapped` | history: the config was generated anew under a running skaled |

The passes are those of `SchainMonitor` as far as they touch a container: `update` is
`UpdateConfigSkaledMonitor`, `recreate` a new certificate, `regular` every other monitor,
which ends with the block and, in a reload, with `schedule_skaled_exit`.  The check is
made twice (`skaled_monitor.py:76`, `action.py:478`); the two are one step `CheckIma`,
since what changes between them could as well change after both.  `Regenerate` is a
new version of the admin, which drops the skaled config between two processes.  An
exited skaled stays `exited` through `RemoveSkaled`, because `exit_time_reached` stays in
`skaled.status`; that is why an update that was cut short is resumed.

### Node and the code

| state | code |
| --- | --- |
| `registry`, `node` | what the contracts say: all nodes; status, chains, leaving history and finish time of this one |
| `doc`, `disk` | `node_config.json`: its last whole content; whether it is whole, open for writing, or cut short |
| `write` | `JsonObject._set` of a process: read under the lock, open, written |
| `keys` | SGX keys generated; the wallet of a node is the number of its key |
| `admin` | where `main()` of `admin.py` is: init under its lock, wait for the id, monitoring |
| `worker`, `exit` | the request of each API worker, and its thread `Start node exit` |

`RegisterFind` to `RegisterWrite` are the statements of `Node.register`, one per call of
the contracts and three per saved field.  `RegisterRaises` is a transaction that is mined
although the wait for it raises, or not sent.  `StatusStart`, `StatusTime`, `StatusRead` and
`StatusAnswer` are the reads of `get_exit_status`: chains and history in one step, as both
only change by `node_exit` and a chain passes from the one to the other.  A reader of a file that is
open for writing raises; the main process then ends, and the container starts it again.
`update_unsafe_for_schains` is `UpdateUnsafe` in `SchainMonitor`, where its files are.

### Abstractions

 * In `Node` the two requests of an operator share a name or an IP; exit and status are
   asked of a node that was registered before (`Asked`), by one thread per worker and one
   answer at a time; chains deleted by their owner, and a change of the IP of the node on
   the contracts, are left out.  `Timeout < RotationDelay` is `gunicorn.conf.py:3` against
   rotations of hours.
 * In `Ima` a time frame and an image are old or new (a node whose static parameters name
   no time frame has one for both, and nothing to migrate).

 * A config is the record of what decides the monitors: key, group, IPs, finish
   time, version.  Two configs are equal when these are.
 * In `SchainMonitor` the record is updated field by field.  `ConfigFieldsKept`, which
   `SchainRecords` proves, says that this is so for version and `sync_config_run`; the
   dates of repair and certificate may be taken back there, which `RepairedOnce` counts.
 * The config thread reads the row right before each save, so a save of the
   other thread seldom falls in between; each such case is an event of the mix
   (`late`), so it may happen at any save, but not at every one for ever.
 * A copy or save of a file is atomic: both threads hold `CFM_LOCK`.
 * In `SchainMonitor` a DKG round is one step that completes or fails.
 * A process boots within the 90 s between two rounds of the manager (the guard
   `Booting`); were it slower, the manager would start a second process.
 * The group and the ranges of a chain change, in `Cleaner`, between two passes.
 * `AddRule` and `RemoveRule` look for the rule and change it in one step
   (`iptables.py:66`).  Two monitors of one slot that do so within the same call could leave
   a rule twice, which the model does not tell from once.
 * `RegisterAvailable` reads in one step whether name and IP are free; `createNode`
   decides that again by itself.
 * In `Dkg` a client that outlived its round may find its time up at any moment: it may have
   read the start time of the alrights of the round that is over.
 * Logs, notifications and reported-only checks are left out, and what runs in an
   IMA container: `Cleaner` knows whether it runs and is outdated.

The operators marked "Variant" are plausible mistakes in the definition that
follows them.  No specification uses them; replacing the definition by its
variant must break a property, which keeps the properties honest.

## 3. Runs

Only `records` checks deadlock.  In the others the clock is bounded, a node may have left
the chain and every kind of outside event is counted, so the instances really stop.

| run | instance | shows |
| --- | --- | --- |
| `nodes` | a group member with four mixes of events, a sync node with two | `KeyHeld`, `PipelineGated`, `ConfigOfThisVersion`, `ExitIsUnsafe`, `ConfigsAdvance`, `ConfigSwappedWhenDown`, `WipeOnRequest` |
| `member_live` | a group member, `FairSpec` | `UpdateCompletes`, `ExitThenRestart`, `RepairCompletes`, `IpsAdopted` |
| `manager` | 2 chains, 5 pids, a fresh container or one with any reports of an earlier life, `LifeSpec` | `ReportLeadsToMonitor`, `LiveMonitorSpared`, `SingleMonitorSpec`, `MonitorReturns`, `LeftChainCleaned` |
| `watch` | both limits small, each kind of event once | `FailedRestartsBounded`, `NewSkaledSpared`, `HungIsRestarted` |
| `dkg` | 2 nodes, 2 rounds, five pairs of events | `KeyOfRound`, `KeyOfSuccess`, `AlrightVerified` |
| `dkg_live` | the same, with a kill or a node that is down | `RoundEnds`, `ShareObtained` |
| `cleaner` | 2 chains in one slot, five mixes of events | `ForgottenIsGone`, `PortsClosed`, `UpdateKeepsOpen`, `LeftRemoved`, `RulesConverge` |
| `records` | both threads, five pairs or triples of events | `RepairedOnce`, `ConfigFieldsKept`, `Settled` |
| `node` | 2 workers; two requests with two of four events, or a node with up to two chains that leaves | `ConfigOfOurNode`, `ExitReportHonest`, `NodeRecordSpec`, `RegistrationHeals`, `ExitCompletes` |
| `ima` | one or two rotations around the migration time, with every pair of further events | `SameGroup`, `NeverBack`, `Settles` |
| `snapshot`, `rpc_limit` | | a comment or a test that the code does not keep (section 5) |

Each module has a type invariant `TypeOK`.  It is a theorem of every module (section 4), so
no run spends time on it.

### Bounds

*SchainMonitor.*  `Budgets` gives, for each kind of node, a set of mixes of outside
events; a behaviour starts with one of them.  Two rotations are enough for a config
of an older rotation than the newest but one; one kill or restart can fall at any step; a
failure can hit any block.  `MaxTime = 3` lets a schedule be set, come due and
be followed by another second; a change on chain is made only while its delay
still ends within the bound.  `RotationDelay` and `IpDelay` of one tick
distinguish before, at and after.

*ProcessManager.*  Two chains are needed for a pid to pass from one to the
other; three pids for a process, its replacement and that of the other chain, and two more
with the reports of an earlier life (of those that differ only by an exchange of names, one
is taken).  `AllowedDiff = 1` gives fresh, tolerated and old reports.  Each fault befalls
monitors whose report is their own (`written`), so that old reports of this life are acted
upon, of a zombie as of a process whose tasks hang.  A behaviour has a
restart, a crash with a failed round, a stuck task, or a chain that leaves with a loop that
raises; what any number of all of them together does to the safety properties is proved.

*ContainerWatch.*  `MaxRestart = 2` and `MaxFailed = 1` separate below, at and
beyond each limit; `Cap = 8` exceeds the bound `FailedRestartsBounded` states.

*Dkg.*  Two nodes make accuser and accused, the one that waits and the one that
is missed; a second round shows what a client of the first does in it, and the
nodes that came in with it.  A third node multiplies the state space by more
than fifty without a new role: what a bystander sees of a complaint, its author
sees too, in the steps after `Acknowledge`.  `Timeout = 1` tells a deadline that
passes from one that has passed.

*Cleaner.*  Two chains of one slot are the least for a successor, and for a chain
that comes back; a second slot, of no chain, has a rule of another program.  One
source besides everybody gives rules that are missing, right and too many.

*SchainRecords.*  `MaxTime = 2` tells a request of the second of a repair from a later
one.  Each mix pairs a request with what can come between its parts: a late save,
a kill, a failure, a second request.

*Ima.*  `Migration = 1` has passes before and after the migration time and across it.  A mix is
a rotation and any three events, one of which may be a second rotation.

*Node.*  Two workers, as in `gunicorn.conf.py`; a request and its repetition, or one that
corrects the name or the IP.  A node leaves two chains, so that one of its calls is not
the last, one chain while another is created, or none.  `RotationDelay = 2` and `Timeout = 1`
let an answer span the end of a rotation and no more.

### Fairness

*SchainMonitor.*  Weak fairness of the pipelines' steps (`execute_tasks` submits
each task whenever the last has ended), of a started process, of skaled booting
and obeying its schedule, of the clock, and of a DKG which the other nodes
finish.  Nothing is assumed of events.  `IpsAdopted` assumes `ReloadSeen`:
`external_state` drops `reload_ts` in each pass and `update_reload_ts` sets it
again some contract calls later; without the assumption the skaled thread could
read in that window for ever, which two unsynchronised sleeping threads do not.

*ProcessManager.*  Weak fairness of the main loop, the cleaner, a process that
boots or beats, a rotation that ends, and time.  Nothing is assumed of a stuck
task: `Drained` may never happen, and `MonitorReturns` holds all the same.

*ContainerWatch.*  Weak fairness of the pass, of skaled booting, and of a
snapshot download that ends.

*Dkg.*  Weak fairness of time and of the steps of each node: the config pipeline
starts a DKG again in each pass while a share is missing.  A node that is down
takes no step, and nothing is assumed of it.

*Cleaner.*  The main loop starts monitors and the cleaner in turn: strong fairness
of the start of a monitor, which waits for the cleaner to end, weak fairness of
the start of the cleaner, of its steps, of a monitor's steps, and of a rotation
that ends.  Nothing is assumed of kills and errors.

*SchainRecords.*  Weak fairness of each pipeline: `execute_tasks` submits it again
whenever it has ended and is needed.

*Ima.*  Weak fairness of the passes, of time, and of skaled obeying its exit schedule.

*Node.*  Weak fairness of the main process, which the container starts again, of each request
once it is there, and of each exit thread.  That an operator asks again is no fairness of
the specification but the premise of `ExitCompletes`.

## 4. Proofs

All theorems are for every value of the constants under the named assumptions
(`MonitorAssumption`, `ManagerAssumption`, `WatchAssumption`, `FirewallAssumption`,
`CleanerAssumption`, `RecordsAssumption`, `DkgAssumption`, `ImaAssumption`,
`NodeAssumption`: numbers are naturals, special values are no members of the
sets).  `ManagerAssumption` asks in addition that `AllowedDiff` is at least one pass of
the loops: a value from the contracts below that would have every monitor terminated.

*`SchainMonitor_proofs`.*  `Invariance` proves an inductive invariant from which
`PipelineGated`, `ConfigOfThisVersion`, `ConfigUnderPipeline`, `KeyHeld` and the
action properties follow, and `ExitIsUnsafe`.  None of them is inductive:

 * `KeyHeld` speaks of the container, so keys have to be traced back through the
   skaled config to every upstream file (`KeysSaved`) and to the rotation id the
   config thread holds after the DKG block.
 * `ConfigsAdvance` needs that the newest file has the newest group
   (`FilesOrdered`): a file's group is at least its rotation id, and files agree with
   the contracts' counter.  `ConfigsOrdered` puts container, skaled config, newest
   upstream and the config that would be generated now in one order (`NotOlder`), which
   compares key, group, IPs, finish time and version at once.
 * `ExitIsUnsafe` needs to know why an exit was scheduled.  `ExitAnnounced`: the config
   file is behind the newest upstream when `ReloadGroup` or `ReloadIp` runs, and stays so
   until skaled has exited; from then on the status file says it, until the update has
   removed the schedule.  By the same invariant `ExitStands`: neither a later rotation nor
   an IP change moves the date.
 * `ConfigOfThisVersion` needs `VersionStamped`: once the record says this
   version, the newest upstream was generated by it.
 * `ConfigUnderPipeline` and the updates need `ChoiceHolds`: what the choice of
   the monitor saw is still so at the block that relies on it, although the other
   thread ran in between.

*`ProcessManager_proofs`.*  The invariant joins `OneMonitor` and
`ReportLeadsToMonitor` with `ReadStands` (what the manager read of a report is
still so when it acts on it) and `CleanerAlone` (while the cleaner works no
process has yet to write its report).  `ImplementsSingleMonitor` derives the
refinement from it: every step adds a monitor to a chain that had none, removes
monitors, or stutters.  `LiveMonitorSpared` needs two facts about the life of a report:
`MonitorsBeat`, the report of a live monitor is at most one pass old, and `ReportsOwned`,
the pid of a report written in this life of the container is that of the process which wrote
it, and a process found old has stopped beating for good, so that it is not live
either when the main process acts on what it read some steps ago.  This holds through any
number of restarts; of a report an earlier life left it is false, since its pid may have been
handed out to another chain's monitor.

*`ContainerWatch_proofs`.*  `FailedRestartsBounded` relates a history counter to a
record that five places reset.  The invariant `Counted` bounds the restarts by
the counter plus `MaxRestart` for each lifted limit plus the starts whose count
was lost; `Missed` does the same for the RPC failures.

*`Cleaner_proofs`.*  `ForgottenIsGone` and `PortsClosed` speak of the end of a
removal that may be cut off at any step, so the invariant says what holds in
between:

 * `Tracked`: whoever has a volume, a running IMA container or a monitor has a
   config in a directory, by which the next round finds it.
 * `Removing`: the cleaner acts on one check at the start; what it saw is still so
   at the step that relies on it, or has been dealt with.
 * `Updating`: an update only takes away rules that were not expected when it
   began, and the config does not change under it.
 * `Owned`: rules in a slot have a chain that answers for them, by its config or
   as one whose rules were left.  A slot may be shared by an old chain and its
   successor, so the directory of the old one may go only when its rules are
   gone or answered for by another (`Handed`).

*`SchainRecords_proofs`.*  The row is what one thread saved last, so each property has
to speak of the objects both threads still hold:

 * `Gate`: an object the config thread will save has the version and the pull
   request of the row; one of the skaled thread has this version and no request,
   because the thread was let in by them and both change them only at a start.
   `GateStaysOpen` and `ConfigFieldsKept` follow.
 * `Owing`: while a config is owed the row says so and the config thread is before
   its generation; with `Gate`, that is `PullServed`.
 * `Dates`: the config thread may hold an older date of a repair, the skaled thread
   never does; a repair that has not yet removed anything was requested after it.
 * `Served`: a repair that is due counts as one removal, which makes `RepairedOnce`
   inductive.

*`Dkg_proofs`.*  For any number of nodes and rounds, and any kills, wrong data, failed calls
and nodes that are down.  `ChainInv` is what holds on chain; `ClientInv` what each client
has in memory, by where it is:

 * `OfRound`: its data are events of its round or later ones, and when the round has started
   anew some node came in after it;
 * `Counted`: the alrights it counts are on chain, or its own;
 * `Verified`: when it is about to send its alright, it verified the data of all, or is excused.

A client of a round that is over may still run.  It harms nothing, because a node that has
broadcasted in the round has no such client, a client counts only alrights of its round
and its own, and to a client of an earlier round the node that came in is unknown, whose
alright it never counts: so it never finds "everyone sent alright".

`KeyOfRound` also says that two nodes share one key.  That each share is made of events of
one round (`OneRound`) does not give it; it follows with `MadeOnChain`, that shares are made
of events on chain, where each node has one event per round.

*`Ima_proofs`.*  `SameGroup` compares two containers that are started from one file by
different steps.  `OfFile` says that both are of the group of the file unless skaled has
exited on schedule, and `Updating` that the file changes only then, with IMA gone before
anything is started.  `Migrated` carries what `Decide` read to the step that starts the
container.

*`Node_proofs`.*  For any number of workers, names, addresses, chains and requests:

 * `Registry` and `Requesting`: a request past its checks has a node of this wallet on the
   contracts, and there is one node of this wallet at most, so whichever request saves a
   field saves that of the same node;
 * `Locked` and `Saving`: one process at a time is in a save, and what it will write keeps
   what is there;
 * `OneField`: what a process will write differs from what is there in one field, and the
   fields it comes after are there; with `Locked`, that is `ImplementsNodeRecord`, and
   `FieldsKept` with it;
 * `Serving` and `Reading`: what the answer has read so far, against how far the exit has got.
   If the chains it read were not empty and the node is frozen now, the finish time lies
   `RotationDelay` after the first read, and the clock the answer uses at most `Timeout`.

Every safety property of the passing runs is a theorem.  Liveness under fairness is only
model-checked, because it needs ENABLED and the provers here do not reason about that; so are
the two properties of section 5, which do not hold.  The theorems about `OneMonitor`,
`ConfigUnderPipeline`, `ExitStands`, `PullServed`, `GateStaysOpen` and `FieldsKept` have no run of
their own: each is a step of a proof, or follows from a property that has one.

## 5. Where code and comments disagree

 * `snapshot`: a repair that starts while `skaled.status` still says
   `exit_time_reached` removes the data, skips the start with a snapshot, and
   counts as served; skaled later starts on an empty volume without one.
 * `rpc_limit`: the restart limit for a stuck RPC never takes effect, because
   each pass that finds the container running resets the counter first.

Seen while modelling, without a run: on a sync node the test for a missing config is
followed by a second `if` whose chain replaces `NoConfigSkaledMonitor` when a recreate is due
(`skaled_monitor.py:306`, against the docstring at line 199); an exit time set for an IP reload stays
when a later rotation needs another (`action.py:513`); `reset_restart_count`
(`skaled_monitor.py:101`) is no method of any class; the pass-level RPC check
does not reset `failed_rpc_count` when it succeeds; the time stored at the end of
a repair swallows a request made while it ran (`skaled_monitor.py:102`); a config
written after its `finish_ts` gets no exit time, so skaled stays with the old one
(`skaled_monitor.py:251`).

A zombie, or a process that reuses the pid, passes for a running monitor until its
report is old (`process.py:145`; `MonitorReturns` holds all the same).

Seen in the cleaner and the firewall:

 * Rules are flushed only when they are found in sync with the config
   (`cleaner.py:252`).  After a flush that was cut short, or a change of the group
   that the monitor had not yet adopted, they stay in the slot (`leaked` in
   `PortsClosed`); the next chain of the slot takes them over and corrects them.
 * A skaled container that docker created and did not start is not removed
   (`cleaner.py:246`), so its volume cannot be, and every round fails
   (`cont = "created"` in `LeftRemoved`).
 * An IMA container that does not run, has not exited, or that the migration has
   outdated when it is checked is not removed (`cleaner.py:263`), and once the
   directory is gone nobody looks for it (`ForgottenIsGone` speaks of those in
   order).
 * The record of a chain that comes back stays marked as deleted
   (`schain.py:286`); the chain is found by its directory and container.
 * `configure` keeps the ranges it had when the new list is empty
   (`rule_controller.py:103`), until the next pass makes a new controller.
 * `plock` (`iptables.py:35`) is shared by all processes of the container; a monitor
   terminated inside one of its calls leaves it locked for everybody.

Seen in the life of the node and of IMA:

 * A process killed between the truncation and the write of `node_config.json`
   (`tools/helper.py:65`) leaves an empty file, which nothing repairs: every later read and save
   raises (`disk = "cut"` in `RegistrationHeals`).  The file keeps nothing that is not on the
   contracts or in SGX, except which key is ours.
 * update-safe may answer "safe" while an exit is scheduled: a new version, or a config pull,
   drops the skaled config and takes the newest upstream instead, the schedule in
   `rotation.json` stays, and skaled, which still runs with the old config, will exit at its
   time.  The files agree by then and the rotation is over (`updates.py:76`; `anew` in
   `ExitIsUnsafe`).
 * An IMA container that has exited stays so (`containers.py:168`): only one that is gone, or
   not up to date after the migration time, is started (`Settles` speaks of those that run).
 * Before the migration time a container of the wrong image is never replaced, although the
   check fails in each pass.

Seen in the DKG client, and excused in the properties it would break:

 * A complaint of wrong data whose transaction fails is dropped (`utils.py:235`):
   the node goes on and sends its alright.  A node that read no broadcast of
   another up to the deadline, although there is one, cannot complain and sends
   its alright too (`hist.slip` in `AlrightVerified`).
 * Before the first success of a chain `check_failed_dkg` never raises
   (`utils.py:261`), so when a channel closed for good a client can find "everyone
   sent alright", counting itself without having sent it, and saves a share
   (`hist.first` in `KeyOfSuccess`).
 * A node killed between `pre_response` and `response` never responds: the check
   for `pre_response` is not possible any more (`client.py:428`).  The round ends
   because the others complain.

## 6. Plan

In this order, the most important behaviour first:

1. `ConfigFiles`, `SchainMonitor`, `ProcessManager`, `SingleMonitor`,
   `ContainerWatch`, with their proofs: done.
2. `Dkg`, with its proofs: done.
3. `Firewall` and `Cleaner`, with their proofs: done.
4. `SchainRecords`, with its proofs: done.
5. `Ima` and `Node`, with their proofs: done.
6. Left: the lock of the iptables calls, with a process terminated inside one; chains
   deleted by their owner during an exit.

## 7. Not modelled, and why

Resource limits and volumes read constants and divide them.  Notifications,
log backup, nginx templates, openssl checks and image pulls change nothing the
monitors read.  Static config data (accounts, precompiled contracts) is copied.
Wallet, SGX and web3 clients are thin wrappers of external services.  The
checks reported over HTTP, the hardware and info routes and `signature` are read-only;
`set-domain-name` is one transaction that nothing here reads.
