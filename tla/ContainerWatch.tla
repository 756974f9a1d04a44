--------------------------- MODULE ContainerWatch ---------------------------
(***************************************************************************)
(* The counters of the skaled watch: restart_count and failed_rpc_count of *)
(* the record, every place that resets them, and the container restarts    *)
(* they allow (core/schains/monitor/containers.py, rpc.py, action.py).     *)
(*                                                                         *)
(* A pass is one execute() of a skaled monitor, cut into its reads and     *)
(* writes: the check of the container and the watch it leads to, the check *)
(* of the RPC endpoint and the one skaled_rpc repeats, and the update of   *)
(* the record at the end.  skaled changes state at any moment between.     *)
(***************************************************************************)
EXTENDS Integers

CONSTANTS
    MaxRestart,     \* MAX_SCHAIN_RESTART_COUNT
    MaxFailed,      \* MAX_SCHAIN_FAILED_RPC_COUNT
    Cap,            \* bound on the history counters
    Budget          \* bound on each kind of outside event

Events == {"raise", "cut", "admin", "recreate", "repair"}

ASSUME WatchAssumption ==
    /\ MaxRestart \in Nat /\ MaxFailed \in Nat
    /\ Cap \in Nat /\ Cap > MaxFailed
    /\ Budget \in [Events -> Nat]

VARIABLES
    cont,       \* the skaled container
    status,     \* skaled.status
    answers,    \* whether the RPC endpoint of a running skaled answers
    first,      \* first_run of the record
    rec,        \* the counters of the record
    pc,         \* the next step of the pass
    seen,       \* history of the container
    cut,        \* history: its last start was not followed by the updates
    left

vars == <<cont, status, answers, first, rec, pc, seen, cut, left>>

Statuses == {"ok", "exit", "repair", "snapshot"}
Steps    == {"idle", "container", "watch", "rpc", "again", "finish", "rewatch"}
Records  == [restarts : Nat, fails : Nat]

\* restarts: of a failed container, since a check last found it running;
\* misses: checks that failed since skaled started; hung: RPC restarts since
\* it answered.
Histories == [restarts : Nat, misses : Nat, hung : Nat]

TypeOK ==
    /\ cont \in {"none", "booting", "running", "failed", "done"}
    /\ status \in Statuses
    /\ answers \in BOOLEAN
    /\ first \in BOOLEAN
    /\ rec \in Records /\ rec.restarts <= MaxRestart /\ rec.fails <= MaxFailed + 1
    /\ pc \in Steps
    /\ seen \in Histories
    /\ cut \in BOOLEAN
    /\ left \in [Events -> Nat]

Zero == [restarts |-> 0, fails |-> 0]

\* The record of a chain whose first monitor process has just started.
Init ==
    /\ cont = "none"
    /\ status = "ok"
    /\ answers = FALSE
    /\ first = TRUE
    /\ rec = Zero
    /\ pc = "idle"
    /\ seen = [restarts |-> 0, misses |-> 0, hung |-> 0]
    /\ cut = FALSE
    /\ left = Budget

Spend(e)  == left[e] > 0 /\ left' = [left EXCEPT ![e] = @ - 1]
Capped(n) == IF n < Cap THEN n + 1 ELSE n
Running   == cont \in {"booting", "running"}    \* as docker sees it

-----------------------------------------------------------------------------
(* Starting the container.  Until the new skaled has booted, skaled.status *)
(* is the one its predecessor left.                                        *)

Boot(restarts, hung) ==
    /\ cont' = "booting"
    /\ answers' = FALSE
    /\ seen' = [restarts |-> restarts, misses |-> 0, hung |-> hung]
    /\ UNCHANGED status

Complete == cut' = FALSE    \* the updates of the record follow
Keep     == UNCHANGED <<cont, status, answers, seen, cut>>

-----------------------------------------------------------------------------
(* A pass of the regular monitor or of a reload monitor. *)

StartPass ==
    /\ pc = "idle"
    /\ pc' = "container"
    /\ UNCHANGED <<first, rec, left>> /\ Keep

CheckContainer ==
    /\ pc = "container"
    /\ \/ /\ Running
          /\ rec' = [rec EXCEPT !.restarts = 0]
          /\ seen' = [seen EXCEPT !.restarts = 0]
          /\ pc' = "rpc"
       \/ ~ Running /\ pc' = "watch" /\ UNCHANGED <<rec, seen>>
    /\ UNCHANGED <<cont, status, answers, first, cut, left>>

MayRestart == cont = "failed" /\ rec.restarts < MaxRestart

\* Variants: the restart is not counted; it is not the end of the RPC failures.
RestartUncounted ==
    /\ MayRestart
    /\ Boot(Capped(seen.restarts), seen.hung) /\ Complete
    /\ rec' = [rec EXCEPT !.fails = 0]

RestartKeepingFails ==
    /\ MayRestart
    /\ Boot(Capped(seen.restarts), seen.hung) /\ Complete
    /\ rec' = [rec EXCEPT !.restarts = @ + 1]

RestartFailed ==
    /\ MayRestart
    /\ Boot(Capped(seen.restarts), seen.hung) /\ Complete
    /\ rec' = [restarts |-> rec.restarts + 1, fails |-> 0]

Aborted == status = "exit"

\* monitor_schain_container once the container exists and nothing aborts it.
WatchExisting ==
    \/ status = "repair" /\ Keep /\ rec' = Zero
    \/ status # "repair" /\ RestartFailed
    \/ status # "repair" /\ cont = "failed" /\ ~ MayRestart /\ Keep /\ UNCHANGED rec
    \/ status # "repair" /\ cont = "done" /\ Keep /\ rec' = [rec EXCEPT !.restarts = 0]

\* monitor_schain_container.  The volume is there, an earlier block made it.
\* After an update of the config the exit flag does not abort the watch.
WatchContainer ==
    /\ pc \in {"watch", "rewatch"}
    /\ \/ Aborted /\ Keep /\ rec' = Zero
       \/ /\ ~ Aborted \/ pc = "rewatch"
          /\ cont = "none"
          /\ Boot(0, seen.hung) /\ Complete
          /\ rec' = Zero
       \/ ~ Aborted /\ cont # "none" /\ WatchExisting
    /\ pc' = IF pc = "watch" THEN "rpc" ELSE "finish"
    /\ UNCHANGED <<first, left>>

\* SkaledChecks.rpc: with an answer skaled_rpc is not called, which alone would
\* end the count of failures.
CheckRpc ==
    /\ pc = "rpc"
    /\ \/ /\ Running /\ answers
          /\ seen' = [seen EXCEPT !.hung = 0]
          /\ pc' = "finish"
       \/ ~ (Running /\ answers) /\ pc' = "again" /\ UNCHANGED seen
    /\ UNCHANGED <<cont, status, answers, first, rec, cut, left>>

\* rpc_stuck of handle_failed_schain_rpc.
RpcStuck == rec.fails > MaxFailed

RestartStuck ==
    /\ RpcStuck
    /\ \/ /\ rec.restarts < MaxRestart
          /\ Boot(seen.restarts, Capped(seen.hung)) /\ Complete
          /\ rec' = [restarts |-> rec.restarts + 1, fails |-> 0]
       \/ rec.restarts >= MaxRestart /\ Keep /\ rec' = [rec EXCEPT !.fails = 0]

\* Variant: the count is not written back.
MissForgotten ==
    /\ ~ RpcStuck
    /\ seen' = [seen EXCEPT !.misses = Capped(@)]
    /\ UNCHANGED <<cont, status, answers, rec, cut>>

CountMiss ==
    /\ ~ RpcStuck
    /\ rec' = [rec EXCEPT !.fails = @ + 1]
    /\ seen' = [seen EXCEPT !.misses = Capped(@)]
    /\ UNCHANGED <<cont, status, answers, cut>>

Waited == status \in {"exit", "snapshot"}

\* skaled_rpc repeats the check before handle_failed_schain_rpc.
WatchRpc ==
    /\ pc = "again"
    /\ \/ /\ Running /\ answers
          /\ rec' = [rec EXCEPT !.fails = 0]
          /\ seen' = [seen EXCEPT !.hung = 0]
          /\ UNCHANGED <<cont, status, answers, cut>>
       \/ ~ Running /\ Keep /\ UNCHANGED rec
       \/ Running /\ ~ answers /\ Waited /\ Keep /\ rec' = [rec EXCEPT !.fails = 0]
       \/ Running /\ ~ answers /\ ~ Waited /\ RestartStuck
       \/ Running /\ ~ answers /\ ~ Waited /\ CountMiss
    /\ pc' = "finish"
    /\ UNCHANGED <<first, left>>

\* _upd_schain_record.
Finish ==
    /\ pc = "finish"
    /\ rec' = IF first THEN Zero ELSE rec
    /\ first' = FALSE
    /\ pc' = "idle"
    /\ UNCHANGED left /\ Keep

\* reloaded_skaled_container and recreated_schain_containers, in the monitors
\* for a new certificate and for a new config.
Recreate ==
    /\ pc = "idle"
    /\ Running \/ Aborted
    /\ Spend("recreate")
    /\ cont' = "none"
    /\ rec' = Zero
    /\ pc' = "rewatch"
    /\ UNCHANGED <<status, answers, first, seen, cut>>

\* The repair monitor removes container and volume, and resets nothing before
\* its own watch.
Repair ==
    /\ pc = "idle"
    /\ \/ status = "repair" /\ ~ Running /\ UNCHANGED left
       \/ Spend("repair")
    /\ cont' = "none"
    /\ pc' = "rewatch"
    /\ UNCHANGED <<status, answers, first, rec, seen, cut>>

\* A block raises (docker, the IMA container, the database): run() ends the pass
\* without touching the record.
PassRaises ==
    /\ pc # "idle"
    /\ Spend("raise")
    /\ pc' = "idle"
    /\ UNCHANGED <<first, rec>> /\ Keep

\* The same between a start of the container and the updates after it: an
\* exception, or the process is killed.
StartCutShort ==
    /\ \/ /\ pc \in {"watch", "rewatch"} /\ ~ Aborted /\ cont = "none"
          /\ Boot(0, seen.hung)
       \/ /\ pc = "watch" /\ ~ Aborted /\ status # "repair" /\ MayRestart
          /\ Boot(Capped(seen.restarts), seen.hung)
       \/ /\ pc = "again" /\ Running /\ ~ answers /\ ~ Waited /\ RpcStuck
          /\ rec.restarts < MaxRestart
          /\ Boot(seen.restarts, Capped(seen.hung))
    /\ Spend("cut")
    /\ cut' = TRUE
    /\ pc' = "idle"
    /\ UNCHANGED <<first, rec>>

\* set_schains_first_run.
AdminRestart ==
    /\ Spend("admin")
    /\ first' = TRUE
    /\ pc' = "idle"
    /\ UNCHANGED rec /\ Keep

-----------------------------------------------------------------------------
(* skaled. *)

SkaledBoots ==
    /\ cont = "booting"
    /\ cont' = "running"
    /\ status' \in {"ok", "snapshot"}
    /\ UNCHANGED <<answers, first, rec, pc, seen, cut, left>>

\* A crash, after which skaled may ask for a repair.
SkaledFails ==
    /\ Running
    /\ cont' = "failed"
    /\ status' = status \/ (cont = "running" /\ status' = "repair")
    /\ UNCHANGED <<answers, first, rec, pc, seen, cut, left>>

\* Exit code 0: at the exit time, or stopped from outside.
SkaledExits ==
    /\ Running
    /\ cont' = "done"
    /\ status' = status \/ (cont = "running" /\ status' = "exit")
    /\ UNCHANGED <<answers, first, rec, pc, seen, cut, left>>

SnapshotDone ==
    /\ cont = "running" /\ status = "snapshot"
    /\ status' = "ok"
    /\ UNCHANGED <<cont, answers, first, rec, pc, seen, cut, left>>

EndpointChanges ==
    /\ cont = "running"
    /\ answers' = ~ answers
    /\ UNCHANGED <<cont, status, first, rec, pc, seen, cut, left>>

-----------------------------------------------------------------------------
PassStep == StartPass \/ CheckContainer \/ WatchContainer \/ CheckRpc \/ WatchRpc \/ Finish

Next ==
    \/ PassStep
    \/ Recreate
    \/ Repair
    \/ PassRaises
    \/ StartCutShort
    \/ AdminRestart
    \/ SkaledBoots
    \/ SkaledFails
    \/ SkaledExits
    \/ SnapshotDone
    \/ EndpointChanges

Spec == Init /\ [][Next]_vars

\* execute_tasks submits the skaled task again and again; skaled boots, and a
\* snapshot download ends.
FairSpec == Spec /\ WF_vars(PassStep) /\ WF_vars(SkaledBoots) /\ WF_vars(SnapshotDone)

-----------------------------------------------------------------------------
(* Properties. *)

\* How many times the reset of a first run lifts the restart limit: once in the
\* life of the record, and once for each restart of the admin.
FirstRuns == 1 + Budget["admin"] - left["admin"]

\* A container that no check ever finds running is restarted a bounded number
\* of times, although five places reset the counter: passes that fail repeat
\* the reset of the first run only once, and only a start whose count was lost
\* adds to it.
FailedRestartsBounded ==
    seen.restarts <= MaxRestart * (1 + FirstRuns) + Budget["cut"] - left["cut"]

\* A new skaled gets its time: it is restarted for its RPC only after more than
\* MaxFailed checks have failed since this very start, whichever path started
\* it, unless the updates after the start were lost.
NewSkaledSpared ==
    [][WatchRpc /\ rec'.restarts > rec.restarts => cut \/ seen.misses > MaxFailed]_vars

Hung == Running /\ ~ answers /\ status = "ok"

\* A skaled that goes on running without answering is not left alone: it is
\* restarted again and again, unless the limit is reached.
HungIsRestarted ==
    \/ []<>(~ Hung \/ rec.restarts = MaxRestart)
    \/ []<><<WatchRpc /\ seen'.misses = 0>>_vars

-----------------------------------------------------------------------------
(* What a test of the code expects and its steps do not keep. *)

\* tests/schains/monitor/rpc_test.py:85 expects that a stuck RPC is not answered
\* by restarts beyond MAX_SCHAIN_RESTART_COUNT.
RpcRestartsStop == seen.hung <= MaxRestart
=============================================================================
