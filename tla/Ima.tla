-------------------------------- MODULE Ima --------------------------------
(***************************************************************************)
(* The IMA container of one chain next to its skaled: the block            *)
(* ima_container of the skaled pipeline (action.py, containers.py,         *)
(* checks.py), cut into its reads and its docker calls, and the two        *)
(* occasions on which the container has to be replaced:                    *)
(*  - the migration: from migration_ts on every chain runs the new image   *)
(*    with the new time frame;                                             *)
(*  - a new node group: the environment of the container (key share, node  *)
(*    number, nodes count) is made from the skaled config when it starts.  *)
(*                                                                         *)
(* The pipeline is reduced to what touches the two containers: a pass of   *)
(* RegularSkaledMonitor (or another monitor that ends with the block), of  *)
(* UpdateConfigSkaledMonitor, or of RecreateSkaledMonitor.  SchainMonitor  *)
(* has the choice between them.                                            *)
(***************************************************************************)
EXTENDS Naturals

CONSTANTS
    Migration,  \* migration_ts of the chain; 0 when the schedule has none
    MaxTime,    \* bound on the clock
    Mixes       \* bounds on each kind of outside event

Events == {"rotate", "regenerate", "recreate", "down", "crash", "fail", "kill"}

ASSUME ImaAssumption ==
    /\ Migration \in Nat /\ MaxTime \in Nat
    /\ Mixes \subseteq [Events -> Nat]

VARIABLES
    now,        \* time.time()
    left,       \* what remains of the mix
    linked,     \* ima_linked of external.json
    upstream,   \* the node group of the latest upstream config
    file,       \* the node group of the skaled config
    skaled,     \* the skaled container, and the group of its last start
    due,        \* whether an exit of skaled is scheduled
    pulled,     \* whether the new image is there
    ima,        \* the IMA container, and what it was created with last
    s,          \* the pass: its kind, its statement, what it read
    swapped     \* history: the skaled config was generated anew under skaled

envVars == <<now, left, linked, upstream>>
vars == <<envVars, file, skaled, due, pulled, ima, s, swapped>>

-----------------------------------------------------------------------------
Passes == {"none", "regular", "update", "recreate"}
Statements == {"begin", "container", "update", "noexit", "rmima", "rmskaled", "start",
               "check", "pull", "exists", "decide", "remove", "run", "schedule"}
Epochs == {"old", "new"}

Skaleds    == [st : {"none", "running", "failed", "exited"}, grp : Nat]
Containers == [st : {"none", "running", "exited"}, image : Epochs, frame : Epochs, grp : Nat]
Threads    == [pass : Passes, at : Statements, exists : BOOLEAN, image : Epochs, frame : Epochs]
NoPass     == [pass |-> "none", at |-> "begin", exists |-> FALSE,
               image |-> "old", frame |-> "old"]

TypeOK ==
    /\ now \in Nat
    /\ left \in [Events -> Nat]
    /\ linked \in BOOLEAN
    /\ upstream \in Nat
    /\ file \in Nat
    /\ skaled \in Skaleds
    /\ due \in BOOLEAN
    /\ pulled \in BOOLEAN
    /\ ima \in Containers
    /\ s \in Threads
    /\ swapped \in BOOLEAN

(* The skaled config is there, nothing has started yet. *)
Init ==
    /\ now = 0
    /\ left \in Mixes
    /\ linked \in BOOLEAN
    /\ upstream = 0
    /\ file = 0
    /\ skaled = [st |-> "none", grp |-> 0]
    /\ due = FALSE
    /\ pulled = FALSE
    /\ ima = [st |-> "none", image |-> "old", frame |-> "old", grp |-> 0]
    /\ s = NoPass
    /\ swapped = FALSE

Spend(e) == left[e] > 0 /\ left' = [left EXCEPT ![e] = @ - 1]

-----------------------------------------------------------------------------
(* Passes of the skaled pipeline. *)

At(statement)   == s.at = statement
Goto(statement) == s' = [s EXCEPT !.at = statement]
Ends            == s' = NoPass

Enter(pass, statement) == s' = [NoPass EXCEPT !.pass = pass, !.at = statement]

\* After a scheduled exit, an update; else a pass that monitors both containers.
StartPass ==
    /\ s.pass = "none"
    /\ IF skaled.st = "exited" THEN Enter("update", "update") ELSE Enter("regular", "container")
    /\ UNCHANGED <<envVars, file, skaled, due, pulled, ima, swapped>>

\* A new certificate.
StartRecreate ==
    /\ s.pass = "none"
    /\ skaled.st = "running"
    /\ Spend("recreate")
    /\ Enter("recreate", "rmskaled")
    /\ UNCHANGED <<now, linked, upstream, file, skaled, due, pulled, ima, swapped>>

\* monitor_schain_container: a skaled that exited on schedule is left alone.
MonitorSkaled ==
    /\ At("container")
    /\ skaled' = IF skaled.st \in {"none", "failed"}
                 THEN [st |-> "running", grp |-> file] ELSE skaled
    /\ Goto("check")
    /\ UNCHANGED <<envVars, file, due, pulled, ima, swapped>>

UpdateConfig ==
    /\ At("update")
    /\ file' = upstream
    /\ Goto("noexit")
    /\ UNCHANGED <<envVars, skaled, due, pulled, ima, swapped>>

ResetExitSchedule ==
    /\ At("noexit")
    /\ due' = FALSE
    /\ Goto("rmima")
    /\ UNCHANGED <<envVars, file, skaled, pulled, ima, swapped>>

\* Variant: the IMA container is left to the block at the end.
KeepIma ==
    /\ At("rmima")
    /\ swapped' = FALSE
    /\ Goto("rmskaled")
    /\ UNCHANGED <<envVars, file, skaled, due, pulled, ima>>

\* recreated_schain_containers: remove IMA, then skaled; start skaled, then IMA.
RemoveIma ==
    /\ At("rmima")
    /\ ima' = [ima EXCEPT !.st = "none"]
    /\ swapped' = FALSE
    /\ Goto("rmskaled")
    /\ UNCHANGED <<envVars, file, skaled, due, pulled>>

\* An exit reached stays in skaled.status until a new skaled has started.
RemoveSkaled ==
    /\ At("rmskaled")
    /\ skaled' = IF skaled.st = "exited" THEN skaled ELSE [skaled EXCEPT !.st = "none"]
    /\ Goto("start")
    /\ UNCHANGED <<envVars, file, due, pulled, ima, swapped>>

StartSkaled ==
    /\ At("start")
    /\ skaled' = [st |-> "running", grp |-> file]
    /\ IF s.pass = "update" THEN Goto("check") ELSE Ends
    /\ UNCHANGED <<envVars, file, due, pulled, ima, swapped>>

\* ReloadGroup and ReloadIp, when the config is behind; after the IMA block.
ScheduleExit ==
    /\ At("schedule")
    /\ due' = (due \/ (file # upstream /\ skaled.st # "exited"))
    /\ Ends
    /\ UNCHANGED <<envVars, file, skaled, pulled, ima, swapped>>

-----------------------------------------------------------------------------
(* The block ima_container. *)

BlockDone == IF s.pass = "regular" THEN Goto("schedule") ELSE Ends

After == now > Migration

Epoch == IF After THEN "new" ELSE "old"

UpToDate == ima.image = Epoch /\ ima.frame = Epoch

\* SkaledChecks.ima_container; the new image is to be there before its time.
CheckOk == ~ linked \/ (pulled /\ ima.st = "running" /\ UpToDate)

CheckIma ==
    /\ At("check")
    /\ IF CheckOk THEN BlockDone ELSE Goto("pull")
    /\ UNCHANGED <<envVars, file, skaled, due, pulled, ima, swapped>>

PullImage ==
    /\ At("pull")
    /\ pulled' = TRUE
    /\ Goto("exists")
    /\ UNCHANGED <<envVars, file, skaled, due, ima, swapped>>

\* monitor_ima_container.
LookForContainer ==
    /\ At("exists")
    /\ IF linked
       THEN s' = [s EXCEPT !.at = "decide", !.exists = (ima.st # "none")]
       ELSE BlockDone
    /\ UNCHANGED <<envVars, file, skaled, due, pulled, ima, swapped>>

\* Variant: a container that exists is left, migration time or not.
DecideToKeep ==
    /\ At("decide")
    /\ IF ~ s.exists
       THEN s' = [s EXCEPT !.at = "run", !.image = Epoch, !.frame = Epoch]
       ELSE BlockDone
    /\ UNCHANGED <<envVars, file, skaled, due, pulled, ima, swapped>>

\* After the migration time a container of the old image or time frame is
\* replaced; any other container that exists is left, running or not.
Decide ==
    /\ At("decide")
    /\ IF ~ s.exists
       THEN s' = [s EXCEPT !.at = "run", !.image = Epoch, !.frame = Epoch]
       ELSE IF After /\ ~ UpToDate
       THEN s' = [s EXCEPT !.at = "remove", !.image = Epoch, !.frame = Epoch]
       ELSE BlockDone
    /\ UNCHANGED <<envVars, file, skaled, due, pulled, ima, swapped>>

RemoveOldIma ==
    /\ At("remove")
    /\ ima' = [ima EXCEPT !.st = "none"]
    /\ Goto("run")
    /\ UNCHANGED <<envVars, file, skaled, due, pulled, swapped>>

\* Variant: a container that is not a replacement gets the image of containers.json.
RunDefaultImage ==
    /\ At("run")
    /\ ima' = [st |-> "running", image |-> IF s.exists THEN s.image ELSE "old",
               frame |-> s.frame, grp |-> file]
    /\ BlockDone
    /\ UNCHANGED <<envVars, file, skaled, due, pulled, swapped>>

\* run_ima_container: the environment is made from the skaled config as it is now.
RunIma ==
    /\ At("run")
    /\ ima' = [st |-> "running", image |-> s.image, frame |-> s.frame, grp |-> file]
    /\ BlockDone
    /\ UNCHANGED <<envVars, file, skaled, due, pulled, swapped>>

\* A docker call raises: the rest of the pass is dropped.
PassFails ==
    /\ s.pass # "none"
    /\ Spend("fail") \/ Spend("kill")
    /\ Ends
    /\ UNCHANGED <<now, linked, upstream, file, skaled, due, pulled, ima, swapped>>

-----------------------------------------------------------------------------
(* Outside. *)

\* The chain is connected to IMA.
Link ==
    /\ ~ linked
    /\ linked' = TRUE
    /\ UNCHANGED <<now, left, upstream, file, skaled, due, pulled, ima, s, swapped>>

\* The config pipeline writes the config of a new group.
Rotate ==
    /\ Spend("rotate")
    /\ upstream' = upstream + 1
    /\ UNCHANGED <<now, linked, file, skaled, due, pulled, ima, s, swapped>>

\* A new version of the admin drops the skaled config between two processes, and
\* NoConfigSkaledMonitor takes the latest upstream, whatever skaled runs with.
Regenerate ==
    /\ Spend("regenerate")
    /\ file' = upstream
    /\ swapped' = TRUE
    /\ Ends
    /\ UNCHANGED <<now, linked, upstream, skaled, due, pulled, ima>>

SkaledExits ==
    /\ skaled.st = "running" /\ due
    /\ skaled' = [skaled EXCEPT !.st = "exited"]
    /\ UNCHANGED <<envVars, file, due, pulled, ima, s, swapped>>

SkaledDown ==
    /\ skaled.st = "running"
    /\ Spend("down")
    /\ skaled' = [skaled EXCEPT !.st = "failed"]
    /\ UNCHANGED <<now, linked, upstream, file, due, pulled, ima, s, swapped>>

\* IMA exits, or fails more often than its restart policy starts it again.
ImaExits ==
    /\ ima.st = "running"
    /\ Spend("crash")
    /\ ima' = [ima EXCEPT !.st = "exited"]
    /\ UNCHANGED <<now, linked, upstream, file, skaled, due, pulled, s, swapped>>

Tick ==
    /\ now < MaxTime
    /\ now' = now + 1
    /\ UNCHANGED <<left, linked, upstream, file, skaled, due, pulled, ima, s, swapped>>

-----------------------------------------------------------------------------
PassStep ==
    \/ StartPass
    \/ MonitorSkaled
    \/ UpdateConfig
    \/ ResetExitSchedule
    \/ RemoveIma
    \/ RemoveSkaled
    \/ StartSkaled
    \/ ScheduleExit
    \/ CheckIma
    \/ PullImage
    \/ LookForContainer
    \/ Decide
    \/ RemoveOldIma
    \/ RunIma

Next ==
    \/ PassStep
    \/ PassFails
    \/ StartRecreate
    \/ Link
    \/ Rotate
    \/ Regenerate
    \/ SkaledExits
    \/ SkaledDown
    \/ ImaExits
    \/ Tick

Spec == Init /\ [][Next]_vars

\* The pipeline is submitted again and again, time passes, skaled obeys its
\* exit schedule.
Fairness == WF_vars(PassStep) /\ WF_vars(Tick) /\ WF_vars(SkaledExits)

FairSpec == Spec /\ Fairness

-----------------------------------------------------------------------------
(* Properties. *)

\* IMA signs with the key share of the group that its skaled runs with: when
\* both run they were started from the config of one group, however an update
\* was cut short.  (A config generated anew under a running skaled may differ.)
SameGroup ==
    ~ swapped /\ skaled.st = "running" /\ ima.st = "running" => ima.grp = skaled.grp

\* A chain that has had the new image or time frame never gets the old one again,
\* by whatever the container was lost: update, crash, failed call, new start.
NeverBack ==
    [][ /\ ima.image = "new" => ima'.image = "new"
        /\ ima.frame = "new" => ima'.frame = "new" ]_vars

\* A chain linked to IMA comes to have a container of the new image and time
\* frame after its migration time, and one that runs comes to run with the new
\* group, although the check, the decision, the removal and the start each look at
\* the clock, at docker or at the config at a moment of their own.  (One that has
\* exited may stay so: no step starts a container that exists.)
Settles ==
    <>[](linked =>
            /\ MaxTime > Migration =>
                  ima.st # "none" /\ ima.image = "new" /\ ima.frame = "new"
            /\ ima.st = "running" /\ skaled.st = "running" /\ ~ swapped =>
                  ima.grp = upstream)
=============================================================================
