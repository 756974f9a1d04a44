---------------------------- MODULE SchainRecords ---------------------------
(***************************************************************************)
(* The SChainRecord row of a chain (web/models/schain.py) under the two    *)
(* threads of its monitor process.                                         *)
(*                                                                         *)
(* A setter changes one field of an object that was read before and saves  *)
(* the whole object: whatever the other thread saved in between is taken   *)
(* back.  Only set_first_run and set_backup_run save their field alone.    *)
(* The config thread reads the row anew for each save; the skaled thread   *)
(* also holds one object while docker starts a container.  In this module  *)
(* a pipeline is what it does to the row, one read or save per step.       *)
(*                                                                         *)
(* SchainMonitor updates the row field by field, which ConfigFieldsKept    *)
(* justifies.  What concerns the config files and an exit of skaled is in  *)
(* that module; ReloadGroup and ReloadIp use the row as Regular does, and  *)
(* counters, dates and the DKG status are the fields a "save" is about.    *)
(***************************************************************************)
EXTENDS Naturals, Sequences

CONSTANTS
    MaxTime,    \* bound on the clock
    Budgets     \* the mixes of outside events: a bound on each kind

\* "late": a save of the config thread that comes after one of the skaled thread.
Events == {"restart", "kill", "fail", "repair", "cert", "late"}

ASSUME RecordsAssumption ==
    /\ MaxTime \in Nat
    /\ Budgets \subseteq [Events -> Nat]

VARIABLES
    now,        \* int(time.time())
    left,       \* what remains of the mix
    stream,     \* get_skale_node_version()
    row,        \* the row in the database
    ncli,       \* repair_ts of node_cli.status
    cert,       \* modification date of the certificate file
    running,    \* whether the skaled container runs
    c, s,       \* config and skaled thread: what each does, and the object it holds
    owed,       \* history: a restart asked for a config that was not generated yet
    asked,      \* history: repair requests
    wipes,      \* history: removals of the data
    lost        \* history: repairs done whose date was not saved, or taken back

outside == <<stream, ncli, cert>>
history == <<owed, asked, wipes, lost>>
vars    == <<now, left, outside, row, running, c, s, history>>

-----------------------------------------------------------------------------
Rows == [ver : Nat, sync : BOOLEAN, first : BOOLEAN, fresh : BOOLEAN,
         backup : BOOLEAN, repair : Nat, cert : Nat]

\* Pieces of pipelines: _upd_last_seen; a counter reset; a container that is
\* started; _upd_schain_record.
Seen      == <<"read", "save">>
Reset     == <<"read", "save">>
Container == <<"read", "start", "cert", "save">>
Finish    == <<"read", "resets", "first", "read", "fresh">> \o Seen

Plan ==
    [Generate    |-> Seen \o <<"generate", "read", "ver", "read", "ver", "read", "sync">> \o Seen,
     Keep        |-> Seen \o <<"read", "ver", "read", "sync">> \o Seen,
     Regular     |-> Seen \o Reset \o Finish,
     Start       |-> Seen \o Container \o Finish,
     Backup      |-> Seen \o Reset \o <<"backup">> \o Finish,
     BackupStart |-> Seen \o Container \o <<"backup">> \o Finish,
     Repair      |-> Seen \o <<"wipe">> \o Container \o <<"read", "repair">> \o Finish,
     Recreate    |-> Seen \o <<"stop">> \o Reset \o Container \o Finish]

ConfigModes == {"Generate", "Keep"}
SkaledModes == DOMAIN Plan \ ConfigModes
Threads     == [mode : DOMAIN Plan \cup {"Idle", "Needed"}, at : Nat \ {0}, copy : Rows]

TypeOK ==
    /\ now \in Nat
    /\ left \in [Events -> Nat]
    /\ stream \in Nat
    /\ row \in Rows
    /\ ncli \in Nat
    /\ cert \in Nat
    /\ running \in BOOLEAN
    /\ c \in Threads /\ c.mode \in ConfigModes \cup {"Idle"}
    /\ s \in Threads /\ s.mode \in SkaledModes \cup {"Idle", "Needed"}
    /\ owed \in BOOLEAN
    /\ asked \in Nat
    /\ wipes \in Nat
    /\ lost \in Nat

Added == [ver |-> 0, sync |-> FALSE, first |-> TRUE, fresh |-> TRUE,
          backup |-> FALSE, repair |-> 0, cert |-> 0]
Idle  == [mode |-> "Idle", at |-> 1, copy |-> Added]

Init ==
    /\ now = 1
    /\ left \in Budgets
    /\ stream = 1
    /\ row = Added
    /\ ncli = 0
    /\ cert = 0
    /\ running = FALSE
    /\ c = Idle
    /\ s = Idle
    /\ owed = TRUE
    /\ asked = 0
    /\ wipes = 0
    /\ lost = 0

-----------------------------------------------------------------------------
Spend(e) == left[e] > 0 /\ left' = [left EXCEPT ![e] = @ - 1]

\* Variant: the date of the certificate is not kept.
WrittenWithoutCert(op, r) ==
    CASE op = "ver"    -> [r EXCEPT !.ver = stream]
      [] op = "sync"   -> [r EXCEPT !.sync = FALSE]
      [] op = "repair" -> [r EXCEPT !.repair = now]
      [] op = "fresh"  -> [r EXCEPT !.fresh = FALSE]
      [] op \in {"save", "cert"} -> r

\* What a setter makes of the object it is called on.
Written(op, r) ==
    CASE op = "ver"    -> [r EXCEPT !.ver = stream]
      [] op = "sync"   -> [r EXCEPT !.sync = FALSE]
      [] op = "repair" -> [r EXCEPT !.repair = now]
      [] op = "cert"   -> [r EXCEPT !.cert = cert]
      [] op = "fresh"  -> [r EXCEPT !.fresh = FALSE]
      [] op = "save"   -> r

Saves == {"ver", "sync", "repair", "cert", "fresh", "save"}

At(t, op) ==
    /\ t.mode \in DOMAIN Plan
    /\ t.at \in DOMAIN Plan[t.mode] /\ Plan[t.mode][t.at] = op

\* The thread t after its operation, holding r.
Past(t, r) == IF t.at = Len(Plan[t.mode]) THEN Idle
              ELSE [t EXCEPT !.at = @ + 1, !.copy = r]

\* SkaledTask.needed, and what makes a new config necessary.
Outdated(r) == r.ver # stream \/ (r.sync /\ r.first)

-----------------------------------------------------------------------------
(* The config thread. *)

configSame == UNCHANGED <<now, outside, running, s, asked, wipes>>

\* The checks keep the object read here for the whole pass.  A config is made for
\* other reasons too (a rotation, new IPs).
ConfigStart ==
    /\ c.mode = "Idle"
    /\ \E mode \in ConfigModes :
          /\ row.ver # stream \/ row.sync => mode = "Generate"
          /\ c' = [Idle EXCEPT !.mode = mode]
    /\ UNCHANGED <<left, row, owed, lost>> /\ configSame

ConfigRead ==
    /\ At(c, "read")
    /\ c' = Past(c, row)
    /\ UNCHANGED <<left, row, owed, lost>> /\ configSame

ConfigGenerate ==
    /\ At(c, "generate")
    /\ owed' = FALSE
    /\ c' = Past(c, c.copy)
    /\ UNCHANGED <<left, row, lost>> /\ configSame

ConfigSave ==
    /\ \E op \in Saves :
          /\ At(c, op)
          /\ row' = Written(op, c.copy)
          /\ c' = Past(c, row')
    /\ IF c.copy = row THEN UNCHANGED left ELSE Spend("late")
    /\ lost' = IF row'.repair < row.repair THEN lost + 1 ELSE lost
    /\ UNCHANGED owed /\ configSame

-----------------------------------------------------------------------------
(* The skaled thread. *)

skaledSame == UNCHANGED <<now, left, outside, c, owed, asked, lost>>

\* Variant: the thread is started whatever the record says of a config to pull.
NeededByVersion ==
    /\ s.mode = "Idle"
    /\ row.ver = stream
    /\ s' = [s EXCEPT !.mode = "Needed"]
    /\ UNCHANGED <<row, running, wipes>> /\ skaledSame

SkaledNeeded ==
    /\ s.mode = "Idle"
    /\ ~ Outdated(row)
    /\ s' = [s EXCEPT !.mode = "Needed"]
    /\ UNCHANGED <<row, running, wipes>> /\ skaledSame

\* Variants: a request of the second of the last repair counts; no monitor is the
\* one for the rest.
ChosenAgain(r) ==
    IF r.backup /\ ~ r.fresh        THEN (IF running THEN "Backup" ELSE "BackupStart")
    ELSE IF ncli >= r.repair        THEN "Repair"
    ELSE IF ~ running               THEN "Start"
    ELSE IF cert # r.cert           THEN "Recreate"
    ELSE "Regular"

\* get_skaled_monitor, as far as the row decides.
Chosen(r) ==
    IF r.backup /\ ~ r.fresh        THEN (IF running THEN "Backup" ELSE "BackupStart")
    ELSE IF ncli > r.repair         THEN "Repair"
    ELSE IF ~ running               THEN "Start"
    ELSE IF cert # r.cert           THEN "Recreate"
    ELSE "Regular"

SkaledStart ==
    /\ s.mode = "Needed"
    /\ s' = [Idle EXCEPT !.mode = Chosen(row)]
    /\ UNCHANGED <<row, running, wipes>> /\ skaledSame

SkaledRead ==
    /\ At(s, "read")
    /\ s' = Past(s, row)
    /\ UNCHANGED <<row, running, wipes>> /\ skaledSame

SkaledSave ==
    /\ \E op \in Saves :
          /\ At(s, op)
          /\ row' = Written(op, s.copy)
          /\ s' = Past(s, row')
    /\ UNCHANGED <<running, wipes>> /\ skaledSame

\* The counters are reset after the first run.
SkaledResets ==
    /\ At(s, "resets")
    /\ row' = IF s.copy.first THEN s.copy ELSE row
    /\ s' = Past(s, s.copy)
    /\ UNCHANGED <<running, wipes>> /\ skaledSame

\* save(only=...)
SkaledSaveOnly ==
    /\ \/ At(s, "first") /\ row' = [row EXCEPT !.first = FALSE]
       \/ At(s, "backup") /\ row' = [row EXCEPT !.backup = FALSE]
    /\ s' = Past(s, s.copy)
    /\ UNCHANGED <<running, wipes>> /\ skaledSame

SkaledDocker ==
    /\ \/ At(s, "start") /\ running' = TRUE /\ UNCHANGED wipes
       \/ At(s, "stop") /\ running' = FALSE /\ UNCHANGED wipes
       \/ At(s, "wipe") /\ running' = FALSE /\ wipes' = wipes + 1
    /\ s' = Past(s, s.copy)
    /\ UNCHANGED row /\ skaledSame

-----------------------------------------------------------------------------
(* Failures, and requests from outside. *)

\* The data was removed, and the date of the repair is not saved yet.
Unrecorded == s.mode = "Repair" /\ s.at \in 4..9
LostNow    == IF Unrecorded THEN lost + 1 ELSE lost

\* A block raises, or the database stays locked: the pipeline ends.
Fails ==
    /\ Spend("fail")
    /\ \/ c.mode # "Idle" /\ c' = Idle /\ UNCHANGED <<s, lost>>
       \/ s.mode # "Idle" /\ s' = Idle /\ lost' = LostNow /\ UNCHANGED c
    /\ UNCHANGED <<now, outside, row, running, owed, asked, wipes>>

ThreadsStop == c' = Idle /\ s' = Idle /\ lost' = LostNow

MonitorKilled ==
    /\ Spend("kill")
    /\ ThreadsStop
    /\ UNCHANGED <<now, outside, row, running, owed, asked, wipes>>

\* init() of the new process marks the rows; nobody else writes at that time.
AdminRestart ==
    /\ Spend("restart")
    /\ ThreadsStop
    /\ \E version \in {stream, stream + 1}, pullConfig, backupRun \in BOOLEAN :
          /\ stream' = version
          /\ row' = [row EXCEPT !.first = TRUE, !.sync = @ \/ pullConfig,
                                !.backup = @ \/ backupRun]
          /\ owed' = (owed \/ row.ver # version \/ row'.sync)
    /\ UNCHANGED <<now, ncli, cert, running, asked, wipes>>

NodeCliRepair ==
    /\ Spend("repair")
    /\ ncli' = now
    /\ asked' = asked + 1
    /\ UNCHANGED <<now, stream, row, cert, running, c, s, owed, wipes, lost>>

CertificateUploaded ==
    /\ Spend("cert")
    /\ cert' = now
    /\ UNCHANGED <<now, stream, row, ncli, running, c, s, history>>

Tick ==
    /\ now < MaxTime
    /\ now' = now + 1
    /\ UNCHANGED <<left, outside, row, running, c, s, history>>

-----------------------------------------------------------------------------
ConfigStep == ConfigStart \/ ConfigRead \/ ConfigGenerate \/ ConfigSave
SkaledStep == \/ SkaledNeeded \/ SkaledStart \/ SkaledRead \/ SkaledSave
              \/ SkaledResets \/ SkaledSaveOnly \/ SkaledDocker

Next ==
    \/ ConfigStep \/ SkaledStep \/ Fails \/ MonitorKilled \/ AdminRestart
    \/ NodeCliRepair \/ CertificateUploaded \/ Tick

Spec == Init /\ [][Next]_vars

\* execute_tasks submits each pipeline again and again.
FairSpec == Spec /\ WF_vars(ConfigStep) /\ WF_vars(SkaledStep)

-----------------------------------------------------------------------------
(* Properties. *)

\* After a restart that brought a new version, or asked to pull a config, no
\* skaled pipeline runs before a config was generated for it.
PullServed == owed => s.mode = "Idle"

\* The skaled pipeline, once let in, is not shut out again before the next
\* restart, whatever either thread takes back.
GateStaysOpen ==
    [][~ Outdated(row) /\ left'["restart"] = left["restart"] => ~ Outdated(row)']_vars

\* However long docker takes while the skaled thread holds its object, saving it
\* takes back nothing of what the config thread saved.
ConfigFieldsKept ==
    [][c' = c /\ left'["restart"] = left["restart"] =>
          row'.ver = row.ver /\ row'.sync = row.sync]_vars

\* Data is removed once per request, and once more for each repair whose date
\* was not saved or was taken back.
RepairedOnce == wipes <= asked + lost

\* Requests end: the row comes to say, and goes on to say, that all is done.
Settled ==
    <>[](~ Outdated(row) /\ ~ row.sync /\ ~ row.backup /\ row.repair >= ncli /\ row.cert = cert)
=============================================================================
