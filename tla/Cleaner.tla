------------------------------- MODULE Cleaner ------------------------------
(***************************************************************************)
(* What the chains leave on a node and how it is removed: the cleaner      *)
(* process (core/schains/cleaner.py) artifact by artifact, against the     *)
(* part of the skaled pipeline that makes the artifacts, and the rules of  *)
(* Firewall.                                                               *)
(*                                                                         *)
(* The main process starts monitors and then the cleaner, one after the    *)
(* other (ProcessManager); here a monitor may be started whenever the      *)
(* cleaner is not at work.                                                 *)
(***************************************************************************)
EXTENDS Firewall

CONSTANTS
    NoChain,
    Budgets     \* bounds on each kind of outside event, one of which a behaviour has

Events == {"leave", "join", "group", "docker", "iptables", "migrate", "kill"}

ASSUME CleanerAssumption ==
    /\ NoChain \notin Chains
    /\ Budgets \subseteq [Events -> Nat]

VARIABLES
    life,   \* what the contracts say of each chain
    mon,    \* the block of the skaled pipeline each monitor is at
    art,    \* artifacts of each chain
    cl,     \* the cleaner
    leaked, \* history: chains whose rules the cleaner left
    left    \* what remains of the bounds

vars == <<table, want, sync, life, mon, art, cl, leaked, left>>

-----------------------------------------------------------------------------
Lives     == {"absent", "member", "leaving", "left"}
Blocks    == {"dead", "firewall", "sync", "volume", "container", "ima"}
Statuses  == {"none", "created", "running", "exited"}
Artifacts == [dir : BOOLEAN, conf : BOOLEAN, cont : Statuses, vol : BOOLEAN,
              ima : Statuses \cup {"outdated"}, linked : BOOLEAN, rec : {"none", "active", "deleted"}]
Stages    == {"off", "next", "terminate", "check", "container", "volume", "rules",
              "flush", "ima", "dir", "record"}
Cleaners  == [at : Stages, todo : SUBSET Chains, chain : Chains \cup {NoChain},
              vol : BOOLEAN, rules : BOOLEAN, linked : BOOLEAN, ima : BOOLEAN,
              del : SUBSET Rules]

TypeOK ==
    /\ FirewallTypeOK
    /\ life \in [Chains -> Lives]
    /\ mon \in [Chains -> Blocks]
    /\ art \in [Chains -> Artifacts]
    /\ cl \in Cleaners
    /\ leaked \subseteq Chains
    /\ left \in [Events -> Nat]

Nothing == [dir |-> FALSE, conf |-> FALSE, cont |-> "none", vol |-> FALSE,
            ima |-> "none", linked |-> FALSE, rec |-> "none"]
Off     == [at |-> "off", todo |-> {}, chain |-> NoChain,
            vol |-> FALSE, rules |-> FALSE, linked |-> FALSE, ima |-> FALSE, del |-> {}]

Init ==
    /\ FirewallInit
    /\ life = [c \in Chains |-> "absent"]
    /\ mon = [c \in Chains |-> "dead"]
    /\ art = [c \in Chains |-> Nothing]
    /\ cl = Off
    /\ leaked = {}
    /\ left \in Budgets

Spend(e)   == left[e] > 0 /\ left' = [left EXCEPT ![e] = @ - 1]
At(c, b)   == mon[c] = b
Go(c, b)   == mon' = [mon EXCEPT ![c] = b]
Sets(c, a) == art' = [art EXCEPT ![c] = a]

-----------------------------------------------------------------------------
(* The contracts.  A slot has one chain at a time. *)

Join(c) ==
    /\ life[c] \in {"absent", "left"}
    /\ \A d \in Chains \ {c} : SlotOf[d] = SlotOf[c] => life[d] \in {"absent", "left"}
    /\ Spend("join")
    /\ life' = [life EXCEPT ![c] = "member"]
    /\ UNCHANGED <<firewallVars, mon, art, cl, leaked>>

Leave(c) ==
    /\ life[c] = "member"
    /\ Spend("leave")
    /\ life' = [life EXCEPT ![c] = "leaving"]
    /\ UNCHANGED <<firewallVars, mon, art, cl, leaked>>

RotationEnds(c) ==
    /\ life[c] = "leaving"
    /\ life' = [life EXCEPT ![c] = "left"]
    /\ UNCHANGED <<firewallVars, mon, art, cl, leaked, left>>

-----------------------------------------------------------------------------
(* The monitor of a chain; envSame: what it never touches. *)

envSame == UNCHANGED <<life, cl, leaked>>

\* The config pipeline has made the config.
StartMonitor(c) ==
    /\ life[c] \in {"member", "leaving"}
    /\ At(c, "dead") /\ cl.at = "off"
    /\ Go(c, "firewall")
    /\ IF art[c].conf
       THEN UNCHANGED <<want, art>>
       ELSE /\ \E s \in SUBSET Sources : want' = [want EXCEPT ![c] = s]
            /\ \E l \in BOOLEAN :
                  Sets(c, [art[c] EXCEPT !.dir = TRUE, !.conf = TRUE, !.linked = l,
                                         !.rec = IF @ = "none" THEN "active" ELSE @])
    /\ UNCHANGED <<table, sync, left>> /\ envSame

\* A rotation, an IP change or new ranges; the pipeline reads them in its next pass.
GroupChanges(c) ==
    /\ At(c, "firewall")
    /\ Spend("group")
    /\ \E s \in SUBSET Sources : want' = [want EXCEPT ![c] = s]
    /\ UNCHANGED <<table, sync, mon, art>> /\ envSame

CheckRules(c) ==
    /\ At(c, "firewall")
    /\ IF RulesSynced(c) THEN Go(c, "volume") /\ UNCHANGED firewallVars
                         ELSE Go(c, "sync") /\ StartSync(c)
    /\ UNCHANGED <<art, left>> /\ envSame

SyncStep(c) ==
    /\ At(c, "sync")
    /\ AddRule(c) \/ RemoveRule(c)
    /\ UNCHANGED <<mon, art, left>> /\ envSame

SyncDone(c) ==
    /\ At(c, "sync")
    /\ EndSync(c)
    /\ Go(c, "volume")
    /\ UNCHANGED <<art, left>> /\ envSame

Volume(c) ==
    /\ At(c, "volume")
    /\ Sets(c, [art[c] EXCEPT !.vol = TRUE])
    /\ Go(c, "container")
    /\ UNCHANGED <<firewallVars, left>> /\ envSame

\* A container that exited on purpose is left alone, and none is started at the
\* exit time.
Container(c) ==
    /\ At(c, "container")
    /\ Sets(c, [art[c] EXCEPT !.cont = "running"]) \/ UNCHANGED art
    /\ Go(c, "ima")
    /\ UNCHANGED <<firewallVars, left>> /\ envSame

\* One that is outdated is replaced; one that does not run is left alone.
Ima(c) ==
    /\ At(c, "ima")
    /\ Sets(c, [art[c] EXCEPT !.ima =
                    IF art[c].linked /\ @ \in {"none", "outdated"} THEN "running" ELSE @])
    /\ Go(c, "firewall")
    /\ UNCHANGED <<firewallVars, left>> /\ envSame

\* A call raises and ends the pass; docker may have created what it did not start.
PassFails(c) ==
    /\ \/ At(c, "sync") /\ Spend("iptables") /\ UNCHANGED art
       \/ At(c, "volume") /\ Spend("docker") /\ UNCHANGED art
       \/ At(c, "container") /\ Spend("docker")
             /\ Sets(c, [art[c] EXCEPT !.cont = IF @ = "none" THEN "created" ELSE @])
       \/ At(c, "ima") /\ art[c].linked /\ Spend("docker")
             /\ Sets(c, [art[c] EXCEPT !.ima = IF @ = "none" THEN "created" ELSE @])
    /\ sync' = [sync EXCEPT ![c] = NoSync]
    /\ Go(c, "firewall")
    /\ UNCHANGED <<table, want>> /\ envSame

Exits(c) ==
    /\ Spend("docker")
    /\ \/ art[c].cont = "running" /\ Sets(c, [art[c] EXCEPT !.cont = "exited"])
       \/ art[c].ima \in {"running", "outdated"} /\ Sets(c, [art[c] EXCEPT !.ima = "exited"])
    /\ UNCHANGED <<firewallVars, mon>> /\ envSame

\* The migration time of IMA passes, or its time frame changes.
Migrate(c) ==
    /\ art[c].ima = "running"
    /\ Spend("migrate")
    /\ Sets(c, [art[c] EXCEPT !.ima = "outdated"])
    /\ UNCHANGED <<firewallVars, mon>> /\ envSame

MonitorStep(c) ==
    \/ CheckRules(c) \/ SyncStep(c) \/ SyncDone(c)
    \/ Volume(c) \/ Container(c) \/ Ima(c)

-----------------------------------------------------------------------------
(* The cleaner. *)

CleanerAt(a)  == cl.at = a
Cleaning(a)   == cl' = [cl EXCEPT !.at = a]
contractsSame == UNCHANGED <<life, left>>

\* get_schains_on_node
OnNode == {c \in Chains : art[c].dir \/ art[c].cont # "none" \/ art[c].rec = "active"}

StartCleaner ==
    /\ CleanerAt("off")
    /\ cl' = [Off EXCEPT !.at = "next", !.todo = {c \in OnNode : life[c] # "member"}]
    /\ UNCHANGED <<firewallVars, mon, art, leaked>> /\ contractsSame

\* ensure_schain_removed
NextChain ==
    /\ CleanerAt("next")
    /\ \E c \in cl.todo :
          cl' = [cl EXCEPT !.todo = @ \ {c}, !.chain = c,
                           !.at = IF life[c] = "left" THEN "terminate" ELSE "next"]
    /\ UNCHANGED <<firewallVars, mon, art, leaked>> /\ contractsSame

EndCleaner ==
    /\ CleanerAt("next") /\ cl.todo = {}
    /\ cl' = Off
    /\ UNCHANGED <<firewallVars, mon, art, leaked>> /\ contractsSame

\* The report object makes the directory; the monitor ends at any block.
Terminate ==
    /\ CleanerAt("terminate")
    /\ Go(cl.chain, "dead")
    /\ sync' = [sync EXCEPT ![cl.chain] = NoSync]
    /\ Sets(cl.chain, [art[cl.chain] EXCEPT !.dir = TRUE])
    /\ Cleaning("check")
    /\ UNCHANGED <<table, want, leaked>> /\ contractsSame

\* The record and all checks; rules that are not in sync will not be looked at.
Check ==
    LET c == cl.chain
    IN  /\ CleanerAt("check")
        /\ Sets(c, [art[c] EXCEPT !.rec = IF @ = "none" THEN "active" ELSE @])
        /\ cl' = [cl EXCEPT !.at = "container", !.vol = art[c].vol,
                            !.rules = art[c].conf /\ RulesSynced(c),
                            !.linked = art[c].linked, !.ima = art[c].ima = "running"]
        /\ leaked' = IF ~ art[c].conf THEN leaked
                     ELSE IF RulesSynced(c) THEN {d \in leaked : SlotOf[d] # SlotOf[c]}
                     ELSE leaked \cup {c}
        /\ UNCHANGED <<firewallVars, mon>> /\ contractsSame

\* Variant: a container that has exited is left.
GoneIfUp(status) == IF status = "running" THEN "none" ELSE status

\* Only a container that runs or has exited is removed.
Gone(status) == IF status \in {"running", "exited"} THEN "none" ELSE status

RemoveContainer ==
    LET c == cl.chain
    IN  /\ CleanerAt("container")
        /\ Sets(c, [art[c] EXCEPT !.cont = Gone(@)])
        /\ Cleaning("volume")
        /\ UNCHANGED <<firewallVars, mon, leaked>> /\ contractsSame

\* rm_vol gives up when a container still uses the volume.
RemoveVolume ==
    LET c == cl.chain
    IN  /\ CleanerAt("volume")
        /\ \/ /\ cl.vol /\ art[c].cont # "none"
              /\ Cleaning("next")
              /\ UNCHANGED art
           \/ /\ ~ (cl.vol /\ art[c].cont # "none")
              /\ Sets(c, [art[c] EXCEPT !.vol = @ /\ ~ cl.vol])
              /\ Cleaning(IF cl.rules THEN "rules" ELSE "ima")
        /\ UNCHANGED <<firewallVars, mon, leaked>> /\ contractsSame

\* flush: what is in the slot now.
ReadRules ==
    /\ CleanerAt("rules")
    /\ cl' = [cl EXCEPT !.at = "flush", !.del = Actual(cl.chain)]
    /\ UNCHANGED <<firewallVars, mon, art, leaked>> /\ contractsSame

\* Variant: the rules for everybody are no rules of the chain.
FlushNodeRule ==
    /\ CleanerAt("flush")
    /\ \E r \in cl.del :
          /\ table' = IF r.src = Public THEN table ELSE table \ {r}
          /\ cl' = [cl EXCEPT !.del = @ \ {r}]
    /\ UNCHANGED <<want, sync, mon, art, leaked>> /\ contractsSame

FlushRule ==
    /\ CleanerAt("flush")
    /\ \E r \in cl.del :
          /\ table' = table \ {r}
          /\ cl' = [cl EXCEPT !.del = @ \ {r}]
    /\ UNCHANGED <<want, sync, mon, art, leaked>> /\ contractsSame

Flushed ==
    /\ CleanerAt("flush") /\ cl.del = {}
    /\ Cleaning("ima")
    /\ UNCHANGED <<firewallVars, mon, art, leaked>> /\ contractsSame

\* Only a container the check found in order, or that has exited, is removed.
RemoveIma ==
    LET c == cl.chain
    IN  /\ CleanerAt("ima")
        /\ Sets(c, [art[c] EXCEPT !.ima =
                        IF cl.linked /\ (cl.ima \/ @ = "exited") THEN "none" ELSE @])
        /\ Cleaning("dir")
        /\ UNCHANGED <<firewallVars, mon, leaked>> /\ contractsSame

\* With the directory the config and the external state are gone.
RemoveDir ==
    LET c == cl.chain
    IN  /\ CleanerAt("dir")
        /\ Sets(c, [art[c] EXCEPT !.dir = FALSE, !.conf = FALSE, !.linked = FALSE])
        /\ Cleaning("record")
        /\ UNCHANGED <<firewallVars, mon, leaked>> /\ contractsSame

MarkDeleted ==
    LET c == cl.chain
    IN  /\ CleanerAt("record")
        /\ Sets(c, [art[c] EXCEPT !.rec = "deleted"])
        /\ Cleaning("next")
        /\ UNCHANGED <<firewallVars, mon, leaked>> /\ contractsSame

Failing ==
    \/ cl.at \in {"check", "container", "volume", "ima"} /\ Spend("docker")
    \/ CleanerAt("flush") /\ Spend("iptables")

\* Variant: a volume that cannot be removed does not end the removal.
FailureOfVolumeIgnored ==
    /\ Failing
    /\ cl' = [cl EXCEPT !.at = IF @ = "volume" THEN "ima" ELSE "next", !.del = {}]
    /\ UNCHANGED <<firewallVars, life, mon, art, leaked>>

\* 'removal failed': the chain is left to the next round.
RemovalFails ==
    /\ Failing
    /\ cl' = [cl EXCEPT !.at = "next", !.del = {}]
    /\ UNCHANGED <<firewallVars, life, mon, art, leaked>>

\* JOIN_TIMEOUT, or a restart of the admin container.
CleanerKilled ==
    /\ ~ CleanerAt("off")
    /\ Spend("kill")
    /\ cl' = Off
    /\ UNCHANGED <<firewallVars, life, mon, art, leaked>>

Removal ==
    \/ NextChain \/ EndCleaner \/ Terminate \/ Check \/ RemoveContainer \/ RemoveVolume
    \/ ReadRules \/ FlushRule \/ Flushed \/ RemoveIma \/ RemoveDir \/ MarkDeleted

-----------------------------------------------------------------------------
Next ==
    \/ \E c \in Chains :
          \/ Join(c) \/ Leave(c) \/ RotationEnds(c)
          \/ StartMonitor(c) \/ GroupChanges(c) \/ MonitorStep(c)
          \/ PassFails(c) \/ Exits(c) \/ Migrate(c)
    \/ StartCleaner \/ Removal \/ RemovalFails \/ CleanerKilled

Spec == Init /\ [][Next]_vars

\* The main loop starts monitors and the cleaner in each round, a pass is followed
\* by another, and a rotation ends.
FairSpec ==
    /\ Spec
    /\ \A c \in Chains :
          WF_vars(RotationEnds(c)) /\ SF_vars(StartMonitor(c)) /\ WF_vars(MonitorStep(c))
    /\ WF_vars(StartCleaner) /\ WF_vars(Removal)

-----------------------------------------------------------------------------
(* Properties. *)

Out(c) == life[c] \in {"absent", "left"}

\* A chain the cleaner no longer finds left neither volume nor IMA container
\* behind, whenever the cleaner was killed or a call failed.  (An IMA container
\* that was not in order when it was checked stays, and nobody looks for it: it
\* was created and not started, or the migration had outdated it.)
ForgottenIsGone ==
    \A c \in Chains : life[c] = "left" /\ c \notin OnNode =>
        ~ art[c].vol /\ art[c].ima # "running"

\* When all chains of a slot are gone, its ports are closed.  Excused are chains
\* whose rules were out of sync when they were checked: the cleaner leaves those.
PortsClosed ==
    \A c \in Chains :
        (\A d \in Chains : SlotOf[d] = SlotOf[c] =>
            Out(d) /\ d \notin OnNode /\ d \notin leaked /\ mon[d] = "dead")
        => Actual(c) = {}

\* While a monitor updates its rules no source that stays is shut out.
UpdateKeepsOpen ==
    [][\A c \in Chains :
          sync'[c] # sync[c] => Actual(c) \cap Expected(c) \subseteq table']_vars

\* A chain the node left is removed, unless docker never started its container:
\* that one is not removed, and its volume cannot be.
LeftRemoved ==
    \A c \in Chains :
        life[c] = "left" ~> c \notin OnNode \/ life[c] # "left" \/ art[c].cont = "created"

\* The rules of a chain come to be those of its config and stay so, whatever an
\* earlier chain of the slot, or its removal, did to them.
RulesConverge ==
    \A c \in Chains :
        <>[](life[c] = "member") => <>[](Actual(c) = Expected(c))
=============================================================================
