---------------------------- MODULE Cleaner_proofs ----------------------------
(* What a chain leaves on the node is found until it is gone, its ports are    *)
(* closed, and an update of its rules shuts out no source that stays, for any  *)
(* number of chains, slots and sources and every budget.                       *)
EXTENDS Cleaner, TLAPS

Gripped  == {"check", "container", "volume", "rules", "flush", "ima", "dir", "record"}
Emptied  == {"rules", "flush", "ima", "dir", "record"}
BeforeIma == {"container", "volume", "rules", "flush", "ima"}

\* Where there is something to remove there is a config, and thus a directory.
Tracked ==
    \A c \in Chains :
        /\ mon[c] # "dead" => art[c].conf
        /\ art[c].conf => art[c].dir
        /\ art[c].vol => art[c].conf
        /\ art[c].ima = "running" => art[c].conf /\ art[c].linked

\* The chain under removal has no monitor, and what was checked is still so, or
\* has been dealt with.
Removing ==
    LET c == cl.chain
    IN  /\ cl.at \in Gripped \cup {"terminate"} => c \in Chains
        /\ cl.del \cap Foreign = {}
        /\ cl.at \in Gripped => mon[c] = "dead"
        /\ cl.at \in {"container", "volume"} => cl.vol = art[c].vol
        /\ cl.at \in Emptied => ~ art[c].vol
        /\ cl.at \in BeforeIma /\ art[c].ima = "running" => cl.ima /\ cl.linked
        /\ cl.at \in {"dir", "record"} => art[c].ima # "running"

\* An update is under way in its block only, and takes away no rule that is expected.
Updating ==
    \A c \in Chains :
        /\ mon[c] # "sync" => sync[c] = NoSync
        /\ sync[c].del \cap (Expected(c) \cup Foreign) = {}
        /\ \A r \in sync[c].add : r.slot = SlotOf[c]

\* d answers for the rules of the slot of c.
Answers(d, c) == SlotOf[d] = SlotOf[c] /\ (art[d].conf \/ d \in leaked)

\* Rules in the slot of c are in the hands of another chain, or left.
Handed(c) == \E d \in Chains : Answers(d, c) /\ (d # c \/ d \in leaked)

\* Rules of a slot have a chain that answers for them; once the rules of the chain
\* under removal are dealt with, it is no more that chain by its config.
Owned ==
    LET c == cl.chain
    IN  /\ \A e \in Chains : Actual(e) # {} => \E d \in Chains : Answers(d, e)
        /\ cl.at \in {"container", "volume"} /\ ~ cl.rules => ~ art[c].conf \/ c \in leaked
        /\ cl.at = "flush" => Actual(c) \subseteq cl.del \/ Handed(c)
        /\ cl.at \in {"ima", "dir"} => Actual(c) = {} \/ Handed(c)

IInv == TypeOK /\ Tracked /\ Removing /\ Updating /\ Owned

-----------------------------------------------------------------------------
\* What the actions write has its type.
LEMMA SetsTyped ==
    ASSUME TypeOK, NEW c \in Chains, NEW a \in Artifacts, Sets(c, a)
    PROVE  /\ art' \in [Chains -> Artifacts] /\ art'[c] = a
           /\ \A d \in Chains \ {c} : art'[d] = art[d]
  BY DEF TypeOK, Sets

\* A monitor that goes on to another block.
LEMMA GoTyped ==
    ASSUME TypeOK, NEW c \in Chains, NEW b \in Blocks, Go(c, b)
    PROVE  /\ mon' \in [Chains -> Blocks] /\ mon'[c] = b
           /\ \A d \in Chains \ {c} : mon'[d] = mon[d]
  BY DEF TypeOK, Go

\* What is left of a budget stays a number.
LEMMA SpendTyped ==
    ASSUME TypeOK, NEW e \in Events, Spend(e)
    PROVE  left' \in [Events -> Nat]
  <1>1. left[e] \in Nat /\ left[e] > 0 /\ left[e] - 1 \in Nat
    BY DEF TypeOK, Spend
  <1>. QED BY <1>1 DEF TypeOK, Spend

\* Expected and actual rules of a chain are rules of its slot and of no other program.
LEMMA ExpectedTyped ==
    ASSUME TypeOK, NEW c \in Chains
    PROVE  /\ Expected(c) \subseteq Rules /\ Actual(c) \subseteq Rules
           /\ Expected(c) \cap Foreign = {} /\ Actual(c) \cap Foreign = {}
           /\ \A r \in Expected(c) : r.slot = SlotOf[c]
  <1>1. SlotOf[c] \in Slots /\ want[c] \subseteq Sources
    BY FirewallAssumption DEF TypeOK, FirewallTypeOK
  <1>. QED BY <1>1 DEF Expected, Actual, Foreign, Rules, TypeOK, FirewallTypeOK

\* The initial state satisfies the invariant.
LEMMA InitIInv == Init => IInv
  <1> SUFFICES ASSUME Init PROVE IInv
    OBVIOUS
  <1>1. TypeOK
    <2>1. FirewallTypeOK
      BY FirewallAssumption DEF Init, FirewallInit, FirewallTypeOK, Foreign, Rules, Syncs, NoSync
    <2>2. left \in [Events -> Nat]
      BY CleanerAssumption DEF Init
    <2>. QED BY <2>1, <2>2
         DEF Init, TypeOK, Lives, Blocks, Artifacts, Statuses, Nothing, Cleaners, Off, Stages
  <1>2. Tracked /\ Removing /\ Updating
    BY DEF Init, FirewallInit, Tracked, Removing, Updating, Nothing, Off, NoSync, Gripped,
           Emptied, BeforeIma
  <1>3. Owned
    <2>1. \A e \in Chains : Actual(e) = {}
      BY DEF Init, FirewallInit, Actual, Foreign
    <2>. QED BY <2>1 DEF Init, Off, Owned
  <1>. QED BY <1>1, <1>2, <1>3 DEF IInv

-----------------------------------------------------------------------------
\* Every step keeps the types, and the rules of other programs.
LEMMA TypeStep == IInv /\ [Next]_vars => TypeOK'
  <1> SUFFICES ASSUME IInv, [Next]_vars PROVE TypeOK'
    OBVIOUS
  <1>0. TypeOK
    BY DEF IInv
  <1>1. ASSUME NEW c \in Chains, Join(c) \/ Leave(c) \/ RotationEnds(c) PROVE TypeOK'
    <2>1. left' \in [Events -> Nat]
      BY <1>0, <1>1, SpendTyped DEF Join, Leave, RotationEnds, TypeOK, Events
    <2>2. life' \in [Chains -> Lives]
      BY <1>0, <1>1 DEF Join, Leave, RotationEnds, TypeOK, Lives
    <2>. QED BY <1>0, <1>1, <2>1, <2>2
         DEF Join, Leave, RotationEnds, TypeOK, FirewallTypeOK, firewallVars
  <1>2. ASSUME NEW c \in Chains, StartMonitor(c) PROVE TypeOK'
    <2>1. art' \in [Chains -> Artifacts]
      <3>1. art[c] \in Artifacts
        BY <1>0 DEF TypeOK
      <3>2. ASSUME NEW l \in BOOLEAN,
                   Sets(c, [art[c] EXCEPT !.dir = TRUE, !.conf = TRUE, !.linked = l,
                                          !.rec = IF @ = "none" THEN "active" ELSE @])
            PROVE art' \in [Chains -> Artifacts]
        <4>1. [art[c] EXCEPT !.dir = TRUE, !.conf = TRUE, !.linked = l,
                             !.rec = IF @ = "none" THEN "active" ELSE @] \in Artifacts
          BY <3>1 DEF Artifacts
        <4>. QED BY <1>0, <3>2, <4>1, SetsTyped
      <3>. QED BY <1>0, <1>2, <3>2 DEF StartMonitor, TypeOK
    <2>2. want' \in [Chains -> SUBSET Sources]
      BY <1>0, <1>2 DEF StartMonitor, TypeOK, FirewallTypeOK
    <2>3. mon' \in [Chains -> Blocks]
      BY <1>0, <1>2, GoTyped DEF StartMonitor, Blocks
    <2>. QED BY <1>0, <1>2, <2>1, <2>2, <2>3 DEF StartMonitor, TypeOK, FirewallTypeOK, envSame
  <1>3. ASSUME NEW c \in Chains, GroupChanges(c) PROVE TypeOK'
    <2>1. left' \in [Events -> Nat]
      BY <1>0, <1>3, SpendTyped DEF GroupChanges, Events
    <2>. QED BY <1>0, <1>3, <2>1 DEF GroupChanges, TypeOK, FirewallTypeOK, envSame
  <1>4. ASSUME NEW c \in Chains, CheckRules(c) PROVE TypeOK'
    <2>1. mon' \in [Chains -> Blocks]
      BY <1>0, <1>4, GoTyped DEF CheckRules, Blocks
    <2>2. sync' \in [Chains -> Syncs]
      <3>1. [on |-> TRUE, add |-> Expected(c) \ Actual(c), del |-> Actual(c) \ Expected(c)]
              \in Syncs
        BY <1>0, ExpectedTyped DEF Syncs
      <3>. QED BY <1>0, <1>4, <3>1
           DEF CheckRules, StartSync, TypeOK, FirewallTypeOK, firewallVars
    <2>. QED BY <1>0, <1>4, <2>1, <2>2
         DEF CheckRules, StartSync, TypeOK, FirewallTypeOK, firewallVars, envSame
  <1>5. ASSUME NEW c \in Chains, SyncStep(c) PROVE TypeOK'
    <2>1. sync' \in [Chains -> Syncs]
      <3>1. sync[c] \in Syncs
        BY <1>0 DEF TypeOK, FirewallTypeOK
      <3>2. \A r : /\ [sync[c] EXCEPT !.add = @ \ {r}] \in Syncs
                  /\ [sync[c] EXCEPT !.del = @ \ {r}] \in Syncs
        BY <3>1 DEF Syncs
      <3>3. \E s \in Syncs : sync' = [sync EXCEPT ![c] = s]
        BY <1>5, <3>2 DEF SyncStep, AddRule, RemoveRule
      <3>. QED BY <1>0, <3>3 DEF TypeOK, FirewallTypeOK
    <2>2. Foreign \subseteq table' /\ table' \subseteq Rules
      <3>1. sync[c] \in Syncs /\ sync[c].del \cap Foreign = {}
        BY <1>0 DEF TypeOK, FirewallTypeOK, IInv, Updating
      <3>. QED BY <1>0, <1>5, <3>1
           DEF SyncStep, AddRule, RemoveRule, Syncs, TypeOK, FirewallTypeOK
    <2>. QED BY <1>0, <1>5, <2>1, <2>2
         DEF SyncStep, AddRule, RemoveRule, TypeOK, FirewallTypeOK, envSame
  <1>6. ASSUME NEW c \in Chains, SyncDone(c) PROVE TypeOK'
    <2>1. mon' \in [Chains -> Blocks]
      BY <1>0, <1>6, GoTyped DEF SyncDone, Blocks
    <2>2. sync' \in [Chains -> Syncs]
      BY <1>0, <1>6 DEF SyncDone, EndSync, NoSync, Syncs, TypeOK, FirewallTypeOK
    <2>. QED BY <1>0, <1>6, <2>1, <2>2 DEF SyncDone, EndSync, TypeOK, FirewallTypeOK, envSame
  <1>7. ASSUME NEW c \in Chains, Volume(c) \/ Container(c) \/ Ima(c) PROVE TypeOK'
    <2>1. mon' \in [Chains -> Blocks]
      BY <1>0, <1>7, GoTyped DEF Volume, Container, Ima, Blocks
    <2>2. art' \in [Chains -> Artifacts]
      <3>1. art[c] \in Artifacts
        BY <1>0 DEF TypeOK
      <3>2. /\ [art[c] EXCEPT !.vol = TRUE] \in Artifacts
            /\ [art[c] EXCEPT !.cont = "running"] \in Artifacts
            /\ [art[c] EXCEPT !.ima = IF art[c].linked /\ @ \in {"none", "outdated"}
                                     THEN "running" ELSE @] \in Artifacts
        BY <3>1 DEF Artifacts, Statuses
      <3>. QED BY <1>0, <1>7, <3>2, SetsTyped DEF Volume, Container, Ima, TypeOK
    <2>. QED BY <1>0, <1>7, <2>1, <2>2
         DEF Volume, Container, Ima, TypeOK, FirewallTypeOK, firewallVars, envSame
  <1>8. ASSUME NEW c \in Chains, PassFails(c) PROVE TypeOK'
    <2>1. mon' \in [Chains -> Blocks]
      BY <1>0, <1>8, GoTyped DEF PassFails, Blocks
    <2>2. art' \in [Chains -> Artifacts]
      BY <1>0, <1>8 DEF PassFails, Sets, Artifacts, Statuses, TypeOK
    <2>3. sync' \in [Chains -> Syncs]
      BY <1>0, <1>8 DEF PassFails, NoSync, Syncs, TypeOK, FirewallTypeOK
    <2>4. left' \in [Events -> Nat]
      BY <1>0, <1>8, SpendTyped DEF PassFails, Events
    <2>. QED BY <1>0, <1>8, <2>1, <2>2, <2>3, <2>4 DEF PassFails, TypeOK, FirewallTypeOK, envSame
  <1>9. ASSUME NEW c \in Chains, Exits(c) \/ Migrate(c) PROVE TypeOK'
    <2>1. art' \in [Chains -> Artifacts]
      BY <1>0, <1>9 DEF Exits, Migrate, Sets, Artifacts, Statuses, TypeOK
    <2>2. left' \in [Events -> Nat]
      BY <1>0, <1>9, SpendTyped DEF Exits, Migrate, Events
    <2>. QED BY <1>0, <1>9, <2>1, <2>2
         DEF Exits, Migrate, TypeOK, FirewallTypeOK, firewallVars, envSame
  <1>10. CASE StartCleaner \/ NextChain \/ EndCleaner
    <2>0. cl \in Cleaners /\ Off \in Cleaners
      BY <1>0 DEF TypeOK, Off, Cleaners, Stages
    <2>1. cl' \in Cleaners
      <3>1. CASE StartCleaner
        BY <2>0, <3>1 DEF StartCleaner, OnNode, Off, Cleaners, Stages
      <3>2. CASE NextChain
        <4>1. PICK c \in cl.todo :
                 cl' = [cl EXCEPT !.todo = @ \ {c}, !.chain = c,
                                  !.at = IF life[c] = "left" THEN "terminate" ELSE "next"]
          BY <3>2 DEF NextChain
        <4>2. cl.todo \subseteq Chains
          BY <2>0 DEF Cleaners
        <4>. QED BY <2>0, <4>1, <4>2 DEF Cleaners, Stages
      <3>3. CASE EndCleaner
        BY <2>0, <3>3 DEF EndCleaner
      <3>. QED BY <1>10, <3>1, <3>2, <3>3
    <2>. QED BY <1>0, <1>10, <2>1
         DEF StartCleaner, NextChain, EndCleaner, TypeOK, FirewallTypeOK, firewallVars,
             contractsSame
  <1>11. CASE Terminate
    <2>1. cl' \in Cleaners /\ cl.chain \in Chains
      BY <1>0, <1>11 DEF IInv, Removing, Terminate, Cleaning, CleanerAt, Cleaners, Stages, TypeOK
    <2>2. mon' \in [Chains -> Blocks]
      BY <1>0, <1>11, <2>1, GoTyped DEF Terminate, Blocks
    <2>3. art' \in [Chains -> Artifacts]
      BY <1>0, <1>11, <2>1 DEF Terminate, Sets, Artifacts, TypeOK
    <2>4. sync' \in [Chains -> Syncs]
      BY <1>0, <1>11 DEF Terminate, NoSync, Syncs, TypeOK, FirewallTypeOK
    <2>. QED BY <1>0, <1>11, <2>1, <2>2, <2>3, <2>4
         DEF Terminate, TypeOK, FirewallTypeOK, contractsSame
  <1>12. CASE Check \/ RemoveContainer \/ RemoveVolume \/ RemoveIma \/ RemoveDir \/ MarkDeleted
    <2>1. cl.chain \in Chains
      BY <1>12 DEF IInv, Removing, Gripped, Check, RemoveContainer, RemoveVolume, RemoveIma,
                   RemoveDir, MarkDeleted, CleanerAt
    <2>2. cl' \in Cleaners
      <3>1. cl \in Cleaners
        BY <1>0 DEF TypeOK
      <3>2. \A s \in Stages : Cleaning(s) => cl' \in Cleaners
        BY <3>1 DEF Cleaning, Cleaners
      <3>3. CASE Check
        <4>1. art[cl.chain].vol \in BOOLEAN /\ art[cl.chain].linked \in BOOLEAN
              /\ art[cl.chain].conf \in BOOLEAN
          BY <1>0, <2>1 DEF TypeOK, Artifacts
        <4>2. RulesSynced(cl.chain) \in BOOLEAN
          BY DEF RulesSynced
        <4>. QED BY <3>1, <3>3, <4>1, <4>2 DEF Check, Cleaners, Stages
      <3>. QED BY <1>12, <3>1, <3>2, <3>3
           DEF RemoveContainer, RemoveVolume, RemoveIma, RemoveDir, MarkDeleted, Stages
    <2>3. art' \in [Chains -> Artifacts]
      <3> DEFINE c == cl.chain
      <3>1. art[c] \in Artifacts
        BY <1>0, <2>1 DEF TypeOK
      <3>2. /\ [art[c] EXCEPT !.rec = IF @ = "none" THEN "active" ELSE @] \in Artifacts
            /\ [art[c] EXCEPT !.cont = Gone(@)] \in Artifacts
            /\ [art[c] EXCEPT !.vol = @ /\ ~ cl.vol] \in Artifacts
            /\ [art[c] EXCEPT !.ima =
                   IF cl.linked /\ (cl.ima \/ @ = "exited") THEN "none" ELSE @] \in Artifacts
            /\ [art[c] EXCEPT !.dir = FALSE, !.conf = FALSE, !.linked = FALSE] \in Artifacts
            /\ [art[c] EXCEPT !.rec = "deleted"] \in Artifacts
        BY <3>1 DEF Artifacts, Statuses, Gone
      <3>. QED BY <1>0, <1>12, <2>1, <3>2, SetsTyped
           DEF Check, RemoveContainer, RemoveVolume, RemoveIma, RemoveDir, MarkDeleted, TypeOK
    <2>4. leaked' \subseteq Chains
      BY <1>0, <1>12, <2>1
         DEF Check, RemoveContainer, RemoveVolume, RemoveIma, RemoveDir, MarkDeleted, TypeOK
    <2>. QED BY <1>0, <1>12, <2>2, <2>3, <2>4
         DEF Check, RemoveContainer, RemoveVolume, RemoveIma, RemoveDir, MarkDeleted, TypeOK,
             FirewallTypeOK, firewallVars, contractsSame
  <1>13. CASE ReadRules \/ FlushRule \/ Flushed
    <2>1. cl.chain \in Chains
      BY <1>13 DEF IInv, Removing, Gripped, ReadRules, FlushRule, Flushed, CleanerAt
    <2>2. cl' \in Cleaners
      <3>1. cl \in Cleaners /\ Actual(cl.chain) \subseteq Rules
        BY <1>0, <2>1, ExpectedTyped DEF TypeOK
      <3>2. CASE ReadRules
        BY <3>1, <3>2 DEF ReadRules, Cleaners, Stages
      <3>3. CASE FlushRule
        BY <3>1, <3>3 DEF FlushRule, Cleaners
      <3>4. CASE Flushed
        BY <3>1, <3>4 DEF Flushed, Cleaning, Cleaners, Stages
      <3>. QED BY <1>13, <3>2, <3>3, <3>4
    <2>3. Foreign \subseteq table' /\ table' \subseteq Rules
      <3>1. cl.del \cap Foreign = {}
        BY DEF IInv, Removing
      <3>. QED BY <1>0, <1>13, <3>1
           DEF ReadRules, FlushRule, Flushed, TypeOK, FirewallTypeOK, firewallVars
    <2>. QED BY <1>0, <1>13, <2>2, <2>3
         DEF ReadRules, FlushRule, Flushed, TypeOK, FirewallTypeOK, firewallVars, contractsSame
  <1>14. CASE RemovalFails \/ CleanerKilled
    <2>1. cl' \in Cleaners
      <3>1. cl \in Cleaners /\ Off \in Cleaners
        BY <1>0 DEF TypeOK, Off, Cleaners, Stages
      <3>2. CASE RemovalFails
        BY <3>1, <3>2 DEF RemovalFails, Cleaners, Stages
      <3>3. CASE CleanerKilled
        BY <3>1, <3>3 DEF CleanerKilled
      <3>. QED BY <1>14, <3>2, <3>3
    <2>2. left' \in [Events -> Nat]
      BY <1>0, <1>14, SpendTyped DEF RemovalFails, Failing, CleanerKilled, Events
    <2>. QED BY <1>0, <1>14, <2>1, <2>2
         DEF RemovalFails, CleanerKilled, TypeOK, FirewallTypeOK, firewallVars
  <1>15. CASE UNCHANGED vars
    BY <1>0, <1>15 DEF vars, TypeOK, FirewallTypeOK
  <1>. QED BY <1>1, <1>2, <1>3, <1>4, <1>5, <1>6, <1>7, <1>8, <1>9, <1>10, <1>11, <1>12, <1>13,
              <1>14, <1>15 DEF Next, MonitorStep, Removal

-----------------------------------------------------------------------------
\* Every step keeps a config where there is something to remove.
LEMMA TrackedStep == IInv /\ [Next]_vars => Tracked'
  <1> SUFFICES ASSUME IInv, [Next]_vars PROVE Tracked'
    OBVIOUS
  <1>0. /\ art \in [Chains -> Artifacts] /\ mon \in [Chains -> Blocks]
        /\ Tracked /\ Removing
    BY DEF IInv, TypeOK
  <1>1. ASSUME UNCHANGED <<art, mon>> PROVE Tracked'
    BY <1>0, <1>1 DEF Tracked
  <1>2. ASSUME NEW c \in Chains, StartMonitor(c) PROVE Tracked'
    <2>1. CASE art[c].conf
      BY <1>0, <1>2, <2>1 DEF StartMonitor, Go, Tracked
    <2>2. CASE ~ art[c].conf
      <3>1. PICK l \in BOOLEAN :
               Sets(c, [art[c] EXCEPT !.dir = TRUE, !.conf = TRUE, !.linked = l,
                                      !.rec = IF @ = "none" THEN "active" ELSE @])
        BY <1>2, <2>2 DEF StartMonitor
      <3>2. ~ art[c].vol /\ art[c].ima # "running"
        BY <1>0, <2>2 DEF Tracked
      <3>3. art[c] \in Artifacts /\ \A d \in Chains \ {c} : art'[d] = art[d]
        BY <1>0, <3>1 DEF Sets
      <3>4. /\ art'[c].conf /\ art'[c].dir
            /\ art'[c].vol = art[c].vol /\ art'[c].ima = art[c].ima
        BY <1>0, <3>1, <3>3 DEF Sets, Artifacts
      <3>5. \A d \in Chains \ {c} : mon'[d] = mon[d]
        BY <1>0, <1>2 DEF StartMonitor, Go
      <3>. QED BY <1>0, <3>2, <3>3, <3>4, <3>5 DEF Tracked
    <2>. QED BY <2>1, <2>2
  <1>3. ASSUME NEW c \in Chains, CheckRules(c) \/ SyncStep(c) \/ SyncDone(c) PROVE Tracked'
    BY <1>0, <1>3 DEF CheckRules, SyncStep, SyncDone, At, Go, Tracked
  <1>4. ASSUME NEW c \in Chains, Volume(c) \/ Container(c) \/ Ima(c) PROVE Tracked'
    <2>1. mon[c] # "dead" /\ art[c].conf
      BY <1>0, <1>4 DEF Volume, Container, Ima, At, Tracked
    <2>. QED BY <1>0, <1>4, <2>1 DEF Volume, Container, Ima, Go, Sets, Tracked, Artifacts
  <1>5. ASSUME NEW c \in Chains, PassFails(c) PROVE Tracked'
    <2>1. mon[c] # "dead" /\ art[c].conf
      BY <1>0, <1>5 DEF PassFails, At, Tracked
    <2>. QED BY <1>0, <1>5, <2>1 DEF PassFails, Go, Sets, Tracked, Artifacts
  <1>6. ASSUME NEW c \in Chains, Exits(c) \/ Migrate(c) PROVE Tracked'
    BY <1>0, <1>6 DEF Exits, Migrate, Sets, Tracked, Artifacts
  <1>7. CASE Terminate
    BY <1>0, <1>7 DEF Terminate, CleanerAt, Removing, Go, Sets, Tracked, Artifacts
  <1>8. CASE Check \/ RemoveContainer \/ RemoveVolume \/ RemoveIma \/ RemoveDir \/ MarkDeleted
    <2>1. cl.chain \in Chains /\ mon' = mon
      BY <1>0, <1>8 DEF Removing, Gripped, Check, RemoveContainer, RemoveVolume, RemoveIma,
                        RemoveDir, MarkDeleted, CleanerAt
    <2>2. CASE RemoveDir
      BY <1>0, <2>1, <2>2 DEF RemoveDir, CleanerAt, Removing, Gripped, Emptied, Sets, Tracked,
                              Artifacts
    <2>3. CASE Check \/ RemoveContainer \/ MarkDeleted
      BY <1>0, <2>1, <2>3 DEF Check, RemoveContainer, MarkDeleted, Sets, Tracked, Artifacts
    <2>4. CASE RemoveVolume
      BY <1>0, <2>1, <2>4 DEF RemoveVolume, Sets, Tracked, Artifacts
    <2>5. CASE RemoveIma
      BY <1>0, <2>1, <2>5 DEF RemoveIma, Sets, Tracked, Artifacts
    <2>. QED BY <1>8, <2>2, <2>3, <2>4, <2>5
  <1>9. ASSUME NEW c \in Chains, Join(c) \/ Leave(c) \/ RotationEnds(c) \/ GroupChanges(c)
        PROVE Tracked'
    BY <1>1, <1>9 DEF Join, Leave, RotationEnds, GroupChanges
  <1>10. CASE \/ StartCleaner \/ NextChain \/ EndCleaner \/ ReadRules \/ FlushRule \/ Flushed
              \/ RemovalFails \/ CleanerKilled \/ UNCHANGED vars
    BY <1>1, <1>10 DEF StartCleaner, NextChain, EndCleaner, ReadRules, FlushRule, Flushed,
                       RemovalFails, CleanerKilled, vars
  <1>. QED BY <1>2, <1>3, <1>4, <1>5, <1>6, <1>7, <1>8, <1>9, <1>10 DEF Next, MonitorStep, Removal

-----------------------------------------------------------------------------
\* Every step keeps what the removal relies on.
LEMMA RemovingStep == IInv /\ [Next]_vars => Removing'
  <1> SUFFICES ASSUME IInv, [Next]_vars PROVE Removing'
    OBVIOUS
  <1>0. /\ TypeOK /\ art \in [Chains -> Artifacts] /\ mon \in [Chains -> Blocks]
        /\ cl \in Cleaners /\ Tracked /\ Removing
    BY DEF IInv, TypeOK
  <1>1. ASSUME UNCHANGED <<art, mon, cl>> PROVE Removing'
    BY <1>0, <1>1 DEF Removing
  <1>2. ASSUME NEW c \in Chains, StartMonitor(c) PROVE Removing'
    BY <1>0, <1>2 DEF StartMonitor, envSame, Removing, Gripped, Emptied, BeforeIma
  <1>3. ASSUME NEW c \in Chains,
               \/ CheckRules(c) \/ SyncStep(c) \/ SyncDone(c) \/ Volume(c) \/ Container(c)
               \/ Ima(c) \/ PassFails(c)
        PROVE Removing'
    <2>1. mon[c] # "dead" /\ cl' = cl
      BY <1>3 DEF CheckRules, SyncStep, SyncDone, Volume, Container, Ima, PassFails, At, envSame
    <2>2. \A d \in Chains \ {c} : mon'[d] = mon[d] /\ art'[d] = art[d]
      BY <1>0, <1>3 DEF CheckRules, SyncStep, SyncDone, Volume, Container, Ima, PassFails, Go, Sets
    <2>3. cl.at \in Gripped => cl.chain \in Chains \ {c}
      BY <1>0, <2>1 DEF Removing
    <2>. QED BY <1>0, <2>1, <2>2, <2>3 DEF Removing, Gripped, Emptied, BeforeIma
  <1>4. ASSUME NEW c \in Chains, Exits(c) \/ Migrate(c) PROVE Removing'
    <2>1. UNCHANGED <<mon, cl>>
      BY <1>4 DEF Exits, Migrate, envSame
    <2>2. \A d \in Chains : /\ art'[d].vol = art[d].vol
                            /\ art'[d].ima = "running" => art[d].ima = "running"
      BY <1>0, <1>4 DEF Exits, Migrate, Sets, Artifacts
    <2>. QED BY <1>0, <2>1, <2>2 DEF Removing, Gripped, Emptied, BeforeIma
  <1>5. CASE StartCleaner \/ NextChain \/ EndCleaner \/ RemovalFails \/ CleanerKilled
    <2>1. CASE NextChain
      <3>1. PICK c \in cl.todo :
               cl' = [cl EXCEPT !.todo = @ \ {c}, !.chain = c,
                                !.at = IF life[c] = "left" THEN "terminate" ELSE "next"]
        BY <2>1 DEF NextChain
      <3>2. c \in Chains
        BY <1>0 DEF Cleaners
      <3>. QED BY <1>0, <3>1, <3>2 DEF Removing, Gripped, Emptied, BeforeIma, Cleaners
    <2>2. CASE StartCleaner \/ EndCleaner \/ CleanerKilled
      <3>1. cl'.at \in {"off", "next"} /\ cl'.del = {}
        <4>1. CASE StartCleaner
          <5>1. \E S : cl' = [Off EXCEPT !.at = "next", !.todo = S]
            BY <4>1 DEF StartCleaner
          <5>. QED BY <5>1 DEF Off
        <4>2. CASE EndCleaner \/ CleanerKilled
          BY <4>2 DEF EndCleaner, CleanerKilled, Off
        <4>. QED BY <2>2, <4>1, <4>2
      <3>. QED BY <3>1 DEF Removing, Gripped, Emptied, BeforeIma
    <2>3. CASE RemovalFails
      BY <1>0, <2>3 DEF RemovalFails, Removing, Gripped, Emptied, BeforeIma, Cleaners
    <2>. QED BY <1>5, <2>1, <2>2, <2>3
  <1>6. CASE Terminate
    BY <1>0, <1>6 DEF Terminate, CleanerAt, Cleaning, Go, Removing, Gripped, Emptied, BeforeIma,
                      Cleaners
  <1>7. ASSUME Check \/ RemoveContainer \/ RemoveVolume \/ RemoveIma \/ RemoveDir \/ MarkDeleted
               \/ ReadRules \/ FlushRule \/ Flushed
        PROVE Removing'
    <2> DEFINE c == cl.chain
    <2>1. c \in Chains /\ mon[c] = "dead" /\ art[c] \in Artifacts
      BY <1>0, <1>7 DEF Removing, Gripped, Check, RemoveContainer, RemoveVolume, RemoveIma,
                        RemoveDir, MarkDeleted, ReadRules, FlushRule, Flushed, CleanerAt
    <2>2. mon' = mon /\ cl'.chain = c /\ cl'.at \in Stages
      BY <1>0, <1>7 DEF Check, RemoveContainer, RemoveVolume, RemoveIma, RemoveDir, MarkDeleted,
                        ReadRules, FlushRule, Flushed, Cleaning, Cleaners, Stages
    <2>3. CASE Check
      BY <1>0, <2>1, <2>2, <2>3
         DEF Check, Sets, Removing, Tracked, Gripped, Emptied, BeforeIma, Cleaners, Artifacts
    <2>4. CASE RemoveContainer
      BY <1>0, <2>1, <2>2, <2>4
         DEF RemoveContainer, Cleaning, CleanerAt, Sets, Removing, Gripped, Emptied, BeforeIma,
             Cleaners, Artifacts
    <2>5. CASE RemoveVolume
      <3>1. CASE cl.vol /\ art[c].cont # "none"
        BY <1>0, <2>1, <2>2, <2>5, <3>1
           DEF RemoveVolume, Cleaning, CleanerAt, Removing, Gripped, Emptied, BeforeIma, Cleaners
      <3>2. CASE ~ (cl.vol /\ art[c].cont # "none")
        <4>1. ~ art'[c].vol /\ art'[c].ima = art[c].ima
          BY <1>0, <2>1, <2>5, <3>2 DEF RemoveVolume, CleanerAt, Removing, Sets, Artifacts
        <4>2. /\ cl'.at \in {"rules", "ima"} /\ cl'.del = cl.del
              /\ cl'.ima = cl.ima /\ cl'.linked = cl.linked
          BY <1>0, <2>5, <3>2 DEF RemoveVolume, Cleaning, Cleaners
        <4>3. cl.at = "volume"
          BY <2>5 DEF RemoveVolume, CleanerAt
        <4>. QED BY <1>0, <2>1, <2>2, <4>1, <4>2, <4>3
             DEF Removing, Gripped, Emptied, BeforeIma
      <3>. QED BY <3>1, <3>2
    <2>6. CASE ReadRules
      <3>1. Actual(c) \cap Foreign = {}
        BY <1>0, <2>1, ExpectedTyped
      <3>. QED BY <1>0, <2>1, <2>2, <2>6, <3>1
           DEF ReadRules, CleanerAt, Removing, Gripped, Emptied, BeforeIma, Cleaners
    <2>7. CASE FlushRule \/ Flushed
      BY <1>0, <2>1, <2>2, <2>7
         DEF FlushRule, Flushed, Cleaning, CleanerAt, Removing, Gripped, Emptied, BeforeIma,
             Cleaners
    <2>8. CASE RemoveIma
      BY <1>0, <2>1, <2>2, <2>8
         DEF RemoveIma, Cleaning, CleanerAt, Sets, Removing, Gripped, Emptied, BeforeIma,
             Cleaners, Artifacts
    <2>9. CASE RemoveDir \/ MarkDeleted
      <3>1. art'[c].vol = art[c].vol /\ art'[c].ima = art[c].ima
        BY <1>0, <2>1, <2>9 DEF RemoveDir, MarkDeleted, Sets, Artifacts
      <3>2. cl'.at \in {"record", "next"} /\ cl'.del = cl.del /\ cl.at \in {"dir", "record"}
        BY <1>0, <2>9 DEF RemoveDir, MarkDeleted, CleanerAt, Cleaning, Cleaners
      <3>. QED BY <1>0, <2>1, <2>2, <3>1, <3>2 DEF Removing, Gripped, Emptied, BeforeIma
    <2>. QED BY <1>7, <2>3, <2>4, <2>5, <2>6, <2>7, <2>8, <2>9
  <1>8. ASSUME NEW c \in Chains, Join(c) \/ Leave(c) \/ RotationEnds(c) \/ GroupChanges(c)
        PROVE Removing'
    BY <1>1, <1>8 DEF Join, Leave, RotationEnds, GroupChanges, envSame
  <1>9. CASE UNCHANGED vars
    BY <1>1, <1>9 DEF vars
  <1>. QED BY <1>2, <1>3, <1>4, <1>5, <1>6, <1>7, <1>8, <1>9 DEF Next, MonitorStep, Removal

-----------------------------------------------------------------------------
\* Every step keeps what is said of updates.
LEMMA UpdatingStep == IInv /\ [Next]_vars => Updating'
  <1> SUFFICES ASSUME IInv, [Next]_vars PROVE Updating'
    OBVIOUS
  <1>0. /\ TypeOK /\ Updating /\ Removing
        /\ sync \in [Chains -> Syncs] /\ mon \in [Chains -> Blocks]
        /\ want \in [Chains -> SUBSET Sources]
    BY DEF IInv, TypeOK, FirewallTypeOK
  <1>1. ASSUME UNCHANGED <<want, sync, mon>> PROVE Updating'
    BY <1>0, <1>1 DEF Updating, Expected
  <1>2. ASSUME NEW c \in Chains, StartMonitor(c) \/ GroupChanges(c) PROVE Updating'
    <2>1. mon[c] # "sync" /\ mon'[c] # "sync" /\ sync' = sync
      BY <1>0, <1>2 DEF StartMonitor, GroupChanges, At, Go
    <2>2. \A d \in Chains \ {c} : mon'[d] = mon[d] /\ want'[d] = want[d]
      BY <1>0, <1>2 DEF StartMonitor, GroupChanges, Go
    <2>3. sync[c] = NoSync
      BY <1>0, <2>1 DEF Updating
    <2>. QED BY <1>0, <2>1, <2>2, <2>3 DEF Updating, Expected, NoSync
  <1>3. ASSUME NEW c \in Chains, CheckRules(c) PROVE Updating'
    <2>1. CASE RulesSynced(c)
      BY <1>0, <1>3, <2>1 DEF CheckRules, At, Go, firewallVars, Updating, Expected
    <2>2. CASE ~ RulesSynced(c)
      <3>1. /\ sync' = [sync EXCEPT ![c] = [on |-> TRUE, add |-> Expected(c) \ Actual(c),
                                            del |-> Actual(c) \ Expected(c)]]
            /\ mon' = [mon EXCEPT ![c] = "sync"] /\ want' = want
        BY <1>3, <2>2 DEF CheckRules, StartSync, Go
      <3>2. (Actual(c) \ Expected(c)) \cap (Expected(c) \cup Foreign) = {}
        BY <1>0, ExpectedTyped
      <3>3. /\ sync'[c].del = Actual(c) \ Expected(c) /\ mon'[c] = "sync"
            /\ \A r \in sync'[c].add : r.slot = SlotOf[c]
        BY <1>0, <3>1, ExpectedTyped
      <3>4. \A d \in Chains \ {c} : sync'[d] = sync[d] /\ mon'[d] = mon[d]
        BY <1>0, <3>1
      <3>5. \A d \in Chains : Expected(d)' = Expected(d)
        BY <3>1 DEF Expected
      <3>. QED BY <1>0, <3>2, <3>3, <3>4, <3>5 DEF Updating
    <2>. QED BY <2>1, <2>2
  <1>4. ASSUME NEW c \in Chains, SyncStep(c) PROVE Updating'
    <2>1. sync[c] \in Syncs /\ mon[c] = "sync" /\ UNCHANGED <<mon, want>>
      BY <1>0, <1>4 DEF SyncStep, AddRule, RemoveRule, At
    <2>2. PICK r : \/ sync' = [sync EXCEPT ![c].add = @ \ {r}]
                   \/ sync' = [sync EXCEPT ![c].del = @ \ {r}]
      BY <1>4 DEF SyncStep, AddRule, RemoveRule
    <2>3. /\ sync'[c].del \subseteq sync[c].del /\ sync'[c].add \subseteq sync[c].add
          /\ \A d \in Chains \ {c} : sync'[d] = sync[d]
      BY <1>0, <2>1, <2>2 DEF Syncs
    <2>4. \A d \in Chains : Expected(d)' = Expected(d)
      BY <2>1 DEF Expected
    <2>. QED BY <1>0, <2>1, <2>3, <2>4 DEF Updating
  <1>5. ASSUME NEW c \in Chains, SyncDone(c) \/ PassFails(c) PROVE Updating'
    <2>1. sync' = [sync EXCEPT ![c] = NoSync] /\ want' = want
      BY <1>5 DEF SyncDone, EndSync, PassFails
    <2>2. \A d \in Chains \ {c} : mon'[d] = mon[d] /\ sync'[d] = sync[d]
      BY <1>0, <1>5, <2>1 DEF SyncDone, PassFails, Go
    <2>3. sync'[c] = NoSync /\ NoSync.del = {} /\ NoSync.add = {}
      BY <1>0, <2>1 DEF NoSync
    <2>4. \A d \in Chains : Expected(d)' = Expected(d)
      BY <2>1 DEF Expected
    <2>. QED BY <1>0, <2>2, <2>3, <2>4 DEF Updating
  <1>6. ASSUME NEW c \in Chains, Volume(c) \/ Container(c) \/ Ima(c) PROVE Updating'
    BY <1>0, <1>6 DEF Volume, Container, Ima, At, Go, firewallVars, Updating, Expected
  <1>7. CASE Terminate
    BY <1>0, <1>7 DEF Terminate, CleanerAt, Removing, Go, Updating, Expected, NoSync
  <1>8. ASSUME NEW c \in Chains,
               Join(c) \/ Leave(c) \/ RotationEnds(c) \/ Exits(c) \/ Migrate(c)
        PROVE Updating'
    BY <1>1, <1>8 DEF Join, Leave, RotationEnds, Exits, Migrate, firewallVars
  <1>9. CASE \/ StartCleaner \/ NextChain \/ EndCleaner \/ Check \/ RemoveContainer
             \/ RemoveVolume \/ ReadRules \/ FlushRule \/ Flushed \/ RemoveIma \/ RemoveDir
             \/ MarkDeleted \/ RemovalFails \/ CleanerKilled \/ UNCHANGED vars
    BY <1>1, <1>9 DEF StartCleaner, NextChain, EndCleaner, Check, RemoveContainer, RemoveVolume,
                      ReadRules, FlushRule, Flushed, RemoveIma, RemoveDir, MarkDeleted,
                      RemovalFails, CleanerKilled, vars, firewallVars
  <1>. QED BY <1>2, <1>3, <1>4, <1>5, <1>6, <1>7, <1>8, <1>9 DEF Next, MonitorStep, Removal

-----------------------------------------------------------------------------
\* Only what answers for the rules of a slot, and the rules, can change Owned.
LEMMA OwnedKept ==
    ASSUME IInv, TypeOK', cl' = cl,
           \A d \in Chains : art'[d].conf = art[d].conf,
           leaked' = leaked, table' \subseteq table
    PROVE  Owned'
  <1>1. \A c \in Chains : Actual(c)' \subseteq Actual(c)
    BY DEF Actual
  <1>2. \A d, c \in Chains : Answers(d, c)' <=> Answers(d, c)
    BY DEF Answers
  <1>3. \A c \in Chains : Handed(c)' <=> Handed(c)
    BY <1>2 DEF Handed
  <1>4. cl.at \in Gripped => cl.chain \in Chains
    BY DEF IInv, Removing
  <1>5. Owned
    BY DEF IInv
  <1>. QED BY <1>1, <1>2, <1>3, <1>4, <1>5 DEF Owned, Gripped

\* Every step keeps somebody that answers for the rules of each slot.
LEMMA OwnedStep == IInv /\ TypeOK' /\ [Next]_vars => Owned'
  <1> SUFFICES ASSUME IInv, TypeOK', [Next]_vars PROVE Owned'
    OBVIOUS
  <1>0. /\ TypeOK /\ Tracked /\ Removing /\ Owned
        /\ art \in [Chains -> Artifacts] /\ mon \in [Chains -> Blocks] /\ cl \in Cleaners
    BY DEF IInv, TypeOK
  <1>1. ASSUME NEW c \in Chains, Join(c) \/ Leave(c) \/ RotationEnds(c) \/ GroupChanges(c)
        PROVE Owned'
    BY <1>1, OwnedKept DEF Join, Leave, RotationEnds, GroupChanges, firewallVars, envSame
  <1>2. ASSUME NEW c \in Chains, Volume(c) \/ Container(c) \/ Ima(c) \/ PassFails(c)
                                 \/ Exits(c) \/ Migrate(c)
        PROVE Owned'
    <2>1. \A d \in Chains : art'[d].conf = art[d].conf
      BY <1>0, <1>2 DEF Volume, Container, Ima, PassFails, Exits, Migrate, Sets, Artifacts
    <2>. QED BY <1>2, <2>1, OwnedKept
         DEF Volume, Container, Ima, PassFails, Exits, Migrate, firewallVars, envSame
  <1>3. ASSUME NEW c \in Chains, CheckRules(c) \/ SyncDone(c) PROVE Owned'
    BY <1>3, OwnedKept DEF CheckRules, StartSync, SyncDone, EndSync, firewallVars, envSame
  <1>4. ASSUME NEW c \in Chains, SyncStep(c) PROVE Owned'
    <2>1. CASE RemoveRule(c)
      BY <1>4, <2>1, OwnedKept DEF SyncStep, RemoveRule, envSame
    <2>2. CASE AddRule(c)
      \* c answers for what it adds, and is not the chain under removal.
      <3>1. mon[c] = "sync" /\ art[c].conf /\ UNCHANGED <<art, cl, leaked>>
        BY <1>0, <1>4 DEF SyncStep, At, Tracked, envSame
      <3>2. cl.at \in Gripped => cl.chain \in Chains \ {c}
        BY <1>0, <3>1 DEF Removing
      <3>3. PICK r : r \in sync[c].add /\ table' = table \cup {r}
        BY <2>2 DEF AddRule
      <3>4. r.slot = SlotOf[c]
        BY <1>0, <3>3 DEF IInv, Updating
      <3>5. \A d \in Chains : Actual(d)' \subseteq Actual(d) \/ SlotOf[d] = SlotOf[c]
        BY <3>3, <3>4 DEF Actual
      <3>6. \A d, e \in Chains : Answers(d, e)' <=> Answers(d, e)
        BY <3>1 DEF Answers
      <3>7. \A d \in Chains : SlotOf[d] = SlotOf[c] => Answers(c, d)
        BY <3>1 DEF Answers
      <3>8. \A d \in Chains : Handed(d)' <=> Handed(d)
        BY <3>1, <3>6 DEF Handed
      <3>9. \A d \in Chains \ {c} : SlotOf[d] = SlotOf[c] => Handed(d)
        BY <3>7 DEF Handed
      <3>. QED BY <1>0, <3>1, <3>2, <3>5, <3>6, <3>7, <3>8, <3>9 DEF Owned, Gripped
    <2>. QED BY <1>4, <2>1, <2>2 DEF SyncStep
  <1>5. ASSUME UNCHANGED <<table, leaked>>,
               \A d \in Chains : art[d].conf => art'[d].conf,
               cl'.at \notin {"container", "volume", "flush", "ima", "dir"}
        PROVE Owned'
    <2>1. \A d \in Chains : Actual(d)' = Actual(d)
      BY <1>5 DEF Actual
    <2>2. \A d, e \in Chains : Answers(d, e) => Answers(d, e)'
      BY <1>5 DEF Answers
    <2>. QED BY <1>0, <1>5, <2>1, <2>2 DEF Owned
  <1>6. ASSUME NEW c \in Chains, StartMonitor(c) PROVE Owned'
    <2>1. \A d \in Chains : art[d].conf => art'[d].conf
      BY <1>0, <1>6 DEF StartMonitor, Sets, Artifacts
    <2>. QED BY <1>5, <1>6, <2>1 DEF StartMonitor, envSame
  <1>7. CASE StartCleaner \/ NextChain \/ EndCleaner \/ RemovalFails \/ CleanerKilled
    <2>1. UNCHANGED <<table, leaked, art>>
      BY <1>7 DEF StartCleaner, NextChain, EndCleaner, RemovalFails, CleanerKilled, firewallVars
    <2>2. cl'.at \in {"off", "next", "terminate"}
      <3>1. CASE StartCleaner
        <4>1. \E S : cl' = [Off EXCEPT !.at = "next", !.todo = S]
          BY <3>1 DEF StartCleaner
        <4>. QED BY <4>1 DEF Off
      <3>2. CASE NextChain \/ RemovalFails
        BY <1>0, <3>2 DEF NextChain, RemovalFails, Cleaners
      <3>3. CASE EndCleaner \/ CleanerKilled
        BY <3>3 DEF EndCleaner, CleanerKilled, Off
      <3>. QED BY <1>7, <3>1, <3>2, <3>3
    <2>. QED BY <1>5, <2>1, <2>2
  <1>8. CASE Terminate \/ MarkDeleted
    <2>1. cl'.at \in {"check", "next"} /\ UNCHANGED <<table, leaked>>
      BY <1>0, <1>8 DEF Terminate, MarkDeleted, Cleaning, Cleaners, firewallVars
    <2>2. \A d \in Chains : art[d].conf => art'[d].conf
      BY <1>0, <1>8 DEF Terminate, MarkDeleted, Sets, Artifacts
    <2>. QED BY <1>5, <2>1, <2>2
  <1>9. ASSUME Check \/ RemoveContainer \/ RemoveVolume \/ ReadRules \/ FlushRule \/ Flushed
               \/ RemoveIma \/ RemoveDir
        PROVE Owned'
    <2> DEFINE c == cl.chain
    <2>1. c \in Chains /\ art[c] \in Artifacts
      BY <1>0, <1>9 DEF Removing, Gripped, Check, RemoveContainer, RemoveVolume, RemoveIma,
                        RemoveDir, ReadRules, FlushRule, Flushed, CleanerAt
    <2>2. cl'.chain = c
      BY <1>0, <1>9 DEF Check, RemoveContainer, RemoveVolume, RemoveIma, RemoveDir, ReadRules,
                        FlushRule, Flushed, Cleaning, Cleaners
    <2>3. ASSUME ~ RemoveDir PROVE \A d \in Chains : art'[d].conf = art[d].conf
      BY <1>0, <1>9, <2>1, <2>3
         DEF Check, RemoveContainer, RemoveVolume, RemoveIma, ReadRules, FlushRule, Flushed, Sets,
             Artifacts
    <2>4. ASSUME ~ Check PROVE leaked' = leaked
      BY <1>9, <2>4 DEF RemoveContainer, RemoveVolume, RemoveIma, RemoveDir, ReadRules, FlushRule,
                        Flushed
    <2>5. ASSUME ~ Check, ~ RemoveDir
          PROVE \A d, e \in Chains : Answers(d, e)' <=> Answers(d, e)
      BY <2>3, <2>4, <2>5 DEF Answers
    <2>6. ASSUME ~ FlushRule PROVE table' = table
      BY <1>9, <2>6 DEF Check, RemoveContainer, RemoveVolume, RemoveIma, RemoveDir, ReadRules,
                        Flushed, firewallVars
    <2>7. \A d \in Chains : Actual(d)' \subseteq Actual(d)
      BY <1>9, <2>6 DEF Actual, FlushRule
    <2>8. ASSUME ~ Check, ~ RemoveDir PROVE Handed(c)' <=> Handed(c)
      <3>1. leaked' = leaked
        BY <2>4, <2>8
      <3>2. \A e \in Chains : Handed(e)' <=> Handed(e)
        BY <2>5, <2>8, <3>1 DEF Handed
      <3>. QED BY <2>1, <2>2, <3>2 DEF Handed, Answers
    <2>9. CASE Check
      <3>1. table' = table /\ \A d \in Chains : Actual(d)' = Actual(d)
        BY <2>9 DEF Check, firewallVars, Actual
      <3>2. \A d \in Chains : art'[d].conf = art[d].conf
        BY <1>0, <2>1, <2>9 DEF Check, Sets, Artifacts
      <3>3. \A e \in Chains : Actual(e) # {} => \E d \in Chains : Answers(d, e)'
        <4> SUFFICES ASSUME NEW e \in Chains, Actual(e) # {}
                     PROVE  \E d \in Chains : Answers(d, e)'
          OBVIOUS
        <4>1. PICK d \in Chains : Answers(d, e)
          BY <1>0 DEF Owned
        <4>2. CASE art[d].conf \/ d \in leaked'
          BY <3>2, <4>1, <4>2 DEF Answers
        <4>3. CASE d \in leaked \ leaked'
          <5>1. art[c].conf /\ SlotOf[d] = SlotOf[c]
            BY <2>9, <4>3 DEF Check
          <5>. QED BY <2>1, <3>2, <4>1, <5>1 DEF Answers
        <4>. QED BY <4>1, <4>2, <4>3 DEF Answers
      <3>4. cl'.at = "container" /\ cl'.rules = (art[c].conf /\ RulesSynced(c))
        BY <1>0, <2>9 DEF Check, Cleaners
      <3>5. art[c].conf /\ ~ RulesSynced(c) => c \in leaked'
        BY <2>9 DEF Check
      <3>. QED BY <2>1, <2>2, <3>1, <3>2, <3>3, <3>4, <3>5 DEF Owned
    <2>10. CASE RemoveContainer
      <3>1. cl.at = "container" /\ cl'.at = "volume" /\ cl'.rules = cl.rules
        BY <1>0, <2>10 DEF RemoveContainer, CleanerAt, Cleaning, Cleaners
      <3>2. leaked' = leaked /\ art'[c].conf = art[c].conf
        BY <1>0, <2>1, <2>10 DEF RemoveContainer, Sets, Artifacts
      <3>3. \A d, e \in Chains : Answers(d, e)' <=> Answers(d, e)
        BY <2>5, <3>1, <2>10 DEF Check, RemoveDir, CleanerAt
      <3>. QED BY <1>0, <2>2, <2>7, <3>1, <3>2, <3>3 DEF Owned
    <2>11. CASE RemoveVolume
      <3>1. /\ cl.at = "volume" /\ cl'.at \in {"next", "rules", "ima"}
            /\ cl'.at = "ima" => ~ cl.rules
        BY <1>0, <2>11 DEF RemoveVolume, CleanerAt, Cleaning, Cleaners
      <3>2. ~ Check /\ ~ RemoveDir
        BY <3>1 DEF Check, RemoveDir, CleanerAt
      <3>3. \A d, e \in Chains : Answers(d, e)' <=> Answers(d, e)
        BY <2>5, <3>2
      <3>4. ASSUME cl'.at = "ima", Actual(c) # {} PROVE Handed(c)
        <4>1. ~ art[c].conf \/ c \in leaked
          BY <1>0, <3>1, <3>4 DEF Owned
        <4>2. PICK d \in Chains : Answers(d, c)
          BY <1>0, <2>1, <3>4 DEF Owned
        <4>. QED BY <2>1, <4>1, <4>2 DEF Handed, Answers
      <3>. QED BY <1>0, <2>1, <2>2, <2>7, <2>8, <3>1, <3>2, <3>3, <3>4 DEF Owned
    <2>12. CASE ReadRules
      <3>1. cl'.at = "flush" /\ cl'.del = Actual(c) /\ cl.at = "rules"
        BY <1>0, <2>12 DEF ReadRules, CleanerAt, Cleaners
      <3>2. \A d, e \in Chains : Answers(d, e)' <=> Answers(d, e)
        BY <2>5, <3>1 DEF Check, RemoveDir, CleanerAt
      <3>. QED BY <1>0, <2>1, <2>2, <2>7, <3>1, <3>2 DEF Owned
    <2>13. CASE FlushRule
      <3>1. PICK r \in cl.del : table' = table \ {r} /\ cl' = [cl EXCEPT !.del = @ \ {r}]
        BY <2>13 DEF FlushRule
      <3>2. cl.at = "flush" /\ cl'.at = "flush" /\ cl'.del = cl.del \ {r}
        BY <1>0, <2>13, <3>1 DEF FlushRule, CleanerAt, Cleaners
      <3>3. ~ Check /\ ~ RemoveDir
        BY <3>2 DEF Check, RemoveDir, CleanerAt
      <3>4. \A d, e \in Chains : Answers(d, e)' <=> Answers(d, e)
        BY <2>5, <3>3
      <3>5. Actual(c)' = Actual(c) \ {r}
        BY <2>2, <3>1 DEF Actual
      <3>. QED BY <1>0, <2>2, <2>7, <2>8, <3>2, <3>3, <3>4, <3>5 DEF Owned
    <2>14. CASE Flushed \/ RemoveIma
      <3>1. /\ cl'.at \in {"ima", "dir"} /\ cl.at \in {"flush", "ima"}
            /\ cl.at = "flush" => cl.del = {}
        BY <1>0, <2>14 DEF Flushed, RemoveIma, CleanerAt, Cleaning, Cleaners
      <3>2. ~ Check /\ ~ RemoveDir
        BY <3>1 DEF Check, RemoveDir, CleanerAt
      <3>3. \A d, e \in Chains : Answers(d, e)' <=> Answers(d, e)
        BY <2>5, <3>2
      <3>4. Actual(c) = {} \/ Handed(c)
        BY <1>0, <3>1 DEF Owned
      <3>. QED BY <1>0, <2>1, <2>2, <2>7, <2>8, <3>1, <3>2, <3>3, <3>4 DEF Owned
    <2>15. CASE RemoveDir
      <3>1. cl.at = "dir" /\ cl'.at = "record" /\ leaked' = leaked /\ table' = table
        BY <1>0, <2>15 DEF RemoveDir, CleanerAt, Cleaning, Cleaners, firewallVars
      <3>2. \A d \in Chains \ {c} : art'[d] = art[d]
        BY <1>0, <2>15 DEF RemoveDir, Sets
      <3>3. \A d \in Chains : d # c \/ d \in leaked =>
               \A e \in Chains : Answers(d, e) => Answers(d, e)'
        BY <3>1, <3>2 DEF Answers
      <3>4. \A e \in Chains : Actual(e)' = Actual(e)
        BY <3>1 DEF Actual
      <3>5. ASSUME NEW e \in Chains, Actual(e) # {} PROVE \E d \in Chains : Answers(d, e)'
        <4>1. CASE SlotOf[e] = SlotOf[c]
          <5>1. Actual(c) # {}
            BY <3>5, <4>1 DEF Actual
          <5>2. PICK d \in Chains : Answers(d, c) /\ (d # c \/ d \in leaked)
            BY <1>0, <3>1, <5>1 DEF Owned, Handed
          <5>3. Answers(d, e)
            BY <4>1, <5>2 DEF Answers
          <5>. QED BY <3>3, <5>2, <5>3
        <4>2. CASE SlotOf[e] # SlotOf[c]
          <5>1. PICK d \in Chains : Answers(d, e)
            BY <1>0, <3>5 DEF Owned
          <5>2. d # c
            BY <4>2, <5>1 DEF Answers
          <5>. QED BY <3>3, <5>1, <5>2
        <4>. QED BY <4>1, <4>2
      <3>. QED BY <3>1, <3>4, <3>5 DEF Owned
    <2>. QED BY <1>9, <2>9, <2>10, <2>11, <2>12, <2>13, <2>14, <2>15
  <1>10. CASE UNCHANGED vars
    BY <1>10, OwnedKept DEF vars
  <1>. QED BY <1>1, <1>2, <1>3, <1>4, <1>6, <1>7, <1>8, <1>9, <1>10 DEF Next, MonitorStep, Removal

-----------------------------------------------------------------------------
\* The invariant holds in every behaviour: what there is to remove has a config
\* and is found by it, for every number of chains, slots and sources.
THEOREM Invariance == Spec => []IInv
  <1>1. IInv /\ [Next]_vars => IInv'
    BY TypeStep, TrackedStep, RemovingStep, UpdatingStep, OwnedStep DEF IInv
  <1>. QED BY <1>1, InitIInv, PTL DEF Spec

\* The types are right, and rules of other programs are never touched.
THEOREM TypeCorrect == Spec => []TypeOK
  <1>1. IInv => TypeOK
    BY DEF IInv
  <1>. QED BY <1>1, Invariance, PTL

\* A chain that is found no more left neither volume nor IMA container behind.
THEOREM ForgottenIsGoneAlways == Spec => []ForgottenIsGone
  <1>1. IInv => ForgottenIsGone
    BY DEF IInv, TypeOK, Tracked, ForgottenIsGone, OnNode
  <1>. QED BY <1>1, Invariance, PTL

\* The ports of a slot whose chains are gone are closed, but for rules that were
\* found out of sync.
THEOREM PortsClosedAlways == Spec => []PortsClosed
  <1>1. IInv => PortsClosed
    <2> SUFFICES ASSUME IInv, NEW c \in Chains, Actual(c) # {},
                        \A d \in Chains : SlotOf[d] = SlotOf[c] =>
                            Out(d) /\ d \notin OnNode /\ d \notin leaked /\ mon[d] = "dead"
                 PROVE  FALSE
      BY DEF PortsClosed
    <2>1. PICK d \in Chains : Answers(d, c)
      BY DEF IInv, Owned
    <2>2. art[d].conf /\ d \notin OnNode
      BY <2>1 DEF Answers
    <2>. QED BY <2>2 DEF IInv, Tracked, OnNode
  <1>. QED BY <1>1, Invariance, PTL

\* While a monitor updates its rules no source that stays is shut out.
THEOREM UpdateKeepsOpenAlways == Spec => UpdateKeepsOpen
  <1>1. ASSUME IInv, [Next]_vars, NEW c \in Chains, sync'[c] # sync[c]
        PROVE Actual(c) \cap Expected(c) \subseteq table'
    <2>0. sync \in [Chains -> Syncs] /\ Actual(c) \subseteq table
      BY <1>1 DEF IInv, TypeOK, FirewallTypeOK, Actual
    <2>1. ASSUME NEW d \in Chains, SyncStep(d) PROVE Actual(c) \cap Expected(c) \subseteq table'
      <3>1. CASE AddRule(d)
        BY <2>0, <3>1 DEF AddRule
      <3>2. CASE RemoveRule(d)
        <4>1. d = c
          BY <1>1, <2>0, <3>2 DEF RemoveRule
        <4>2. sync[c].del \cap Expected(c) = {}
          BY <1>1 DEF IInv, Updating
        <4>. QED BY <2>0, <3>2, <4>1, <4>2 DEF RemoveRule
      <3>. QED BY <2>1, <3>1, <3>2 DEF SyncStep
    <2>2. CASE table' = table
      BY <2>0, <2>2
    <2>3. CASE FlushRule
      BY <1>1, <2>3 DEF FlushRule
    <2>4. ASSUME NEW d \in Chains,
                 \/ Join(d) \/ Leave(d) \/ RotationEnds(d) \/ StartMonitor(d) \/ GroupChanges(d)
                 \/ CheckRules(d) \/ SyncDone(d) \/ Volume(d) \/ Container(d) \/ Ima(d)
                 \/ PassFails(d) \/ Exits(d) \/ Migrate(d)
          PROVE table' = table
      BY <2>4 DEF Join, Leave, RotationEnds, StartMonitor, GroupChanges, CheckRules, StartSync,
                  SyncDone, EndSync, Volume, Container, Ima, PassFails, Exits, Migrate,
                  firewallVars
    <2>5. ASSUME StartCleaner \/ NextChain \/ EndCleaner \/ Terminate \/ Check \/ RemoveContainer
                 \/ RemoveVolume \/ ReadRules \/ Flushed \/ RemoveIma \/ RemoveDir \/ MarkDeleted
                 \/ RemovalFails \/ CleanerKilled \/ UNCHANGED vars
          PROVE table' = table
      BY <2>5 DEF StartCleaner, NextChain, EndCleaner, Terminate, Check, RemoveContainer,
                  RemoveVolume, ReadRules, Flushed, RemoveIma, RemoveDir, MarkDeleted,
                  RemovalFails, CleanerKilled, vars, firewallVars
    <2>. QED BY <1>1, <2>1, <2>2, <2>3, <2>4, <2>5 DEF Next, MonitorStep, Removal
  <1>2. IInv /\ [Next]_vars =>
           [\A c \in Chains : sync'[c] # sync[c] =>
               Actual(c) \cap Expected(c) \subseteq table']_vars
    BY <1>1
  <1>. QED BY <1>2, Invariance, PTL DEF Spec, UpdateKeepsOpen
=============================================================================
