----------------------------- MODULE Ima_proofs -----------------------------
(* skaled and IMA run with one node group, and a chain that has migrated never *)
(* goes back, wherever the passes are cut short.                               *)
EXTENDS Ima, TLAPS

\* The steps that replace the config belong to an update, which finds skaled gone
\* by its schedule, and remove IMA before anything is started again.
Updating ==
    /\ s.at \in {"update", "noexit", "rmima"} => skaled.st = "exited" /\ s.pass = "update"
    /\ s.at \in {"rmskaled", "start"} /\ s.pass = "update" => ima.st = "none"
    /\ s.at \in {"rmskaled", "start"} => s.pass \in {"update", "recreate"}

\* While skaled has not exited by its schedule, and in the pass that started before
\* it did, both containers are of the group of the config file.
OfFile ==
    ~ swapped =>
        /\ skaled.st = "running" => skaled.grp = file
        /\ ima.st = "running" /\ (skaled.st # "exited" \/ s.pass = "recreate") => ima.grp = file

\* What is new was decided after the migration time.
Migrated ==
    /\ "new" \in {ima.image, ima.frame} => After
    /\ s.at \in {"remove", "run"} =>
          /\ "new" \in {s.image, s.frame} => After
          /\ ima.image = "new" => s.image = "new"
          /\ ima.frame = "new" => s.frame = "new"

IInv == TypeOK /\ Updating /\ OfFile /\ Migrated

-----------------------------------------------------------------------------
\* The record of an event that happens.
LEMMA SpendTyped ==
    ASSUME TypeOK, NEW e \in Events, Spend(e)
    PROVE  left' \in [Events -> Nat]
  <1>1. left[e] \in Nat /\ left[e] > 0 /\ left[e] - 1 \in Nat
    BY DEF TypeOK, Spend
  <1>. QED BY <1>1 DEF TypeOK, Spend

\* Passes that go on, and those that end.
LEMMA GotoTyped ==
    ASSUME TypeOK, NEW statement \in Statements, Goto(statement)
    PROVE  /\ s' \in Threads /\ s'.at = statement /\ s'.pass = s.pass
           /\ s'.exists = s.exists /\ s'.image = s.image /\ s'.frame = s.frame
  BY DEF TypeOK, Goto, Threads

\* Between two passes.
LEMMA NoPassTyped ==
    /\ NoPass \in Threads /\ NoPass.pass = "none" /\ NoPass.at = "begin"
  BY DEF NoPass, Threads, Passes, Statements, Epochs

\* A pass that enters a statement.
LEMMA EnterTyped ==
    ASSUME NEW pass \in Passes, NEW statement \in Statements, Enter(pass, statement)
    PROVE  s' \in Threads /\ s'.pass = pass /\ s'.at = statement
  BY DEF Enter, NoPass, Threads, Epochs

\* What follows the block ima_container.
LEMMA BlockDoneTyped ==
    ASSUME TypeOK, BlockDone
    PROVE  s' \in Threads /\ s'.at \in {"begin", "schedule"} /\ s'.pass \in {"regular", "none"}
  <1>1. CASE s.pass = "regular"
    BY <1>1, GotoTyped DEF BlockDone, Statements
  <1>2. CASE s.pass # "regular"
    BY <1>2, NoPassTyped DEF BlockDone, Ends
  <1>. QED BY <1>1, <1>2

\* A chain with its first config satisfies the invariant.
LEMMA InitInvariant == Init => IInv
  <1>. SUFFICES ASSUME Init PROVE IInv
    OBVIOUS
  <1>1. TypeOK
    BY ImaAssumption, NoPassTyped DEF Init, TypeOK, Skaleds, Containers, Epochs
  <1>2. Updating /\ OfFile /\ Migrated
    BY NoPassTyped DEF Init, Updating, OfFile, Migrated
  <1>. QED BY <1>1, <1>2 DEF IInv

-----------------------------------------------------------------------------
(* The passes. *)

\* Steps that replace neither the config nor a container; a pass that is not at
\* one of the statements the invariant speaks of.
LEMMA PassMoves ==
    ASSUME IInv, now' = now, file' = file, skaled' = skaled, ima' = ima, swapped' = swapped,
           s'.at \notin {"update", "noexit", "rmima", "rmskaled", "start", "remove", "run"},
           s'.pass = "recreate" => s.pass = "recreate"
    PROVE  Updating' /\ OfFile' /\ Migrated'
  BY DEF IInv, Updating, OfFile, Migrated, After

\* A pass that starts has found skaled as its statements need it.
LEMMA StartKeeps ==
    ASSUME IInv, StartPass \/ StartRecreate
    PROVE  IInv'
  <1>0. TypeOK /\ Updating /\ OfFile /\ Migrated
    BY DEF IInv
  <1>1. CASE StartPass
    <2>1. /\ s' \in Threads
          /\ \/ skaled.st = "exited" /\ s'.pass = "update" /\ s'.at = "update"
             \/ s'.pass = "regular" /\ s'.at = "container"
      BY <1>1, EnterTyped DEF StartPass, Passes, Statements
    <2>2. TypeOK'
      BY <1>0, <1>1, <2>1 DEF StartPass, TypeOK, envVars
    <2>. QED BY <1>0, <1>1, <2>1, <2>2
         DEF StartPass, IInv, Updating, OfFile, Migrated, After, envVars
  <1>2. CASE StartRecreate
    <2>1. s' \in Threads /\ s'.pass = "recreate" /\ s'.at = "rmskaled"
      BY <1>2, EnterTyped DEF StartRecreate, Passes, Statements
    <2>2. TypeOK'
      BY <1>0, <1>2, <2>1, SpendTyped DEF StartRecreate, TypeOK, Events
    <2>. QED BY <1>0, <1>2, <2>1, <2>2
         DEF StartRecreate, IInv, Updating, OfFile, Migrated, After
  <1>. QED BY <1>1, <1>2

\* skaled is started from the config file, and IMA is gone when that has changed.
LEMMA SkaledKeeps ==
    ASSUME IInv, MonitorSkaled \/ RemoveSkaled \/ StartSkaled
    PROVE  IInv'
  <1>0. TypeOK /\ Updating /\ OfFile /\ Migrated
    BY DEF IInv
  <1>1. CASE MonitorSkaled
    <2>1. s' \in Threads /\ s'.at = "check" /\ s'.pass = s.pass
      BY <1>0, <1>1, GotoTyped DEF MonitorSkaled, Statements
    <2>2. TypeOK'
      BY <1>0, <1>1, <2>1 DEF MonitorSkaled, TypeOK, Skaleds, envVars
    <2>3. Updating' /\ Migrated'
      BY <1>0, <1>1, <2>1 DEF MonitorSkaled, Updating, Migrated, After, envVars
    <2>4. OfFile'
      BY <1>0, <1>1, <2>1 DEF MonitorSkaled, OfFile, TypeOK, Skaleds
    <2>. QED BY <2>2, <2>3, <2>4 DEF IInv
  <1>2. CASE RemoveSkaled
    <2>1. s' \in Threads /\ s'.at = "start" /\ s'.pass = s.pass
      BY <1>0, <1>2, GotoTyped DEF RemoveSkaled, Statements
    <2>2. TypeOK'
      BY <1>0, <1>2, <2>1 DEF RemoveSkaled, TypeOK, Skaleds, envVars
    <2>3. Updating' /\ Migrated'
      BY <1>0, <1>2, <2>1 DEF RemoveSkaled, At, Updating, Migrated, After, envVars
    <2>4. OfFile'
      BY <1>0, <1>2, <2>1 DEF RemoveSkaled, At, Updating, OfFile, TypeOK, Skaleds
    <2>. QED BY <2>2, <2>3, <2>4 DEF IInv
  <1>3. CASE StartSkaled
    <2>1. s' \in Threads /\ s'.at \in {"check", "begin"} /\ s'.pass \in {"update", "none"}
      BY <1>0, <1>3, GotoTyped, NoPassTyped DEF StartSkaled, Statements, Ends
    <2>2. TypeOK'
      BY <1>0, <1>3, <2>1 DEF StartSkaled, TypeOK, Skaleds, envVars
    <2>3. Updating' /\ Migrated'
      BY <1>0, <1>3, <2>1 DEF StartSkaled, Updating, Migrated, After, envVars
    <2>4. OfFile'
      BY <1>0, <1>3, <2>1 DEF StartSkaled, At, Updating, OfFile, TypeOK, Skaleds
    <2>. QED BY <2>2, <2>3, <2>4 DEF IInv
  <1>. QED BY <1>1, <1>2, <1>3

\* The config is replaced while skaled is down, and IMA removed next.
LEMMA UpdateKeeps ==
    ASSUME IInv, UpdateConfig \/ ResetExitSchedule \/ RemoveIma
    PROVE  IInv'
  <1>0. TypeOK /\ Updating /\ OfFile /\ Migrated
    BY DEF IInv
  <1>1. s' \in Threads /\ s'.at \in {"noexit", "rmima", "rmskaled"} /\ s'.pass = s.pass
    BY <1>0, GotoTyped DEF UpdateConfig, ResetExitSchedule, RemoveIma, Statements
  <1>2. s.at \in {"update", "noexit", "rmima"} /\ skaled.st = "exited" /\ s.pass = "update"
    BY <1>0 DEF UpdateConfig, ResetExitSchedule, RemoveIma, At, Updating
  <1>3. CASE UpdateConfig \/ ResetExitSchedule
    <2>1. TypeOK'
      BY <1>0, <1>1, <1>3 DEF UpdateConfig, ResetExitSchedule, TypeOK, envVars
    <2>2. s'.at # "rmskaled"
      BY <1>0, <1>3, GotoTyped DEF UpdateConfig, ResetExitSchedule, Statements
    <2>. QED BY <1>0, <1>1, <1>2, <1>3, <2>1, <2>2
         DEF UpdateConfig, ResetExitSchedule, IInv, Updating, OfFile, Migrated, After, envVars
  <1>4. CASE RemoveIma
    <2>1. /\ s'.at = "rmskaled" /\ ima'.st = "none" /\ ima' \in Containers
          /\ ima'.image = ima.image /\ ima'.frame = ima.frame
      BY <1>0, <1>4, GotoTyped DEF RemoveIma, TypeOK, Containers, Statements
    <2>2. TypeOK'
      BY <1>0, <1>1, <1>4, <2>1 DEF RemoveIma, TypeOK, envVars
    <2>. QED BY <1>0, <1>1, <1>2, <1>4, <2>1, <2>2
         DEF RemoveIma, IInv, Updating, OfFile, Migrated, After, envVars
  <1>. QED BY <1>3, <1>4

\* The block ima_container.
LEMMA BlockKeeps ==
    ASSUME IInv, CheckIma \/ PullImage \/ LookForContainer \/ Decide \/ RemoveOldIma \/ RunIma
                 \/ ScheduleExit
    PROVE  IInv'
  <1>0. TypeOK /\ Updating /\ OfFile /\ Migrated
    BY DEF IInv
  <1>1. CASE CheckIma \/ PullImage \/ ScheduleExit
    <2>1. /\ s' \in Threads /\ s'.at \in {"begin", "schedule", "pull", "exists"}
          /\ s'.pass = "recreate" => s.pass = "recreate"
      BY <1>0, <1>1, BlockDoneTyped, GotoTyped, NoPassTyped
         DEF CheckIma, PullImage, ScheduleExit, Statements, Ends
    <2>2. TypeOK'
      BY <1>0, <1>1, <2>1 DEF CheckIma, PullImage, ScheduleExit, TypeOK, envVars
    <2>. QED BY <1>1, <2>1, <2>2, PassMoves DEF CheckIma, PullImage, ScheduleExit, IInv, envVars
  <1>2. CASE LookForContainer
    <2>1. /\ s' \in Threads /\ s'.at \in {"begin", "schedule", "decide"}
          /\ s'.pass = "recreate" => s.pass = "recreate"
      BY <1>0, <1>2, BlockDoneTyped DEF LookForContainer, Statements, TypeOK, Threads
    <2>2. TypeOK'
      BY <1>0, <1>2, <2>1 DEF LookForContainer, TypeOK, envVars
    <2>. QED BY <1>2, <2>1, <2>2, PassMoves DEF LookForContainer, IInv, envVars
  <1>3. CASE Decide
    <2>1. \/ BlockDone
          \/ \E statement \in {"run", "remove"} :
                s' = [s EXCEPT !.at = statement, !.image = Epoch, !.frame = Epoch]
      BY <1>3 DEF Decide
    <2>2. /\ s' \in Threads
          /\ \/ s'.at \in {"begin", "schedule"} /\ s'.pass \in {"regular", "none"}
             \/ /\ s'.at \in {"run", "remove"} /\ s'.pass = s.pass
                /\ s'.image = Epoch /\ s'.frame = Epoch
      BY <1>0, <2>1, BlockDoneTyped DEF TypeOK, Threads, Statements, Epoch, Epochs
    <2>3. TypeOK'
      BY <1>0, <1>3, <2>2 DEF Decide, TypeOK, envVars
    <2>4. Updating' /\ OfFile'
      BY <1>0, <1>3, <2>2 DEF Decide, Updating, OfFile, envVars
    <2>5. Migrated'
      BY <1>0, <1>3, <2>2 DEF Decide, Migrated, After, Epoch, envVars
    <2>. QED BY <2>3, <2>4, <2>5 DEF IInv
  <1>4. CASE RemoveOldIma
    <2>1. /\ s' \in Threads /\ s'.at = "run" /\ s'.pass = s.pass
          /\ s'.image = s.image /\ s'.frame = s.frame
      BY <1>0, <1>4, GotoTyped DEF RemoveOldIma, Statements
    <2>2. /\ ima'.st = "none" /\ ima' \in Containers
          /\ ima'.image = ima.image /\ ima'.frame = ima.frame
      BY <1>0, <1>4 DEF RemoveOldIma, TypeOK, Containers
    <2>3. TypeOK'
      BY <1>0, <1>4, <2>1, <2>2 DEF RemoveOldIma, TypeOK, envVars
    <2>. QED BY <1>0, <1>4, <2>1, <2>2, <2>3
         DEF RemoveOldIma, At, IInv, Updating, OfFile, Migrated, After, envVars
  <1>5. CASE RunIma
    <2>1. /\ s' \in Threads /\ s'.at \in {"begin", "schedule"} /\ s'.pass \in {"regular", "none"}
      BY <1>0, <1>5, BlockDoneTyped DEF RunIma
    <2>2. /\ ima' \in Containers /\ ima'.grp = file
          /\ ima'.image = s.image /\ ima'.frame = s.frame
      BY <1>0, <1>5 DEF RunIma, TypeOK, Containers, Threads, Epochs
    <2>3. TypeOK'
      BY <1>0, <1>5, <2>1, <2>2 DEF RunIma, TypeOK, envVars
    <2>. QED BY <1>0, <1>5, <2>1, <2>2, <2>3
         DEF RunIma, At, IInv, Updating, OfFile, Migrated, After, envVars
  <1>. QED BY <1>1, <1>2, <1>3, <1>4, <1>5

-----------------------------------------------------------------------------
(* Outside. *)

\* Failures, kills, the contracts, the containers and time keep the invariant.
LEMMA OutsideKeeps ==
    ASSUME IInv,
           PassFails \/ Link \/ Rotate \/ Regenerate \/ SkaledExits \/ SkaledDown \/ ImaExits \/ Tick
    PROVE  IInv'
  <1>0. TypeOK /\ Updating /\ OfFile /\ Migrated
    BY DEF IInv
  <1>1. CASE PassFails
    <2>1. TypeOK'
      BY <1>0, <1>1, NoPassTyped, SpendTyped DEF PassFails, Ends, TypeOK, Events
    <2>. QED BY <1>1, <2>1, NoPassTyped, PassMoves DEF PassFails, Ends, IInv
  <1>2. CASE Link
    BY <1>0, <1>2 DEF Link, IInv, TypeOK, Updating, OfFile, Migrated, After
  <1>3. CASE Rotate
    <2>1. TypeOK'
      BY <1>0, <1>3, SpendTyped DEF Rotate, TypeOK, Events
    <2>. QED BY <1>0, <1>3, <2>1 DEF Rotate, IInv, Updating, OfFile, Migrated, After
  <1>4. CASE Regenerate
    <2>1. TypeOK'
      BY <1>0, <1>4, SpendTyped, NoPassTyped DEF Regenerate, Ends, TypeOK, Events
    <2>. QED BY <1>0, <1>4, <2>1, NoPassTyped
         DEF Regenerate, Ends, IInv, Updating, OfFile, Migrated, After
  <1>5. CASE SkaledExits
    BY <1>0, <1>5 DEF SkaledExits, IInv, TypeOK, Skaleds, Updating, OfFile, Migrated, After, envVars
  <1>6. CASE SkaledDown
    <2>1. TypeOK'
      BY <1>0, <1>6, SpendTyped DEF SkaledDown, TypeOK, Skaleds, Events
    <2>. QED BY <1>0, <1>6, <2>1
         DEF SkaledDown, IInv, TypeOK, Skaleds, Updating, OfFile, Migrated, After
  <1>7. CASE ImaExits
    <2>1. TypeOK'
      BY <1>0, <1>7, SpendTyped DEF ImaExits, TypeOK, Containers, Events
    <2>. QED BY <1>0, <1>7, <2>1
         DEF ImaExits, IInv, TypeOK, Containers, Updating, OfFile, Migrated, After
  <1>8. CASE Tick
    <2>1. After => After'
      BY <1>0, <1>8, ImaAssumption DEF Tick, TypeOK, After
    <2>. QED BY <1>0, <1>8, <2>1 DEF Tick, IInv, TypeOK, Updating, OfFile, Migrated
  <1>. QED BY <1>1, <1>2, <1>3, <1>4, <1>5, <1>6, <1>7, <1>8

\* Every step keeps the invariant.
LEMMA NextKeeps ==
    ASSUME IInv, [Next]_vars
    PROVE  IInv'
  <1>1. CASE UNCHANGED vars
    BY <1>1 DEF vars, envVars, IInv, TypeOK, Updating, OfFile, Migrated, After
  <1>2. CASE Next
    BY <1>2, StartKeeps, SkaledKeeps, UpdateKeeps, BlockKeeps, OutsideKeeps DEF Next, PassStep
  <1>. QED BY <1>1, <1>2

-----------------------------------------------------------------------------
(* Theorems. *)

\* The inductive invariant of the two containers.
THEOREM Invariance == Spec => []IInv
  BY InitInvariant, NextKeeps, PTL DEF Spec

\* All variables keep their types: containers, passes and the files between them.
THEOREM TypeCorrect == Spec => []TypeOK
  <1>1. IInv => TypeOK
    BY DEF IInv
  <1>. QED BY <1>1, Invariance, PTL

\* An IMA container never signs for another node group than that of its skaled,
\* wherever an update of the config is cut short (action.py:476-496).
THEOREM SameGroupAlways == Spec => []SameGroup
  <1>1. IInv => SameGroup
    BY DEF IInv, OfFile, SameGroup
  <1>. QED BY <1>1, Invariance, PTL

\* No start of a container goes back behind the migration (containers.py:119-175).
THEOREM NeverBackAlways == Spec => NeverBack
  <1>. DEFINE Forward == /\ ima.image = "new" => ima'.image = "new"
                         /\ ima.frame = "new" => ima'.frame = "new"
  <1>1. ASSUME IInv, Next
        PROVE  Forward
    <2>1. CASE RunIma
      BY <1>1, <2>1 DEF RunIma, At, IInv, Migrated
    <2>2. CASE RemoveIma \/ RemoveOldIma \/ ImaExits
      BY <1>1, <2>2 DEF RemoveIma, RemoveOldIma, ImaExits, IInv, TypeOK, Containers
    <2>3. CASE ima' = ima
      BY <2>3
    <2>4. CASE \/ StartPass \/ MonitorSkaled \/ UpdateConfig \/ ResetExitSchedule
               \/ RemoveSkaled \/ StartSkaled \/ ScheduleExit \/ CheckIma \/ PullImage
               \/ LookForContainer \/ Decide
      BY <2>3, <2>4 DEF StartPass, MonitorSkaled, UpdateConfig, ResetExitSchedule, RemoveSkaled,
         StartSkaled, ScheduleExit, CheckIma, PullImage, LookForContainer, Decide
    <2>5. CASE \/ PassFails \/ StartRecreate \/ Link \/ Rotate \/ Regenerate \/ SkaledExits
               \/ SkaledDown \/ Tick
      BY <2>3, <2>5 DEF PassFails, StartRecreate, Link, Rotate, Regenerate, SkaledExits,
         SkaledDown, Tick
    <2>. QED BY <1>1, <2>1, <2>2, <2>4, <2>5 DEF Next, PassStep
  <1>2. IInv /\ [Next]_vars => [Forward]_vars
    BY <1>1
  <1>. QED BY <1>2, Invariance, PTL DEF Spec, NeverBack
=============================================================================
