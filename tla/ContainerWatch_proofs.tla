------------------------ MODULE ContainerWatch_proofs ------------------------
(* A container that no check finds running is restarted a bounded number of  *)
(* times, and a new skaled is spared the RPC restart, for every limit and    *)
(* every budget.                                                             *)
EXTENDS ContainerWatch, TLAPS

\* The resets that Finish has done for a first run.
Lifts == FirstRuns - (IF first THEN 1 ELSE 0)

\* The starts whose updates of the record were lost.
Cuts == Budget["cut"] - left["cut"]

\* The counter lags behind the history by the resets of first runs and by the
\* starts that were cut short; a reset of another kind happens only where the
\* next start of the container ends the history.
Counted ==
    Running \/ (cont = "failed" /\ status \notin {"exit", "repair"}) =>
        seen.restarts <= rec.restarts + MaxRestart * Lifts + Cuts

\* failed_rpc_count of a running skaled stems from this start.
Missed ==
    Running /\ ~ cut => rec.fails <= seen.misses \/ seen.misses > MaxFailed

\* Only the monitor starts the container.
WatchedIsDown ==
    /\ pc = "watch" => ~ Running
    /\ pc = "rewatch" => cont = "none"

LeftBounded == \A e \in Events : left[e] <= Budget[e]

Typed == TypeOK /\ LeftBounded
IInv  == Typed /\ WatchedIsDown /\ Counted /\ Missed /\ FailedRestartsBounded

-----------------------------------------------------------------------------
\* The allowance of the bound is a natural number that never shrinks.
Allowed ==
    /\ Lifts \in Nat /\ FirstRuns \in Nat /\ Lifts <= FirstRuns
    /\ Cuts \in Nat
    /\ MaxRestart * Lifts \in Nat
    /\ MaxRestart * FirstRuns \in Nat
    /\ MaxRestart * Lifts <= MaxRestart * FirstRuns
    /\ MaxRestart * (1 + FirstRuns) = MaxRestart + MaxRestart * FirstRuns

\* It is, in every state whose budgets are not exceeded.
LEMMA Allowance == Typed => Allowed
  <1> SUFFICES ASSUME Typed PROVE Allowed
    OBVIOUS
  <1>1. /\ left["admin"] \in Nat /\ left["admin"] <= Budget["admin"]
        /\ left["cut"] \in Nat /\ left["cut"] <= Budget["cut"]
        /\ Budget["admin"] \in Nat /\ Budget["cut"] \in Nat
    BY WatchAssumption DEF Typed, TypeOK, LeftBounded, Events
  <1>2. Lifts \in Nat /\ FirstRuns \in Nat /\ Lifts <= FirstRuns /\ Cuts \in Nat
    BY <1>1 DEF Lifts, FirstRuns, Cuts, Typed, TypeOK
  <1>3. MaxRestart * Lifts \in Nat /\ MaxRestart * FirstRuns \in Nat
    BY <1>2, WatchAssumption
  <1>4. PICK d \in Nat : FirstRuns = Lifts + d
    BY <1>2
  <1>5. MaxRestart * FirstRuns = MaxRestart * Lifts + MaxRestart * d /\ MaxRestart * d \in Nat
    BY <1>2, <1>4, WatchAssumption
  <1>6. MaxRestart * (1 + FirstRuns) = MaxRestart + MaxRestart * FirstRuns
    BY <1>2, WatchAssumption
  <1>. QED BY <1>2, <1>3, <1>5, <1>6, WatchAssumption DEF Allowed

\* The initial state satisfies the invariant.
LEMMA InitIInv == Init => IInv
  <1> SUFFICES ASSUME Init PROVE IInv
    OBVIOUS
  <1>1. Typed
    <2>1. rec \in Records /\ rec.restarts <= MaxRestart /\ rec.fails <= MaxFailed + 1
      BY WatchAssumption DEF Init, Zero, Records
    <2>2. seen \in Histories
      BY DEF Init, Histories
    <2>3. LeftBounded /\ left \in [Events -> Nat]
      <3>1. \A e \in Events : Budget[e] \in Nat
        BY WatchAssumption
      <3>. QED BY <3>1, WatchAssumption DEF Init, LeftBounded
    <2>. QED BY <2>1, <2>2, <2>3 DEF Init, Typed, TypeOK, Statuses, Steps
  <1>2. Counted /\ Missed /\ WatchedIsDown
    BY DEF Init, Counted, Missed, WatchedIsDown, Running
  <1>3. FailedRestartsBounded
    <2>1. seen.restarts = 0 /\ Budget["cut"] - left["cut"] = 0
      BY WatchAssumption DEF Init, Events
    <2>. QED BY <1>1, <2>1, Allowance, WatchAssumption DEF Allowed, FailedRestartsBounded
  <1>. QED BY <1>1, <1>2, <1>3 DEF IInv

-----------------------------------------------------------------------------
\* What is left of a budget is a number that no budget exceeds.
LEMMA SpendTyped ==
    ASSUME Typed, NEW e \in Events, Spend(e)
    PROVE  /\ left' \in [Events -> Nat] /\ LeftBounded'
           /\ left'[e] = left[e] - 1
           /\ \A f \in Events \ {e} : left'[f] = left[f]
  <1>1. left \in [Events -> Nat] /\ left[e] \in Nat /\ left[e] > 0
        /\ left' = [left EXCEPT ![e] = left[e] - 1]
    BY DEF Typed, TypeOK, Spend
  <1>2. left[e] - 1 \in Nat /\ left[e] - 1 <= left[e]
    BY <1>1
  <1>3. left' \in [Events -> Nat] /\ left'[e] = left[e] - 1
        /\ \A f \in Events \ {e} : left'[f] = left[f]
    BY <1>1, <1>2
  <1>4. \A f \in Events : Budget[f] \in Nat /\ left[f] \in Nat /\ left[f] <= Budget[f]
    BY <1>1, WatchAssumption DEF Typed, LeftBounded
  <1>5. LeftBounded'
    <2> SUFFICES ASSUME NEW f \in Events PROVE left'[f] <= Budget[f]
      BY DEF LeftBounded
    <2>. QED BY <1>1, <1>2, <1>3, <1>4
  <1>. QED BY <1>3, <1>5

\* A start leaves a history.
LEMMA BootTyped ==
    ASSUME Typed, NEW r \in Nat, NEW h \in Nat, Boot(r, h)
    PROVE  /\ seen' \in Histories /\ seen'.restarts = r /\ seen'.misses = 0
           /\ cont' = "booting" /\ status' = status /\ status' \in Statuses
           /\ answers' \in BOOLEAN
  BY DEF Boot, Histories, Typed, TypeOK

\* A capped counter is a number, at most one more.
LEMMA CappedTyped == ASSUME NEW n \in Nat PROVE Capped(n) \in Nat /\ Capped(n) <= n + 1
  BY DEF Capped

\* Types are kept by every step, no budget grows, and only the monitor starts
\* the container.
LEMMA NextTyped == Typed /\ WatchedIsDown /\ [Next]_vars => Typed' /\ WatchedIsDown'
  <1> SUFFICES ASSUME Typed, WatchedIsDown, [Next]_vars PROVE Typed' /\ WatchedIsDown'
    OBVIOUS
  <1>0. /\ seen \in Histories /\ seen.restarts \in Nat /\ seen.hung \in Nat
        /\ rec \in Records /\ rec.restarts \in Nat /\ rec.fails \in Nat
    BY DEF Typed, TypeOK, Histories, Records
  <1> USE WatchAssumption DEF Typed, TypeOK, WatchedIsDown, Running, Statuses, Steps
  <1>1. CASE StartPass
    BY <1>1 DEF StartPass, Keep, LeftBounded
  <1>2. CASE CheckContainer
    BY <1>2 DEF CheckContainer, LeftBounded, Records, Histories
  <1>3. CASE WatchContainer
    <2>1. left' = left /\ first' = first /\ pc' \in Steps /\ pc' \notin {"watch", "rewatch"}
      BY <1>3 DEF WatchContainer
    <2>2. CASE Keep /\ (rec' = Zero \/ rec' = [rec EXCEPT !.restarts = 0] \/ rec' = rec)
      BY <2>1, <2>2 DEF Keep, Zero, Records, LeftBounded
    <2>3. CASE Boot(0, seen.hung) /\ Complete /\ rec' = Zero
      <3>1. seen' \in Histories /\ cont' = "booting" /\ status' \in Statuses
            /\ answers' \in BOOLEAN
        BY <1>0, <2>3, BootTyped
      <3>2. rec' \in Records /\ rec'.restarts <= MaxRestart /\ rec'.fails <= MaxFailed + 1
        BY <2>3 DEF Zero, Records
      <3>. QED BY <2>1, <2>3, <3>1, <3>2 DEF Complete, LeftBounded
    <2>4. CASE RestartFailed
      <3>1. seen' \in Histories /\ cont' = "booting" /\ status' \in Statuses
            /\ answers' \in BOOLEAN
        BY <1>0, <2>4, BootTyped, CappedTyped DEF RestartFailed
      <3>2. rec' \in Records /\ rec'.restarts <= MaxRestart /\ rec'.fails <= MaxFailed + 1
        BY <1>0, <2>4 DEF RestartFailed, MayRestart, Records
      <3>. QED BY <2>1, <2>4, <3>1, <3>2 DEF RestartFailed, Complete, LeftBounded
    <2>. QED BY <1>3, <2>2, <2>3, <2>4 DEF WatchContainer, WatchExisting
  <1>4. CASE CheckRpc
    BY <1>4 DEF CheckRpc, LeftBounded, Histories
  <1>5. CASE WatchRpc
    <2>1. left' = left /\ first' = first /\ pc' = "finish"
      BY <1>5 DEF WatchRpc
    <2>2. CASE rec' = [rec EXCEPT !.fails = 0] /\ seen' = [seen EXCEPT !.hung = 0]
               /\ UNCHANGED <<cont, status, answers, cut>>
      BY <2>1, <2>2 DEF Records, Histories, LeftBounded
    <2>3. CASE Keep /\ (rec' = rec \/ rec' = [rec EXCEPT !.fails = 0])
      BY <2>1, <2>3 DEF Keep, Records, LeftBounded
    <2>4. CASE /\ rec.restarts < MaxRestart
               /\ Boot(seen.restarts, Capped(seen.hung)) /\ Complete
               /\ rec' = [restarts |-> rec.restarts + 1, fails |-> 0]
      <3>1. seen' \in Histories /\ cont' = "booting" /\ status' \in Statuses
            /\ answers' \in BOOLEAN
        BY <1>0, <2>4, BootTyped, CappedTyped
      <3>2. rec' \in Records /\ rec'.restarts <= MaxRestart /\ rec'.fails <= MaxFailed + 1
        BY <1>0, <2>4 DEF Records
      <3>. QED BY <2>1, <2>4, <3>1, <3>2 DEF Complete, LeftBounded
    <2>5. CASE CountMiss
      BY <1>0, <2>1, <2>5, CappedTyped DEF CountMiss, RpcStuck, Records, Histories, LeftBounded
    <2>6. CASE RestartStuck
      BY <2>3, <2>4, <2>6 DEF RestartStuck
    <2>. QED BY <1>5, <2>2, <2>3, <2>5, <2>6 DEF WatchRpc
  <1>6. CASE Finish
    <2>1. rec' \in Records /\ rec'.restarts <= MaxRestart /\ rec'.fails <= MaxFailed + 1
      <3>1. CASE first
        BY <1>6, <3>1 DEF Finish, Zero, Records
      <3>2. CASE ~ first
        BY <1>6, <3>2 DEF Finish
      <3>. QED BY <3>1, <3>2
    <2>. QED BY <1>6, <2>1 DEF Finish, Keep, LeftBounded
  <1>7. CASE Recreate
    BY <1>7, SpendTyped DEF Recreate, Zero, Records, Events
  <1>8. CASE Repair
    BY <1>8, SpendTyped DEF Repair, Events, LeftBounded
  <1>9. CASE PassRaises
    BY <1>9, SpendTyped DEF PassRaises, Keep, Events
  <1>10. CASE StartCutShort
    <2>1. PICK r \in Nat, h \in Nat : Boot(r, h)
      BY <1>0, <1>10, CappedTyped DEF StartCutShort
    <2>. QED BY <1>10, <2>1, BootTyped, SpendTyped DEF StartCutShort, Events
  <1>11. CASE AdminRestart
    BY <1>11, SpendTyped DEF AdminRestart, Keep, Events
  <1>12. CASE SkaledBoots
    BY <1>12 DEF SkaledBoots, LeftBounded
  <1>13. CASE SkaledFails
    BY <1>13 DEF SkaledFails, LeftBounded
  <1>14. CASE SkaledExits
    BY <1>14 DEF SkaledExits, LeftBounded
  <1>15. CASE SnapshotDone
    BY <1>15 DEF SnapshotDone, LeftBounded
  <1>16. CASE EndpointChanges
    BY <1>16 DEF EndpointChanges, LeftBounded
  <1>17. CASE UNCHANGED vars
    BY <1>17 DEF vars, LeftBounded
  <1>. QED BY <1>1, <1>2, <1>3, <1>4, <1>5, <1>6, <1>7, <1>8, <1>9, <1>10, <1>11,
              <1>12, <1>13, <1>14, <1>15, <1>16, <1>17 DEF Next, PassStep

\* No step refills a budget.
LEMMA SpendNever ==
    ASSUME Typed, [Next]_vars
    PROVE  \A e \in Events : left'[e] <= left[e]
  <1>1. \A e \in Events : left[e] \in Nat
    BY DEF Typed, TypeOK
  <1>2. CASE left' = left
    BY <1>1, <1>2
  <1>3. CASE \E e \in Events : Spend(e)
    BY <1>1, <1>3, SpendTyped
  <1>4. left' = left \/ \E e \in Events : Spend(e)
    BY DEF Next, PassStep, StartPass, CheckContainer, WatchContainer, CheckRpc, WatchRpc,
           Finish, Recreate, Repair, PassRaises, StartCutShort, AdminRestart, SkaledBoots,
           SkaledFails, SkaledExits, SnapshotDone, EndpointChanges, vars, Events
  <1>. QED BY <1>2, <1>3, <1>4

\* The history of restarts grows only in a step that starts the container.
LEMMA GrowsWhenStarted ==
    ASSUME Typed, [Next]_vars
    PROVE  seen'.restarts <= seen.restarts \/ Running'
  <1>0. seen \in Histories /\ seen.restarts \in Nat
    BY DEF Typed, TypeOK, Histories
  <1>1. CASE WatchContainer \/ StartCutShort \/ WatchRpc
    <2>1. CASE cont' = "booting"
      BY <2>1 DEF Running
    <2>2. CASE seen'.restarts = seen.restarts
      BY <1>0, <2>2
    <2>. QED BY <1>0, <1>1, <2>1, <2>2
         DEF WatchContainer, WatchExisting, RestartFailed, StartCutShort, WatchRpc,
             RestartStuck, CountMiss, Keep, Boot, Histories
  <1>2. CASE CheckContainer \/ CheckRpc
    BY <1>0, <1>2 DEF CheckContainer, CheckRpc, Histories
  <1>3. CASE seen' = seen
    BY <1>0, <1>3
  <1>. QED BY <1>1, <1>2, <1>3
       DEF Next, PassStep, StartPass, Finish, Recreate, Repair, PassRaises, AdminRestart,
           SkaledBoots, SkaledFails, SkaledExits, SnapshotDone, EndpointChanges, Keep, vars

-----------------------------------------------------------------------------
\* Counted is the part of the invariant that carries the bound: every step that
\* restarts a failed container adds to both sides, and every step that resets
\* the counter either ends the history or is paid for by a first run.
LEMMA NextCounted ==
    ASSUME IInv, [Next]_vars, Typed', Allowed, Allowed'
    PROVE  Counted'
  <1>0. /\ seen.restarts \in Nat /\ rec.restarts \in Nat /\ rec.restarts <= MaxRestart
        /\ seen'.restarts \in Nat /\ rec'.restarts \in Nat
        /\ first \in BOOLEAN /\ left \in [Events -> Nat]
        /\ left["admin"] \in Nat /\ left["cut"] \in Nat
        /\ Budget["admin"] \in Nat /\ Budget["cut"] \in Nat
    BY WatchAssumption DEF IInv, Typed, TypeOK, Histories, Records, Events
  <1>1. /\ MaxRestart * Lifts \in Nat /\ Cuts \in Nat /\ Lifts \in Nat
        /\ MaxRestart * Lifts' \in Nat /\ Cuts' \in Nat /\ Lifts' \in Nat
    BY WatchAssumption DEF Allowed
  <1>2. ASSUME first' = first, left'["admin"] = left["admin"], left'["cut"] <= left["cut"]
        PROVE  Lifts' = Lifts /\ MaxRestart * Lifts' = MaxRestart * Lifts /\ Cuts <= Cuts'
    <2>1. Lifts' = Lifts
      BY <1>2 DEF Lifts, FirstRuns
    <2>2. left'["cut"] \in Nat
      BY DEF Typed, TypeOK, Events
    <2>3. Cuts <= Cuts'
      BY <1>0, <1>2, <2>2 DEF Cuts
    <2>. QED BY <2>1, <2>3
  <1> DEFINE Held == Running \/ (cont = "failed" /\ status \notin {"exit", "repair"})
  <1>3. CASE seen'.restarts = 0
    BY <1>0, <1>1, <1>3 DEF Counted
  <1>4. CASE cont' \in {"none", "done"} \/ (cont' = "failed" /\ status' \in {"exit", "repair"})
    BY <1>4 DEF Counted, Running
  <1>5. CASE /\ seen'.restarts - rec'.restarts <= seen.restarts - rec.restarts
             /\ first' = first
             /\ left'["admin"] = left["admin"] /\ left'["cut"] <= left["cut"]
             /\ Held' => Held
    <2>1. Held => seen.restarts <= rec.restarts + MaxRestart * Lifts + Cuts
      BY DEF IInv, Counted
    <2>2. Held' => seen'.restarts <= rec'.restarts + MaxRestart * Lifts' + Cuts'
      BY <1>0, <1>1, <1>2, <1>5, <2>1
    <2>. QED BY <2>2 DEF Counted
  <1>6. CASE StartPass
    BY <1>0, <1>5, <1>6 DEF StartPass, Keep, Running
  <1>7. CASE CheckContainer
    BY <1>0, <1>3, <1>5, <1>7 DEF CheckContainer, IInv, Typed, TypeOK, Histories, Running
  <1>8. CASE WatchContainer
    <2>1. /\ ~ Running /\ cont \in {"none", "failed", "done"}
          /\ first' = first /\ left' = left
      BY <1>8 DEF WatchContainer, IInv, WatchedIsDown, Typed, TypeOK, Running
    <2>2. CASE Keep /\ status \in {"exit", "repair"}
      BY <1>4, <2>1, <2>2 DEF Keep
    <2>3. CASE Boot(0, seen.hung)
      BY <1>3, <2>3 DEF Boot
    <2>4. CASE status \notin {"exit", "repair"} /\ RestartFailed
      <3>1. /\ seen'.restarts = Capped(seen.restarts) /\ rec'.restarts = rec.restarts + 1
            /\ Held
        BY <2>4 DEF RestartFailed, MayRestart, Boot
      <3>2. seen'.restarts - rec'.restarts <= seen.restarts - rec.restarts
        BY <1>0, <3>1 DEF Capped
      <3>. QED BY <1>0, <1>5, <2>1, <3>1, <3>2
    <2>5. CASE cont = "failed" /\ Keep /\ rec' = rec
      BY <1>0, <1>5, <2>1, <2>5 DEF Keep, Running
    <2>6. CASE cont = "done" /\ Keep
      BY <1>4, <2>6 DEF Keep
    <2>. QED BY <1>8, <2>2, <2>3, <2>4, <2>5, <2>6 DEF WatchContainer, WatchExisting, Aborted
  <1>9. CASE CheckRpc
    BY <1>0, <1>5, <1>9 DEF CheckRpc, IInv, Typed, TypeOK, Histories, Running
  <1>10. CASE WatchRpc
    <2>1. first' = first /\ left' = left
      BY <1>10 DEF WatchRpc
    <2>2. seen'.restarts = seen.restarts
      BY <1>10 DEF WatchRpc, Keep, RestartStuck, CountMiss, Boot, IInv, Typed, TypeOK, Histories
    <2>3. rec'.restarts >= rec.restarts
      BY <1>0, <1>10
      DEF WatchRpc, RestartStuck, CountMiss, IInv, Typed, TypeOK, Records
    <2>4. Held' => Held
      BY <1>10 DEF WatchRpc, Keep, Running
    <2>. QED BY <1>0, <1>5, <2>1, <2>2, <2>3, <2>4
  <1>11. CASE Finish
    <2>1. CASE first
      <3>1. rec'.restarts = 0 /\ seen' = seen /\ left' = left /\ ~ first' /\ (Held' => Held)
        BY <1>11, <2>1 DEF Finish, Zero, Keep, Running
      <3>2. Lifts' = Lifts + 1 /\ Cuts' = Cuts
        BY <1>0, <2>1, <3>1 DEF Lifts, FirstRuns, Cuts
      <3>3. MaxRestart * Lifts' = MaxRestart * Lifts + MaxRestart
        BY <1>1, <3>2, WatchAssumption
      <3>4. Held => seen.restarts <= rec.restarts + MaxRestart * Lifts + Cuts
        BY DEF IInv, Counted
      <3>5. Held' => seen'.restarts <= rec'.restarts + MaxRestart * Lifts' + Cuts'
        BY <1>0, <1>1, <3>1, <3>2, <3>3, <3>4, WatchAssumption
      <3>. QED BY <3>5 DEF Counted
    <2>2. CASE ~ first
      <3>1. first' = first
        BY <1>0, <1>11, <2>2, Zenon DEF Finish
      <3>2. rec' = rec /\ seen' = seen /\ left' = left /\ (Held' => Held)
        BY <1>11, <2>2 DEF Finish, Keep, Running
      <3>. QED BY <1>0, <1>5, <3>1, <3>2
    <2>. QED BY <2>1, <2>2
  <1>12. CASE Recreate \/ Repair
    BY <1>4, <1>12 DEF Recreate, Repair
  <1>13. CASE PassRaises
    <2>1. left'["admin"] = left["admin"] /\ left'["cut"] = left["cut"]
      BY <1>13, SpendTyped DEF PassRaises, IInv, Events
    <2>. QED BY <1>0, <1>5, <1>13, <2>1 DEF PassRaises, Keep, Running
  <1>14. CASE StartCutShort
    <2>1. /\ left'["admin"] = left["admin"] /\ left'["cut"] = left["cut"] - 1
          /\ first' = first /\ rec' = rec
      BY <1>14, SpendTyped DEF StartCutShort, IInv, Events
    <2>2. CASE Boot(0, seen.hung)
      BY <1>3, <2>2 DEF Boot
    <2>3. CASE status \notin {"exit", "repair"} /\ MayRestart /\ Boot(Capped(seen.restarts), seen.hung)
      <3>1. seen'.restarts <= seen.restarts + 1 /\ Held
        BY <1>0, <2>3 DEF Boot, Capped, MayRestart
      <3>2. Cuts' = Cuts + 1 /\ MaxRestart * Lifts' = MaxRestart * Lifts
        <4>1. Cuts' = Cuts + 1
          BY <1>0, <2>1 DEF Cuts
        <4>2. Lifts' = Lifts
          BY <2>1 DEF Lifts, FirstRuns
        <4>. QED BY <4>1, <4>2
      <3>3. seen.restarts <= rec.restarts + MaxRestart * Lifts + Cuts
        BY <3>1 DEF IInv, Counted
      <3>4. seen'.restarts <= rec'.restarts + MaxRestart * Lifts' + Cuts'
        BY <1>0, <1>1, <2>1, <3>1, <3>2, <3>3
      <3>. QED BY <3>4 DEF Counted
    <2>4. CASE Running /\ Boot(seen.restarts, Capped(seen.hung))
      <3>1. seen'.restarts = seen.restarts
        BY <2>4 DEF Boot
      <3>. QED BY <1>0, <1>5, <2>1, <2>4, <3>1
    <2>. QED BY <1>14, <2>2, <2>3, <2>4 DEF StartCutShort, Aborted
  <1>15. CASE AdminRestart
    <2>1. /\ left'["admin"] = left["admin"] - 1 /\ left'["cut"] = left["cut"]
          /\ first' /\ rec' = rec /\ seen' = seen /\ (Held' => Held)
      BY <1>15, SpendTyped DEF AdminRestart, IInv, Events, Keep, Running
    <2>2. Lifts' = FirstRuns /\ Cuts' = Cuts
      BY <1>0, <2>1 DEF Lifts, FirstRuns, Cuts
    <2>3. MaxRestart * Lifts <= MaxRestart * Lifts'
      BY <2>2 DEF Allowed
    <2>4. Held => seen.restarts <= rec.restarts + MaxRestart * Lifts + Cuts
      BY DEF IInv, Counted
    <2>5. Held' => seen'.restarts <= rec'.restarts + MaxRestart * Lifts' + Cuts'
      BY <1>0, <1>1, <2>1, <2>2, <2>3, <2>4
    <2>. QED BY <2>5 DEF Counted
  <1>16. CASE SkaledBoots \/ SkaledFails \/ SnapshotDone \/ EndpointChanges
    BY <1>0, <1>5, <1>16 DEF SkaledBoots, SkaledFails, SnapshotDone, EndpointChanges, Running
  <1>17. CASE SkaledExits
    BY <1>4, <1>17 DEF SkaledExits
  <1>18. CASE UNCHANGED vars
    BY <1>0, <1>5, <1>18 DEF vars, Running
  <1>. QED BY <1>6, <1>7, <1>8, <1>9, <1>10, <1>11, <1>12, <1>13, <1>14, <1>15, <1>16,
              <1>17, <1>18 DEF Next, PassStep

-----------------------------------------------------------------------------
\* failed_rpc_count grows only together with the failures seen by this skaled,
\* and a start that is followed by its updates begins with none.
LEMMA NextMissed ==
    ASSUME IInv, [Next]_vars, Typed'
    PROVE  Missed'
  <1>0. /\ rec.fails \in Nat /\ rec.fails <= MaxFailed + 1 /\ seen.misses \in Nat
        /\ rec'.fails \in Nat /\ seen'.misses \in Nat
        /\ cut \in BOOLEAN /\ MaxFailed \in Nat /\ Cap \in Nat /\ Cap > MaxFailed
    BY WatchAssumption DEF IInv, Typed, TypeOK, Histories, Records
  <1>1. CASE rec'.fails = 0
    BY <1>0, <1>1 DEF Missed
  <1>2. CASE cut' \/ cont' \in {"none", "failed", "done"}
    BY <1>2 DEF Missed, Running
  <1>3. CASE /\ rec'.fails = rec.fails /\ seen'.misses = seen.misses /\ cut' = cut
             /\ Running' => Running
    BY <1>3 DEF IInv, Missed
  <1>4. CASE StartPass \/ PassRaises \/ AdminRestart
    BY <1>3, <1>4 DEF StartPass, PassRaises, AdminRestart, Keep, Running
  <1>5. CASE CheckContainer
    BY <1>3, <1>5 DEF CheckContainer, IInv, Typed, TypeOK, Histories, Records, Running
  <1>6. CASE WatchContainer
    <2>1. CASE rec'.fails = 0
      BY <1>1, <2>1
    <2>2. CASE ~ Running /\ cont' = cont
      BY <1>2, <2>2 DEF IInv, Typed, TypeOK, Running
    <2>3. rec'.fails = 0 \/ (~ Running /\ cont' = cont)
      BY <1>6
      DEF WatchContainer, WatchExisting, RestartFailed, Zero, Keep, IInv, WatchedIsDown
    <2>. QED BY <2>1, <2>2, <2>3
  <1>7. CASE CheckRpc
    BY <1>3, <1>7 DEF CheckRpc, IInv, Typed, TypeOK, Histories, Running
  <1>8. CASE WatchRpc
    <2>1. CASE rec'.fails = 0
      BY <1>1, <2>1
    <2>2. CASE ~ Running /\ cont' = cont
      BY <1>2, <2>2 DEF IInv, Typed, TypeOK, Running
    <2>3. CASE Running /\ CountMiss
      <3>1. rec'.fails = rec.fails + 1 /\ seen'.misses = Capped(seen.misses) /\ cut' = cut
        BY <2>3 DEF CountMiss, IInv, Typed, TypeOK, Histories, Records
      <3>2. ~ cut => rec.fails <= seen.misses \/ seen.misses > MaxFailed
        BY <2>3 DEF IInv, Missed
      <3>. QED BY <1>0, <3>1, <3>2 DEF Missed, Capped
    <2>4. rec'.fails = 0 \/ (~ Running /\ cont' = cont) \/ (Running /\ CountMiss)
      BY <1>8 DEF WatchRpc, RestartStuck, Keep, IInv, Typed, TypeOK, Records
    <2>. QED BY <2>1, <2>2, <2>3, <2>4
  <1>9. CASE Finish
    BY <1>1, <1>3, <1>9 DEF Finish, Zero, Keep, Running
  <1>10. CASE Recreate \/ Repair \/ StartCutShort
    BY <1>2, <1>10 DEF Recreate, Repair, StartCutShort
  <1>11. CASE SkaledBoots \/ SnapshotDone \/ EndpointChanges
    BY <1>3, <1>11 DEF SkaledBoots, SnapshotDone, EndpointChanges, Running
  <1>12. CASE SkaledFails \/ SkaledExits
    BY <1>2, <1>12 DEF SkaledFails, SkaledExits
  <1>13. CASE UNCHANGED vars
    BY <1>3, <1>13 DEF vars, Running
  <1>. QED BY <1>4, <1>5, <1>6, <1>7, <1>8, <1>9, <1>10, <1>11, <1>12, <1>13
           DEF Next, PassStep

\* The limit grows with the number of first runs.
LEMMA LimitGrows ==
    \A m, a, b \in Nat : a <= b =>
        /\ m * (1 + a) <= m * (1 + b)
        /\ m * (1 + a) \in Nat
        /\ m * (1 + b) \in Nat
  <1> SUFFICES ASSUME NEW m \in Nat, NEW a \in Nat, NEW b \in Nat, a <= b
               PROVE  /\ m * (1 + a) <= m * (1 + b)
                      /\ m * (1 + a) \in Nat
                      /\ m * (1 + b) \in Nat
    OBVIOUS
  <1>1. PICK d \in Nat : b = a + d
    <2>1. b - a \in Nat /\ b = a + (b - a)
      OBVIOUS
    <2>. QED BY <2>1
  <1>2. m * (1 + b) = m * (1 + a) + m * d /\ m * d \in Nat
    BY <1>1
  <1>3. m * (1 + a) \in Nat
    OBVIOUS
  <1>. QED BY <1>2, <1>3

\* The bound is kept: a step restarts the container only while the counter is
\* below its limit, and other steps do not add to the history.
LEMMA NextBounded ==
    ASSUME IInv, [Next]_vars, Typed', Counted', Allowed, Allowed'
    PROVE  FailedRestartsBounded'
  <1>0. /\ seen.restarts \in Nat /\ seen'.restarts \in Nat
        /\ rec'.restarts \in Nat /\ rec'.restarts <= MaxRestart
        /\ left["admin"] \in Nat /\ left["cut"] \in Nat
        /\ Budget["admin"] \in Nat /\ Budget["cut"] \in Nat
        /\ left'["admin"] \in Nat /\ left'["cut"] \in Nat
        /\ MaxRestart \in Nat
    BY WatchAssumption DEF IInv, Typed, TypeOK, Histories, Records, Events
  <1>1. CASE Running' \/ (cont' = "failed" /\ status' \notin {"exit", "repair"})
    <2>1. seen'.restarts <= rec'.restarts + MaxRestart * Lifts' + Cuts'
      BY <1>1 DEF Counted
    <2>. QED BY <1>0, <2>1 DEF Allowed, FailedRestartsBounded, Cuts
  <1>2. CASE seen'.restarts <= seen.restarts
    <2>1. left'["admin"] <= left["admin"] /\ left'["cut"] <= left["cut"]
      <3>1. \A e \in Events : left'[e] <= left[e]
        BY SpendNever DEF IInv
      <3>. QED BY <3>1 DEF Events
    <2>2. FirstRuns \in Nat /\ FirstRuns' \in Nat /\ FirstRuns <= FirstRuns'
      BY <1>0, <2>1 DEF FirstRuns, Allowed
    <2>3. /\ MaxRestart * (1 + FirstRuns) <= MaxRestart * (1 + FirstRuns')
          /\ MaxRestart * (1 + FirstRuns) \in Nat
          /\ MaxRestart * (1 + FirstRuns') \in Nat
      BY <1>0, <2>2, LimitGrows
    <2>. QED BY <1>0, <1>2, <2>1, <2>3 DEF IInv, FailedRestartsBounded
  <1>3. seen'.restarts <= seen.restarts \/ Running'
    BY GrowsWhenStarted DEF IInv
  <1>. QED BY <1>1, <1>2, <1>3

-----------------------------------------------------------------------------
\* The invariant is inductive.
LEMMA NextIInv == IInv /\ [Next]_vars => IInv'
  <1> SUFFICES ASSUME IInv, [Next]_vars PROVE IInv'
    OBVIOUS
  <1>1. Typed' /\ WatchedIsDown'
    BY NextTyped DEF IInv
  <1>2. Allowed /\ Allowed'
    BY <1>1, Allowance, PTL DEF IInv
  <1>3. Counted' /\ Missed'
    BY <1>1, <1>2, NextCounted, NextMissed
  <1>4. FailedRestartsBounded'
    BY <1>1, <1>2, <1>3, NextBounded
  <1>. QED BY <1>1, <1>3, <1>4 DEF IInv

\* The inductive invariant holds in every reachable state.
THEOREM Invariance == Spec => []IInv
  <1>1. Init => IInv
    BY InitIInv
  <1>2. IInv /\ [Next]_vars => IInv'
    BY NextIInv
  <1>. QED BY <1>1, <1>2, PTL DEF Spec

\* The counters of the record never leave their range.
THEOREM TypeCorrect == Spec => []TypeOK
  <1>1. IInv => TypeOK
    BY DEF IInv, Typed
  <1>. QED BY <1>1, Invariance, PTL

\* A container that no check finds running is restarted at most MaxRestart times
\* for each first run, MaxRestart more, and once for each start whose count was
\* lost.
THEOREM FailedRestartsBoundedAlways == Spec => []FailedRestartsBounded
  <1>1. IInv => FailedRestartsBounded
    BY DEF IInv
  <1>. QED BY <1>1, Invariance, PTL

\* A new skaled is restarted for its RPC only after more than MaxFailed failed
\* checks of its own.
THEOREM NewSkaledSparedAlways == Spec => NewSkaledSpared
  <1>1. IInv /\ [Next]_vars =>
          [WatchRpc /\ rec'.restarts > rec.restarts => cut \/ seen.misses > MaxFailed]_vars
    <2> SUFFICES ASSUME IInv, WatchRpc, rec'.restarts > rec.restarts
                 PROVE  cut \/ seen.misses > MaxFailed
      OBVIOUS
    <2>1. /\ rec \in Records /\ rec.fails \in Nat /\ rec.restarts \in Nat
          /\ seen.misses \in Nat /\ MaxFailed \in Nat
      BY WatchAssumption DEF IInv, Typed, TypeOK, Histories, Records
    <2>2. Running /\ RestartStuck
      BY <2>1 DEF WatchRpc, CountMiss, Keep, Records
    <2>. QED BY <2>1, <2>2 DEF RestartStuck, RpcStuck, IInv, Missed
  <1>. QED BY <1>1, Invariance, PTL DEF Spec, NewSkaledSpared
=============================================================================
