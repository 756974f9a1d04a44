------------------------- MODULE SchainRecords_proofs -------------------------
(* No thread takes back what lets the skaled pipeline run, and every repair    *)
(* that is done twice has its reason, for every mix of events.                 *)
EXTENDS SchainRecords, TLAPS

\* What the threads hold agrees with the row on the fields of the config thread.
Gate ==
    /\ row.sync => row.first
    /\ c.copy.sync => c.copy.first
    /\ c.mode # "Idle" /\ c.at > 1 => c.copy.ver = row.ver /\ c.copy.sync = row.sync
    /\ s.mode # "Idle" => row.ver = stream /\ ~ row.sync
    /\ s.mode \in SkaledModes /\ s.at > 1 => s.copy.ver = stream /\ ~ s.copy.sync
    /\ row.ver <= stream

\* A config that is owed shuts the gate, and the pass under way will generate it.
Owing ==
    owed => /\ Outdated(row)
            /\ c.mode # "Idle" => c.mode = "Generate" /\ c.at <= 3

\* The skaled thread holds the newest date of a repair, the config thread perhaps
\* an older one; a repair that has not removed data yet is requested.
Dates ==
    /\ row.repair <= now /\ ncli <= now
    /\ c.mode # "Idle" /\ c.at > 1 => c.copy.repair <= row.repair
    /\ s.mode \in SkaledModes /\ s.at > 1 => row.repair <= s.copy.repair /\ s.copy.repair <= now
    /\ s.mode = "Repair" /\ s.at <= 3 =>
          ncli > row.repair /\ (s.at > 1 => ncli > s.copy.repair)

\* Every removal of data, and the one that is due, is accounted for.
Due    == ncli > row.repair /\ ~ Unrecorded
Served == wipes + (IF Due THEN 1 ELSE 0) <= asked + lost

IInv == TypeOK /\ Gate /\ Owing /\ Dates /\ Served

-----------------------------------------------------------------------------
\* What the plans say of single operations.
LEMMA PlanModes ==
    DOMAIN Plan = {"Generate", "Keep", "Regular", "Start", "Backup", "BackupStart",
                   "Repair", "Recreate"}
  BY DEF Plan, Seen, Container, Finish, Reset

\* Every pipeline begins with a read.
LEMMA PlanFirst == \A m \in DOMAIN Plan : Plan[m][1] = "read"
  BY DEF Plan, Seen, Container, Finish, Reset

\* Where a config is generated.
LEMMA PlanGenerate == Plan["Generate"][2] = "save" /\ Plan["Generate"][3] = "generate"
  BY DEF Plan, Seen, Container, Finish, Reset

\* Where the date of a repair is saved.
LEMMA PlanRepair ==
    /\ Plan["Repair"][2] = "save" /\ Plan["Repair"][9] = "repair"
    /\ Len(Plan["Repair"]) = 16
  BY DEF Plan, Seen, Container, Finish, Reset

\* Where data is removed.
LEMMA PlanWipe ==
    \A m \in DOMAIN Plan : \A i \in DOMAIN Plan[m] :
        Plan[m][i] = "wipe" => m = "Repair" /\ i = 3
  BY DEF Plan, Seen, Container, Finish, Reset

\* The steps of the config pipelines.
LEMMA PlanConfig ==
    \A m \in ConfigModes : \A i \in DOMAIN Plan[m] :
        Plan[m][i] \in {"read", "save", "generate", "ver", "sync"}
  BY DEF ConfigModes, Plan, Seen, Container, Finish, Reset

\* A thread that went on is idle, or one operation further with its new object.
LEMMA PastTyped ==
    ASSUME NEW t \in Threads, NEW r \in Rows, t.mode \in DOMAIN Plan
    PROVE  /\ Past(t, r) \in Threads
           /\ \/ Past(t, r) = Idle
              \/ /\ Past(t, r).mode = t.mode /\ Past(t, r).at = t.at + 1
                 /\ Past(t, r).copy = r
                 /\ t.at # Len(Plan[t.mode])
  <1>1. Idle \in Threads
    BY DEF Idle, Added, Threads, Rows
  <1>2. CASE t.at = Len(Plan[t.mode])
    BY <1>1, <1>2 DEF Past
  <1>3. CASE t.at # Len(Plan[t.mode])
    <2>1. Past(t, r) = [t EXCEPT !.at = t.at + 1, !.copy = r]
      BY <1>3 DEF Past
    <2>2. t.at + 1 \in Nat \ {0}
      BY DEF Threads
    <2>. QED BY <1>3, <2>1, <2>2 DEF Threads
  <1>. QED BY <1>2, <1>3

\* A thread that does not run holds no request.
LEMMA IdleTyped == /\ Idle \in Threads /\ Idle.mode = "Idle" /\ Idle.at = 1
                   /\ ~ Idle.copy.sync
  BY DEF Idle, Added, Threads, Rows

\* A thread that begins a pipeline.
LEMMA StartTyped ==
    ASSUME NEW m \in DOMAIN Plan
    PROVE  /\ [Idle EXCEPT !.mode = m] \in Threads
           /\ [Idle EXCEPT !.mode = m].mode = m /\ [Idle EXCEPT !.mode = m].at = 1
           /\ [Idle EXCEPT !.mode = m].copy = Idle.copy
  <1>1. Idle \in Threads /\ Idle.at = 1
    BY IdleTyped
  <1>. QED BY <1>1 DEF Threads

\* What a setter does to each field.
LEMMA WrittenTyped ==
    ASSUME NEW op \in Saves, NEW r \in Rows, TypeOK
    PROVE  /\ Written(op, r) \in Rows
           /\ Written(op, r).ver \in {r.ver, stream}
           /\ Written(op, r).sync => r.sync
           /\ Written(op, r).first = r.first
           /\ op # "repair" => Written(op, r).repair = r.repair
           /\ op = "repair" => Written(op, r).repair = now
           /\ op = "save" => Written(op, r) = r
  <1>0. stream \in Nat /\ now \in Nat /\ cert \in Nat
    BY DEF TypeOK
  <1>1. CASE op \in {"ver", "sync", "save"}
    BY <1>0, <1>1 DEF Written, Rows
  <1>2. CASE op \in {"repair", "cert", "fresh"}
    BY <1>0, <1>2 DEF Written, Rows
  <1>. QED BY <1>1, <1>2 DEF Saves

\* What is left of a budget stays a number, and less.
LEMMA SpendTyped ==
    ASSUME TypeOK, NEW e \in Events, Spend(e)
    PROVE  left' \in [Events -> Nat] /\ left'[e] # left[e]
  <1>1. left[e] \in Nat /\ left[e] > 0 /\ left[e] - 1 \in Nat
    BY DEF TypeOK, Spend
  <1>. QED BY <1>1 DEF TypeOK, Spend

-----------------------------------------------------------------------------
\* The effect of an operation of the skaled thread.
SkaledWork == SkaledRead \/ SkaledSave \/ SkaledResets \/ SkaledSaveOnly \/ SkaledDocker

\* What a step of the skaled thread does to the row and to its own object.
LEMMA SkaledEffect ==
    ASSUME IInv, SkaledWork
    PROVE  /\ s.mode \in SkaledModes
           /\ row' \in Rows /\ row'.ver = row.ver /\ ~ row'.sync
           /\ row.repair <= row'.repair
           /\ s.mode = "Repair" /\ s.at <= 2 => ncli > row'.repair
           /\ s.mode = "Repair" /\ s.at = 9 => row'.repair = now
           /\ \E r \in Rows :
                 /\ s' = Past(s, r)
                 /\ r.ver = stream /\ ~ r.sync
                 /\ row'.repair <= r.repair /\ r.repair <= now
                 /\ s.mode = "Repair" /\ s.at <= 2 => ncli > r.repair
           /\ running' \in BOOLEAN
           /\ wipes' = IF At(s, "wipe") THEN wipes + 1 ELSE wipes
  <1>0. /\ TypeOK /\ Gate /\ Dates
        /\ row \in Rows /\ s \in Threads /\ s.copy \in Rows /\ s.at \in Nat \ {0}
        /\ now \in Nat /\ row.repair \in Nat /\ s.copy.repair \in Nat /\ ncli \in Nat
    BY DEF IInv, TypeOK, Threads, Rows
  <1>1. s.mode \in SkaledModes
    BY <1>0, PlanModes
       DEF SkaledWork, SkaledRead, SkaledSave, SkaledResets, SkaledSaveOnly, SkaledDocker, At,
           TypeOK
  <1>2. s.mode # "Idle" /\ s.mode \in DOMAIN Plan /\ row.ver = stream /\ ~ row.sync
    BY <1>0, <1>1, PlanModes DEF Gate, SkaledModes
  <1>3. CASE SkaledRead
    <2>1. ~ At(s, "wipe") /\ ~ At(s, "repair")
      BY <1>3 DEF SkaledRead, At
    <2>2. ~ (s.mode = "Repair" /\ s.at = 9) /\ (s.mode = "Repair" => s.at # 2)
      BY <1>3, PlanRepair DEF SkaledRead, At
    <2>. QED BY <1>0, <1>1, <1>2, <1>3, <2>1, <2>2 DEF SkaledRead, Dates, TypeOK
  <1>4. ASSUME ~ SkaledRead
        PROVE  /\ s.at > 1 /\ s.copy.ver = stream /\ ~ s.copy.sync
               /\ row.repair <= s.copy.repair /\ s.copy.repair <= now
               /\ s.mode = "Repair" /\ s.at <= 2 =>
                     At(s, "save") /\ ncli > row.repair /\ ncli > s.copy.repair
    <2>1. ~ At(s, "read")
      BY <1>4 DEF SkaledWork, SkaledRead, SkaledSave, SkaledResets, SkaledSaveOnly, SkaledDocker,
                  At, Saves
    <2>2. s.at \in DOMAIN Plan[s.mode]
      BY <1>4 DEF SkaledWork, SkaledSave, SkaledResets, SkaledSaveOnly, SkaledDocker, At
    <2>3. s.at # 1
      BY <1>2, <2>1, <2>2, PlanFirst DEF At
    <2>4. s.at > 1
      BY <1>0, <2>3
    <2>5. s.mode = "Repair" /\ s.at <= 2 => At(s, "save")
      BY <1>0, <1>2, <2>2, <2>4, PlanRepair DEF At
    <2>. QED BY <1>0, <1>1, <2>4, <2>5 DEF Gate, Dates
  <1>5. CASE SkaledSave
    <2>1. PICK op \in Saves : At(s, op) /\ row' = Written(op, s.copy) /\ s' = Past(s, row')
      BY <1>5 DEF SkaledSave
    <2>2. ~ SkaledRead /\ ~ At(s, "wipe")
      BY <2>1 DEF SkaledRead, At, Saves
    <2>3. s.mode = "Repair" /\ s.at = 9 => op = "repair"
      BY <2>1, PlanRepair DEF At
    <2>4. s.mode = "Repair" /\ s.at <= 2 => op = "save"
      BY <1>4, <2>1, <2>2 DEF At
    <2>5. running' \in BOOLEAN /\ wipes' = wipes
      BY <1>0, <1>5 DEF SkaledSave, TypeOK
    <2>6. /\ row' \in Rows /\ row'.ver = stream /\ ~ row'.sync
          /\ op = "repair" => row'.repair = now
          /\ op # "repair" => row'.repair = s.copy.repair
          /\ op = "save" => row' = s.copy
      BY <1>0, <1>4, <2>1, <2>2, WrittenTyped
    <2>7. row.repair <= row'.repair /\ row'.repair <= now
      BY <1>0, <1>4, <2>2, <2>6 DEF Dates
    <2>8. s.mode = "Repair" /\ s.at <= 2 => ncli > row'.repair
      BY <1>4, <2>2, <2>4, <2>6
    <2>9. row'.repair <= row'.repair
      BY <2>6 DEF Rows
    <2>. QED BY <1>1, <1>2, <2>1, <2>2, <2>3, <2>5, <2>6, <2>7, <2>8, <2>9
  <1>6. CASE SkaledResets \/ SkaledSaveOnly \/ SkaledDocker
    <2>1. /\ ~ SkaledRead
          /\ ~ At(s, "save") /\ ~ At(s, "repair")
          /\ s' = Past(s, s.copy)
      BY <1>6 DEF SkaledResets, SkaledSaveOnly, SkaledDocker, SkaledRead, At
    <2>2. ~ (s.mode = "Repair" /\ s.at = 9)
      BY <1>6, <2>1, PlanRepair DEF SkaledResets, SkaledSaveOnly, SkaledDocker, At
    <2>3. /\ row' \in Rows /\ row'.ver = stream /\ ~ row'.sync
          /\ row'.repair \in {row.repair, s.copy.repair}
      BY <1>0, <1>2, <1>4, <1>6, <2>1
         DEF SkaledResets, SkaledSaveOnly, SkaledDocker, Rows
    <2>4. wipes' = IF At(s, "wipe") THEN wipes + 1 ELSE wipes
      BY <1>6 DEF SkaledResets, SkaledSaveOnly, SkaledDocker, At
    <2>5. running' \in BOOLEAN
      BY <1>0, <1>6 DEF SkaledResets, SkaledSaveOnly, SkaledDocker, TypeOK
    <2>6. row.repair <= row'.repair /\ row'.repair <= s.copy.repair
      BY <1>0, <1>4, <2>1, <2>3
    <2>. QED BY <1>0, <1>1, <1>2, <1>4, <2>1, <2>2, <2>3, <2>4, <2>5, <2>6
  <1>. QED BY <1>3, <1>5, <1>6 DEF SkaledWork

-----------------------------------------------------------------------------
\* The effect of an operation of the config thread.
ConfigWork == ConfigRead \/ ConfigGenerate \/ ConfigSave

\* What a step of the config thread does to the row and to its own object.
LEMMA ConfigEffect ==
    ASSUME IInv, ConfigWork
    PROVE  /\ c.mode \in ConfigModes
           /\ row' \in Rows
           /\ row'.ver \in {row.ver, stream} /\ (row'.sync => row.sync)
           /\ row'.sync => row'.first
           /\ row'.repair <= row.repair
           /\ lost' = IF row'.repair < row.repair THEN lost + 1 ELSE lost
           /\ owed' => /\ owed /\ c.mode = "Generate" /\ c.at < 3
                       /\ row'.ver = row.ver /\ row'.sync = row.sync
           /\ \E r \in Rows :
                 /\ c' = Past(c, r)
                 /\ r.ver = row'.ver /\ r.sync = row'.sync
                 /\ r.sync => r.first
                 /\ r.repair <= row'.repair
           /\ left' \in [Events -> Nat] /\ owed' \in BOOLEAN
  <1>0. /\ TypeOK /\ Gate /\ Dates /\ Owing
        /\ row \in Rows /\ c \in Threads /\ c.copy \in Rows /\ c.at \in Nat \ {0}
        /\ now \in Nat /\ row.repair \in Nat /\ c.copy.repair \in Nat
        /\ left \in [Events -> Nat] /\ owed \in BOOLEAN
    BY DEF IInv, TypeOK, Threads, Rows
  <1>1. c.mode \in ConfigModes /\ c.mode # "Idle" /\ c.mode \in DOMAIN Plan
        /\ c.at \in DOMAIN Plan[c.mode]
    BY <1>0, PlanModes DEF ConfigWork, ConfigRead, ConfigGenerate, ConfigSave, At, TypeOK,
                           ConfigModes
  <1>2. owed => c.mode = "Generate" /\ c.at <= 3
    BY <1>0, <1>1 DEF Owing
  <1>3. CASE ConfigRead
    <2>1. owed => c.at # 3
      BY <1>2, <1>3, PlanGenerate DEF ConfigRead, At
    <2>2. ~ (row'.repair < row.repair) /\ row'.repair <= row.repair
      BY <1>0, <1>3 DEF ConfigRead
    <2>. QED BY <1>0, <1>1, <1>2, <1>3, <2>1, <2>2 DEF ConfigRead, Gate
  <1>4. ASSUME ~ ConfigRead
        PROVE  /\ c.at > 1 /\ c.copy.ver = row.ver /\ c.copy.sync = row.sync
               /\ c.copy.repair <= row.repair
               /\ c.copy.sync => c.copy.first
    <2>1. ~ At(c, "read")
      BY <1>4 DEF ConfigWork, ConfigRead, ConfigGenerate, ConfigSave, At, Saves
    <2>2. c.at > 1
      BY <1>0, <1>1, <2>1, PlanFirst DEF At
    <2>. QED BY <1>0, <1>1, <2>2 DEF Gate, Dates
  <1>5. CASE ConfigGenerate
    <2>1. ~ ConfigRead
      BY <1>5 DEF ConfigGenerate, ConfigRead, At
    <2>2. ~ (row'.repair < row.repair) /\ row'.repair <= row.repair
      BY <1>0, <1>5 DEF ConfigGenerate
    <2>. QED BY <1>0, <1>1, <1>4, <1>5, <2>1, <2>2 DEF ConfigGenerate, Gate
  <1>6. CASE ConfigSave
    <2>1. PICK op \in Saves : At(c, op) /\ row' = Written(op, c.copy) /\ c' = Past(c, row')
      BY <1>6 DEF ConfigSave
    <2>2. ~ ConfigRead
      BY <2>1 DEF ConfigRead, At, Saves
    <2>3. op # "repair"
      BY <1>1, <2>1, PlanConfig DEF At
    <2>4. /\ row' \in Rows /\ row'.ver \in {c.copy.ver, stream}
          /\ row'.sync => c.copy.sync
          /\ row'.first = c.copy.first /\ row'.repair = c.copy.repair
          /\ op = "save" => row' = c.copy
      BY <1>0, <2>1, <2>3, WrittenTyped
    <2>5. owed => op = "save" /\ c.at < 3
      <3>1. SUFFICES ASSUME owed PROVE op = "save" /\ c.at < 3
        OBVIOUS
      <3>2. c.at # 3
        BY <1>2, <2>1, <3>1, PlanGenerate DEF At, Saves
      <3>3. c.at = 2
        BY <1>0, <1>2, <1>4, <2>2, <3>1, <3>2
      <3>. QED BY <1>2, <2>1, <3>1, <3>3, PlanGenerate DEF At
    <2>6. left' \in [Events -> Nat]
      BY <1>0, <1>6, SpendTyped DEF ConfigSave, Events
    <2>7. owed' = owed /\ lost' = IF row'.repair < row.repair THEN lost + 1 ELSE lost
      BY <1>6 DEF ConfigSave
    <2>8. row'.repair <= row'.repair
      BY <1>0, <2>4
    <2>. QED BY <1>0, <1>1, <1>2, <1>4, <2>1, <2>2, <2>4, <2>5, <2>6, <2>7, <2>8
  <1>. QED BY <1>3, <1>5, <1>6 DEF ConfigWork

-----------------------------------------------------------------------------
\* A chain that was just recorded satisfies the invariant.
LEMMA InitIInv == Init => IInv
  <1> SUFFICES ASSUME Init PROVE IInv
    OBVIOUS
  <1>1. c.mode = "Idle" /\ s.mode = "Idle" /\ c \in Threads /\ s \in Threads /\ ~ c.copy.sync
    BY IdleTyped DEF Init
  <1>2. /\ row \in Rows /\ row.ver = 0 /\ row.sync = FALSE /\ row.repair = 0
        /\ stream = 1 /\ ncli = 0 /\ now = 1 /\ wipes = 0 /\ asked = 0 /\ lost = 0
        /\ cert = 0 /\ running \in BOOLEAN /\ owed \in BOOLEAN
    BY DEF Init, Added, Rows
  <1>3. left \in [Events -> Nat]
    BY RecordsAssumption DEF Init
  <1>4. TypeOK
    BY <1>1, <1>2, <1>3 DEF TypeOK
  <1>5. "Idle" \notin SkaledModes
    BY PlanModes DEF SkaledModes
  <1>6. Gate /\ Owing
    BY <1>1, <1>2, <1>5 DEF Gate, Owing, Outdated
  <1>7. Dates
    BY <1>1, <1>2, <1>5 DEF Dates
  <1>8. Served
    BY <1>2 DEF Served, Due
  <1>. QED BY <1>4, <1>6, <1>7, <1>8 DEF IInv

\* The steps of the two pipelines that are not operations of a plan.
Others == ConfigStart \/ SkaledNeeded \/ SkaledStart \/ Fails \/ MonitorKilled \/ AdminRestart
          \/ NodeCliRepair \/ CertificateUploaded \/ Tick

\* A step is one of the skaled thread, of the config thread, or of neither.
LEMMA NextCases == Next => SkaledWork \/ ConfigWork \/ Others
  BY DEF Next, ConfigStep, SkaledStep, SkaledWork, ConfigWork, Others

\* What a step of the skaled thread leaves alone.
LEMMA SkaledKeeps ==
    SkaledWork => UNCHANGED <<now, left, stream, ncli, cert, c, owed, asked, lost>>
  BY DEF SkaledWork, SkaledRead, SkaledSave, SkaledResets, SkaledSaveOnly, SkaledDocker,
         skaledSame, outside

\* What a step of the config thread leaves alone.
LEMMA ConfigKeeps ==
    ConfigWork => UNCHANGED <<now, stream, ncli, cert, running, s, asked, wipes>>
  BY DEF ConfigWork, ConfigRead, ConfigGenerate, ConfigSave, configSame, outside

\* Every operation of the skaled thread keeps the invariant.
LEMMA SkaledInv == IInv /\ SkaledWork => IInv'
  <1> SUFFICES ASSUME IInv, SkaledWork PROVE IInv'
    OBVIOUS
  <1>0. /\ TypeOK /\ Gate /\ Owing /\ Dates /\ Served
        /\ UNCHANGED <<now, left, stream, ncli, cert, c, owed, asked, lost>>
        /\ s \in Threads /\ s.at \in Nat \ {0} /\ now \in Nat /\ ncli \in Nat
        /\ wipes \in Nat /\ asked \in Nat /\ lost \in Nat /\ row.repair \in Nat
    BY SkaledKeeps DEF IInv, TypeOK, Threads, Rows
  <1>1. /\ s.mode \in SkaledModes /\ s.mode \in DOMAIN Plan /\ s.mode # "Idle"
        /\ row' \in Rows /\ row'.ver = row.ver /\ ~ row'.sync
        /\ row.repair <= row'.repair /\ row'.repair \in Nat
        /\ s.mode = "Repair" /\ s.at <= 2 => ncli > row'.repair
        /\ s.mode = "Repair" /\ s.at = 9 => row'.repair = now
        /\ running' \in BOOLEAN
        /\ wipes' = IF At(s, "wipe") THEN wipes + 1 ELSE wipes
    BY SkaledEffect, PlanModes DEF SkaledModes, Rows
  <1>2. PICK r \in Rows :
           /\ s' = Past(s, r)
           /\ r.ver = stream /\ ~ r.sync
           /\ row'.repair <= r.repair /\ r.repair <= now
           /\ s.mode = "Repair" /\ s.at <= 2 => ncli > r.repair
    BY SkaledEffect
  <1>3. /\ s' \in Threads
        /\ \/ s' = Idle
           \/ s'.mode = s.mode /\ s'.at = s.at + 1 /\ s'.copy = r /\ s.at # Len(Plan[s.mode])
    BY <1>0, <1>1, <1>2, PastTyped
  <1>4. TypeOK'
    BY <1>0, <1>1, <1>3, IdleTyped DEF TypeOK
  <1>5. row.ver = stream /\ ~ row.sync /\ ~ owed
    BY <1>0, <1>1 DEF Gate, Owing, Outdated
  <1>6. Gate' /\ Owing'
    <2>1. row'.sync = FALSE /\ row.sync = FALSE
      BY <1>0, <1>1, <1>5 DEF TypeOK, Rows
    <2>2. s'.mode \in SkaledModes => s'.copy.ver = stream /\ ~ s'.copy.sync
      BY <1>1, <1>2, <1>3, IdleTyped, PlanModes DEF SkaledModes
    <2>3. c.mode # "Idle" /\ c.at > 1 => c.copy.ver = row'.ver /\ c.copy.sync = row'.sync
      BY <1>0, <1>1, <2>1 DEF Gate
    <2>4. row'.ver <= stream
      BY <1>0, <1>1 DEF Gate
    <2>5. c.copy.sync => c.copy.first
      BY <1>0 DEF Gate
    <2>6. Gate'
      BY <1>0, <1>1, <1>5, <2>1, <2>2, <2>3, <2>4, <2>5 DEF Gate
    <2>. QED BY <1>0, <1>5, <2>6 DEF Owing
  <1>7. Dates'
    <2>1. row'.repair <= now
      BY <1>0, <1>1, <1>2 DEF Rows
    <2>2. c.mode # "Idle" /\ c.at > 1 => c.copy.repair <= row'.repair
      BY <1>0, <1>1 DEF Dates, TypeOK, Threads, Rows
    <2>3. s'.mode \in SkaledModes => row'.repair <= s'.copy.repair /\ s'.copy.repair <= now
      BY <1>2, <1>3, IdleTyped, PlanModes DEF SkaledModes
    <2>4. s'.mode = "Repair" /\ s'.at <= 3 => ncli > row'.repair /\ ncli > s'.copy.repair
      BY <1>0, <1>1, <1>2, <1>3, IdleTyped
    <2>. QED BY <1>0, <2>1, <2>2, <2>3, <2>4 DEF Dates
  <1>8. Served'
    <2>1. CASE At(s, "wipe")
      <3>1. s.mode = "Repair" /\ s.at = 3
        BY <2>1, PlanWipe DEF At
      <3>2. Due
        BY <1>0, <3>1 DEF Dates, Due, Unrecorded
      <3>3. s'.mode = "Repair" /\ s'.at = 4
        BY <1>2, <3>1, PlanRepair DEF Past, Threads
      <3>4. ~ Due'
        BY <3>3 DEF Due, Unrecorded
      <3>. QED BY <1>0, <1>1, <2>1, <3>2, <3>4 DEF Served
    <2>2. CASE ~ At(s, "wipe")
      <3>1. ASSUME ~ Due PROVE ~ Due'
        <4>1. CASE ~ (ncli > row.repair)
          BY <1>0, <1>1, <4>1 DEF Due
        <4>2. CASE Unrecorded /\ s.at # 9
          BY <1>0, <1>3, <1>2, <4>2, PlanRepair DEF Due, Unrecorded, Past, Threads
        <4>3. CASE Unrecorded /\ s.at = 9
          BY <1>0, <1>1, <4>3 DEF Due, Unrecorded, Dates
        <4>. QED BY <3>1, <4>1, <4>2, <4>3 DEF Due
      <3>. QED BY <1>0, <1>1, <2>2, <3>1 DEF Served
    <2>. QED BY <2>1, <2>2
  <1>. QED BY <1>4, <1>6, <1>7, <1>8 DEF IInv

\* Every operation of the config thread keeps the invariant.
LEMMA ConfigInv == IInv /\ ConfigWork => IInv'
  <1> SUFFICES ASSUME IInv, ConfigWork PROVE IInv'
    OBVIOUS
  <1>0. /\ TypeOK /\ Gate /\ Owing /\ Dates /\ Served
        /\ UNCHANGED <<now, stream, ncli, cert, running, s, asked, wipes>>
        /\ c \in Threads /\ c.at \in Nat \ {0} /\ now \in Nat /\ ncli \in Nat
        /\ wipes \in Nat /\ asked \in Nat /\ lost \in Nat /\ row \in Rows
        /\ row.repair \in Nat /\ row.ver \in Nat /\ stream \in Nat
        /\ s.copy.repair \in Nat
    BY ConfigKeeps DEF IInv, TypeOK, Threads, Rows
  <1>1. /\ c.mode \in ConfigModes /\ c.mode \in DOMAIN Plan /\ c.mode # "Idle"
        /\ row' \in Rows /\ row'.repair \in Nat
        /\ row'.ver \in {row.ver, stream} /\ (row'.sync => row.sync)
        /\ row'.sync => row'.first
        /\ row'.repair <= row.repair
        /\ lost' = IF row'.repair < row.repair THEN lost + 1 ELSE lost
        /\ owed' => /\ owed /\ c.mode = "Generate" /\ c.at < 3
                    /\ row'.ver = row.ver /\ row'.sync = row.sync
        /\ left' \in [Events -> Nat] /\ owed' \in BOOLEAN
    BY ConfigEffect, PlanModes DEF ConfigModes, Rows
  <1>2. PICK r \in Rows :
           /\ c' = Past(c, r)
           /\ r.ver = row'.ver /\ r.sync = row'.sync
           /\ r.sync => r.first
           /\ r.repair <= row'.repair
    BY ConfigEffect
  <1>3. /\ c' \in Threads
        /\ \/ c' = Idle
           \/ c'.mode = c.mode /\ c'.at = c.at + 1 /\ c'.copy = r
    BY <1>0, <1>1, <1>2, PastTyped
  <1>4. TypeOK'
    BY <1>0, <1>1, <1>3, IdleTyped DEF TypeOK
  <1>5. Gate'
    BY <1>0, <1>1, <1>2, <1>3, IdleTyped DEF Gate, ConfigModes
  <1>6. Owing'
    BY <1>0, <1>1, <1>3, IdleTyped DEF Owing, Outdated
  <1>7. Dates'
    BY <1>0, <1>1, <1>2, <1>3, IdleTyped DEF Dates
  <1>8. Served'
    <2>1. CASE row'.repair < row.repair
      BY <1>0, <1>1, <2>1 DEF Served
    <2>2. CASE row'.repair = row.repair
      <3>1. Due' <=> Due
        BY <1>0, <2>2 DEF Due, Unrecorded
      <3>. QED BY <1>0, <1>1, <2>2, <3>1 DEF Served
    <2>. QED BY <1>0, <1>1, <2>1, <2>2
  <1>. QED BY <1>4, <1>5, <1>6, <1>7, <1>8 DEF IInv

-----------------------------------------------------------------------------
\* The row and the threads stay as they are, or a thread starts or ends.
LEMMA OthersType == IInv /\ Others => TypeOK'
  <1> SUFFICES ASSUME IInv, Others PROVE TypeOK'
    OBVIOUS
  <1>0. TypeOK /\ stream \in Nat /\ row \in Rows /\ now \in Nat
    BY DEF IInv, TypeOK
  <1>1. CASE ConfigStart
    <2>1. PICK mode \in ConfigModes : c' = [Idle EXCEPT !.mode = mode]
      BY <1>1 DEF ConfigStart
    <2>2. c' \in Threads /\ c'.mode \in ConfigModes
      BY <2>1, StartTyped, PlanModes DEF ConfigModes
    <2>. QED BY <1>0, <1>1, <2>2 DEF ConfigStart, configSame, outside, TypeOK
  <1>2. CASE SkaledNeeded
    <2>1. s' \in Threads /\ s'.mode = "Needed"
      BY <1>0, <1>2 DEF SkaledNeeded, TypeOK, Threads
    <2>. QED BY <1>0, <1>2, <2>1 DEF SkaledNeeded, skaledSame, outside, TypeOK
  <1>3. CASE SkaledStart
    <2>1. Chosen(row) \in SkaledModes /\ Chosen(row) \in DOMAIN Plan
      BY PlanModes DEF Chosen, SkaledModes, ConfigModes
    <2>2. s' \in Threads /\ s'.mode \in SkaledModes
      BY <1>3, <2>1, StartTyped DEF SkaledStart
    <2>. QED BY <1>0, <1>3, <2>2 DEF SkaledStart, skaledSame, outside, TypeOK
  <1>4. CASE Fails
    <2>1. left' \in [Events -> Nat]
      BY <1>0, <1>4, SpendTyped DEF Fails, Events
    <2>. QED BY <1>0, <1>4, <2>1, IdleTyped DEF Fails, LostNow, outside, TypeOK
  <1>5. CASE MonitorKilled
    <2>1. left' \in [Events -> Nat]
      BY <1>0, <1>5, SpendTyped DEF MonitorKilled, Events
    <2>. QED BY <1>0, <1>5, <2>1, IdleTyped DEF MonitorKilled, ThreadsStop, LostNow, outside, TypeOK
  <1>6. CASE AdminRestart
    <2>1. left' \in [Events -> Nat]
      BY <1>0, <1>6, SpendTyped DEF AdminRestart, Events
    <2>2. PICK version \in {stream, stream + 1}, pullConfig \in BOOLEAN, backupRun \in BOOLEAN :
             /\ stream' = version
             /\ row' = [row EXCEPT !.first = TRUE, !.sync = @ \/ pullConfig,
                                   !.backup = @ \/ backupRun]
             /\ owed' = (owed \/ row.ver # version \/ row'.sync)
      BY <1>6 DEF AdminRestart
    <2>3. stream' \in Nat
      BY <1>0, <2>2
    <2>4. row' \in Rows
      BY <1>0, <2>2 DEF Rows
    <2>5. owed' \in BOOLEAN
      BY <2>2
    <2>. QED BY <1>0, <1>6, <2>1, <2>3, <2>4, <2>5, IdleTyped
             DEF AdminRestart, ThreadsStop, LostNow, TypeOK
  <1>7. CASE NodeCliRepair
    <2>1. left' \in [Events -> Nat]
      BY <1>0, <1>7, SpendTyped DEF NodeCliRepair, Events
    <2>. QED BY <1>0, <1>7, <2>1 DEF NodeCliRepair, TypeOK
  <1>8. CASE CertificateUploaded
    <2>1. left' \in [Events -> Nat]
      BY <1>0, <1>8, SpendTyped DEF CertificateUploaded, Events
    <2>. QED BY <1>0, <1>8, <2>1 DEF CertificateUploaded, history, TypeOK
  <1>9. CASE Tick
    BY <1>0, <1>9 DEF Tick, outside, history, TypeOK
  <1>. QED BY <1>1, <1>2, <1>3, <1>4, <1>5, <1>6, <1>7, <1>8, <1>9 DEF Others

\* The rest of the invariant, action by action.
LEMMA OthersInv == IInv /\ Others => IInv'
  <1> SUFFICES ASSUME IInv, Others PROVE IInv'
    OBVIOUS
  <1>0. /\ TypeOK /\ Gate /\ Owing /\ Dates /\ Served
        /\ stream \in Nat /\ now \in Nat /\ ncli \in Nat /\ wipes \in Nat /\ asked \in Nat
        /\ lost \in Nat /\ row.repair \in Nat /\ row.ver \in Nat
        /\ row.sync \in BOOLEAN /\ row.first \in BOOLEAN
        /\ c.copy.repair \in Nat /\ s.copy.repair \in Nat
        /\ c.at \in Nat /\ s.at \in Nat
    BY DEF IInv, TypeOK, Threads, Rows
  <1>a. TypeOK'
    BY OthersType
  <1>b. "Idle" \notin SkaledModes /\ "Needed" \notin SkaledModes
    BY PlanModes DEF SkaledModes
  <1>1. CASE ConfigStart
    <2>1. /\ UNCHANGED <<now, stream, ncli, row, s, owed, asked, wipes, lost>>
          /\ c'.at = 1 /\ c'.copy = Idle.copy
          /\ row.ver # stream \/ row.sync => c'.mode = "Generate"
      BY <1>1, StartTyped, PlanModes DEF ConfigStart, configSame, outside, ConfigModes
    <2>2. Gate'
      BY <1>0, <2>1, IdleTyped DEF Gate
    <2>3. Owing'
      BY <1>0, <2>1 DEF Owing, Outdated
    <2>4. Dates' /\ Served'
      BY <1>0, <2>1 DEF Dates, Served, Due, Unrecorded
    <2>. QED BY <1>a, <2>2, <2>3, <2>4 DEF IInv
  <1>2. CASE SkaledNeeded
    <2>1. /\ UNCHANGED <<now, stream, ncli, row, c, owed, asked, wipes, lost>>
          /\ s.mode = "Idle" /\ s'.mode = "Needed" /\ ~ Outdated(row)
      BY <1>0, <1>2 DEF SkaledNeeded, skaledSame, outside, TypeOK, Threads
    <2>2. Gate' /\ Owing'
      BY <1>0, <1>b, <2>1 DEF Gate, Owing, Outdated
    <2>3. Dates' /\ Served'
      BY <1>0, <1>b, <2>1 DEF Dates, Served, Due, Unrecorded
    <2>. QED BY <1>a, <2>2, <2>3 DEF IInv
  <1>3. CASE SkaledStart
    <2>1. Chosen(row) \in DOMAIN Plan
      BY PlanModes DEF Chosen
    <2>2. /\ UNCHANGED <<now, stream, ncli, row, c, owed, asked, wipes, lost>>
          /\ s.mode = "Needed" /\ s'.mode = Chosen(row) /\ s'.at = 1
      BY <1>3, <2>1, StartTyped DEF SkaledStart, skaledSame, outside
    <2>3. Chosen(row) = "Repair" => ncli > row.repair
      BY DEF Chosen
    <2>4. Gate' /\ Owing'
      BY <1>0, <1>b, <2>2 DEF Gate, Owing, Outdated
    <2>5. Dates' /\ Served'
      BY <1>0, <1>b, <2>2, <2>3 DEF Dates, Served, Due, Unrecorded
    <2>. QED BY <1>a, <2>4, <2>5 DEF IInv
  <1>4. CASE Fails \/ MonitorKilled
    <2>1. /\ UNCHANGED <<now, stream, ncli, row, owed, asked, wipes>>
          /\ \/ c' = Idle /\ UNCHANGED <<s, lost>>
             \/ c' \in {c, Idle} /\ s' = Idle /\ lost' = LostNow
      BY <1>4 DEF Fails, MonitorKilled, ThreadsStop, outside
    <2>2. Gate' /\ Owing'
      BY <1>0, <1>b, <2>1, IdleTyped DEF Gate, Owing, Outdated
    <2>3. Dates'
      BY <1>0, <1>b, <2>1, IdleTyped DEF Dates
    <2>4. Served'
      BY <1>0, <2>1, IdleTyped DEF Served, Due, LostNow, Unrecorded
    <2>. QED BY <1>a, <2>2, <2>3, <2>4 DEF IInv
  <1>5. CASE AdminRestart
    <2>1. /\ UNCHANGED <<now, ncli, asked, wipes>>
          /\ c' = Idle /\ s' = Idle /\ lost' = LostNow
          /\ stream' >= stream
          /\ row'.ver = row.ver /\ row'.repair = row.repair /\ row'.first = TRUE
          /\ owed' = (owed \/ row.ver # stream' \/ row'.sync)
          /\ row.sync => row'.sync
      BY <1>0, <1>5 DEF AdminRestart, ThreadsStop, TypeOK, Rows
    <2>2. Gate'
      BY <1>0, <1>a, <1>b, <2>1, IdleTyped DEF Gate, TypeOK
    <2>3. Owing'
      BY <1>0, <1>a, <2>1, IdleTyped DEF Owing, Outdated, Gate, TypeOK
    <2>4. Dates'
      BY <1>0, <1>b, <2>1, IdleTyped DEF Dates
    <2>5. Served'
      BY <1>0, <2>1, IdleTyped DEF Served, Due, LostNow, Unrecorded
    <2>. QED BY <1>a, <2>2, <2>3, <2>4, <2>5 DEF IInv
  <1>6. CASE NodeCliRepair
    <2>1. /\ UNCHANGED <<now, stream, row, c, s, owed, wipes, lost>>
          /\ ncli' = now /\ asked' = asked + 1
      BY <1>6 DEF NodeCliRepair
    <2>2. Gate' /\ Owing'
      BY <1>0, <2>1 DEF Gate, Owing, Outdated
    <2>3. Dates'
      BY <1>0, <2>1 DEF Dates
    <2>4. Served'
      BY <1>0, <2>1 DEF Served, Due
    <2>. QED BY <1>a, <2>2, <2>3, <2>4 DEF IInv
  <1>7. CASE CertificateUploaded \/ Tick
    <2>1. /\ UNCHANGED <<stream, ncli, row, c, s, owed, asked, wipes, lost>>
          /\ now' \in {now, now + 1}
      BY <1>7 DEF CertificateUploaded, Tick, outside, history
    <2>2. Gate' /\ Owing'
      BY <1>0, <2>1 DEF Gate, Owing, Outdated
    <2>3. Dates'
      BY <1>0, <2>1 DEF Dates
    <2>4. Served'
      BY <1>0, <2>1 DEF Served, Due, Unrecorded
    <2>. QED BY <1>a, <2>2, <2>3, <2>4 DEF IInv
  <1>. QED BY <1>1, <1>2, <1>3, <1>4, <1>5, <1>6, <1>7 DEF Others

\* A stuttering step keeps the invariant.
LEMMA StutterInv == IInv /\ UNCHANGED vars => IInv'
  BY DEF vars, outside, history, IInv, TypeOK, Gate, Owing, Dates, Served, Due, Unrecorded,
         Outdated

\* Whatever the two threads and the world do, IInv holds.
THEOREM Invariance == Spec => []IInv
  <1>1. IInv /\ [Next]_vars => IInv'
    BY NextCases, SkaledInv, ConfigInv, OthersInv, StutterInv
  <1>. QED BY <1>1, InitIInv, PTL DEF Spec

\* Rows, threads and counters keep their types (SChainRecord's columns).
THEOREM TypeCorrect == Spec => []TypeOK
  <1>1. IInv => TypeOK
    BY DEF IInv
  <1>. QED BY <1>1, Invariance, PTL

\* get_skaled_task: no skaled pipeline while a config asked for by a restart has
\* not been generated.
THEOREM PullServedAlways == Spec => []PullServed
  <1>1. IInv => PullServed
    <2> SUFFICES ASSUME IInv, owed PROVE s.mode = "Idle"
      BY DEF PullServed
    <2>1. Gate /\ Owing
      BY DEF IInv
    <2>. QED BY <2>1 DEF Gate, Owing, Outdated
  <1>. QED BY <1>1, Invariance, PTL

\* RepairSkaledMonitor and set_repair_date: data is removed a second time only
\* when the date of the repair did not get into the row, or did not stay there.
THEOREM RepairedOnceAlways == Spec => []RepairedOnce
  <1>1. IInv => RepairedOnce
    BY DEF IInv, Served, RepairedOnce, TypeOK
  <1>. QED BY <1>1, Invariance, PTL

\* Only a restart of the admin marks the row, or brings a new version.
LEMMA OthersRow ==
    TypeOK /\ Others /\ left'["restart"] = left["restart"] => UNCHANGED <<row, stream>>
  <1> SUFFICES ASSUME TypeOK, Others, left'["restart"] = left["restart"]
               PROVE  UNCHANGED <<row, stream>>
    OBVIOUS
  <1>1. ~ AdminRestart
    <2>1. ASSUME Spend("restart") PROVE FALSE
      BY <2>1, SpendTyped DEF Events
    <2>. QED BY <2>1 DEF AdminRestart
  <1>. QED BY <1>1 DEF Others, ConfigStart, SkaledNeeded, SkaledStart, Fails, MonitorKilled,
               NodeCliRepair, CertificateUploaded, Tick, configSame, skaledSame, outside

\* Saving whole rows from two threads does not shut the skaled pipeline out again.
THEOREM GateStaysOpenAlways == Spec => GateStaysOpen
  <1>1. ASSUME IInv, [Next]_vars
        PROVE  [~ Outdated(row) /\ left'["restart"] = left["restart"] => ~ Outdated(row)']_vars
    <2> SUFFICES ASSUME Next, ~ Outdated(row), left'["restart"] = left["restart"]
                 PROVE  ~ Outdated(row)'
      BY <1>1
    <2>0. TypeOK /\ row.ver = stream /\ ~ row.sync
      BY <1>1 DEF IInv, Gate, Outdated
    <2>1. CASE SkaledWork
      BY <1>1, <2>0, <2>1, SkaledEffect, SkaledKeeps DEF Outdated
    <2>2. CASE ConfigWork
      BY <1>1, <2>0, <2>2, ConfigEffect, ConfigKeeps DEF Outdated
    <2>3. CASE Others
      BY <2>0, <2>3, OthersRow DEF Outdated
    <2>. QED BY <2>1, <2>2, <2>3, NextCases
  <1>. QED BY <1>1, Invariance, PTL DEF Spec, GateStaysOpen

\* The object that run_schain_container holds while docker works is saved over the
\* row, and takes nothing back from the config thread.
THEOREM ConfigFieldsKeptAlways == Spec => ConfigFieldsKept
  <1>1. ASSUME IInv, [Next]_vars
        PROVE  [c' = c /\ left'["restart"] = left["restart"] =>
                   row'.ver = row.ver /\ row'.sync = row.sync]_vars
    <2> SUFFICES ASSUME Next, c' = c, left'["restart"] = left["restart"]
                 PROVE  row'.ver = row.ver /\ row'.sync = row.sync
      BY <1>1
    <2>0. TypeOK /\ Gate /\ row \in Rows /\ c \in Threads
      BY <1>1 DEF IInv, TypeOK
    <2>1. CASE SkaledWork
      <3>1. row' \in Rows /\ row'.ver = row.ver /\ ~ row'.sync /\ s.mode \in SkaledModes
        BY <1>1, <2>1, SkaledEffect
      <3>2. ~ row.sync
        BY <2>0, <3>1, PlanModes DEF Gate, SkaledModes
      <3>. QED BY <2>0, <3>1, <3>2 DEF Rows
    <2>2. CASE ConfigWork
      <3>1. c.mode \in ConfigModes /\ c.mode \in DOMAIN Plan /\ c.mode # "Idle"
        BY <1>1, <2>2, ConfigEffect, PlanModes DEF ConfigModes
      <3>2. PICK r \in Rows : c' = Past(c, r)
        BY <1>1, <2>2, ConfigEffect
      <3>3. Past(c, r) = Idle \/ Past(c, r).at = c.at + 1
        BY <2>0, <3>1, PastTyped
      <3>4. c.at \in Nat
        BY <2>0 DEF Threads
      <3>5. Past(c, r) = c
        BY <3>2
      <3>6. Past(c, r) # Idle
        BY <3>1, <3>5, IdleTyped
      <3>7. c.at # c.at + 1
        BY <3>4
      <3>. QED BY <3>3, <3>5, <3>6, <3>7
    <2>3. CASE Others
      BY <2>0, <2>3, OthersRow
    <2>. QED BY <2>1, <2>2, <2>3, NextCases
  <1>. QED BY <1>1, Invariance, PTL DEF Spec, ConfigFieldsKept

=============================================================================
