---------------------------- MODULE Node_proofs ----------------------------
(* What node_config.json says of this node is so, no save is lost, and the     *)
(* report of a completed exit is true, for any number of workers, of other     *)
(* nodes and of chains, any requests and any failures.                         *)
EXTENDS Node, TLAPS, FiniteSetTheorems

\* The nodes of the contracts differ in name and in IP; the nodes of this wallet
\* are among the requests, any two of which meet in one of them.
Registry ==
    /\ \A i, j \in DOMAIN registry :
          registry[i].name = registry[j].name \/ registry[i].ip = registry[j].ip => i = j
    /\ \A i \in DOMAIN registry : registry[i].owner # 0 =>
          registry[i].owner = doc.key /\ [name |-> registry[i].name, ip |-> registry[i].ip] \in mix.offers
    /\ \A r, q \in mix.offers : r.name = q.name \/ r.ip = q.ip

\* What a whole content of the file says is so on the contracts.
Sound(d) ==
    /\ d.id # 0 =>
          /\ d.key # 0
          /\ d.id \in DOMAIN registry
          /\ registry[d.id].owner = d.key
          /\ d.name \in {None, registry[d.id].name}
          /\ d.ip \in {None, registry[d.id].ip}
    /\ d.id = 0 => d.name = None /\ d.ip = None

\* A content that takes nothing back.
Keeps(e) ==
    /\ doc.key # 0 => e.key = doc.key
    /\ doc.id # 0 => e.id = doc.id
    /\ doc.name # None => e.name = doc.name
    /\ doc.ip # None => e.ip = doc.ip

\* One process at a time is in a save, and what it is going to write is sound.
Locked ==
    \A p, q \in Procs : write[p].at # "none" /\ write[q].at # "none" => p = q

Saving ==
    \A p \in Procs : write[p].at # "none" =>
        /\ Sound(write[p].doc) /\ Keeps(write[p].doc)
        /\ write[p].doc.key # 0
        /\ p = Admin => /\ admin \in DOMAIN AfterSave
                        /\ admin = "key" => write[p].doc.id = 0
                        /\ admin # "key" => write[p].doc.id # 0 /\ doc.id # 0
        /\ p # Admin => worker[p].at \in Saves /\ write[p].doc.id # 0 /\ doc.key # 0

AdminPlace ==
    /\ admin = "key" => doc.key = 0 /\ keys # 0
    /\ admin \in {"ip", "name"} => doc.id # 0

\* A request that is past its checks has a node of this wallet on the contracts.
Requesting ==
    \A w \in Workers : worker[w].at \in {"find", "available", "create"} \cup Saves =>
        /\ worker[w].key = doc.key /\ doc.key # 0
        /\ [name |-> worker[w].name, ip |-> worker[w].ip] \in mix.offers
        /\ worker[w].at \in Saves =>
              \E i \in DOMAIN registry :
                 registry[i] = [name |-> worker[w].name, ip |-> worker[w].ip,
                                owner |-> doc.key]
        /\ worker[w].at \in {"name", "ip"} => doc.id # 0

RInv == Registry /\ Sound(doc) /\ Locked /\ Saving /\ AdminPlace /\ Requesting

\* How long the chains that were left are served, as far as the node has got.
Serving ==
    /\ \A c \in Chains : node.fin[c] <= now + RotationDelay
    /\ node.status \in {"ACTIVE", "IN_MAINTENANCE"} => \A c \in Chains : node.fin[c] = 0
    /\ node.status = "LEAVING" /\ node.chains = {} => \A c \in Chains : node.fin[c] = 0
    /\ node.status = "FROZEN" =>
          node.chains = {} /\ \A c \in Chains : node.fin[c] <= node.finish

\* What the reads of one answer have to do with each other.
Reading ==
    \A w \in Workers : worker[w].at \in Reads =>
        /\ worker[w].since <= now /\ now <= worker[w].since + Timeout
        /\ worker[w].at # "history" => worker[w].time <= now
        /\ worker[w].seen # {} =>
              \/ node.chains # {}
              \/ node.status = "FROZEN" /\ node.finish >= worker[w].since + RotationDelay
        /\ worker[w].at = "finish" /\ worker[w].status = "FROZEN" => node.status = "FROZEN"

IInv == TypeOK /\ RInv /\ Serving /\ Reading

-----------------------------------------------------------------------------
\* An event that is spent leaves what operators ask as it is.
LEMMA SpendMix ==
    ASSUME TypeOK, NEW e \in Events, Spend(e)
    PROVE  mix' \in Mixed /\ mix'.offers = mix.offers /\ mix'.known = mix.known
  <1>1. mix.left[e] \in Nat /\ mix.left[e] > 0 /\ mix.left[e] - 1 \in Nat
    BY DEF TypeOK, Spend, Mixed
  <1>2. mix' = [mix EXCEPT !.left = [mix.left EXCEPT ![e] = mix.left[e] - 1]]
    BY DEF Spend, TypeOK, Mixed
  <1>. QED BY <1>1, <1>2 DEF TypeOK, Mixed

\* The index of a name that is taken.
LEMMA IndexOfName ==
    ASSUME NEW n, NameTaken(n)
    PROVE  NameToIndex(n) \in DOMAIN registry /\ registry[NameToIndex(n)].name = n
  BY DEF NameTaken, NameToIndex

-----------------------------------------------------------------------------
(* Types. *)

\* A sequence of one.
LEMMA OneInSeq ==
    ASSUME NEW S, NEW x \in S
    PROVE  <<x>> \in Seq(S)
  OBVIOUS

\* The initial states have the types.
LEMMA InitTyped == Init => TypeOK
  <1>. SUFFICES ASSUME Init PROVE TypeOK
    OBVIOUS
  <1>1. mix \in Mixed
    BY NodeAssumption DEF Init
  <1>2. NoDoc \in Docs /\ NoWrite \in Writes /\ NoRequest \in Requests /\ NoExit \in Exits
    BY DEF NoDoc, Docs, NoWrite, Writes, NoRequest, Requests, NoExit, Exits, Ready, Statuses
  <1>3. node \in NodeStates
    BY <1>1 DEF Init, NodeStates, Statuses, Mixed
  <1>4. registry \in Seq(Registered) /\ doc \in Docs /\ keys \in Nat /\ admin \in AdminStates
    <2>. PICK r \in mix.offers :
            IF mix.known
            THEN /\ registry = <<[name |-> r.name, ip |-> r.ip, owner |-> 1]>>
                 /\ doc = [key |-> 1, id |-> 1, name |-> r.name, ip |-> r.ip]
                 /\ keys = 1
                 /\ admin = "watch"
            ELSE registry = <<>> /\ doc = NoDoc /\ keys = 0 /\ admin = "down"
      BY DEF Init
    <2>1. r.name \in Names /\ r.ip \in Ips
      BY <1>1 DEF Mixed
    <2>2. CASE mix.known
      <3>1. [name |-> r.name, ip |-> r.ip, owner |-> 1] \in Registered
        BY <2>1 DEF Registered
      <3>2. registry \in Seq(Registered)
        BY <2>2, <3>1, OneInSeq
      <3>. QED BY <2>1, <2>2, <3>2 DEF Docs, AdminStates
    <2>3. CASE ~ mix.known
      BY <1>2, <2>3 DEF AdminStates
    <2>. QED BY <2>2, <2>3
  <1>. QED BY <1>1, <1>2, <1>3, <1>4 DEF Init, TypeOK

\* A request that goes on to another statement stays one.
LEMMA GotoTyped ==
    ASSUME TypeOK, NEW w \in Workers, NEW label, Goto(w, label),
           label \in {Ready, "find", "available", "create", "on", "off"} \cup Saves \cup Reads
    PROVE  worker' \in [Workers -> Requests]
  BY DEF TypeOK, Goto, Requests

\* So does a worker that has answered.
LEMMA AnswerTyped ==
    ASSUME TypeOK, NEW w \in Workers, Answer(w)
    PROVE  worker' \in [Workers -> Requests]
  <1>1. NoRequest \in Requests
    BY DEF NoRequest, Requests, Ready, Statuses
  <1>. QED BY <1>1 DEF TypeOK, Answer

\* A process that is gone in the middle of a save leaves the file in its type.
LEMMA DropTyped ==
    ASSUME TypeOK, NEW p \in Procs, DropWrite(p)
    PROVE  doc' \in Docs /\ disk' \in {"whole", "open", "cut"} /\ write' \in [Procs -> Writes]
  <1>1. NoWrite \in Writes
    BY DEF NoWrite, Writes, NoDoc, Docs
  <1>. QED BY <1>1 DEF TypeOK, DropWrite

\* Each part of a save leaves the file in its type.
LEMMA SaveTyped ==
    ASSUME TypeOK, NEW p \in Procs, NEW d \in Docs, ReadDoc(p, d) \/ OpenDoc(p) \/ WriteDoc(p)
    PROVE  doc' \in Docs /\ disk' \in {"whole", "open", "cut"} /\ write' \in [Procs -> Writes]
  <1>1. NoWrite \in Writes
    BY DEF NoWrite, Writes, NoDoc, Docs
  <1>2. CASE ReadDoc(p, d)
    BY <1>2 DEF TypeOK, ReadDoc, Writes
  <1>3. CASE OpenDoc(p)
    BY <1>3 DEF TypeOK, OpenDoc, Writes
  <1>4. CASE WriteDoc(p)
    BY <1>1, <1>4 DEF TypeOK, WriteDoc, Writes
  <1>. QED BY <1>2, <1>3, <1>4

\* A request that is past its checks names a node.
LEMMA RequestNames ==
    ASSUME TypeOK, Requesting, NEW w \in Workers,
           worker[w].at \in {"find", "available", "create"} \cup Saves
    PROVE  worker[w].name \in Names /\ worker[w].ip \in Ips /\ worker[w].key \in Nat
  <1>1. [name |-> worker[w].name, ip |-> worker[w].ip] \in mix.offers
    BY DEF Requesting
  <1>2. mix.offers \subseteq [name : Names, ip : Ips]
    BY DEF TypeOK, Mixed
  <1>. QED BY <1>1, <1>2 DEF TypeOK, Requests

\* create_node adds a node to the registry.
LEMMA RegisterTyped ==
    ASSUME TypeOK, NEW r, r.name \in Names, r.ip \in Ips, NEW o \in Nat, Register(r, o)
    PROVE  registry' \in Seq(Registered)
  <1>1. [name |-> r.name, ip |-> r.ip, owner |-> o] \in Registered
    BY DEF Registered
  <1>. QED BY <1>1 DEF TypeOK, Register

\* node_name_to_index answers a number.
LEMMA IndexTyped ==
    ASSUME TypeOK, NEW n
    PROVE  NameToIndex(n) \in Nat
  <1>1. CASE NameTaken(n)
    BY <1>1, IndexOfName DEF TypeOK
  <1>2. CASE ~ NameTaken(n)
    BY <1>2 DEF NameToIndex
  <1>. QED BY <1>1, <1>2

-----------------------------------------------------------------------------
(* Types: the steps. *)

\* The main process keeps all types.
LEMMA AdminTyped ==
    ASSUME IInv, AdminStep \/ AdminRestart
    PROVE  TypeOK'
  <1>0. TypeOK /\ Sound(doc) /\ AdminPlace
    BY DEF IInv, RInv
  <1>1. CASE AdminStart \/ AdminKey \/ AdminSoft \/ AdminSeesId \/ AdminMonitors \/ AdminUnreadable
    BY <1>0, <1>1 DEF TypeOK, AdminStart, AdminKey, AdminSoft, AdminSeesId, AdminMonitors,
       AdminUnreadable, AdminStates, chainVars, fileVars
  <1>2. CASE AdminAgrees
    BY <1>0, <1>2 DEF TypeOK, AdminAgrees, AfterSave, AdminStates, chainVars, fileVars
  <1>3. CASE AdminRead
    <2>1. Changed \in Docs
      <3>1. CASE admin = "key"
        BY <1>0, <3>1 DEF Changed, TypeOK, Docs
      <3>2. CASE admin \in {"ip", "name"}
        <4>1. registry[doc.id] \in Registered
          BY <1>0, <3>2 DEF TypeOK, Sound, AdminPlace
        <4>. QED BY <1>0, <3>2, <4>1 DEF Changed, TypeOK, Docs, Registered
      <3>. QED BY <1>3, <3>1, <3>2 DEF AdminRead, AfterSave
    <2>. QED BY <1>0, <1>3, <2>1, SaveTyped DEF TypeOK, AdminRead, chainVars, Procs
  <1>4. CASE AdminOpen
    BY <1>0, <1>4, SaveTyped DEF TypeOK, AdminOpen, chainVars, Procs
  <1>5. CASE AdminWrite
    <2>1. admin \in DOMAIN AfterSave
      BY <1>5 DEF AdminWrite, WriteDoc, IInv, RInv, Saving, Procs
    <2>2. admin' \in AdminStates
      BY <1>5, <2>1 DEF AdminWrite, AfterSave, AdminStates
    <2>. QED BY <1>0, <1>5, <2>2, SaveTyped DEF TypeOK, AdminWrite, chainVars, Procs
  <1>6. CASE AdminRestart
    <2>1. mix' \in Mixed
      BY <1>0, <1>6, SpendMix DEF AdminRestart, Events
    <2>. QED BY <1>0, <1>6, <2>1, DropTyped DEF TypeOK, AdminRestart, AdminStates, chainVars, Procs
  <1>. QED BY <1>1, <1>2, <1>3, <1>4, <1>5, <1>6 DEF AdminStep
\* A registration, and a worker that is killed, keep all types.
LEMMA RegisterStepTyped ==
    ASSUME IInv, NEW w \in Workers,
           \/ RegisterStart(w) \/ RegisterFind(w) \/ RegisterAvailable(w) \/ RegisterCreate(w)
           \/ RegisterRaises(w) \/ RegisterRead(w) \/ RegisterOpen(w) \/ RegisterWrite(w)
           \/ RegisterUnreadable(w) \/ WorkerKilled(w)
    PROVE  TypeOK'
  <1>0. TypeOK /\ Requesting /\ w \in Procs
    BY DEF IInv, RInv, Procs
  <1>1. CASE RegisterStart(w)
    <2>1. mix' \in Mixed
      BY <1>0, <1>1, SpendMix DEF RegisterStart, Events
    <2>2. PICK r \in mix.offers :
            worker' = [worker EXCEPT ![w] = [NoRequest EXCEPT
                          !.at = "find", !.name = r.name, !.ip = r.ip, !.key = doc.key]]
      BY <1>1 DEF RegisterStart
    <2>3. r.name \in Names /\ r.ip \in Ips /\ doc.key \in Nat
      BY <1>0 DEF TypeOK, Mixed, Docs
    <2>4. [NoRequest EXCEPT !.at = "find", !.name = r.name, !.ip = r.ip, !.key = doc.key]
            \in Requests
      BY <2>3 DEF NoRequest, Requests, Statuses
    <2>. QED BY <1>0, <1>1, <2>1, <2>2, <2>4 DEF TypeOK, RegisterStart, chainVars, fileVars
  <1>2. CASE RegisterFind(w) \/ RegisterAvailable(w)
    <2>1. worker' \in [Workers -> Requests]
      BY <1>0, <1>2, GotoTyped, AnswerTyped DEF RegisterFind, RegisterAvailable, Saves
    <2>. QED BY <1>0, <1>2, <2>1 DEF TypeOK, RegisterFind, RegisterAvailable, chainVars, fileVars
  <1>3. CASE RegisterCreate(w) \/ RegisterRaises(w)
    <2>1. worker' \in [Workers -> Requests]
      BY <1>0, <1>3, GotoTyped, AnswerTyped DEF RegisterCreate, RegisterRaises, Saves
    <2>2. worker[w].name \in Names /\ worker[w].ip \in Ips /\ worker[w].key \in Nat
      BY <1>0, <1>3, RequestNames DEF RegisterCreate, RegisterRaises, At
    <2>3. registry' \in Seq(Registered)
      BY <1>0, <1>3, <2>2, RegisterTyped DEF RegisterCreate, RegisterRaises, TypeOK
    <2>4. mix' \in Mixed
      BY <1>0, <1>3, SpendMix DEF RegisterCreate, RegisterRaises, Events, TypeOK
    <2>. QED BY <1>0, <1>3, <2>1, <2>3, <2>4 DEF TypeOK, RegisterCreate, RegisterRaises, fileVars
  <1>4. CASE RegisterRead(w)
    <2>1. worker[w].at \in Saves /\ worker[w].name \in Names /\ worker[w].ip \in Ips
      BY <1>0, <1>4, RequestNames DEF RegisterRead
    <2>2. NameToIndex(worker[w].name) \in Nat
      BY <1>0, IndexTyped
    <2>3. PICK d : d \in Docs /\ ReadDoc(w, d)
      <3>1. CASE At(w, "id")
        BY <1>0, <1>4, <2>2, <3>1 DEF RegisterRead, At, TypeOK, Docs
      <3>2. CASE At(w, "name")
        BY <1>0, <1>4, <2>1, <3>2 DEF RegisterRead, At, TypeOK, Docs
      <3>3. CASE At(w, "ip")
        BY <1>0, <1>4, <2>1, <3>3 DEF RegisterRead, At, TypeOK, Docs
      <3>. QED BY <2>1, <3>1, <3>2, <3>3 DEF Saves, At
    <2>4. doc' \in Docs /\ disk' \in {"whole", "open", "cut"} /\ write' \in [Procs -> Writes]
      BY <1>0, <2>3, SaveTyped
    <2>. QED BY <1>0, <1>4, <2>4 DEF TypeOK, RegisterRead, chainVars
  <1>5. CASE RegisterOpen(w)
    BY <1>0, <1>5, SaveTyped DEF TypeOK, RegisterOpen, chainVars
  <1>6. CASE RegisterWrite(w)
    <2>1. worker' \in [Workers -> Requests]
      BY <1>0, <1>6, GotoTyped, AnswerTyped DEF RegisterWrite, Saves
    <2>. QED BY <1>0, <1>6, <2>1, SaveTyped DEF TypeOK, RegisterWrite, chainVars
  <1>7. CASE RegisterUnreadable(w)
    <2>1. worker' \in [Workers -> Requests]
      BY <1>0, <1>7, AnswerTyped DEF RegisterUnreadable
    <2>. QED BY <1>0, <1>7, <2>1 DEF TypeOK, RegisterUnreadable, chainVars, fileVars
  <1>8. CASE WorkerKilled(w)
    <2>1. worker' \in [Workers -> Requests]
      BY <1>0, <1>8, AnswerTyped DEF WorkerKilled
    <2>2. mix' \in Mixed
      BY <1>0, <1>8, SpendMix DEF WorkerKilled, Events
    <2>3. exit' \in [Workers -> Exits]
      BY <1>0, <1>8 DEF WorkerKilled, TypeOK, NoExit, Exits
    <2>. QED BY <1>0, <1>8, <2>1, <2>2, <2>3, DropTyped DEF TypeOK, WorkerKilled, chainVars
  <1>. QED BY <1>1, <1>2, <1>3, <1>4, <1>5, <1>6, <1>7, <1>8

\* node_exit leaves a state of the node.
LEMMA NodeExitTyped ==
    ASSUME TypeOK, NodeExit
    PROVE  node' \in NodeStates
  <1>0. node \in NodeStates /\ now \in Nat /\ now + RotationDelay \in Nat
    BY NodeAssumption DEF TypeOK
  <1>1. ASSUME NEW c \in node.chains, NEW last \in BOOLEAN,
               node' = [node EXCEPT
                    !.chains = @ \ {c}, !.fin[c] = now + RotationDelay,
                    !.status = IF last THEN "FROZEN" ELSE @,
                    !.finish = IF last THEN now + RotationDelay ELSE @]
        PROVE  node' \in NodeStates
    <2>1. c \in Chains /\ node.chains \ {c} \in SUBSET Chains
      BY <1>0 DEF NodeStates
    <2>2. [node.fin EXCEPT ![c] = now + RotationDelay] \in [Chains -> Nat]
      BY <1>0, <2>1 DEF NodeStates
    <2>. QED BY <1>0, <1>1, <2>1, <2>2 DEF NodeStates, Statuses
  <1>2. CASE node.status = "LEAVING" /\ \E c \in node.chains :
             LET last == node.chains = {c}
             IN  node' = [node EXCEPT
                    !.chains = @ \ {c}, !.fin[c] = now + RotationDelay,
                    !.status = IF last THEN "FROZEN" ELSE @,
                    !.finish = IF last THEN now + RotationDelay ELSE @]
    BY <1>1, <1>2
  <1>3. CASE node' = [node EXCEPT !.status = "FROZEN", !.finish = now] \/ node' = node
    BY <1>0, <1>3 DEF NodeStates, Statuses
  <1>. QED BY <1>2, <1>3 DEF NodeExit

\* Maintenance, exit and status, and the contracts, keep all types.
LEMMA OtherTyped ==
    ASSUME IInv,
           \/ ForeignNode \/ ChainCreated \/ InitExit \/ Tick
           \/ \E w \in Workers :
                 \/ MaintenanceStart(w) \/ Maintain(w) \/ ExitStart(w) \/ ExitCount(w)
                 \/ ExitCall(w) \/ ExitCallFails(w) \/ ExitEnds(w)
                 \/ StatusStart(w) \/ StatusTime(w) \/ StatusRead(w) \/ StatusAnswer(w)
    PROVE  TypeOK'
  <1>0. TypeOK
    BY DEF IInv
  <1>1. CASE ForeignNode
    <2>1. mix' \in Mixed
      BY <1>0, <1>1, SpendMix DEF ForeignNode, Events
    <2>2. registry' \in Seq(Registered)
      BY <1>0, <1>1, RegisterTyped DEF ForeignNode
    <2>. QED BY <1>0, <1>1, <2>1, <2>2 DEF TypeOK, ForeignNode, fileVars
  <1>2. CASE ChainCreated \/ InitExit
    <2>1. mix' \in Mixed
      BY <1>0, <1>2, SpendMix DEF ChainCreated, InitExit, Events
    <2>2. node' \in NodeStates
      <3>1. CASE ChainCreated
        <4>1. PICK c \in Chains \ node.chains :
                 node' = [node EXCEPT !.chains = @ \cup {c}, !.fin[c] = 0]
          BY <3>1 DEF ChainCreated
        <4>2. [node.fin EXCEPT ![c] = 0] \in [Chains -> Nat]
          BY <1>0 DEF TypeOK, NodeStates
        <4>. QED BY <1>0, <4>1, <4>2 DEF TypeOK, NodeStates
      <3>2. CASE InitExit
        BY <1>0, <3>2 DEF InitExit, TypeOK, NodeStates, Statuses
      <3>. QED BY <1>2, <3>1, <3>2
    <2>. QED BY <1>0, <1>2, <2>1, <2>2 DEF TypeOK, ChainCreated, InitExit, fileVars
  <1>3. CASE Tick
    BY <1>0, <1>3 DEF TypeOK, Tick, chainVars, fileVars
  <1>4. ASSUME NEW w \in Workers, MaintenanceStart(w) \/ Maintain(w)
        PROVE  TypeOK'
    <2>1. worker' \in [Workers -> Requests]
      BY <1>0, <1>4, GotoTyped, AnswerTyped DEF MaintenanceStart, Maintain
    <2>2. mix' \in Mixed
      BY <1>0, <1>4, SpendMix DEF MaintenanceStart, Maintain, Events, TypeOK
    <2>3. node' \in NodeStates
      BY <1>0, <1>4 DEF MaintenanceStart, Maintain, TypeOK, NodeStates, Statuses, chainVars
    <2>. QED BY <1>0, <1>4, <2>1, <2>2, <2>3
         DEF TypeOK, MaintenanceStart, Maintain, chainVars, fileVars
  <1>5. ASSUME NEW w \in Workers, ExitStart(w) \/ ExitCount(w) \/ ExitEnds(w)
        PROVE  TypeOK'
    <2>1. Cardinality(node.chains) \in Nat
      BY <1>0, NodeAssumption, FS_Subset, FS_CardinalityType DEF TypeOK, NodeStates
    <2>2. exit' \in [Workers -> Exits]
      <3>1. CASE ExitStart(w)
        BY <1>0, <3>1 DEF ExitStart, TypeOK, Exits
      <3>2. CASE ExitCount(w)
        <4>1. [at |-> "calls", calls |-> IF node.chains = {} THEN 1 ELSE Cardinality(node.chains)]
                 \in Exits
          BY <2>1 DEF Exits
        <4>. QED BY <1>0, <3>2, <4>1 DEF ExitCount, TypeOK
      <3>3. CASE ExitEnds(w)
        BY <1>0, <3>3 DEF ExitEnds, TypeOK, Exits, NoExit
      <3>. QED BY <1>5, <3>1, <3>2, <3>3
    <2>. QED BY <1>0, <1>5, <2>2 DEF TypeOK, ExitStart, ExitCount, ExitEnds, chainVars, fileVars
  <1>6. ASSUME NEW w \in Workers, ExitCall(w) \/ ExitCallFails(w)
        PROVE  TypeOK'
    <2>1. exit[w].calls - 1 \in Nat
      BY <1>0, <1>6 DEF ExitCall, ExitCallFails, TypeOK, Exits
    <2>5. [exit EXCEPT ![w].calls = exit[w].calls - 1] \in [Workers -> Exits]
      BY <1>0, <2>1 DEF TypeOK, Exits
    <2>6. [exit EXCEPT ![w] = NoExit] \in [Workers -> Exits]
      BY <1>0 DEF TypeOK, Exits, NoExit
    <2>2. exit' \in [Workers -> Exits]
      <3>1. CASE ExitCall(w)
        BY <2>5, <3>1 DEF ExitCall
      <3>2. CASE ExitCallFails(w)
        BY <2>5, <2>6, <3>2 DEF ExitCallFails
      <3>. QED BY <1>6, <3>1, <3>2
    <2>3. mix' \in Mixed
      BY <1>0, <1>6, SpendMix DEF ExitCall, ExitCallFails, Events, TypeOK
    <2>4. node' \in NodeStates
      BY <1>0, <1>6, NodeExitTyped DEF ExitCall, ExitCallFails, TypeOK, chainVars
    <2>. QED BY <1>0, <1>6, <2>2, <2>3, <2>4 DEF TypeOK, ExitCall, ExitCallFails, chainVars, fileVars
  <1>7. ASSUME NEW w \in Workers, StatusStart(w) \/ StatusTime(w) \/ StatusRead(w) \/ StatusAnswer(w)
        PROVE  TypeOK'
    <2>1. worker' \in [Workers -> Requests]
      <3>1. [NoRequest EXCEPT !.at = "history", !.seen = node.chains, !.since = now] \in Requests
        BY <1>0 DEF TypeOK, NodeStates, NoRequest, Requests, Statuses, Reads
      <3>2. CASE StatusStart(w)
        BY <1>0, <3>1, <3>2 DEF StatusStart, TypeOK
      <3>3. CASE StatusTime(w) \/ StatusRead(w)
        <4>1. worker[w] \in Requests /\ now \in Nat /\ node.status \in Statuses
          BY <1>0 DEF TypeOK, NodeStates
        <4>2. [worker[w] EXCEPT !.at = "status", !.time = now] \in Requests
          BY <4>1 DEF Requests, Reads
        <4>3. [worker[w] EXCEPT !.at = "finish", !.status = node.status] \in Requests
          BY <4>1 DEF Requests, Reads
        <4>4. worker' \in {[worker EXCEPT ![w] = [worker[w] EXCEPT !.at = "status", !.time = now]],
                          [worker EXCEPT ![w] = [worker[w] EXCEPT !.at = "finish",
                                                                  !.status = node.status]]}
          BY <1>0, <3>3 DEF StatusTime, StatusRead, TypeOK
        <4>. QED BY <1>0, <4>2, <4>3, <4>4 DEF TypeOK
      <3>4. CASE StatusAnswer(w)
        BY <1>0, <3>4, AnswerTyped DEF StatusAnswer
      <3>. QED BY <1>7, <3>2, <3>3, <3>4
    <2>. QED BY <1>0, <1>7, <2>1
         DEF TypeOK, StatusStart, StatusTime, StatusRead, StatusAnswer, chainVars, fileVars
  <1>. QED BY <1>1, <1>2, <1>3, <1>4, <1>5, <1>6, <1>7

\* Every step is one of these three kinds.
LEMMA NextKinds ==
    ASSUME Next
    PROVE  \/ AdminStep \/ AdminRestart
           \/ \E w \in Workers :
                 \/ RegisterStart(w) \/ RegisterFind(w) \/ RegisterAvailable(w)
                 \/ RegisterCreate(w) \/ RegisterRaises(w) \/ RegisterRead(w)
                 \/ RegisterOpen(w) \/ RegisterWrite(w) \/ RegisterUnreadable(w)
                 \/ WorkerKilled(w)
           \/ ForeignNode \/ ChainCreated \/ InitExit \/ Tick
           \/ \E w \in Workers :
                 \/ MaintenanceStart(w) \/ Maintain(w) \/ ExitStart(w) \/ ExitCount(w)
                 \/ ExitCall(w) \/ ExitCallFails(w) \/ ExitEnds(w)
                 \/ StatusStart(w) \/ StatusTime(w) \/ StatusRead(w) \/ StatusAnswer(w)
  BY DEF Next, RequestStep, ExitStep

\* Every step keeps all types.
LEMMA NextTyped ==
    ASSUME IInv, [Next]_vars
    PROVE  TypeOK'
  <1>1. CASE Next
    BY <1>1, NextKinds, AdminTyped, RegisterStepTyped, OtherTyped
  <1>2. CASE UNCHANGED vars
    BY <1>2 DEF IInv, TypeOK, vars, chainVars, fileVars
  <1>. QED BY <1>1, <1>2

-----------------------------------------------------------------------------
(* Registration.  Most steps leave the registry and the file alone.            *)

\* Nothing of the registration moves, but requests of other kinds, or those that
\* end without a save under way.
Apart ==
    /\ registry' = registry /\ mix'.offers = mix.offers
    /\ doc' = doc /\ write' = write /\ keys' = keys /\ admin' = admin
    /\ \A w \in Workers :
          \/ worker'[w] = worker[w]
          \/ /\ write[w].at = "none"
             /\ worker'[w].at \notin {"find", "available", "create"} \cup Saves

\* A step that touches no registration keeps what is known of them.
LEMMA ApartKeeps ==
    ASSUME IInv, Apart
    PROVE  RInv'
  <1>1. Registry' /\ Sound(doc)' /\ Locked' /\ AdminPlace'
    BY DEF IInv, RInv, Apart, Registry, Sound, Locked, AdminPlace
  <1>2. Saving'
    BY DEF IInv, RInv, Apart, Saving, Sound, Keeps, Procs
  <1>3. Requesting'
    BY DEF IInv, RInv, Apart, Requesting
  <1>. QED BY <1>1, <1>2, <1>3 DEF RInv

\* Two nodes of this wallet are one.
LEMMA OneNode ==
    ASSUME RInv, NEW i \in DOMAIN registry, NEW j \in DOMAIN registry,
           registry[i].owner # 0, registry[j].owner # 0
    PROVE  i = j
  BY DEF RInv, Registry

\* A content that stays sound when the registry grows.
LEMMA SoundGrows ==
    ASSUME TypeOK, NEW d, Sound(d), d.id \in Nat, NEW x, registry' = Append(registry, x)
    PROVE  Sound(d)'
  BY DEF TypeOK, Sound

\* A node with a name and an IP that are free joins the others.
LEMMA RegistryGrows ==
    ASSUME IInv, NEW r, r.name \in Names, r.ip \in Ips, Free(r),
           NEW o \in Nat, Register(r, o),
           o # 0 => o = doc.key /\ [name |-> r.name, ip |-> r.ip] \in mix.offers,
           doc' = doc, mix'.offers = mix.offers
    PROVE  /\ Registry'
           /\ \A d \in Docs : Sound(d) => Sound(d)'
           /\ Len(registry') = Len(registry) + 1
           /\ \A i \in DOMAIN registry : i \in DOMAIN registry' /\ registry'[i] = registry[i]
           /\ Len(registry') \in DOMAIN registry'
           /\ registry'[Len(registry')] = [name |-> r.name, ip |-> r.ip, owner |-> o]
  <1>. DEFINE x == [name |-> r.name, ip |-> r.ip, owner |-> o]
  <1>1. /\ registry \in Seq(Registered) /\ x \in Registered
        /\ registry' = Append(registry, x)
    BY DEF IInv, TypeOK, Register, Registered
  <1>2. /\ Len(registry') = Len(registry) + 1
        /\ DOMAIN registry' = 1..(Len(registry) + 1)
        /\ DOMAIN registry = 1..Len(registry)
        /\ \A i \in DOMAIN registry : i \in DOMAIN registry' /\ registry'[i] = registry[i]
        /\ registry'[Len(registry) + 1] = x
    BY <1>1
  <1>3. \A i \in DOMAIN registry' : i \in DOMAIN registry \/ i = Len(registry) + 1
    BY <1>1, <1>2
  <1>4. \A i \in DOMAIN registry : registry[i].name # x.name /\ registry[i].ip # x.ip
    BY DEF Free, NameTaken, IpTaken
  <1>5. Registry'
    <2>1. \A i, j \in DOMAIN registry' :
             registry'[i].name = registry'[j].name \/ registry'[i].ip = registry'[j].ip => i = j
      BY <1>2, <1>3, <1>4 DEF IInv, RInv, Registry
    <2>2. \A i \in DOMAIN registry' : registry'[i].owner # 0 =>
             /\ registry'[i].owner = doc.key
             /\ [name |-> registry'[i].name, ip |-> registry'[i].ip] \in mix.offers
      BY <1>2, <1>3 DEF IInv, RInv, Registry
    <2>. QED BY <2>1, <2>2 DEF IInv, RInv, Registry
  <1>6. ASSUME NEW d \in Docs, Sound(d)
        PROVE  Sound(d)'
    BY <1>1, <1>6, SoundGrows DEF IInv, Docs
  <1>. QED BY <1>1, <1>2, <1>5, <1>6

\* The checks of a request, up to its transaction.
LEMMA ChecksKeep ==
    ASSUME IInv, NEW w \in Workers,
           RegisterStart(w) \/ RegisterFind(w) \/ RegisterAvailable(w) \/ RegisterUnreadable(w)
    PROVE  RInv'
  <1>1. /\ registry' = registry /\ doc' = doc /\ write' = write /\ keys' = keys
        /\ admin' = admin /\ mix'.offers = mix.offers
    BY SpendMix DEF IInv, RegisterStart, RegisterFind, RegisterAvailable, RegisterUnreadable,
       chainVars, fileVars, Events
  <1>2. write[w].at = "none" /\ \A v \in Workers \ {w} : worker'[v] = worker[v]
    <2>1. worker \in [Workers -> Requests] /\ w \in Procs /\ w # Admin
      BY NodeAssumption DEF IInv, TypeOK, Procs
    <2>2. worker[w].at \in {Ready, "find", "available"} \/ RegisterUnreadable(w)
      BY DEF RegisterStart, RegisterFind, RegisterAvailable, At
    <2>3. write[w].at = "none"
      BY <2>1, <2>2 DEF IInv, RInv, Saving, RegisterUnreadable, Ready, Saves
    <2>4. \A v \in Workers \ {w} : worker'[v] = worker[v]
      BY <2>1 DEF RegisterStart, RegisterFind, RegisterAvailable, RegisterUnreadable, Goto, Answer
    <2>. QED BY <2>3, <2>4
  <1>3. CASE RegisterUnreadable(w) \/ (RegisterAvailable(w) /\ ~ Free(worker[w]))
    <2>1. worker'[w] = NoRequest
      BY <1>3 DEF RegisterUnreadable, RegisterAvailable, Answer, IInv, TypeOK
    <2>. QED BY <1>1, <1>2, <2>1, ApartKeeps DEF Apart, NoRequest, Ready, Saves
  <1>4. ASSUME /\ worker'[w].at \in {"find", "available", "create", "id"}
               /\ worker'[w].key = doc.key /\ doc.key # 0
               /\ [name |-> worker'[w].name, ip |-> worker'[w].ip] \in mix.offers
               /\ worker'[w].at = "id" =>
                     \E i \in DOMAIN registry :
                        registry[i] = [name |-> worker'[w].name, ip |-> worker'[w].ip,
                                       owner |-> doc.key]
        PROVE  RInv'
    <2>1. Registry' /\ Sound(doc)' /\ Locked' /\ AdminPlace'
      BY <1>1 DEF IInv, RInv, Registry, Sound, Locked, AdminPlace
    <2>2. Saving'
      BY <1>1, <1>2 DEF IInv, RInv, Saving, Sound, Keeps, Procs
    <2>3. Requesting'
      BY <1>1, <1>2, <1>4 DEF IInv, RInv, Requesting, Saves
    <2>. QED BY <2>1, <2>2, <2>3 DEF RInv
  <1>5. CASE RegisterStart(w)
    <2>. PICK r \in mix.offers :
            worker' = [worker EXCEPT ![w] = [NoRequest EXCEPT
                          !.at = "find", !.name = r.name, !.ip = r.ip, !.key = doc.key]]
      BY <1>5 DEF RegisterStart
    <2>1. /\ worker'[w].at = "find" /\ worker'[w].key = doc.key
          /\ worker'[w].name = r.name /\ worker'[w].ip = r.ip
      BY DEF NoRequest, IInv, TypeOK
    <2>2. r = [name |-> r.name, ip |-> r.ip]
      BY DEF IInv, TypeOK, Mixed
    <2>. QED BY <1>4, <1>5, <2>1, <2>2 DEF RegisterStart
  <1>6. CASE RegisterFind(w) \/ (RegisterAvailable(w) /\ Free(worker[w]))
    <2>1. /\ worker[w].at \in {"find", "available"}
          /\ worker[w].key = doc.key /\ doc.key # 0
          /\ [name |-> worker[w].name, ip |-> worker[w].ip] \in mix.offers
      BY <1>6 DEF RegisterFind, RegisterAvailable, At, IInv, RInv, Requesting
    <2>2. /\ worker'[w].name = worker[w].name /\ worker'[w].ip = worker[w].ip
          /\ worker'[w].key = worker[w].key
          /\ worker'[w].at \in {"id", "available", "create"}
          /\ worker'[w].at = "id" => Found(worker[w])
      BY <1>6 DEF RegisterFind, RegisterAvailable, Goto, IInv, TypeOK, Requests
    <2>3. Found(worker[w]) =>
             \E i \in DOMAIN registry :
                registry[i] = [name |-> worker[w].name, ip |-> worker[w].ip, owner |-> doc.key]
      <3>. SUFFICES ASSUME Found(worker[w])
                   PROVE  registry[NameToIndex(worker[w].name)] =
                             [name |-> worker[w].name, ip |-> worker[w].ip, owner |-> doc.key]
        BY DEF Found
      <3>. DEFINE x == registry[NameToIndex(worker[w].name)]
      <3>1. x \in Registered
        BY DEF Found, IInv, TypeOK
      <3>2. x.name = worker[w].name /\ x.ip = worker[w].ip /\ x.owner = doc.key
        BY <2>1 DEF Found
      <3>. QED BY <3>1, <3>2 DEF Registered
    <2>. QED BY <1>4, <2>1, <2>2, <2>3
  <1>. QED BY <1>3, <1>5, <1>6

\* The transaction of a request, or of another machine.
LEMMA RegistrationKeeps ==
    ASSUME IInv,
           ForeignNode \/ \E w \in Workers : RegisterCreate(w) \/ RegisterRaises(w)
    PROVE  RInv'
  <1>0. TypeOK /\ write \in [Procs -> Writes]
    BY DEF IInv, TypeOK
  <1>1. \A p \in Procs : write[p].doc \in Docs
    BY <1>0 DEF Writes
  <1>2. CASE ForeignNode
    <2>1. /\ doc' = doc /\ write' = write /\ keys' = keys /\ admin' = admin
          /\ worker' = worker /\ mix'.offers = mix.offers
      BY <1>0, <1>2, SpendMix DEF ForeignNode, Events, fileVars
    <2>. PICK r \in [name : Names, ip : Ips] : Free(r) /\ Register(r, 0)
      BY <1>2 DEF ForeignNode
    <2>2. /\ Registry'
          /\ \A d \in Docs : Sound(d) => Sound(d)'
          /\ \A i \in DOMAIN registry : i \in DOMAIN registry' /\ registry'[i] = registry[i]
      BY <2>1, RegistryGrows
    <2>3. Sound(doc)' /\ Locked' /\ AdminPlace'
      BY <1>0, <2>1, <2>2 DEF IInv, RInv, Locked, AdminPlace, TypeOK
    <2>4. Saving'
      BY <1>1, <2>1, <2>2 DEF IInv, RInv, Saving, Keeps
    <2>5. Requesting'
      BY <2>1, <2>2 DEF IInv, RInv, Requesting
    <2>. QED BY <2>2, <2>3, <2>4, <2>5 DEF RInv
  <1>3. ASSUME NEW w \in Workers, RegisterCreate(w) \/ RegisterRaises(w)
        PROVE  RInv'
    <2>1. /\ doc' = doc /\ write' = write /\ keys' = keys /\ admin' = admin
          /\ mix'.offers = mix.offers
      BY <1>0, <1>3, SpendMix DEF RegisterCreate, RegisterRaises, Events, fileVars
    <2>2. /\ worker[w].at = "create" /\ write[w].at = "none"
          /\ worker[w].name \in Names /\ worker[w].ip \in Ips /\ worker[w].key \in Nat
          /\ worker[w].key = doc.key /\ doc.key # 0
          /\ [name |-> worker[w].name, ip |-> worker[w].ip] \in mix.offers
      BY <1>0, <1>3, RequestNames, NodeAssumption
         DEF RegisterCreate, RegisterRaises, At, IInv, RInv, Requesting, Saving, Procs, Saves
    <2>3. /\ \A v \in Workers \ {w} : worker'[v] = worker[v]
          /\ \/ worker'[w] = NoRequest
             \/ worker'[w] = [worker[w] EXCEPT !.at = "id"] /\ registry' # registry
      BY <1>0, <1>3 DEF RegisterCreate, RegisterRaises, Goto, Answer, TypeOK, Register
    <2>4. CASE registry' = registry
      BY <2>1, <2>2, <2>3, <2>4, ApartKeeps DEF Apart, NoRequest, Ready, Saves
    <2>5. CASE Free(worker[w]) /\ Register(worker[w], worker[w].key)
      <3>1. /\ Registry'
            /\ \A d \in Docs : Sound(d) => Sound(d)'
            /\ \A i \in DOMAIN registry : i \in DOMAIN registry' /\ registry'[i] = registry[i]
            /\ \E i \in DOMAIN registry' :
                  registry'[i] = [name |-> worker[w].name, ip |-> worker[w].ip,
                                  owner |-> worker[w].key]
        BY <2>1, <2>2, <2>5, RegistryGrows
      <3>2. Sound(doc)' /\ Locked' /\ AdminPlace'
        BY <1>0, <2>1, <3>1 DEF IInv, RInv, Locked, AdminPlace, TypeOK
      <3>3. Saving'
        BY <1>1, <2>1, <2>2, <2>3, <3>1 DEF IInv, RInv, Saving, Keeps, Procs
      <3>4. Requesting'
        <4>1. \A i \in DOMAIN registry : i \in DOMAIN registry' /\ registry'[i] = registry[i]
          BY <3>1
        <4>2. worker[w] \in Requests
          BY <1>0 DEF TypeOK
        <4>3. \/ worker'[w].at = Ready
              \/ /\ worker'[w].at = "id" /\ worker'[w].key = worker[w].key
                 /\ worker'[w].name = worker[w].name /\ worker'[w].ip = worker[w].ip
          BY <2>3, <4>2 DEF NoRequest, Requests
        <4>. QED BY <2>1, <2>2, <2>3, <3>1, <4>1, <4>3
             DEF IInv, RInv, Requesting, Ready, Saves
      <3>. QED BY <3>1, <3>2, <3>3, <3>4 DEF RInv
    <2>. QED BY <1>3, <2>4, <2>5 DEF RegisterCreate, RegisterRaises
  <1>. QED BY <1>2, <1>3

\* A save begins: what will be written is sound and takes nothing back.
LEMMA ReadKeeps ==
    ASSUME IInv, NEW p \in Procs, NEW d \in Docs, ReadDoc(p, d),
           registry' = registry, mix' = mix, keys' = keys, admin' = admin, worker' = worker,
           Sound(d), Keeps(d), d.key # 0,
           p = Admin => /\ admin \in DOMAIN AfterSave
                        /\ admin = "key" => d.id = 0
                        /\ admin # "key" => d.id # 0 /\ doc.id # 0,
           p # Admin => worker[p].at \in Saves /\ d.id # 0 /\ doc.key # 0
    PROVE  RInv'
  <1>1. /\ doc' = doc /\ write'[p] = [at |-> "read", doc |-> d]
        /\ \A q \in Procs : write[q].at = "none"
        /\ \A q \in Procs \ {p} : write'[q] = write[q]
    BY DEF IInv, TypeOK, ReadDoc, LockFree
  <1>2. Registry' /\ Sound(doc)' /\ AdminPlace' /\ Requesting'
    BY <1>1 DEF IInv, RInv, Registry, Sound, AdminPlace, Requesting
  <1>3. Locked'
    BY <1>1 DEF Locked
  <1>4. Saving'
    BY <1>1 DEF Saving, Sound, Keeps
  <1>. QED BY <1>2, <1>3, <1>4 DEF RInv

\* The truncation of the file changes nothing of what it is about to hold.
LEMMA OpenKeeps ==
    ASSUME IInv, NEW p \in Procs, OpenDoc(p),
           registry' = registry, mix' = mix, keys' = keys, admin' = admin, worker' = worker
    PROVE  RInv'
  <1>1. /\ doc' = doc /\ write[p].at = "read" /\ write'[p].doc = write[p].doc
        /\ write'[p].at = "open"
        /\ \A q \in Procs \ {p} : write'[q] = write[q]
    BY DEF IInv, TypeOK, OpenDoc, Writes
  <1>2. Registry' /\ Sound(doc)' /\ AdminPlace' /\ Requesting'
    BY <1>1 DEF IInv, RInv, Registry, Sound, AdminPlace, Requesting
  <1>3. Locked'
    BY <1>1 DEF IInv, RInv, Locked
  <1>4. Saving'
    BY <1>1 DEF IInv, RInv, Saving, Sound, Keeps
  <1>. QED BY <1>2, <1>3, <1>4 DEF RInv

\* A save is given up, and the process with it.
LEMMA DropKeeps ==
    ASSUME IInv, NEW p \in Procs, DropWrite(p),
           registry' = registry, mix'.offers = mix.offers, keys' = keys,
           p = Admin => admin' = "down" /\ worker' = worker,
           p # Admin => admin' = admin /\ worker' = [worker EXCEPT ![p] = NoRequest]
    PROVE  RInv'
  <1>1. /\ doc' = doc /\ write'[p] = NoWrite /\ NoWrite.at = "none"
        /\ \A q \in Procs \ {p} : write'[q] = write[q]
    BY DEF IInv, TypeOK, DropWrite, NoWrite
  <1>2. Registry' /\ Sound(doc)' /\ AdminPlace'
    BY <1>1 DEF IInv, RInv, Registry, Sound, AdminPlace
  <1>3. Locked'
    BY <1>1 DEF IInv, RInv, Locked
  <1>4. \A w \in Workers : worker'[w] = worker[w] \/ (worker'[w] = NoRequest /\ w = p)
    BY DEF IInv, TypeOK, Procs
  <1>5. Saving'
    BY <1>1, <1>4, NodeAssumption DEF IInv, RInv, Saving, Sound, Keeps, Procs
  <1>6. Requesting'
    BY <1>1, <1>4 DEF IInv, RInv, Requesting, NoRequest, Ready, Saves
  <1>. QED BY <1>2, <1>3, <1>5, <1>6 DEF RInv

\* A save ends: its content was made from the one it replaces.
LEMMA WriteEffect ==
    ASSUME IInv, NEW p \in Procs, WriteDoc(p), registry' = registry, mix' = mix
    PROVE  /\ Registry' /\ Sound(doc)' /\ Locked' /\ Saving'
           /\ Keeps(doc') /\ doc'.key # 0
  <1>1. /\ doc' = write[p].doc /\ write[p].at # "none"
        /\ \A q \in Procs : write'[q].at = "none"
    <2>1. \A q \in Procs \ {p} : write'[q] = write[q] /\ write[q].at = "none"
      BY DEF IInv, TypeOK, RInv, Locked, WriteDoc
    <2>. QED BY <2>1 DEF IInv, TypeOK, WriteDoc, NoWrite
  <1>2. Sound(doc') /\ Keeps(doc') /\ doc'.key # 0
    BY <1>1 DEF IInv, RInv, Saving
  <1>3. Sound(doc)'
    BY <1>2 DEF Sound
  <1>4. Registry'
    BY <1>2 DEF IInv, RInv, Registry, Keeps
  <1>5. Locked' /\ Saving'
    BY <1>1 DEF Locked, Saving
  <1>. QED BY <1>2, <1>3, <1>4, <1>5

\* The main process saves what the contracts say, or a key when there is none.
LEMMA AdminKeeps ==
    ASSUME IInv, AdminStep \/ AdminRestart
    PROVE  RInv'
  <1>0. TypeOK /\ RInv /\ Admin \in Procs
    BY DEF IInv, Procs
  <1>1. CASE AdminStart \/ AdminKey \/ AdminSoft \/ AdminAgrees \/ AdminSeesId \/ AdminMonitors
             \/ AdminUnreadable
    <2>1. /\ registry' = registry /\ mix' = mix /\ doc' = doc /\ write' = write
          /\ worker' = worker
      BY <1>1 DEF AdminStart, AdminKey, AdminSoft, AdminAgrees, AdminSeesId, AdminMonitors,
         AdminUnreadable, chainVars, fileVars
    <2>2. write[Admin].at = "none"
      BY <1>0, <1>1 DEF RInv, Saving, AfterSave, AdminStart, AdminKey, AdminSoft, AdminAgrees,
         AdminSeesId, AdminMonitors, AdminUnreadable
    <2>3. Registry' /\ Sound(doc)' /\ Locked' /\ Requesting'
      BY <1>0, <2>1 DEF RInv, Registry, Sound, Locked, Requesting
    <2>4. Saving'
      BY <1>0, <2>1, <2>2 DEF RInv, Saving, Sound, Keeps
    <2>5. AdminPlace'
      BY <1>0, <1>1, <2>1 DEF RInv, AdminPlace, AfterSave, AdminStart, AdminKey, AdminSoft,
         AdminAgrees, AdminSeesId, AdminMonitors, AdminUnreadable, TypeOK, Differs, Changed, Docs
    <2>. QED BY <2>3, <2>4, <2>5 DEF RInv
  <1>2. CASE AdminRead
    <2>1. doc \in Docs /\ keys \in Nat
      BY <1>0 DEF TypeOK
    <2>2. CASE admin = "key"
      <3>1. /\ Changed = [doc EXCEPT !.key = keys]
            /\ doc.key = 0 /\ doc.id = 0 /\ doc.name = None /\ doc.ip = None /\ keys # 0
        BY <1>0, <2>2 DEF Changed, RInv, AdminPlace, Sound
      <3>2. Changed \in Docs /\ Changed.key # 0 /\ Changed.id = 0 /\ Sound(Changed) /\ Keeps(Changed)
        BY <2>1, <3>1 DEF Docs, Sound, Keeps
      <3>. QED BY <1>2, <2>2, <3>2, ReadKeeps, <1>0 DEF AdminRead, chainVars, AfterSave
    <2>3. CASE admin \in {"ip", "name"}
      <3>1. /\ doc.id # 0 /\ doc.id \in DOMAIN registry /\ doc.key # 0
            /\ registry[doc.id].owner = doc.key
            /\ doc.name \in {None, registry[doc.id].name}
            /\ doc.ip \in {None, registry[doc.id].ip}
            /\ registry[doc.id] \in Registered
        BY <1>0, <2>3 DEF RInv, AdminPlace, Sound, TypeOK
      <3>2. Changed \in {[doc EXCEPT !.ip = registry[doc.id].ip],
                         [doc EXCEPT !.name = registry[doc.id].name]}
        BY <2>3 DEF Changed
      <3>3. /\ Changed \in Docs /\ Changed.key # 0 /\ Changed.id # 0
            /\ Sound(Changed) /\ Keeps(Changed)
        BY <2>1, <3>1, <3>2 DEF Docs, Registered, Sound, Keeps
      <3>. QED BY <1>2, <2>3, <3>1, <3>3, ReadKeeps, <1>0 DEF AdminRead, chainVars, AfterSave
    <2>. QED BY <1>2, <2>2, <2>3 DEF AdminRead, AfterSave
  <1>3. CASE AdminOpen
    BY <1>0, <1>3, OpenKeeps DEF AdminOpen, chainVars
  <1>4. CASE AdminWrite
    <2>1. /\ Registry' /\ Sound(doc)' /\ Locked' /\ Saving'
          /\ Keeps(doc') /\ doc'.key # 0
      BY <1>0, <1>4, WriteEffect DEF AdminWrite, chainVars
    <2>2. /\ admin \in DOMAIN AfterSave /\ admin' = AfterSave[admin]
          /\ admin # "key" => doc'.id # 0
      BY <1>0, <1>4 DEF AdminWrite, WriteDoc, RInv, Saving
    <2>3. AdminPlace'
      BY <2>2 DEF AfterSave, AdminPlace
    <2>4. Requesting'
      BY <1>0, <1>4, <2>1 DEF AdminWrite, chainVars, RInv, Requesting, Keeps
    <2>. QED BY <2>1, <2>3, <2>4 DEF RInv
  <1>5. CASE AdminRestart
    BY <1>0, <1>5, SpendMix, DropKeeps DEF AdminRestart, Events, chainVars
  <1>. QED BY <1>1, <1>2, <1>3, <1>4, <1>5 DEF AdminStep

\* The three saves of a registration name one node of this wallet.
LEMMA RequestSaveKeeps ==
    ASSUME IInv, NEW w \in Workers,
           RegisterRead(w) \/ RegisterOpen(w) \/ RegisterWrite(w) \/ WorkerKilled(w)
    PROVE  RInv'
  <1>0. TypeOK /\ RInv /\ w \in Procs /\ w # Admin
    BY NodeAssumption DEF IInv, Procs
  <1>1. CASE RegisterRead(w)
    <2>1. /\ worker[w].at \in Saves /\ doc.key # 0 /\ doc \in Docs
          /\ worker[w].at # "id" => doc.id # 0
      BY <1>0, <1>1 DEF RegisterRead, RInv, Requesting, TypeOK, Saves
    <2>. PICK i \in DOMAIN registry :
            registry[i] = [name |-> worker[w].name, ip |-> worker[w].ip, owner |-> doc.key]
      BY <1>0, <2>1 DEF RInv, Requesting
    <2>2. i \in Nat \ {0} /\ worker[w].name \in Names /\ worker[w].ip \in Ips
      BY <1>0, <2>1, RequestNames DEF TypeOK, RInv
    <2>3. NameToIndex(worker[w].name) = i
      <3>1. NameTaken(worker[w].name)
        BY DEF NameTaken
      <3>2. /\ NameToIndex(worker[w].name) \in DOMAIN registry
            /\ registry[NameToIndex(worker[w].name)].name = registry[i].name
        BY <3>1, IndexOfName
      <3>. QED BY <1>0, <3>2 DEF RInv, Registry
    <2>4. doc.id # 0 => doc.id = i
      BY <1>0, <2>1, OneNode DEF RInv, Sound
    <2>. DEFINE d == CASE At(w, "id")   -> [doc EXCEPT !.id = NameToIndex(worker[w].name)]
                       [] At(w, "name") -> [doc EXCEPT !.name = worker[w].name]
                       [] At(w, "ip")   -> [doc EXCEPT !.ip = worker[w].ip]
    <2>5. d \in {[doc EXCEPT !.id = i], [doc EXCEPT !.name = worker[w].name],
                 [doc EXCEPT !.ip = worker[w].ip]} /\ (d # [doc EXCEPT !.id = i] => doc.id # 0)
      BY <2>1, <2>3 DEF Saves, At
    <2>6. d \in Docs /\ d.key # 0 /\ d.id # 0 /\ Sound(d) /\ Keeps(d)
      <3>1. Sound(doc)
        BY <1>0 DEF RInv
      <3>2. /\ doc.name \in {None, registry[i].name} /\ doc.ip \in {None, registry[i].ip}
            /\ doc.id \in {0, i}
        BY <2>1, <2>4, <3>1 DEF Sound, Docs
      <3>3. ASSUME NEW e, e = [doc EXCEPT !.id = i]
            PROVE  e \in Docs /\ e.key # 0 /\ e.id # 0 /\ Sound(e) /\ Keeps(e)
        BY <2>1, <2>2, <3>2, <3>3 DEF Docs, Sound, Keeps
      <3>4. ASSUME doc.id # 0, NEW e, e \in {[doc EXCEPT !.name = worker[w].name],
                                           [doc EXCEPT !.ip = worker[w].ip]}
            PROVE  e \in Docs /\ e.key # 0 /\ e.id # 0 /\ Sound(e) /\ Keeps(e)
        BY <2>1, <2>2, <3>2, <3>4 DEF Docs, Sound, Keeps
      <3>. HIDE DEF d
      <3>. QED BY <2>5, <3>3, <3>4
    <2>7. ReadDoc(w, d)
      BY <1>1 DEF RegisterRead
    <2>. HIDE DEF d
    <2>. QED BY <1>0, <1>1, <2>1, <2>6, <2>7, ReadKeeps DEF RegisterRead, chainVars
  <1>2. CASE RegisterOpen(w)
    BY <1>0, <1>2, OpenKeeps DEF RegisterOpen, chainVars
  <1>3. CASE RegisterWrite(w)
    <2>1. /\ Registry' /\ Sound(doc)' /\ Locked' /\ Saving'
          /\ Keeps(doc') /\ doc'.key # 0
      BY <1>0, <1>3, WriteEffect DEF RegisterWrite, chainVars
    <2>2. /\ doc'.id # 0 /\ doc.key # 0 /\ worker[w].at \in Saves
          /\ \A v \in Workers \ {w} : worker'[v] = worker[v]
          /\ \/ worker'[w] = [worker[w] EXCEPT !.at = "name"]
             \/ worker'[w] = [worker[w] EXCEPT !.at = "ip"]
             \/ worker'[w] = NoRequest
      BY <1>0, <1>3 DEF RegisterWrite, WriteDoc, RInv, Saving, TypeOK, Goto, Answer
    <2>3. AdminPlace'
      BY <1>0, <1>3, <2>1, <2>2 DEF RegisterWrite, RInv, AdminPlace, Keeps
    <2>4. Requesting'
      <3>1. \/ worker'[w].at = Ready
            \/ /\ worker'[w].at \in Saves /\ worker'[w].key = worker[w].key
               /\ worker'[w].name = worker[w].name /\ worker'[w].ip = worker[w].ip
        BY <1>0, <2>2 DEF NoRequest, TypeOK, Requests, Saves
      <3>. QED BY <1>0, <1>3, <2>1, <2>2, <3>1
           DEF RegisterWrite, chainVars, RInv, Requesting, Keeps, Ready, Saves
    <2>. QED BY <2>1, <2>3, <2>4 DEF RInv
  <1>4. CASE WorkerKilled(w)
    BY <1>0, <1>4, SpendMix, DropKeeps DEF WorkerKilled, Answer, Events, chainVars
  <1>. QED BY <1>1, <1>2, <1>3, <1>4

\* Chains, exits, maintenance and time do not concern the registration.
LEMMA OtherKeeps ==
    ASSUME IInv,
           \/ ChainCreated \/ InitExit \/ Tick
           \/ \E w \in Workers :
                 \/ MaintenanceStart(w) \/ Maintain(w) \/ ExitStart(w) \/ ExitCount(w)
                 \/ ExitCall(w) \/ ExitCallFails(w) \/ ExitEnds(w)
                 \/ StatusStart(w) \/ StatusTime(w) \/ StatusRead(w) \/ StatusAnswer(w)
    PROVE  RInv'
  <1>0. TypeOK /\ RInv
    BY DEF IInv
  <1>1. CASE ChainCreated \/ InitExit \/ Tick
    <2>1. mix'.offers = mix.offers
      BY <1>0, <1>1, SpendMix DEF ChainCreated, InitExit, Tick, Events
    <2>. QED BY <1>1, <2>1, ApartKeeps
         DEF Apart, ChainCreated, InitExit, Tick, fileVars, chainVars
  <1>2. ASSUME NEW w \in Workers,
               \/ ExitStart(w) \/ ExitCount(w) \/ ExitCall(w) \/ ExitCallFails(w) \/ ExitEnds(w)
        PROVE  RInv'
    <2>1. mix'.offers = mix.offers
      BY <1>0, <1>2, SpendMix
         DEF ExitStart, ExitCount, ExitCall, ExitCallFails, ExitEnds, Events
    <2>. QED BY <1>2, <2>1, ApartKeeps
         DEF Apart, ExitStart, ExitCount, ExitCall, ExitCallFails, ExitEnds, fileVars, chainVars
  <1>3. ASSUME NEW w \in Workers,
               \/ MaintenanceStart(w) \/ Maintain(w)
               \/ StatusStart(w) \/ StatusTime(w) \/ StatusRead(w) \/ StatusAnswer(w)
        PROVE  RInv'
    <2>1. /\ worker[w].at \in {Ready, "on", "off"} \cup Reads
          /\ worker'[w].at \in {Ready, "on", "off"} \cup Reads
          /\ \A v \in Workers \ {w} : worker'[v] = worker[v]
      <3>1. CASE MaintenanceStart(w)
        BY <1>0, <3>1 DEF MaintenanceStart, KnowsId, At, Goto, TypeOK, Requests
      <3>2. CASE Maintain(w) \/ StatusAnswer(w)
        BY <1>0, <3>2 DEF Maintain, StatusAnswer, At, Answer, TypeOK, NoRequest, Reads
      <3>3. CASE StatusStart(w)
        BY <1>0, <3>3 DEF StatusStart, Asked, KnowsId, At, TypeOK, NoRequest, Reads
      <3>4. CASE StatusTime(w) \/ StatusRead(w)
        BY <1>0, <3>4 DEF StatusTime, StatusRead, At, TypeOK, Requests, Reads
      <3>. QED BY <1>3, <3>1, <3>2, <3>3, <3>4
    <2>2. write[w].at = "none"
      BY <1>0, <2>1, NodeAssumption DEF RInv, Saving, Procs, Ready, Reads, Saves
    <2>3. mix'.offers = mix.offers
      BY <1>0, <1>3, SpendMix
         DEF MaintenanceStart, Maintain, StatusStart, StatusTime, StatusRead, StatusAnswer, Events
    <2>. QED BY <1>3, <2>1, <2>2, <2>3, ApartKeeps
         DEF Apart, MaintenanceStart, Maintain, StatusStart, StatusTime, StatusRead, StatusAnswer,
             fileVars, chainVars, Ready, Reads, Saves
  <1>. QED BY <1>1, <1>2, <1>3

\* Every step keeps what is known of registrations and of the file.
LEMMA NextRegistered ==
    ASSUME IInv, [Next]_vars
    PROVE  RInv'
  <1>1. CASE Next
    BY <1>1, NextKinds, AdminKeeps, ChecksKeep, RegistrationKeeps, RequestSaveKeeps, OtherKeeps
  <1>2. CASE UNCHANGED vars
    <2>1. Apart
      BY <1>2 DEF Apart, vars, chainVars, fileVars
    <2>. QED BY <2>1, ApartKeeps
  <1>. QED BY <1>1, <1>2

-----------------------------------------------------------------------------
(* Exit. *)

\* The effect of node_exit on what is still to be served.
LEMMA NodeExitServes ==
    ASSUME IInv, NodeExit, now' = now
    PROVE  /\ Serving'
           /\ node.status = "FROZEN" => node' = node
           /\ \/ node'.chains # {}
              \/ node.chains = {}
              \/ node'.status = "FROZEN" /\ node'.finish = now + RotationDelay
           /\ node'.chains \subseteq node.chains
  <1>0. /\ node \in NodeStates /\ now \in Nat /\ RotationDelay \in Nat /\ Serving
    BY NodeAssumption DEF IInv, TypeOK
  <1>1. CASE /\ node.status = "LEAVING"
             /\ \E c \in node.chains :
                  LET last == node.chains = {c}
                  IN  node' = [node EXCEPT
                         !.chains = @ \ {c}, !.fin[c] = now + RotationDelay,
                         !.status = IF last THEN "FROZEN" ELSE @,
                         !.finish = IF last THEN now + RotationDelay ELSE @]
    <2>. PICK c \in node.chains :
              node' = [node EXCEPT
                         !.chains = @ \ {c}, !.fin[c] = now + RotationDelay,
                         !.status = IF node.chains = {c} THEN "FROZEN" ELSE @,
                         !.finish = IF node.chains = {c} THEN now + RotationDelay ELSE @]
      BY <1>1
    <2>1. /\ node'.chains = node.chains \ {c}
          /\ node'.fin = [node.fin EXCEPT ![c] = now + RotationDelay]
          /\ node'.status = IF node.chains = {c} THEN "FROZEN" ELSE node.status
          /\ node'.finish = IF node.chains = {c} THEN now + RotationDelay ELSE node.finish
      BY <1>0 DEF NodeStates
    <2>2. \A b \in Chains : node'.fin[b] <= now + RotationDelay
      BY <1>0, <2>1 DEF NodeStates, Serving
    <2>3. CASE node.chains = {c}
      BY <1>0, <1>1, <2>1, <2>2, <2>3 DEF Serving
    <2>4. CASE node.chains # {c}
      BY <1>0, <1>1, <2>1, <2>2, <2>4 DEF Serving
    <2>. QED BY <2>3, <2>4
  <1>2. CASE /\ node.status = "LEAVING" /\ node.chains = {}
             /\ node' = [node EXCEPT !.status = "FROZEN", !.finish = now]
    <2>1. /\ node'.chains = {} /\ node'.fin = node.fin
          /\ node'.status = "FROZEN" /\ node'.finish = now
      BY <1>0, <1>2 DEF NodeStates
    <2>. QED BY <1>0, <1>2, <2>1 DEF Serving, NodeStates
  <1>3. CASE node.status # "LEAVING" /\ node' = node
    BY <1>0, <1>3 DEF Serving
  <1>. QED BY <1>1, <1>2, <1>3 DEF NodeExit

\* The contracts' side of maintenance, leaving and new chains.
LEMMA NodeMoves ==
    ASSUME IInv, now' = now,
           \/ ChainCreated \/ InitExit
           \/ \E w \in Workers : Maintain(w)
    PROVE  /\ Serving'
           /\ node.status = "FROZEN" => node'.status = "FROZEN" /\ node'.finish = node.finish
           /\ node.chains \subseteq node'.chains
  <1>0. /\ node \in NodeStates /\ now \in Nat /\ RotationDelay \in Nat /\ Serving
    BY NodeAssumption DEF IInv, TypeOK
  <1>1. CASE ChainCreated
    <2>. PICK c \in Chains : node' = [node EXCEPT !.chains = @ \cup {c}, !.fin[c] = 0]
      BY <1>1 DEF ChainCreated
    <2>1. /\ node'.chains = node.chains \cup {c} /\ node'.fin = [node.fin EXCEPT ![c] = 0]
          /\ node'.status = "ACTIVE" /\ node.status = "ACTIVE"
      BY <1>0, <1>1 DEF ChainCreated, NodeStates
    <2>. QED BY <1>0, <2>1 DEF Serving, NodeStates
  <1>2. CASE InitExit
    BY <1>0, <1>2 DEF InitExit, Serving, NodeStates
  <1>3. CASE \E w \in Workers : Maintain(w)
    BY <1>0, <1>3 DEF Maintain, Serving, NodeStates
  <1>. QED BY <1>1, <1>2, <1>3

\* An answer under way stays one while nothing of it changes.
LEMMA ReadingKeeps ==
    ASSUME IInv, now' = now,
           \A w \in Workers : worker'[w].at \notin Reads \/ worker'[w] = worker[w],
           node.status = "FROZEN" => node'.status = "FROZEN" /\ node'.finish = node.finish,
           \/ node.chains \subseteq node'.chains
           \/ node'.chains # {}
           \/ node.chains = {}
           \/ node'.status = "FROZEN" /\ node'.finish = now + RotationDelay
    PROVE  Reading'
  <1>. SUFFICES ASSUME NEW w \in Workers, worker'[w].at \in Reads
                PROVE  /\ worker[w].since <= now /\ now <= worker[w].since + Timeout
                       /\ worker[w].at # "history" => worker[w].time <= now
                       /\ worker[w].seen # {} =>
                             \/ node'.chains # {}
                             \/ /\ node'.status = "FROZEN"
                                /\ node'.finish >= worker[w].since + RotationDelay
                       /\ worker[w].at = "finish" /\ worker[w].status = "FROZEN"
                             => node'.status = "FROZEN"
    BY DEF Reading
  <1>0. /\ worker[w] \in Requests /\ worker[w].since \in Nat /\ now \in Nat
        /\ RotationDelay \in Nat /\ Timeout \in Nat /\ node.finish \in Nat
    BY NodeAssumption DEF IInv, TypeOK, Requests, NodeStates
  <1>. QED BY <1>0 DEF IInv, Reading

\* Steps that leave the node of the contracts and every answer under way alone.
LEMMA BesideKeeps ==
    ASSUME IInv, now' = now, node' = node,
           \A w \in Workers : worker'[w].at \notin Reads \/ worker'[w] = worker[w]
    PROVE  Serving' /\ Reading'
  <1>1. Serving'
    BY DEF IInv, Serving
  <1>. QED BY <1>1, ReadingKeeps

\* Every step keeps what is known of exits and of the answers about them.
LEMMA NextServed ==
    ASSUME IInv, [Next]_vars
    PROVE  Serving' /\ Reading'
  <1>0. TypeOK
    BY DEF IInv
  <1>1. CASE AdminStep \/ AdminRestart \/ ForeignNode
    BY <1>1, BesideKeeps
       DEF AdminStep, AdminStart, AdminKey, AdminSoft, AdminAgrees, AdminRead, AdminOpen,
           AdminWrite, AdminSeesId, AdminMonitors, AdminUnreadable, AdminRestart, ForeignNode,
           chainVars
  <1>2. ASSUME NEW w \in Workers,
               \/ RegisterStart(w) \/ RegisterFind(w) \/ RegisterAvailable(w)
               \/ RegisterCreate(w) \/ RegisterRaises(w) \/ RegisterRead(w)
               \/ RegisterOpen(w) \/ RegisterWrite(w) \/ RegisterUnreadable(w)
               \/ WorkerKilled(w) \/ MaintenanceStart(w)
        PROVE  Serving' /\ Reading'
    <2>1. now' = now /\ node' = node
      BY <1>2 DEF RegisterStart, RegisterFind, RegisterAvailable, RegisterCreate, RegisterRaises,
         RegisterRead, RegisterOpen, RegisterWrite, RegisterUnreadable, WorkerKilled,
         MaintenanceStart, chainVars
    <2>2. \/ worker' = worker
          \/ \E r \in Requests : worker' = [worker EXCEPT ![w] = r] /\ r.at \notin Reads
      <3>1. NoRequest \in Requests /\ NoRequest.at \notin Reads
        BY DEF NoRequest, Requests, Ready, Statuses, Reads
      <3>2. ASSUME NEW label \in {"id", "available", "create", "name", "ip", "on", "off"},
                   Goto(w, label)
            PROVE  \E r \in Requests : worker' = [worker EXCEPT ![w] = r] /\ r.at \notin Reads
        <4>1. worker' = [worker EXCEPT ![w] = [worker[w] EXCEPT !.at = label]]
          BY <1>0, <3>2 DEF Goto, TypeOK
        <4>2. /\ [worker[w] EXCEPT !.at = label] \in Requests
              /\ [worker[w] EXCEPT !.at = label].at = label /\ label \notin Reads
          BY <1>0 DEF TypeOK, Requests, Saves, Reads
        <4>. QED BY <4>1, <4>2
      <3>3. CASE RegisterStart(w)
        <4>. PICK r \in mix.offers :
               worker' = [worker EXCEPT ![w] = [NoRequest EXCEPT
                             !.at = "find", !.name = r.name, !.ip = r.ip, !.key = doc.key]]
          BY <3>3 DEF RegisterStart
        <4>. DEFINE q == [NoRequest EXCEPT
                             !.at = "find", !.name = r.name, !.ip = r.ip, !.key = doc.key]
        <4>1. r.name \in Names /\ r.ip \in Ips /\ doc.key \in Nat
          BY <1>0 DEF TypeOK, Mixed, Docs
        <4>2. q \in Requests /\ q.at = "find" /\ "find" \notin Reads
          BY <4>1 DEF NoRequest, Requests, Statuses, Reads
        <4>. QED BY <4>2
      <3>4. CASE \/ RegisterFind(w) \/ RegisterAvailable(w) \/ RegisterCreate(w)
                 \/ RegisterRaises(w) \/ RegisterUnreadable(w) \/ WorkerKilled(w)
        BY <3>1, <3>2, <3>4 DEF RegisterFind, RegisterAvailable, RegisterCreate, RegisterRaises,
           RegisterUnreadable, WorkerKilled, Answer
      <3>5. CASE \/ RegisterRead(w) \/ RegisterOpen(w) \/ RegisterWrite(w) \/ MaintenanceStart(w)
        BY <3>1, <3>2, <3>5 DEF RegisterRead, RegisterOpen, RegisterWrite, MaintenanceStart, Answer
      <3>. QED BY <1>2, <3>3, <3>4, <3>5
    <2>3. \A v \in Workers : worker'[v].at \notin Reads \/ worker'[v] = worker[v]
      BY <1>0, <2>2 DEF TypeOK
    <2>. QED BY <2>1, <2>3, BesideKeeps
  <1>3. ASSUME NEW w \in Workers,
               \/ ExitStart(w) \/ ExitCount(w) \/ ExitCallFails(w) \/ ExitEnds(w)
        PROVE  Serving' /\ Reading'
    BY <1>3, BesideKeeps DEF ExitStart, ExitCount, ExitCallFails, ExitEnds, chainVars
  <1>4. CASE \E w \in Workers : ExitCall(w)
    <2>1. NodeExit /\ now' = now /\ worker' = worker
      BY <1>4 DEF ExitCall
    <2>. QED BY <2>1, NodeExitServes, ReadingKeeps
  <1>5. CASE ChainCreated \/ InitExit \/ \E w \in Workers : Maintain(w)
    <2>1. /\ now' = now
          /\ \A v \in Workers : worker'[v].at \notin Reads \/ worker'[v] = worker[v]
      <3>1. CASE ChainCreated \/ InitExit
        BY <3>1 DEF ChainCreated, InitExit
      <3>2. ASSUME NEW w \in Workers, Maintain(w)
            PROVE  /\ now' = now
                   /\ \A v \in Workers : worker'[v].at \notin Reads \/ worker'[v] = worker[v]
        <4>1. now' = now /\ worker' = [worker EXCEPT ![w] = NoRequest]
          BY <3>2 DEF Maintain, Answer
        <4>2. NoRequest.at \notin Reads
          BY DEF NoRequest, Ready, Reads
        <4>. QED BY <1>0, <4>1, <4>2 DEF TypeOK
      <3>. QED BY <1>5, <3>1, <3>2
    <2>. QED BY <1>5, <2>1, NodeMoves, ReadingKeeps
  <1>6. CASE Tick
    <2>1. /\ now' = now + 1 /\ node' = node /\ worker' = worker
          /\ \A w \in Workers : worker[w].at \in Reads => now < worker[w].since + Timeout
      BY <1>6 DEF Tick, chainVars
    <2>2. /\ now \in Nat /\ RotationDelay \in Nat /\ Timeout \in Nat
          /\ \A c \in Chains : node.fin[c] \in Nat
          /\ \A w \in Workers : worker[w].since \in Nat /\ worker[w].time \in Nat
      BY <1>0, NodeAssumption DEF TypeOK, NodeStates, Requests
    <2>3. Serving'
      BY <2>1, <2>2 DEF IInv, Serving
    <2>4. Reading'
      BY <2>1, <2>2 DEF IInv, Reading
    <2>. QED BY <2>3, <2>4
  <1>7. ASSUME NEW w \in Workers, StatusStart(w) \/ StatusTime(w) \/ StatusRead(w) \/ StatusAnswer(w)
        PROVE  Serving' /\ Reading'
    <2>1. now' = now /\ node' = node /\ worker[w] \in Requests
      BY <1>0, <1>7 DEF StatusStart, StatusTime, StatusRead, StatusAnswer, chainVars, TypeOK
    <2>2. \A v \in Workers \ {w} : worker'[v] = worker[v]
      BY <1>0, <1>7 DEF StatusStart, StatusTime, StatusRead, StatusAnswer, Answer, TypeOK
    <2>3. Serving'
      BY <2>1 DEF IInv, Serving
    <2>4. ASSUME NEW v \in Workers \ {w}, worker'[v].at \in Reads
          PROVE  /\ worker'[v].since <= now' /\ now' <= worker'[v].since + Timeout
                 /\ worker'[v].at # "history" => worker'[v].time <= now'
                 /\ worker'[v].seen # {} =>
                       \/ node'.chains # {}
                       \/ /\ node'.status = "FROZEN"
                          /\ node'.finish >= worker'[v].since + RotationDelay
                 /\ worker'[v].at = "finish" /\ worker'[v].status = "FROZEN"
                       => node'.status = "FROZEN"
      BY <2>1, <2>2, <2>4 DEF IInv, Reading
    <2>5. ASSUME worker'[w].at \in Reads
          PROVE  /\ worker'[w].since <= now' /\ now' <= worker'[w].since + Timeout
                 /\ worker'[w].at # "history" => worker'[w].time <= now'
                 /\ worker'[w].seen # {} =>
                       \/ node'.chains # {}
                       \/ /\ node'.status = "FROZEN"
                          /\ node'.finish >= worker'[w].since + RotationDelay
                 /\ worker'[w].at = "finish" /\ worker'[w].status = "FROZEN"
                       => node'.status = "FROZEN"
      <3>0. now \in Nat /\ Timeout \in Nat
        BY <1>0, NodeAssumption DEF TypeOK
      <3>1. CASE StatusStart(w)
        <4>1. /\ worker'[w].at = "history" /\ worker'[w].seen = node.chains
              /\ worker'[w].since = now
          BY <1>0, <3>1 DEF StatusStart, TypeOK, NoRequest
        <4>. QED BY <2>1, <3>0, <4>1
      <3>2. CASE StatusTime(w)
        <4>1. /\ worker'[w].at = "status" /\ worker[w].at = "history"
              /\ worker'[w].seen = worker[w].seen /\ worker'[w].since = worker[w].since
              /\ worker'[w].time = now
          BY <1>0, <2>1, <3>2 DEF StatusTime, At, TypeOK, Requests
        <4>. QED BY <2>1, <3>0, <4>1 DEF IInv, Reading, Reads
      <3>3. CASE StatusRead(w)
        <4>1. /\ worker'[w].at = "finish" /\ worker[w].at = "status"
              /\ worker'[w].seen = worker[w].seen /\ worker'[w].since = worker[w].since
              /\ worker'[w].time = worker[w].time /\ worker'[w].status = node.status
          BY <1>0, <2>1, <3>3 DEF StatusRead, At, TypeOK, Requests
        <4>. QED BY <2>1, <3>0, <4>1 DEF IInv, Reading, Reads
      <3>4. CASE StatusAnswer(w)
        BY <1>0, <2>5, <3>4 DEF StatusAnswer, Answer, TypeOK, NoRequest, Ready, Reads
      <3>. QED BY <1>7, <3>1, <3>2, <3>3, <3>4
    <2>6. Reading'
      BY <2>4, <2>5 DEF Reading
    <2>. QED BY <2>3, <2>6
  <1>8. CASE UNCHANGED vars
    BY <1>8, BesideKeeps DEF vars, chainVars
  <1>. QED BY <1>1, <1>2, <1>3, <1>4, <1>5, <1>6, <1>7, <1>8, NextKinds

-----------------------------------------------------------------------------
(* Theorems. *)

\* The initial states satisfy the invariant.
LEMMA InitInvariant == Init => IInv
  <1>. SUFFICES ASSUME Init PROVE IInv
    OBVIOUS
  <1>0. TypeOK
    BY InitTyped
  <1>1. PICK r \in mix.offers :
           IF mix.known
           THEN /\ registry = <<[name |-> r.name, ip |-> r.ip, owner |-> 1]>>
                /\ doc = [key |-> 1, id |-> 1, name |-> r.name, ip |-> r.ip]
                /\ keys = 1
                /\ admin = "watch"
           ELSE registry = <<>> /\ doc = NoDoc /\ keys = 0 /\ admin = "down"
    BY DEF Init
  <1>2. /\ r = [name |-> r.name, ip |-> r.ip]
        /\ \A p, q \in mix.offers : p.name = q.name \/ p.ip = q.ip
    BY <1>0, NodeAssumption DEF Init, TypeOK, Mixed
  <1>3. Registry /\ Sound(doc) /\ AdminPlace
    <2>1. CASE mix.known
      <3>1. DOMAIN registry = {1} /\ registry[1] = [name |-> r.name, ip |-> r.ip, owner |-> 1]
        BY <1>1, <2>1
      <3>. QED BY <1>1, <1>2, <2>1, <3>1 DEF Registry, Sound, AdminPlace
    <2>2. CASE ~ mix.known
      <3>1. DOMAIN registry = {}
        BY <1>1, <2>2
      <3>. QED BY <1>1, <1>2, <2>2, <3>1 DEF Registry, Sound, AdminPlace, NoDoc
    <2>. QED BY <2>1, <2>2
  <1>4. Locked /\ Saving
    BY DEF Init, Locked, Saving, NoWrite
  <1>5. Requesting /\ Reading
    BY DEF Init, Requesting, Reading, NoRequest, Ready, Saves, Reads
  <1>6. Serving
    BY NodeAssumption DEF Init, Serving
  <1>. QED BY <1>0, <1>3, <1>4, <1>5, <1>6 DEF IInv, RInv

\* The inductive invariant of the node's life on the contracts.
THEOREM Invariance == Spec => []IInv
  <1>1. IInv /\ [Next]_vars => IInv'
    BY NextTyped, NextRegistered, NextServed DEF IInv
  <1>. QED BY InitInvariant, <1>1, PTL DEF Spec

\* All variables keep their types: the fields of node_config.json, the requests
\* under way and the exit threads.
THEOREM TypeCorrect == Spec => []TypeOK
  <1>1. IInv => TypeOK
    BY DEF IInv
  <1>. QED BY <1>1, Invariance, PTL

\* The id, name and IP in node_config.json are those of one node of this wallet,
\* however the requests of several workers and the restarts of the main process
\* are interleaved (core/node.py:88-182).
THEOREM ConfigOfOurNodeAlways == Spec => []ConfigOfOurNode
  <1>1. IInv => ConfigOfOurNode
    BY DEF IInv, RInv, Sound, ConfigOfOurNode
  <1>. QED BY <1>1, Invariance, PTL

\* What a step does to the file: a process enters a save, truncates, writes or
\* gives up; any other step leaves it alone.
LEMMA FileMoves ==
    ASSUME [Next]_vars
    PROVE  \/ AdminRead
           \/ \E w \in Workers : RegisterRead(w)
           \/ \E p \in Procs : OpenDoc(p) \/ WriteDoc(p) \/ DropWrite(p)
           \/ UNCHANGED fileVars
  <1>1. CASE AdminStep \/ AdminRestart
    BY <1>1 DEF AdminStep, AdminStart, AdminKey, AdminSoft, AdminAgrees, AdminRead,
       AdminOpen, AdminWrite, AdminSeesId, AdminMonitors, AdminUnreadable, AdminRestart,
       fileVars, Procs
  <1>2. ASSUME NEW w \in Workers, RegisterOpen(w) \/ RegisterWrite(w) \/ WorkerKilled(w)
        PROVE  \E p \in Procs : OpenDoc(p) \/ WriteDoc(p) \/ DropWrite(p)
    BY <1>2 DEF RegisterOpen, RegisterWrite, WorkerKilled, Procs
  <1>3. ASSUME NEW w \in Workers,
               \/ RegisterStart(w) \/ RegisterFind(w) \/ RegisterAvailable(w)
               \/ RegisterCreate(w) \/ RegisterRaises(w) \/ RegisterUnreadable(w)
               \/ MaintenanceStart(w) \/ Maintain(w) \/ ExitStart(w) \/ ExitCount(w)
               \/ ExitCall(w) \/ ExitCallFails(w) \/ ExitEnds(w)
               \/ StatusStart(w) \/ StatusTime(w) \/ StatusRead(w) \/ StatusAnswer(w)
        PROVE  UNCHANGED fileVars
    BY <1>3 DEF RegisterStart, RegisterFind, RegisterAvailable, RegisterCreate, RegisterRaises,
       RegisterUnreadable, MaintenanceStart, Maintain, ExitStart, ExitCount, ExitCall,
       ExitCallFails, ExitEnds, StatusStart, StatusTime, StatusRead, StatusAnswer, fileVars
  <1>4. CASE ForeignNode \/ ChainCreated \/ InitExit \/ Tick \/ UNCHANGED vars
    BY <1>4 DEF ForeignNode, ChainCreated, InitExit, Tick, vars, fileVars
  <1>. QED BY <1>1, <1>2, <1>3, <1>4, NextKinds

\* No process takes back a field another one has saved (tools/json_object.py).
THEOREM FieldsKeptAlways == Spec => FieldsKept
  <1>. DEFINE Kept == /\ doc.key # 0 => doc'.key = doc.key
                      /\ doc.id # 0 => doc'.id = doc.id
                      /\ doc.name # None => doc'.name = doc.name
                      /\ doc.ip # None => doc'.ip = doc.ip
  <1>1. ASSUME IInv, [Next]_vars
        PROVE  Kept
    <2>1. ASSUME NEW p \in Procs, WriteDoc(p)
          PROVE  Kept
      BY <1>1, <2>1 DEF WriteDoc, IInv, RInv, Saving, Keeps
    <2>2. CASE doc' = doc
      BY <2>2
    <2>. QED BY <1>1, <2>1, <2>2, FileMoves
         DEF OpenDoc, DropWrite, AdminRead, RegisterRead, ReadDoc, fileVars
  <1>2. IInv /\ [Next]_vars => [Kept]_vars
    BY <1>1
  <1>. QED BY <1>2, Invariance, PTL DEF Spec, FieldsKept

-----------------------------------------------------------------------------
(* node_config.json implements NodeRecord. *)

\* What a process is going to write differs from what is there in one field, and
\* the fields before that one are there.
OneField ==
    \A p \in Procs : write[p].at # "none" =>
        \/ write[p].doc = [doc EXCEPT !.key = write[p].doc.key]
        \/ write[p].doc = [doc EXCEPT !.id = write[p].doc.id] /\ doc.key # 0
        \/ write[p].doc = [doc EXCEPT !.name = write[p].doc.name] /\ doc.id # 0
        \/ write[p].doc = [doc EXCEPT !.ip = write[p].doc.ip] /\ doc.id # 0

\* A save is made from what is there, and as long as it lasts nobody else saves.
LEMMA NextOneField == IInv /\ OneField /\ [Next]_vars => OneField'
  <1> SUFFICES ASSUME IInv, OneField, [Next]_vars
               PROVE  OneField'
    OBVIOUS
  <1>0. TypeOK /\ Locked /\ AdminPlace /\ Requesting /\ doc \in Docs
    BY DEF IInv, RInv, TypeOK
  <1>1. ASSUME NEW p \in Procs, NEW d, ReadDoc(p, d),
               \/ d = [doc EXCEPT !.key = d.key]
               \/ d = [doc EXCEPT !.id = d.id] /\ doc.key # 0
               \/ d = [doc EXCEPT !.name = d.name] /\ doc.id # 0
               \/ d = [doc EXCEPT !.ip = d.ip] /\ doc.id # 0
        PROVE  OneField'
    <2>1. /\ doc' = doc /\ write'[p] = [at |-> "read", doc |-> d]
          /\ \A q \in Procs \ {p} : write'[q] = write[q] /\ write[q].at = "none"
      BY <1>0, <1>1 DEF ReadDoc, LockFree, TypeOK
    <2>. QED BY <1>1, <2>1 DEF OneField
  <1>2. CASE AdminRead
    <2>1. PICK d : d = Changed /\ ReadDoc(Admin, d) /\ admin \in {"key", "ip", "name"}
      BY <1>2 DEF AdminRead, AfterSave
    <2>2. /\ admin = "key" => d = [doc EXCEPT !.key = d.key]
          /\ admin = "ip" => d = [doc EXCEPT !.ip = d.ip] /\ doc.id # 0
          /\ admin = "name" => d = [doc EXCEPT !.name = d.name] /\ doc.id # 0
      BY <1>0, <2>1 DEF Changed, AdminPlace, Docs
    <2>. QED BY <1>1, <2>1, <2>2 DEF Procs
  <1>3. ASSUME NEW w \in Workers, RegisterRead(w)
        PROVE  OneField'
    <2>1. worker[w].at \in Saves /\ doc.key # 0
          /\ (worker[w].at \in {"name", "ip"} => doc.id # 0)
      BY <1>0, <1>3 DEF RegisterRead, Requesting
    <2>2. PICK d : /\ ReadDoc(w, d)
                   /\ worker[w].at = "id" => d = [doc EXCEPT !.id = NameToIndex(worker[w].name)]
                   /\ worker[w].at = "name" => d = [doc EXCEPT !.name = worker[w].name]
                   /\ worker[w].at = "ip" => d = [doc EXCEPT !.ip = worker[w].ip]
      BY <1>3 DEF RegisterRead, At
    <2>3. /\ worker[w].at = "id" => d = [doc EXCEPT !.id = d.id]
          /\ worker[w].at = "name" => d = [doc EXCEPT !.name = d.name]
          /\ worker[w].at = "ip" => d = [doc EXCEPT !.ip = d.ip]
      BY <1>0, <2>2 DEF Docs
    <2>. QED BY <1>1, <2>1, <2>2, <2>3 DEF Saves, Procs
  <1>4. ASSUME NEW p \in Procs, OpenDoc(p) \/ DropWrite(p)
        PROVE  OneField'
    <2>1. /\ doc' = doc /\ \A q \in Procs \ {p} : write'[q] = write[q]
          /\ \/ write[p].at = "read" /\ write'[p].doc = write[p].doc
             \/ write'[p].at = "none"
      BY <1>0, <1>4 DEF OpenDoc, DropWrite, TypeOK, NoWrite, Writes
    <2>. QED BY <2>1 DEF OneField
  <1>5. ASSUME NEW p \in Procs, WriteDoc(p)
        PROVE  OneField'
    <2>1. \A q \in Procs : write'[q].at = "none"
      BY <1>0, <1>5 DEF WriteDoc, Locked, TypeOK, NoWrite
    <2>. QED BY <2>1 DEF OneField
  <1>6. CASE UNCHANGED fileVars
    BY <1>6 DEF fileVars, OneField
  <1>. QED BY <1>2, <1>3, <1>4, <1>5, <1>6, FileMoves

\* The file as its readers see it.
Held == [key |-> {doc.key} \ {0}, id |-> {doc.id} \ {0},
         name |-> {doc.name} \ {None}, ip |-> {doc.ip} \ {None}]

\* Every behaviour of the API workers and the main process is one of NodeRecord:
\* to its readers node_config.json is written field by field, once and in order,
\* whatever saves overlap and whoever is killed in the middle of one.
THEOREM ImplementsNodeRecord == Spec => NodeRecordSpec
  <1>1. Init => Promise!Init
    <2> SUFFICES ASSUME Init
                 PROVE  Promise!Init
      OBVIOUS
    <2>1. Sound(doc)
      BY InitInvariant DEF IInv, RInv
    <2>. QED BY <2>1 DEF Promise!Init, Promise!Complete, Sound
  <1>2. Init => OneField
    BY DEF Init, OneField, NoWrite
  <1>3. IInv /\ OneField /\ [Next]_vars => [Promise!Next]_Held
    <2> SUFFICES ASSUME IInv, OneField, [Next]_vars
                 PROVE  Promise!Next \/ Held' = Held
      OBVIOUS
    <2>1. CASE doc' = doc
      BY <2>1 DEF Held
    <2>2. ASSUME NEW p \in Procs, WriteDoc(p)
          PROVE  Promise!Next \/ Held' = Held
      <3>0. doc' = write[p].doc /\ write[p].at # "none" /\ Keeps(doc') /\ doc \in Docs
        BY <2>2 DEF WriteDoc, IInv, RInv, Saving, TypeOK
      <3>1. CASE doc' = [doc EXCEPT !.key = doc'.key]
        <4>1. CASE doc'.key = doc.key
          BY <3>0, <3>1, <4>1 DEF Held, Docs
        <4>2. CASE doc'.key # doc.key
          <5>1. Held' = [Held EXCEPT !["key"] = {doc'.key}] /\ Held["key"] = {}
                /\ doc'.key \in Held'["key"]
            BY <3>0, <3>1, <4>2 DEF Held, Docs, Keeps
          <5>2. Promise!Write("key")
            BY <5>1 DEF Promise!Write, Promise!Complete, Held
          <5>. QED BY <5>2 DEF Promise!Next
        <4>. QED BY <4>1, <4>2
      <3>2. CASE doc' = [doc EXCEPT !.id = doc'.id] /\ doc.key # 0
        <4>1. CASE doc'.id = doc.id
          BY <3>0, <3>2, <4>1 DEF Held, Docs
        <4>2. CASE doc'.id # doc.id
          <5>1. Held' = [Held EXCEPT !["id"] = {doc'.id}] /\ Held["id"] = {}
                /\ doc'.id \in Held'["id"] /\ Held["key"] # {}
            BY <3>0, <3>2, <4>2 DEF Held, Docs, Keeps
          <5>2. Promise!Write("id")
            BY <5>1 DEF Promise!Write, Promise!Complete, Held
          <5>. QED BY <5>2 DEF Promise!Next
        <4>. QED BY <4>1, <4>2
      <3>3. CASE doc' = [doc EXCEPT !.name = doc'.name] /\ doc.id # 0
        <4>1. CASE doc'.name = doc.name
          BY <3>0, <3>3, <4>1 DEF Held, Docs
        <4>2. CASE doc'.name # doc.name
          <5>1. Held' = [Held EXCEPT !["name"] = {doc'.name}] /\ Held["name"] = {}
                /\ doc'.name \in Held'["name"] /\ Held["id"] # {}
            BY <3>0, <3>3, <4>2 DEF Held, Docs, Keeps
          <5>2. Promise!Write("name")
            BY <5>1 DEF Promise!Write, Promise!Complete, Held
          <5>. QED BY <5>2 DEF Promise!Next
        <4>. QED BY <4>1, <4>2
      <3>4. CASE doc' = [doc EXCEPT !.ip = doc'.ip] /\ doc.id # 0
        <4>1. CASE doc'.ip = doc.ip
          BY <3>0, <3>4, <4>1 DEF Held, Docs
        <4>2. CASE doc'.ip # doc.ip
          <5>1. Held' = [Held EXCEPT !["ip"] = {doc'.ip}] /\ Held["ip"] = {}
                /\ doc'.ip \in Held'["ip"] /\ Held["id"] # {}
            BY <3>0, <3>4, <4>2 DEF Held, Docs, Keeps
          <5>2. Promise!Write("ip")
            BY <5>1 DEF Promise!Write, Promise!Complete, Held
          <5>. QED BY <5>2 DEF Promise!Next
        <4>. QED BY <4>1, <4>2
      <3>. QED BY <3>0, <3>1, <3>2, <3>3, <3>4 DEF OneField
    <2>. QED BY <2>1, <2>2, FileMoves
         DEF OpenDoc, DropWrite, AdminRead, RegisterRead, ReadDoc, fileVars
  <1>. QED BY <1>1, <1>2, <1>3, NextOneField, Invariance, PTL
       DEF Spec, NodeRecordSpec, Promise!Spec, Held

\* An exit reported as completed is completed, although the answer is put
\* together from reads of four moments (core/node.py:195-229): a request ends
\* before RotationDelay has passed.
THEOREM ExitReportHonestAlways == Spec => []ExitReportHonest
  <1>1. IInv => ExitReportHonest
    <2>. SUFFICES ASSUME IInv, NEW w \in Workers, At(w, "finish"), Completed(w)
                  PROVE  /\ worker[w].seen = {} /\ node.chains = {}
                         /\ \A c \in Chains : node.fin[c] <= now
      BY DEF ExitReportHonest
    <2>1. /\ worker[w].at = "finish" /\ worker[w].at \in Reads
          /\ worker[w].status = "FROZEN" /\ worker[w].time >= node.finish
      BY DEF At, Completed, Reads
    <2>2. node.status = "FROZEN" /\ worker[w].time <= now
      BY <2>1 DEF IInv, Reading
    <2>3. node.chains = {} /\ \A c \in Chains : node.fin[c] <= node.finish
      BY <2>2 DEF IInv, Serving
    <2>4. /\ now \in Nat /\ node.finish \in Nat /\ worker[w].time \in Nat /\ worker[w].since \in Nat
          /\ \A c \in Chains : node.fin[c] \in Nat
          /\ RotationDelay \in Nat /\ Timeout \in Nat /\ Timeout < RotationDelay
      BY NodeAssumption DEF IInv, TypeOK, NodeStates, Requests
    <2>5. worker[w].seen # {} => node.finish >= worker[w].since + RotationDelay
      BY <2>1, <2>3 DEF IInv, Reading
    <2>6. now <= worker[w].since + Timeout
      BY <2>1 DEF IInv, Reading
    <2>. QED BY <2>1, <2>2, <2>3, <2>4, <2>5, <2>6
  <1>. QED BY <1>1, Invariance, PTL
=============================================================================
