-------------------------------- MODULE Node --------------------------------
(***************************************************************************)
(* The life of this node on the contracts: core/node.py behind the routes  *)
(* of web/routes/node.py, and what admin.py does before the first chain.   *)
(*                                                                         *)
(* Two kinds of processes share node_config.json: the workers of gunicorn  *)
(* that serve the API (register, maintenance, exit), one request each at a *)
(* time, and the main process (SGX key, soft updates, the wait for an id). *)
(* Each field is saved by a read, a truncation and a write of the file,    *)
(* under a file lock; a reader takes no lock.  Each contract call is a     *)
(* step of its own, and the contracts may change between any two.          *)
(*                                                                         *)
(* The contracts are external: a registry of nodes with unique names and   *)
(* IPs, and the status, chains and leaving history of this node.           *)
(***************************************************************************)
EXTENDS Naturals, FiniteSets, Sequences

CONSTANTS
    Names, Ips,     \* what a node may be called, and its addresses
    Workers,        \* the processes of gunicorn.conf.py
    Admin,          \* the main process
    Chains,         \* chains that the contracts may put on this node
    Telegraf,       \* TELEGRAF: monitoring needs the IP of the node
    RotationDelay,  \* how long a chain that leaves is still served
    Timeout,        \* after which gunicorn ends the worker of a request
    MaxTime,        \* bound on the clock
    None,           \* a field of node_config.json that is not set
    Mixes           \* what is registered, what operators ask, and bounds on outside events

Events == {"register", "foreign", "maintain", "chain", "leave", "fail", "kill", "restart"}

Mixed == [offers : SUBSET ([name : Names, ip : Ips]), known : BOOLEAN,
          chains : SUBSET Chains, left : [Events -> Nat]]

\* An operator may correct a name or an IP in a second request, not both.
ASSUME NodeAssumption ==
    /\ Admin \notin Workers
    /\ Telegraf \in BOOLEAN
    /\ RotationDelay \in Nat /\ Timeout \in Nat /\ MaxTime \in Nat
    /\ Timeout < RotationDelay
    /\ IsFiniteSet(Chains)
    /\ None \notin Names \cup Ips
    /\ \A m \in Mixes :
          /\ m \in Mixed
          /\ \A r, q \in m.offers : r.name = q.name \/ r.ip = q.ip

VARIABLES
    now,        \* time.time()
    mix,        \* the mix: requests, and what remains of the events
    registry,   \* the nodes of the contracts; a node's id is its place
    node,       \* what the contracts say of the node of this machine
    doc,        \* the last whole content of node_config.json
    disk,       \* the file: whole, open for writing, or cut short by a kill
    write,      \* per process, the save of a field it is in
    keys,       \* SGX keys generated so far; a wallet is the number of its key
    admin,      \* the statement the main process is at
    worker,     \* per API worker, the request it serves
    exit        \* per API worker, its exit thread: node_exit calls still to make

fileVars  == <<doc, disk, write>>
chainVars == <<registry, node>>
vars == <<now, mix, chainVars, fileVars, keys, admin, worker, exit>>

-----------------------------------------------------------------------------
Procs == Workers \cup {Admin}

Docs   == [key : Nat, id : Nat, name : Names \cup {None}, ip : Ips \cup {None}]
NoDoc  == [key |-> 0, id |-> 0, name |-> None, ip |-> None]
Writes == [at : {"none", "read", "open"}, doc : Docs]
NoWrite == [at |-> "none", doc |-> NoDoc]

Registered == [name : Names, ip : Ips, owner : Nat]
Statuses   == {"ACTIVE", "LEAVING", "FROZEN", "IN_MAINTENANCE"}
NodeStates == [status : Statuses, chains : SUBSET Chains, fin : [Chains -> Nat], finish : Nat]

Ready   == "ready"
Saves   == {"id", "name", "ip"}
Reads   == {"history", "status", "finish"}
Requests == [at : {Ready, "find", "available", "create", "on", "off"} \cup Saves \cup Reads,
             name : Names \cup {None}, ip : Ips \cup {None}, key : Nat,
             seen : SUBSET Chains, since : Nat, time : Nat, status : Statuses]
NoRequest == [at |-> Ready, name |-> None, ip |-> None, key |-> 0,
              seen |-> {}, since |-> 0, time |-> 0, status |-> "ACTIVE"]

Exits  == [at : {"none", "count", "calls"}, calls : Nat]
NoExit == [at |-> "none", calls |-> 0]

AdminStates == {"down", "init", "key", "soft", "ip", "name", "wait", "start", "watch"}

TypeOK ==
    /\ now \in Nat
    /\ mix \in Mixed
    /\ registry \in Seq(Registered)
    /\ node \in NodeStates
    /\ doc \in Docs
    /\ disk \in {"whole", "open", "cut"}
    /\ write \in [Procs -> Writes]
    /\ keys \in Nat
    /\ admin \in AdminStates
    /\ worker \in [Workers -> Requests]
    /\ exit \in [Workers -> Exits]

-----------------------------------------------------------------------------
(* A node that is new, with nothing registered; or one that was registered   *)
(* before and has chains.                                                    *)
Init ==
    /\ now = 1
    /\ mix \in Mixes
    /\ node = [status |-> "ACTIVE", chains |-> mix.chains,
               fin |-> [c \in Chains |-> 0], finish |-> 0]
    /\ \E r \in mix.offers :
          IF mix.known
          THEN /\ registry = <<[name |-> r.name, ip |-> r.ip, owner |-> 1]>>
               /\ doc = [key |-> 1, id |-> 1, name |-> r.name, ip |-> r.ip]
               /\ keys = 1
               /\ admin = "watch"
          ELSE registry = <<>> /\ doc = NoDoc /\ keys = 0 /\ admin = "down"
    /\ disk = "whole"
    /\ write = [p \in Procs |-> NoWrite]
    /\ worker = [w \in Workers |-> NoRequest]
    /\ exit = [w \in Workers |-> NoExit]

Spend(e) == mix.left[e] > 0 /\ mix' = [mix EXCEPT !.left[e] = @ - 1]

-----------------------------------------------------------------------------
(* node_config.json (JsonObject). *)

Readable == disk = "whole"

\* Variant: a save takes no lock.
LockFreeUnlocked == TRUE

LockFree == \A p \in Procs : write[p].at = "none"

\* _set: read the file under the lock, open it for writing, write all of it.
\* `done` is what the process does next.  A read of a file cut short raises.
ReadDoc(p, changed) ==
    /\ write[p].at = "none"
    /\ LockFree /\ Readable
    /\ write' = [write EXCEPT ![p] = [at |-> "read", doc |-> changed]]
    /\ UNCHANGED <<doc, disk>>

OpenDoc(p) ==
    /\ write[p].at = "read"
    /\ write' = [write EXCEPT ![p].at = "open"]
    /\ disk' = "open"
    /\ doc' = doc

WriteDoc(p) ==
    /\ write[p].at = "open"
    /\ write' = [write EXCEPT ![p] = NoWrite]
    /\ doc' = write[p].doc
    /\ disk' = "whole"

\* The process is gone: its lock is released, what it wrote is not there.
DropWrite(p) ==
    /\ write' = [write EXCEPT ![p] = NoWrite]
    /\ disk' = IF write[p].at = "open" THEN "cut" ELSE disk
    /\ doc' = doc

-----------------------------------------------------------------------------
(* The contracts. *)

NameTaken(n) == \E i \in DOMAIN registry : registry[i].name = n
IpTaken(a)   == \E i \in DOMAIN registry : registry[i].ip = a

\* nodes.node_name_to_index answers the first node for a name it does not know.
NameToIndex(n) ==
    IF NameTaken(n) THEN CHOOSE i \in DOMAIN registry : registry[i].name = n ELSE 1

\* Variant: the address is not compared.
FoundWithoutOwner(r) ==
    LET id == NameToIndex(r.name)
    IN  /\ id \in DOMAIN registry
        /\ registry[id].name = r.name /\ registry[id].ip = r.ip

\* get_node_id_from_contracts finds the node of this wallet, name and IP.
Found(r) ==
    LET id == NameToIndex(r.name)
    IN  /\ id \in DOMAIN registry
        /\ registry[id].owner = r.key
        /\ registry[id].name = r.name /\ registry[id].ip = r.ip

Free(r) == ~ NameTaken(r.name) /\ ~ IpTaken(r.ip)

Register(r, owner) ==
    registry' = Append(registry, [name |-> r.name, ip |-> r.ip, owner |-> owner])

\* Another machine, or this one before it was set up anew, holds a name or an IP.
ForeignNode ==
    /\ Spend("foreign")
    /\ \E r \in [name : Names, ip : Ips] : Free(r) /\ Register(r, 0)
    /\ UNCHANGED <<now, node, fileVars, keys, admin, worker, exit>>

-----------------------------------------------------------------------------
(* POST register. *)

At(w, label)   == worker[w].at = label
Goto(w, label) == worker' = [worker EXCEPT ![w].at = label]
Answer(w)      == worker' = [worker EXCEPT ![w] = NoRequest]

\* before_request waits for init() of the main process.
Initing == admin \in {"init", "key", "soft", "ip", "name"}

\* The wallet is made from the key name, and the node must not have an id yet;
\* any other request is answered with an error and changes nothing.
RegisterStart(w) ==
    /\ At(w, Ready)
    /\ Spend("register")
    /\ ~ Initing /\ Readable
    /\ doc.key # 0 /\ doc.id = 0
    /\ \E r \in mix.offers :
          worker' = [worker EXCEPT ![w] = [NoRequest EXCEPT
                        !.at = "find", !.name = r.name, !.ip = r.ip, !.key = doc.key]]
    /\ UNCHANGED <<now, chainVars, fileVars, keys, admin, exit>>

\* A node that an earlier request created is taken up without a transaction.
RegisterFind(w) ==
    /\ At(w, "find")
    /\ Goto(w, IF Found(worker[w]) THEN "id" ELSE "available")
    /\ UNCHANGED <<now, mix, chainVars, fileVars, keys, admin, exit>>

RegisterAvailable(w) ==
    /\ At(w, "available")
    /\ IF Free(worker[w]) THEN Goto(w, "create") ELSE Answer(w)
    /\ UNCHANGED <<now, mix, chainVars, fileVars, keys, admin, exit>>

\* create_node: the transaction is reverted when name or IP were taken meanwhile.
RegisterCreate(w) ==
    /\ At(w, "create")
    /\ IF Free(worker[w])
       THEN Register(worker[w], worker[w].key) /\ Goto(w, "id")
       ELSE registry' = registry /\ Answer(w)
    /\ UNCHANGED <<now, mix, node, fileVars, keys, admin, exit>>

\* The wait for the transaction raises although it is mined, or it is not sent.
RegisterRaises(w) ==
    /\ At(w, "create")
    /\ Spend("fail")
    /\ (Free(worker[w]) /\ Register(worker[w], worker[w].key)) \/ registry' = registry
    /\ Answer(w)
    /\ UNCHANGED <<now, node, fileVars, keys, admin, exit>>

\* The fields are saved one by one: id, name, ip.
RegisterRead(w) ==
    /\ worker[w].at \in Saves
    /\ ReadDoc(w, CASE At(w, "id")   -> [doc EXCEPT !.id = NameToIndex(worker[w].name)]
                    [] At(w, "name") -> [doc EXCEPT !.name = worker[w].name]
                    [] At(w, "ip")   -> [doc EXCEPT !.ip = worker[w].ip])
    /\ UNCHANGED <<now, mix, chainVars, keys, admin, worker, exit>>

RegisterOpen(w) ==
    /\ OpenDoc(w)
    /\ UNCHANGED <<now, mix, chainVars, keys, admin, worker, exit>>

RegisterWrite(w) ==
    /\ WriteDoc(w)
    /\ \/ At(w, "id")   /\ Goto(w, "name")
       \/ At(w, "name") /\ Goto(w, "ip")
       \/ At(w, "ip")   /\ Answer(w)
    /\ UNCHANGED <<now, mix, chainVars, keys, admin, exit>>

\* A save under a request raises when the file is cut short.
RegisterUnreadable(w) ==
    /\ worker[w].at \in Saves /\ write[w].at = "none"
    /\ disk = "cut"
    /\ Answer(w)
    /\ UNCHANGED <<now, mix, chainVars, fileVars, keys, admin, exit>>

\* gunicorn ends a worker that takes too long, or it crashes; so do its threads.
WorkerKilled(w) ==
    /\ Spend("kill")
    /\ ~ At(w, Ready) \/ exit[w] # NoExit
    /\ Answer(w)
    /\ exit' = [exit EXCEPT ![w] = NoExit]
    /\ DropWrite(w)
    /\ UNCHANGED <<now, chainVars, keys, admin>>

-----------------------------------------------------------------------------
(* The main process (admin.py): init() under its lock, then worker().        *)

AdminStart ==
    /\ admin = "down"
    /\ admin' = "init"
    /\ UNCHANGED <<now, mix, chainVars, fileVars, keys, worker, exit>>

\* generate_sgx_key, when the file names none.
AdminKey ==
    /\ admin = "init" /\ Readable
    /\ IF doc.key # 0
       THEN admin' = "soft" /\ keys' = keys
       ELSE admin' = "key" /\ keys' = keys + 1
    /\ UNCHANGED <<now, mix, chainVars, fileVars, worker, exit>>

\* update_node_config_file: nothing without an id.
AdminSoft ==
    /\ admin = "soft" /\ Readable
    /\ admin' = IF doc.id = 0 THEN "wait" ELSE "ip"
    /\ UNCHANGED <<now, mix, chainVars, fileVars, keys, worker, exit>>

AfterSave == [key |-> "soft", ip |-> "name", name |-> "wait"]

\* What the main process saves at each of its three statements.
Changed ==
    CASE admin = "key"  -> [doc EXCEPT !.key = keys]
      [] admin = "ip"   -> [doc EXCEPT !.ip = registry[doc.id].ip]
      [] admin = "name" -> [doc EXCEPT !.name = registry[doc.id].name]

\* Variant: a name that is not set is left so.
SavesWhatDiffers == Changed # doc /\ (admin = "name" => doc.name # None)

\* IP and name are saved when they differ from the contracts.
Differs == Changed # doc

AdminAgrees ==
    /\ admin \in DOMAIN AfterSave
    /\ write[Admin].at = "none" /\ Readable
    /\ ~ Differs
    /\ admin' = AfterSave[admin]
    /\ UNCHANGED <<now, mix, chainVars, fileVars, keys, worker, exit>>

AdminRead ==
    /\ admin \in DOMAIN AfterSave
    /\ Differs
    /\ ReadDoc(Admin, Changed)
    /\ UNCHANGED <<now, mix, chainVars, keys, admin, worker, exit>>

AdminOpen ==
    /\ OpenDoc(Admin)
    /\ UNCHANGED <<now, mix, chainVars, keys, admin, worker, exit>>

AdminWrite ==
    /\ WriteDoc(Admin)
    /\ admin' = AfterSave[admin]
    /\ UNCHANGED <<now, mix, chainVars, keys, worker, exit>>

\* worker() waits for an id ...
AdminSeesId ==
    /\ admin = "wait" /\ Readable
    /\ doc.id # 0
    /\ admin' = "start"
    /\ UNCHANGED <<now, mix, chainVars, fileVars, keys, worker, exit>>

\* ... and update_monitoring_services raises without the IP.
AdminMonitors ==
    /\ admin = "start" /\ Readable
    /\ admin' = IF Telegraf /\ doc.ip = None THEN "down" ELSE "watch"
    /\ UNCHANGED <<now, mix, chainVars, fileVars, keys, worker, exit>>

\* Reading a file that is open for writing, or cut short, raises: main() ends and
\* the container starts it again.
AdminUnreadable ==
    /\ admin \notin {"down", "watch"}
    /\ write[Admin].at = "none"
    /\ ~ Readable
    /\ admin' = "down"
    /\ UNCHANGED <<now, mix, chainVars, fileVars, keys, worker, exit>>

AdminRestart ==
    /\ Spend("restart")
    /\ admin' = "down"
    /\ DropWrite(Admin)
    /\ UNCHANGED <<now, chainVars, keys, worker, exit>>

-----------------------------------------------------------------------------
(* Maintenance: the status is read, then changed by a transaction, which the *)
(* contracts revert from any other status.                                   *)

KnowsId(w) == At(w, Ready) /\ Readable /\ doc.id # 0 /\ ~ Initing

MaintenanceStart(w) ==
    /\ KnowsId(w)
    /\ Spend("maintain")
    /\ \/ node.status = "ACTIVE" /\ Goto(w, "on")
       \/ node.status = "IN_MAINTENANCE" /\ Goto(w, "off")
    /\ UNCHANGED <<now, chainVars, fileVars, keys, admin, exit>>

Maintain(w) ==
    /\ \/ At(w, "on") /\ node' = [node EXCEPT
              !.status = IF @ = "ACTIVE" THEN "IN_MAINTENANCE" ELSE @]
       \/ At(w, "off") /\ node' = [node EXCEPT
              !.status = IF @ = "IN_MAINTENANCE" THEN "ACTIVE" ELSE @]
    /\ Answer(w)
    /\ UNCHANGED <<now, mix, registry, fileVars, keys, admin, exit>>

-----------------------------------------------------------------------------
(* Exit.  The validator declares on the contracts that the node leaves; the  *)
(* node then gets no new chains and calls node_exit once per chain.          *)

ChainCreated ==
    /\ Spend("chain")
    /\ node.status = "ACTIVE"
    /\ \E c \in Chains \ node.chains :
          node' = [node EXCEPT !.chains = @ \cup {c}, !.fin[c] = 0]
    /\ UNCHANGED <<now, registry, fileVars, keys, admin, worker, exit>>

InitExit ==
    /\ Spend("leave")
    /\ node.status = "ACTIVE"
    /\ node' = [node EXCEPT !.status = "LEAVING"]
    /\ UNCHANGED <<now, registry, fileVars, keys, admin, worker, exit>>

\* Exit and its status are asked of nodes that were registered before (a bound).
Asked(w) == mix.known /\ KnowsId(w)

\* POST exit/start: refused in maintenance; else the thread is started.
ExitStart(w) ==
    /\ Asked(w)
    /\ exit[w] = NoExit
    /\ node.status # "IN_MAINTENANCE"
    /\ exit' = [exit EXCEPT ![w].at = "count"]
    /\ UNCHANGED <<now, mix, chainVars, fileVars, keys, admin, worker>>

\* Variant: a node without chains calls node_exit as often as it has chains.
CountChains(w) ==
    /\ exit[w].at = "count"
    /\ exit' = [exit EXCEPT ![w] = [at |-> "calls", calls |-> Cardinality(node.chains)]]
    /\ UNCHANGED <<now, mix, chainVars, fileVars, keys, admin, worker>>

\* exit_count: the chains of this moment, or one call to complete the exit.
ExitCount(w) ==
    /\ exit[w].at = "count"
    /\ exit' = [exit EXCEPT ![w] = [at |-> "calls",
                  calls |-> IF node.chains = {} THEN 1 ELSE Cardinality(node.chains)]]
    /\ UNCHANGED <<now, mix, chainVars, fileVars, keys, admin, worker>>

\* node_exit takes one chain over to another node; with the last one, or with
\* none, the node is frozen until finish.
NodeExit ==
    \/ /\ node.status = "LEAVING"
       /\ \E c \in node.chains :
             LET last == node.chains = {c}
             IN  node' = [node EXCEPT
                    !.chains = @ \ {c}, !.fin[c] = now + RotationDelay,
                    !.status = IF last THEN "FROZEN" ELSE @,
                    !.finish = IF last THEN now + RotationDelay ELSE @]
    \/ /\ node.status = "LEAVING" /\ node.chains = {}
       /\ node' = [node EXCEPT !.status = "FROZEN", !.finish = now]
    \/ /\ node.status # "LEAVING"
       /\ node' = node

ExitCall(w) ==
    /\ exit[w].at = "calls" /\ exit[w].calls > 0
    /\ NodeExit
    /\ exit' = [exit EXCEPT ![w].calls = @ - 1]
    /\ UNCHANGED <<now, mix, registry, fileVars, keys, admin, worker>>

\* A call is reverted and forgotten, or raises something else and ends the thread.
ExitCallFails(w) ==
    /\ exit[w].at = "calls" /\ exit[w].calls > 0
    /\ Spend("fail")
    /\ exit' \in {[exit EXCEPT ![w].calls = @ - 1], [exit EXCEPT ![w] = NoExit]}
    /\ UNCHANGED <<now, chainVars, fileVars, keys, admin, worker>>

ExitEnds(w) ==
    /\ exit[w] = [at |-> "calls", calls |-> 0]
    /\ exit' = [exit EXCEPT ![w] = NoExit]
    /\ UNCHANGED <<now, mix, chainVars, fileVars, keys, admin, worker>>

-----------------------------------------------------------------------------
(* GET exit/status: active chains, leaving history and time, status, finish  *)
(* time, in this order.  It changes nothing: one answer at a time is enough.  *)

StatusStart(w) ==
    /\ Asked(w)
    /\ \A v \in Workers : worker[v].at \notin Reads
    /\ worker' = [worker EXCEPT ![w] = [NoRequest EXCEPT
                     !.at = "history", !.seen = node.chains, !.since = now]]
    /\ UNCHANGED <<now, mix, chainVars, fileVars, keys, admin, exit>>

StatusTime(w) ==
    /\ At(w, "history")
    /\ worker' = [worker EXCEPT ![w].at = "status", ![w].time = now]
    /\ UNCHANGED <<now, mix, chainVars, fileVars, keys, admin, exit>>

StatusRead(w) ==
    /\ At(w, "status")
    /\ worker' = [worker EXCEPT ![w].at = "finish", ![w].status = node.status]
    /\ UNCHANGED <<now, mix, chainVars, fileVars, keys, admin, exit>>

StatusAnswer(w) ==
    /\ At(w, "finish")
    /\ Answer(w)
    /\ UNCHANGED <<now, mix, chainVars, fileVars, keys, admin, exit>>

\* No request outlives its timeout.  Only an exit looks at the clock.
Tick ==
    /\ mix.known /\ now < MaxTime
    /\ \A w \in Workers : worker[w].at \in Reads => now < worker[w].since + Timeout
    /\ now' = now + 1
    /\ UNCHANGED <<mix, chainVars, fileVars, keys, admin, worker, exit>>

-----------------------------------------------------------------------------
AdminStep ==
    \/ AdminStart
    \/ AdminKey
    \/ AdminSoft
    \/ AdminAgrees
    \/ AdminRead
    \/ AdminOpen
    \/ AdminWrite
    \/ AdminSeesId
    \/ AdminMonitors
    \/ AdminUnreadable

RequestStep(w) ==
    \/ RegisterFind(w)
    \/ RegisterAvailable(w)
    \/ RegisterCreate(w)
    \/ RegisterRead(w)
    \/ RegisterOpen(w)
    \/ RegisterWrite(w)
    \/ RegisterUnreadable(w)
    \/ Maintain(w)
    \/ StatusTime(w)
    \/ StatusRead(w)
    \/ StatusAnswer(w)

ExitStep(w) ==
    \/ ExitCount(w)
    \/ ExitCall(w)
    \/ ExitEnds(w)

Next ==
    \/ AdminStep
    \/ AdminRestart
    \/ ForeignNode
    \/ ChainCreated
    \/ InitExit
    \/ Tick
    \/ \E w \in Workers :
          \/ RequestStep(w)
          \/ ExitStep(w)
          \/ RegisterStart(w)
          \/ RegisterRaises(w)
          \/ WorkerKilled(w)
          \/ MaintenanceStart(w)
          \/ ExitStart(w)
          \/ ExitCallFails(w)
          \/ StatusStart(w)

Spec == Init /\ [][Next]_vars

\* Processes go on; what operators ask, and every failure, may happen or not.
Fairness ==
    /\ WF_vars(AdminStep)
    /\ \A w \in Workers : WF_vars(RequestStep(w)) /\ WF_vars(ExitStep(w))

FairSpec == Spec /\ Fairness

-----------------------------------------------------------------------------
(* Properties. *)

\* The id in node_config.json is that of a node of this wallet, and the name and
\* IP next to it are those of this node: whatever requests overlap, fail after
\* their transaction is mined or are cut short, and whoever else takes the name.
ConfigOfOurNode ==
    doc.id # 0 =>
        /\ doc.id \in DOMAIN registry
        /\ registry[doc.id].owner = doc.key
        /\ doc.name \in {None, registry[doc.id].name}
        /\ doc.ip \in {None, registry[doc.id].ip}

\* No save of a field takes back another one: the key of the wallet and the id
\* never change once they are there, although two processes read, change and
\* write the whole file.
FieldsKept ==
    [][ /\ doc.key # 0 => doc'.key = doc.key
        /\ doc.id # 0 => doc'.id = doc.id
        /\ doc.name # None => doc'.name = doc.name
        /\ doc.ip # None => doc'.ip = doc.ip ]_vars

\* The file as its readers see it.  Two processes read, change, truncate and write
\* the whole of it, and may be killed in between: each save is still the write of
\* one field that was not there, and the fields come in their order.
Promise == INSTANCE NodeRecord WITH
    Fields <- {"key", "id", "name", "ip"},
    Before <- [key |-> {}, id |-> {"key"}, name |-> {"id"}, ip |-> {"id"}],
    record <- [key |-> {doc.key} \ {0}, id |-> {doc.id} \ {0},
               name |-> {doc.name} \ {None}, ip |-> {doc.ip} \ {None}]
NodeRecordSpec == Promise!Spec

Agreed ==
    /\ doc.id \in DOMAIN registry
    /\ doc.name = registry[doc.id].name
    /\ doc.ip = registry[doc.id].ip

\* A registration cut short after its id is saved is completed: the main process
\* finds no IP, ends, and starts with the soft updates.
RegistrationHeals ==
    doc.id # 0 ~> Agreed \/ disk = "cut"

\* Variant: the finish time is read first, when it is still zero.
CompletedWhenFrozen(w) == worker[w].status = "FROZEN"

\* get_exit_status: frozen, and the time read before has passed the finish.
Completed(w) == worker[w].status = "FROZEN" /\ worker[w].time >= node.finish

\* COMPLETED is answered only when the node may be switched off: the same answer
\* lists no active chain, the node has none, and no chain it left is still to be
\* served, although the four reads of the answer are of four moments.
ExitReportHonest ==
    \A w \in Workers : At(w, "finish") /\ Completed(w) =>
        /\ worker[w].seen = {}
        /\ node.chains = {}
        /\ \A c \in Chains : node.fin[c] <= now

\* An operator who repeats the request gets a node that leaves out of its chains,
\* whatever was counted before the node was leaving, and whichever calls failed.
ExitCompletes ==
    []<><<\E w \in Workers : ExitStart(w)>>_vars
        => (node.status = "LEAVING" ~> node.status = "FROZEN")
=============================================================================
