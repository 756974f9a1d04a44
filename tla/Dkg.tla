--------------------------------- MODULE Dkg --------------------------------
(***************************************************************************)
(* The distributed key generation of one sChain: the client each node runs *)
(* (core/schains/dkg: main.py, utils.py, client.py, broadcast_filter.py)   *)
(* around one contract, which is modelled from how the client uses it.     *)
(*                                                                         *)
(* A node is a position of the group.  When the contract slashes one, the  *)
(* node there is replaced and the round starts anew, or the channel stays  *)
(* closed because there is no node to take its place.                      *)
(*                                                                         *)
(* A client reads the contract between its own transactions and sleeps in  *)
(* between, so each read or transaction that depends on others is a step.  *)
(* Time is the age of what has a deadline; all deadlines are Timeout.      *)
(***************************************************************************)
EXTENDS Integers, FiniteSets

CONSTANTS
    N,          \* nodes of the chain
    Timeout,    \* get_dkg_timeout(), in ticks
    MaxRound,   \* bound on the rotations that failures cause
    Budgets     \* bounds on each kind of outside event, one of which a behaviour has

Events == {"kill", "down", "bad", "tx", "rpc"}

ASSUME DkgAssumption ==
    /\ N \in Nat \ {0}
    /\ Timeout \in Nat
    /\ MaxRound \in Nat
    /\ Budgets \subseteq [Events -> Nat]

Nodes  == 1..N
Rounds == 0..MaxRound
Ages   == 0..(Timeout + 1)
NoNode == 0     \* UINT_CONSTANT in complaint data

VARIABLES
    chan,   \* the channel on chain
    log,    \* the broadcast events of all rounds
    node,   \* the client of each node
    keys,   \* secret_key_<rid>.json of each node, with the events it was made of
    down,   \* nodes that do nothing
    hist,   \* history: first DKG of the chain, rounds that succeeded, excused alrights
    left    \* what remains of its bounds

vars == <<chan, log, node, keys, down, hist, left>>

-----------------------------------------------------------------------------
Pcs == {"idle", "client", "join", "broadcast", "receive", "check", "again", "gather",
        "ack", "alright", "respond", "answer", "enter", "collect", "blame", "blaming",
        "final", "accuse", "accused", "noresponse", "last", "end", "wait"}

Events1   == [round : Rounds, from : Nodes, bad : SUBSET Nodes]
Channels  == [open : BOOLEAN, round : Rounds, age : Ages, since : [Nodes -> Rounds],
              ack : SUBSET Nodes, ackAge : Ages,
              from : Nodes \cup {NoNode}, to : Nodes \cup {NoNode},
              pre : BOOLEAN, toAge : Ages, ok : BOOLEAN, ever : BOOLEAN]
Clients   == [pc : Pcs, rid : Rounds, data : SUBSET Events1, acks : SUBSET Nodes,
              todo : SUBSET Nodes, next : Pcs, ref : Rounds, age : Ages]
Keys      == [rid : Rounds, data : SUBSET Events1]
Histories == [first : BOOLEAN, won : SUBSET Rounds, slip : SUBSET Nodes]

TypeOK ==
    /\ chan \in Channels
    /\ log \subseteq Events1
    /\ node \in [Nodes -> Clients]
    /\ keys \in [Nodes -> SUBSET Keys]
    /\ down \subseteq Nodes
    /\ hist \in Histories
    /\ left \in [Events -> Nat]

Resting == [pc |-> "idle", rid |-> 0, data |-> {}, acks |-> {}, todo |-> {},
            next |-> "idle", ref |-> 0, age |-> 0]

\* A channel has just been opened; for the first DKG of a chain nothing ever
\* succeeded, for a rotation something did.
Init ==
    /\ \E ever \in BOOLEAN :
          chan = [open |-> TRUE, round |-> 0, age |-> 0, since |-> [i \in Nodes |-> 0],
                  ack |-> {}, ackAge |-> 0, from |-> NoNode, to |-> NoNode,
                  pre |-> FALSE, toAge |-> 0, ok |-> FALSE, ever |-> ever]
    /\ log = {}
    /\ node = [i \in Nodes |-> Resting]
    /\ keys = [i \in Nodes |-> {}]
    /\ down = {}
    /\ hist = [first |-> ~ chan.ever, won |-> {}, slip |-> {}]
    /\ left \in Budgets

Spend(e) == left[e] > 0 /\ left' = [left EXCEPT ![e] = @ - 1]
First(S) == {i \in S : \A j \in S : i <= j}

-----------------------------------------------------------------------------
(* The contract. *)

Cast       == {e \in log : e.round = chan.round}
Sent       == {e.from : e \in Cast}
AllSent    == Sent = Nodes
Complained == chan.to # NoNode
Completed  == chan.ack = Nodes

Received(r) == {e.from : e \in r.data}
Missing(i)  == Nodes \ (Received(node[i]) \cup {i})
Wrong(i)    == {e.from : e \in {f \in node[i].data : i \in f.bad}}

\* check_failed_dkg raises.  Before the first success of a chain it never does.
Failed == ~ chan.open /\ ~ chan.ok /\ chan.ever

\* Another node takes the position and the round starts anew, or the channel
\* is closed.
Slash(j) ==
    \/ /\ chan.round < MaxRound
       /\ chan' = [chan EXCEPT !.round = @ + 1, !.age = 0, !.since[j] = chan.round + 1,
                               !.ack = {}, !.ackAge = 0, !.from = NoNode, !.to = NoNode,
                               !.pre = FALSE, !.toAge = 0, !.ok = FALSE]
       /\ keys' = [keys EXCEPT ![j] = {}]
       /\ down' = down \ {j}
       /\ hist' = [hist EXCEPT !.slip = {}]
    \/ /\ chan' = [chan EXCEPT !.open = FALSE, !.from = NoNode, !.to = NoNode, !.ok = FALSE]
       /\ UNCHANGED <<keys, down, hist>>

\* The process of a replaced node no longer counts.
Replaced(j) == chan'.since[j] # chan.since[j]

\* The client of i knows the nodes that were in the group when it began.
Knows(i, j) == chan.since[j] <= node[i].rid

\* complaint: j missed a deadline.
Slashable(i, j) ==
    /\ chan.open /\ i \in Sent /\ Knows(i, j)
    /\ \/ ~ Complained /\ j \notin Sent /\ chan.age >= Timeout
       \/ ~ Complained /\ AllSent /\ i \in chan.ack /\ j \notin chan.ack
             /\ chan.ackAge >= Timeout
       \/ chan.to = j /\ chan.toAge >= Timeout

\* complaint_bad_data.
Accusable(i, j) ==
    /\ chan.open /\ {i, j} \subseteq Sent /\ Knows(i, j)
    /\ ~ Complained /\ i \notin chan.ack

Accuse(i, j) ==
    /\ chan' = [chan EXCEPT !.from = i, !.to = j, !.pre = FALSE, !.toAge = 0]
    /\ UNCHANGED <<keys, down, hist>>

SendAlright(i) ==
    LET ack == chan.ack \cup {i}
    IN  /\ chan' = [chan EXCEPT !.ack = ack, !.open = ack # Nodes, !.ok = ack = Nodes,
                                !.ever = @ \/ ack = Nodes]
        /\ hist' = [hist EXCEPT !.won = IF ack = Nodes THEN @ \cup {chan.round} ELSE @,
                                !.slip = IF Missing(i) # {} THEN @ \cup {i} ELSE @]

-----------------------------------------------------------------------------
(* The client. *)

At(i, pc)   == i \notin down /\ node[i].pc = pc
Become(i,r) == node' = [node EXCEPT ![i] = r]
Goto(i, pc) == Become(i, [node[i] EXCEPT !.pc = pc])
Abort(i)    == Become(i, Resting)
ChainSame   == UNCHANGED <<chan, log, keys, down, hist, left>>

\* wait_for_fail: until the channel is not the one of ref, or for Timeout.
Waiting(r, ref, next) == [r EXCEPT !.pc = "wait", !.ref = ref, !.next = next, !.age = 0]

\* The pass of the config pipeline reads the rotation id and has no key for it.
Begin(i) ==
    /\ At(i, "idle")
    /\ \A k \in keys[i] : k.rid # chan.round
    /\ Become(i, [Resting EXCEPT !.pc = "client", !.rid = chan.round])
    /\ ChainSame

\* generate_bls_keys and save_dkg_results; SGX needs the data of every node.
Saved(i, data) ==
    IF {e.from : e \in data} = Nodes
    THEN [keys EXCEPT ![i] = @ \cup {[rid |-> node[i].rid, data |-> data]}]
    ELSE keys

\* Variants: the fetch does not start at the block of the channel; only an open
\* channel is looked at.
ClientOfAllEvents(i) ==
    /\ At(i, "client")
    /\ \/ /\ Completed
          /\ keys' = Saved(i, log)
          /\ Abort(i)
       \/ /\ ~ Completed
          /\ IF chan.open THEN Goto(i, "join") ELSE Abort(i)
          /\ UNCHANGED keys
    /\ UNCHANGED <<chan, log, down, hist, left>>

ClientOfOpenChannel(i) ==
    /\ At(i, "client")
    /\ IF chan.open THEN Goto(i, "join") ELSE Abort(i)
    /\ ChainSame

\* run_dkg: a DKG that is completed is only fetched, without one there is no
\* data to generate a key of.
Client(i) ==
    /\ At(i, "client")
    /\ \/ /\ Completed
          /\ keys' = Saved(i, Cast)
          /\ Abort(i)
       \/ /\ ~ Completed
          /\ IF chan.open THEN Goto(i, "join") ELSE Abort(i)
          /\ UNCHANGED keys
    /\ UNCHANGED <<chan, log, down, hist, left>>

\* init_bls: the rotation id must be the current one.
Join(i) ==
    /\ At(i, "join")
    /\ IF node[i].rid = chan.round THEN Goto(i, "broadcast") ELSE Abort(i)
    /\ ChainSame

\* broadcast: the transaction is for the rotation id of the client.
Broadcast(i) ==
    /\ At(i, "broadcast")
    /\ i \notin Sent /\ chan.open
    /\ IF node[i].rid = chan.round
       THEN \E bad \in SUBSET (Nodes \ {i}) :
              LET event == [round |-> chan.round, from |-> i, bad |-> bad]
              IN  /\ IF bad = {} THEN UNCHANGED left ELSE Spend("bad")
                  /\ log' = log \cup {event}
                  /\ chan' = [chan EXCEPT !.ackAge = 0]
                  /\ Become(i, [node[i] EXCEPT !.pc = "receive", !.data = {event}])
       ELSE Abort(i) /\ UNCHANGED <<chan, log, left>>
    /\ UNCHANGED <<keys, down, hist>>

BroadcastLost(i) ==
    /\ At(i, "broadcast")
    /\ i \notin Sent /\ chan.open
    /\ Spend("tx")
    /\ Abort(i)
    /\ UNCHANGED <<chan, log, keys, down, hist>>

SkipBroadcast(i) ==
    /\ At(i, "broadcast")
    /\ i \in Sent \/ ~ chan.open
    /\ Goto(i, "receive")
    /\ ChainSame

\* Filter.get_events: from the first unseen block, from the start of the
\* channel when all have broadcasted.
Visible(i) == IF AllSent THEN Cast ELSE {e \in log : e.round >= node[i].rid}

\* sync_broadcast_data keeps the first event of each node.
News(i, seen) ==
    {e \in seen : /\ e.from \notin Received(node[i])
                  /\ \A f \in seen : f.from = e.from => e.round <= f.round}

\* A pass of receive_broadcast_data.  The error of an RPC call hides events; an
\* event of a node that joined later is not in node_ids_contract.
Receive(i) ==
    /\ At(i, "receive")
    /\ \E seen \in SUBSET Visible(i) :
          /\ IF seen = Visible(i) THEN UNCHANGED left ELSE Spend("rpc")
          /\ IF \E e \in seen : e.round >= chan.since[e.from] /\ ~ Knows(i, e.from)
             THEN Abort(i)
             ELSE LET r == [node[i] EXCEPT !.data = @ \cup News(i, seen)]
                      all == Received(r) \cup {i} = Nodes
                  IN  \/ /\ ~ all
                         /\ chan.round = node[i].rid => chan.age <= Timeout
                         /\ Become(i, r)
                      \/ /\ all \/ (chan.round = node[i].rid => chan.age > Timeout)
                         /\ Become(i, [r EXCEPT !.pc = "check"])
    /\ UNCHANGED <<chan, log, keys, down, hist>>

\* send_complaint: what the client becomes when the complaint is accepted, when
\* it is not possible or rejected, and when the transaction fails.
Complain(i, j, accepted, refused, failed) ==
    /\ \/ /\ Slashable(i, j)
          /\ Slash(j)
          /\ node' = [k \in Nodes |-> IF Replaced(k) THEN Resting
                                     ELSE IF k = i THEN accepted ELSE node[k]]
          /\ UNCHANGED left
       \/ /\ Slashable(i, j)
          /\ Spend("tx")
          /\ Become(i, failed)
          /\ UNCHANGED <<chan, keys, down, hist>>
       \/ /\ ~ Slashable(i, j)
          /\ Become(i, refused)
          /\ UNCHANGED <<chan, keys, down, hist, left>>
    /\ UNCHANGED log

\* send_complaint of utils.py waits only for a complaint that was accepted.
ComplainAndGo(i, j, r) == Complain(i, j, Waiting(r, chan.round, r.pc), r, r)

\* check_broadcast_result: only the first node with a fault is complained of.
\* Variant: what is received counts as correct.
CheckReceivedDone(i) ==
    /\ At(i, "check")
    /\ Missing(i) = {}
    /\ Goto(i, "gather")
    /\ ChainSame

CheckDone(i) ==
    /\ At(i, "check")
    /\ Missing(i) \cup Wrong(i) = {}
    /\ Goto(i, "gather")
    /\ ChainSame

CheckMissing(i) ==
    /\ At(i, "check")
    /\ \E j \in Missing(i) \cap First(Missing(i) \cup Wrong(i)) :
          ComplainAndGo(i, j, [node[i] EXCEPT !.pc = "gather"])

CheckWrong(i) ==
    /\ At(i, "check")
    /\ \E j \in Wrong(i) \cap First(Missing(i) \cup Wrong(i)) :
          \/ /\ Accusable(i, j) /\ Accuse(i, j)
             /\ Become(i, Waiting([node[i] EXCEPT !.todo = {j}], chan.round, "again"))
             /\ UNCHANGED left
          \/ /\ Accusable(i, j) /\ Spend("tx")
             /\ hist' = [hist EXCEPT !.slip = @ \cup {i}]
             /\ Goto(i, "gather")
             /\ UNCHANGED <<chan, keys, down>>
          \/ /\ ~ Accusable(i, j)
             /\ Goto(i, "gather")
             /\ UNCHANGED <<chan, keys, down, hist, left>>
    /\ UNCHANGED log

\* report_bad_data, after the accused had its time to respond.
ComplainAgain(i) ==
    /\ At(i, "again")
    /\ \E j \in node[i].todo :
          LET r == Waiting(node[i], node[i].ref, "gather")
          IN  Complain(i, j, r, r, [node[i] EXCEPT !.pc = "gather"])

Wait(i) ==
    /\ At(i, "wait")
    /\ \/ (Failed \/ node[i].ref # chan.round) /\ Abort(i)
       \/ node[i].age >= Timeout /\ Goto(i, node[i].next)
    /\ ChainSame

\* init_bls waits once more when a broadcast is missing on chain.
Gather(i) ==
    /\ At(i, "gather")
    /\ IF AllSent THEN Goto(i, "ack")
                  ELSE Become(i, Waiting(node[i], node[i].rid, "ack"))
    /\ ChainSame

\* Without complaint the client counts itself as all right, even when the
\* transaction that says so is not possible any more.
Acknowledge(i) ==
    /\ At(i, "ack")
    /\ CASE Failed       -> Abort(i)
         [] ~ Failed /\ ~ Complained ->
              Become(i, [node[i] EXCEPT !.pc = "alright", !.acks = {i}])
         [] OTHER        -> Become(i, [node[i] EXCEPT !.pc = "respond", !.next = "enter"])
    /\ ChainSame

\* alright: a transaction that fails ends the pass.
Alright(i) ==
    /\ At(i, "alright")
    /\ LET on == [node[i] EXCEPT !.pc = "respond", !.next = "enter"]
           possible == chan.open /\ AllSent /\ i \notin chan.ack /\ chan.from # i
       IN  \/ possible /\ SendAlright(i) /\ Become(i, on) /\ UNCHANGED left
           \/ possible /\ Spend("tx") /\ Abort(i) /\ UNCHANGED <<chan, hist>>
           \/ ~ possible /\ Become(i, on) /\ UNCHANGED <<chan, hist, left>>
    /\ UNCHANGED <<log, keys, down>>

-----------------------------------------------------------------------------
(* check_response, which init_bls calls at three places; next says where.    *)

Accused(i) == chan.to = i /\ chan.from # i

\* pre_response, when this node is accused and has not sent it yet.
Respond(i) ==
    /\ At(i, "respond")
    /\ LET accused  == Accused(i)
           possible == accused /\ chan.open /\ ~ chan.pre
       IN  \/ /\ ~ accused
              /\ IF Failed /\ node[i].next = "enter" THEN Abort(i)
                                                    ELSE Goto(i, node[i].next)
              /\ UNCHANGED <<chan, left>>
           \/ /\ accused /\ ~ possible
              /\ Become(i, Waiting(node[i], chan.round, node[i].next))
              /\ UNCHANGED <<chan, left>>
           \/ /\ possible
              /\ chan' = [chan EXCEPT !.pre = TRUE]
              /\ Become(i, [node[i] EXCEPT !.pc = "answer", !.ref = chan.round])
              /\ UNCHANGED left
           \/ /\ possible /\ Spend("tx")
              /\ Become(i, Waiting(node[i], chan.round, node[i].next))
              /\ UNCHANGED chan
    /\ UNCHANGED <<log, keys, down, hist>>

\* response: the contract decides who of the two was wrong.
Answer(i) ==
    /\ At(i, "answer")
    /\ LET r == Waiting(node[i], node[i].ref, node[i].next)
           possible == chan.open /\ chan.to = i /\ chan.pre
           guilty == IF \E e \in Cast : e.from = i /\ chan.from \in e.bad
                     THEN i ELSE chan.from
       IN  \/ /\ possible /\ Slash(guilty)
              /\ node' = [k \in Nodes |-> IF Replaced(k) THEN Resting
                                         ELSE IF k = i THEN r ELSE node[k]]
              /\ UNCHANGED left
           \/ /\ possible /\ Spend("tx") /\ Become(i, r)
              /\ UNCHANGED <<chan, keys, down, hist>>
           \/ /\ ~ possible /\ Become(i, r)
              /\ UNCHANGED <<chan, keys, down, hist, left>>
    /\ UNCHANGED log

-----------------------------------------------------------------------------
(* Collecting the alrights of the others. *)

\* get_alright_started_time is read once; it is 0 when a broadcast is missing.
Enter(i) ==
    /\ At(i, "enter")
    /\ Goto(i, IF AllSent THEN "collect" ELSE "blame")
    /\ ChainSame

\* A client that outlived its round may hold the start time of that round, so that
\* its time is up whatever the present round says.
Collect(i) ==
    /\ At(i, "collect")
    /\ \/ CASE node[i].acks = Nodes -> Goto(i, "blame")
            [] node[i].acks # Nodes /\ Failed -> Abort(i)
            [] node[i].acks # Nodes /\ ~ Failed /\ (Complained \/ chan.ackAge > Timeout) ->
                 Goto(i, "blame")
            [] OTHER -> Become(i, [node[i] EXCEPT !.acks = @ \cup {j \in chan.ack : Knows(i, j)}])
       \/ ~ Failed /\ chan.round # node[i].rid /\ Goto(i, "blame")
    /\ ChainSame

\* Variant: a missing alright is not complained of.
BlameNobody(i) ==
    /\ At(i, "blame")
    /\ Become(i, [node[i] EXCEPT !.pc = "respond", !.next = "final"])
    /\ ChainSame

Blame(i) ==
    /\ At(i, "blame")
    /\ IF Complained
       THEN Become(i, [node[i] EXCEPT !.pc = "respond", !.next = "final"])
       ELSE Become(i, [node[i] EXCEPT !.pc = "blaming", !.todo = Nodes \ (node[i].acks \cup {i})])
    /\ ChainSame

BlameNext(i) ==
    /\ At(i, "blaming")
    /\ \E j \in First(node[i].todo) :
          ComplainAndGo(i, j, [node[i] EXCEPT !.todo = @ \ {j}])

BlameDone(i) ==
    /\ At(i, "blaming")
    /\ node[i].todo = {}
    /\ Become(i, [node[i] EXCEPT !.pc = "respond", !.next = "final"])
    /\ ChainSame

Final(i) ==
    /\ At(i, "final")
    /\ IF ~ Completed /\ ~ Complained
       THEN Become(i, Waiting(node[i], node[i].rid, "accuse"))
       ELSE Goto(i, "accuse")
    /\ ChainSame

\* There is a complaint: respond if it is about this node, give the accused its
\* time, and complain of one that did not respond.
CheckComplaint(i) ==
    /\ At(i, "accuse")
    /\ IF Complained
       THEN Become(i, [node[i] EXCEPT !.pc = "respond", !.next = "accused"])
       ELSE Goto(i, "end")
    /\ ChainSame

\* A complaint that is gone names no node the client knows.
AwaitAccused(i) ==
    /\ At(i, "accused")
    /\ IF Complained /\ Knows(i, chan.to)
       THEN Become(i, Waiting([node[i] EXCEPT !.todo = {chan.to}], node[i].rid, "noresponse"))
       ELSE Abort(i)
    /\ ChainSame

NoResponse(i) ==
    /\ At(i, "noresponse")
    /\ \E j \in node[i].todo :
          CASE Failed -> Abort(i) /\ ChainSame
            [] ~ Failed /\ j = i -> Goto(i, "end") /\ ChainSame
            [] OTHER -> ComplainAndGo(i, j, [node[i] EXCEPT !.pc = "last"])

AwaitFailure(i) ==
    /\ At(i, "last")
    /\ Become(i, Waiting(node[i], node[i].rid, "end"))
    /\ ChainSame

\* Variant: the alrights are not looked at.
EndWithoutAlrights(i) ==
    /\ At(i, "end")
    /\ keys' = Saved(i, node[i].data)
    /\ Abort(i)
    /\ UNCHANGED <<chan, log, down, hist, left>>

\* 'Not everyone sent alright', or the share is generated and saved.
End(i) ==
    /\ At(i, "end")
    /\ keys' = IF node[i].acks = Nodes THEN Saved(i, node[i].data) ELSE keys
    /\ Abort(i)
    /\ UNCHANGED <<chan, log, down, hist, left>>

NodeStep(i) ==
    \/ Begin(i) \/ Client(i) \/ Join(i) \/ Broadcast(i) \/ BroadcastLost(i)
    \/ SkipBroadcast(i) \/ Receive(i)
    \/ CheckDone(i) \/ CheckMissing(i) \/ CheckWrong(i) \/ ComplainAgain(i) \/ Wait(i)
    \/ Gather(i) \/ Acknowledge(i) \/ Alright(i) \/ Respond(i) \/ Answer(i)
    \/ Enter(i) \/ Collect(i) \/ Blame(i) \/ BlameNext(i) \/ BlameDone(i) \/ Final(i)
    \/ CheckComplaint(i) \/ AwaitAccused(i) \/ NoResponse(i) \/ AwaitFailure(i)
    \/ End(i)

-----------------------------------------------------------------------------
(* Outside: the process is killed, the node goes down for good, time passes.  *)

Killed(i) ==
    /\ node[i].pc # "idle"
    /\ Spend("kill")
    /\ Abort(i)
    /\ UNCHANGED <<chan, log, keys, down, hist>>

GoDown(i) ==
    /\ i \notin down
    /\ Spend("down")
    /\ down' = down \cup {i}
    /\ Abort(i)
    /\ UNCHANGED <<chan, log, keys, hist>>

Older(age) == IF age <= Timeout THEN age + 1 ELSE age

Tick ==
    /\ chan' = [chan EXCEPT !.age = Older(@),
                            !.ackAge = IF AllSent THEN Older(@) ELSE @,
                            !.toAge = IF Complained THEN Older(@) ELSE @]
    /\ node' = [i \in Nodes |->
                  IF node[i].pc = "wait" THEN [node[i] EXCEPT !.age = Older(@)] ELSE node[i]]
    /\ UNCHANGED <<log, keys, down, hist, left>>

Next ==
    \/ \E i \in Nodes : NodeStep(i) \/ Killed(i) \/ GoDown(i)
    \/ Tick

Spec == Init /\ [][Next]_vars

\* The config pipeline runs DKG again and again on each node that is not down,
\* and time passes.
FairSpec ==
    /\ Spec
    /\ WF_vars(Tick)
    /\ \A i \in Nodes : WF_vars(NodeStep(i))

-----------------------------------------------------------------------------
(* Properties. *)

\* The key share of a rotation is made of the broadcasts of that rotation, one
\* of each node: no restart of the round in the middle of a client mixes them.
\* And any two nodes made their shares of the same broadcasts, whether they took
\* part to the end or fetched the results after a kill: they share one key.
KeyOfRound ==
    \A i \in Nodes : \A k \in keys[i] :
        /\ {e.from : e \in k.data} = Nodes
        /\ \A e \in k.data : e.round = k.rid
        /\ \A j \in Nodes : \A l \in keys[j] : l.rid = k.rid => l.data = k.data

\* In a rotation a share is saved only for a round that succeeded on chain.  (In
\* the first DKG of a chain check_failed_dkg does not see a channel that closed.)
KeyOfSuccess ==
    \A i \in Nodes : \A k \in keys[i] : k.rid \in hist.won \/ hist.first

\* A node never confirms data that it found wrong: a restart, a complaint of
\* another node or one that is not possible do not bring it past its check.
\* Excused are a complaint whose transaction was lost, and a node that missed a
\* broadcast up to the deadline.
AlrightVerified ==
    \A i \in chan.ack \ hist.slip : \A e \in Cast : i \notin e.bad

\* A round ends, whatever the nodes that are down left undone.
RoundEnds ==
    \A r \in Rounds :
        chan.open /\ chan.round = r /\ down # Nodes ~> ~ chan.open \/ chan.round # r

\* After a round that succeeded each node comes to hold its share, also when
\* its process was killed after its alright.
ShareObtained ==
    \A i \in Nodes :
        chan.ok /\ i \notin down ~> i \in down \/ \E k \in keys[i] : k.rid = chan.round
=============================================================================
