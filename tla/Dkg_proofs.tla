----------------------------- MODULE Dkg_proofs -----------------------------
(***************************************************************************)
(* Proofs about Dkg, for every number of nodes, every timeout, every bound *)
(* on the rounds and all budgets of outside events.                        *)
(***************************************************************************)
EXTENDS Dkg, TLAPS

-----------------------------------------------------------------------------
(* Types. *)

\* A budget is spent from a positive number.
LEMMA SpendTyped ==
    ASSUME left \in [Events -> Nat], NEW e \in Events, Spend(e)
    PROVE  left' \in [Events -> Nat]
  BY DEF Spend

\* A node takes a state of a client.
LEMMA BecomeTyped ==
    ASSUME TypeOK, NEW i \in Nodes, NEW r \in Clients, Become(i, r)
    PROVE  node' \in [Nodes -> Clients]
  BY DEF TypeOK, Become

\* A client that does not run is one.
LEMMA RestingTyped == Resting \in Clients
  BY DkgAssumption DEF Resting, Clients, Pcs, Rounds, Ages

\* So is a client in wait_for_fail.
LEMMA WaitingTyped ==
    ASSUME NEW r \in Clients, NEW ref \in Rounds, NEW next \in Pcs
    PROVE  Waiting(r, ref, next) \in Clients
  <1>1. "wait" \in Pcs /\ 0 \in Ages
    BY DkgAssumption DEF Pcs, Ages
  <1> QED
    BY <1>1 DEF Waiting, Clients

\* A client that goes on to another statement stays one.
LEMMA GotoTyped ==
    ASSUME TypeOK, NEW i \in Nodes, NEW pc \in Pcs, Goto(i, pc)
    PROVE  node' \in [Nodes -> Clients]
  <1>1. [node[i] EXCEPT !.pc = pc] \in Clients
    BY DEF TypeOK, Clients
  <1> QED
    BY <1>1, BecomeTyped DEF Goto

\* So does one that ends with a DkgError.
LEMMA AbortTyped ==
    ASSUME TypeOK, NEW i \in Nodes, Abort(i)
    PROVE  node' \in [Nodes -> Clients]
  BY RestingTyped, BecomeTyped DEF Abort

\* A round that fails, and starts anew or not, leaves a channel and shares of their types.
LEMMA SlashTyped ==
    ASSUME TypeOK, NEW j, Slash(j)
    PROVE  /\ chan' \in Channels
           /\ keys' \in [Nodes -> SUBSET Keys]
           /\ down' \subseteq Nodes
           /\ hist' \in Histories
  <1>1. CASE /\ chan.round < MaxRound
             /\ chan' = [chan EXCEPT !.round = @ + 1, !.age = 0, !.since[j] = chan.round + 1,
                               !.ack = {}, !.ackAge = 0, !.from = NoNode, !.to = NoNode,
                               !.pre = FALSE, !.toAge = 0, !.ok = FALSE]
             /\ keys' = [keys EXCEPT ![j] = {}]
             /\ down' = down \ {j}
             /\ hist' = [hist EXCEPT !.slip = {}]
    <2>1. chan.round + 1 \in Rounds
      BY <1>1, DkgAssumption DEF TypeOK, Channels, Rounds
    <2>2. [chan.since EXCEPT ![j] = chan.round + 1] \in [Nodes -> Rounds]
      BY <2>1 DEF TypeOK, Channels
    <2>3. chan' \in Channels
      <3>1. 0 \in Ages /\ chan \in Channels
        BY DkgAssumption DEF Ages, TypeOK
      <3> DEFINE c == [chan EXCEPT !.round = @ + 1, !.age = 0,
                              !.since = [@ EXCEPT ![j] = chan.round + 1],
                              !.ack = {}, !.ackAge = 0, !.from = NoNode, !.to = NoNode,
                              !.pre = FALSE, !.toAge = 0, !.ok = FALSE]
      <3>2. chan' = c
        BY <1>1
      <3>3. c \in Channels
        BY <2>1, <2>2, <3>1 DEF Channels
      <3> QED
        BY <3>2, <3>3
    <2>4. keys' \in [Nodes -> SUBSET Keys] /\ down' \subseteq Nodes /\ hist' \in Histories
      BY <1>1 DEF TypeOK, Histories
    <2> QED
      BY <2>3, <2>4
  <1>2. CASE /\ chan' = [chan EXCEPT !.open = FALSE, !.from = NoNode, !.to = NoNode, !.ok = FALSE]
             /\ UNCHANGED <<keys, down, hist>>
    BY <1>2 DEF TypeOK, Channels
  <1> QED
    BY <1>1, <1>2 DEF Slash

\* A complaint, whichever of its three outcomes it has, keeps all types.
LEMMA ComplainTyped ==
    ASSUME TypeOK, NEW i \in Nodes, NEW j, NEW accepted \in Clients, NEW refused \in Clients,
           NEW failed \in Clients, Complain(i, j, accepted, refused, failed)
    PROVE  TypeOK'
  <1>1. CASE /\ Slash(j) /\ UNCHANGED <<left, log>>
             /\ node' = [k \in Nodes |-> IF Replaced(k) THEN Resting
                                         ELSE IF k = i THEN accepted ELSE node[k]]
    BY <1>1, SlashTyped, RestingTyped DEF TypeOK
  <1>2. CASE Spend("tx") /\ Become(i, failed) /\ UNCHANGED <<chan, keys, down, hist, log>>
    BY <1>2, SpendTyped, BecomeTyped DEF TypeOK, Events
  <1>3. CASE Become(i, refused) /\ UNCHANGED <<chan, keys, down, hist, left, log>>
    BY <1>3, BecomeTyped DEF TypeOK
  <1> QED
    BY <1>1, <1>2, <1>3 DEF Complain

\* What generate_bls_key saves are key shares.
LEMMA SavedTyped ==
    ASSUME TypeOK, NEW i \in Nodes, NEW data \in SUBSET Events1, keys' = Saved(i, data)
    PROVE  keys' \in [Nodes -> SUBSET Keys]
  <1>1. [rid |-> node[i].rid, data |-> data] \in Keys
    BY DEF TypeOK, Clients, Keys
  <1> QED
    BY <1>1 DEF Saved, TypeOK

\* A step that touches the clients alone keeps all types.
LEMMA QuietTyped ==
    ASSUME TypeOK, node' \in [Nodes -> Clients], ChainSame
    PROVE  TypeOK'
  BY DEF TypeOK, ChainSame

\* The state names.
LEMMA PcsNamed ==
    /\ {"idle", "client", "join", "broadcast", "receive", "check", "again", "gather"} \subseteq Pcs
    /\ {"ack", "alright", "respond", "answer", "enter", "collect", "blame"} \subseteq Pcs
    /\ {"blaming", "final", "accuse", "accused", "noresponse", "last", "end", "wait"} \subseteq Pcs
  BY DEF Pcs

\* What is derived from the events on chain are events and nodes.
LEMMA CastTyped ==
    ASSUME TypeOK
    PROVE  /\ Cast \subseteq Events1 /\ Sent \subseteq Nodes
           /\ \A i \in Nodes : Missing(i) \subseteq Nodes /\ Wrong(i) \subseteq Nodes
  BY DEF TypeOK, Cast, Sent, Missing, Wrong, Received, Events1, Clients

\* The steps of a client that read the chain only.
LEMMA ReadTyped ==
    ASSUME TypeOK, NEW i \in Nodes,
           \/ Begin(i) \/ Join(i) \/ SkipBroadcast(i) \/ CheckDone(i) \/ Wait(i) \/ Gather(i)
           \/ Acknowledge(i) \/ Enter(i) \/ Collect(i) \/ Blame(i) \/ BlameDone(i) \/ Final(i)
           \/ CheckComplaint(i) \/ AwaitAccused(i) \/ AwaitFailure(i)
    PROVE  TypeOK'
  <1> USE PcsNamed
  <1>r. node[i] \in Clients /\ chan.round \in Rounds /\ node[i].rid \in Rounds
        /\ chan.ack \subseteq Nodes /\ chan.to \in Nodes \cup {NoNode}
    BY DEF TypeOK, Clients, Channels
  <1>c. ChainSame
    BY DEF Begin, Join, SkipBroadcast, CheckDone, Wait, Gather, Acknowledge, Enter, Collect,
           Blame, BlameDone, Final, CheckComplaint, AwaitAccused, AwaitFailure
  <1>s. SUFFICES node' \in [Nodes -> Clients]
    BY <1>c, QuietTyped
  <1>1. CASE Begin(i)
    <2>1. [Resting EXCEPT !.pc = "client", !.rid = chan.round] \in Clients
      BY <1>r, RestingTyped DEF Clients
    <2> QED
      BY <1>1, <2>1, BecomeTyped DEF Begin
  <1>2. CASE Join(i) \/ SkipBroadcast(i) \/ CheckDone(i) \/ Enter(i)
    BY <1>2, GotoTyped, AbortTyped DEF Join, SkipBroadcast, CheckDone, Enter
  <1>3. CASE Wait(i)
    <2>1. node[i].next \in Pcs
      BY <1>r DEF Clients
    <2> QED
      BY <1>3, <2>1, GotoTyped, AbortTyped DEF Wait
  <1>4. CASE Gather(i)
    <2>1. Waiting(node[i], node[i].rid, "ack") \in Clients
      BY <1>r, WaitingTyped
    <2> QED
      BY <1>4, <2>1, GotoTyped, BecomeTyped DEF Gather
  <1>5. CASE Acknowledge(i)
    <2>1. /\ [node[i] EXCEPT !.pc = "alright", !.acks = {i}] \in Clients
          /\ [node[i] EXCEPT !.pc = "respond", !.next = "enter"] \in Clients
      BY <1>r DEF Clients
    <2> QED
      BY <1>5, <2>1, AbortTyped, BecomeTyped DEF Acknowledge
  <1>6. CASE Collect(i)
    <2>1. [node[i] EXCEPT !.acks = @ \cup {j \in chan.ack : Knows(i, j)}] \in Clients
      BY <1>r DEF Clients
    <2> QED
      BY <1>6, <2>1, GotoTyped, AbortTyped, BecomeTyped DEF Collect
  <1>7. CASE Blame(i) \/ BlameDone(i) \/ CheckComplaint(i)
    <2>1. /\ [node[i] EXCEPT !.pc = "respond", !.next = "final"] \in Clients
          /\ [node[i] EXCEPT !.pc = "respond", !.next = "accused"] \in Clients
          /\ [node[i] EXCEPT !.pc = "blaming",
                             !.todo = Nodes \ (node[i].acks \cup {i})] \in Clients
      BY <1>r DEF Clients
    <2> QED
      BY <1>7, <2>1, GotoTyped, BecomeTyped DEF Blame, BlameDone, CheckComplaint
  <1>8. CASE Final(i) \/ AwaitFailure(i)
    <2>1. /\ Waiting(node[i], node[i].rid, "accuse") \in Clients
          /\ Waiting(node[i], node[i].rid, "end") \in Clients
      BY <1>r, WaitingTyped
    <2> QED
      BY <1>8, <2>1, GotoTyped, BecomeTyped DEF Final, AwaitFailure
  <1>9. CASE AwaitAccused(i)
    <2>1. CASE Complained /\ Knows(i, chan.to)
      <3>1. [node[i] EXCEPT !.todo = {chan.to}] \in Clients
        BY <1>r, <2>1 DEF Clients, Complained
      <3>2. Waiting([node[i] EXCEPT !.todo = {chan.to}], node[i].rid, "noresponse") \in Clients
        BY <1>r, <3>1, WaitingTyped
      <3> QED
        BY <1>9, <2>1, <3>2, BecomeTyped DEF AwaitAccused
    <2>2. CASE ~ (Complained /\ Knows(i, chan.to))
      BY <1>9, <2>2, AbortTyped DEF AwaitAccused
    <2> QED
      BY <2>1, <2>2
  <1> QED
    BY <1>1, <1>2, <1>3, <1>4, <1>5, <1>6, <1>7, <1>8, <1>9

\* The steps that send to the contract, but for complaints.
LEMMA SendTyped ==
    ASSUME TypeOK, NEW i \in Nodes,
           Broadcast(i) \/ BroadcastLost(i) \/ Receive(i) \/ Alright(i) \/ Respond(i)
    PROVE  TypeOK'
  <1> USE PcsNamed
  <1>r. node[i] \in Clients /\ chan \in Channels /\ node[i].rid \in Rounds /\ node[i].next \in Pcs
        /\ chan.round \in Rounds
    BY DEF TypeOK, Clients, Channels
  <1>1. CASE Broadcast(i)
    <2>1. CASE node[i].rid = chan.round
      <3>1. PICK bad \in SUBSET (Nodes \ {i}) :
              /\ IF bad = {} THEN UNCHANGED left ELSE Spend("bad")
              /\ log' = log \cup {[round |-> chan.round, from |-> i, bad |-> bad]}
              /\ chan' = [chan EXCEPT !.ackAge = 0]
              /\ Become(i, [node[i] EXCEPT !.pc = "receive",
                           !.data = {[round |-> chan.round, from |-> i, bad |-> bad]}])
        BY <1>1, <2>1 DEF Broadcast
      <3>2. [round |-> chan.round, from |-> i, bad |-> bad] \in Events1
        BY <1>r DEF Events1
      <3>3. [node[i] EXCEPT !.pc = "receive",
              !.data = {[round |-> chan.round, from |-> i, bad |-> bad]}] \in Clients
        BY <1>r, <3>2 DEF Clients
      <3>4. chan' \in Channels
        BY <1>r, <3>1, DkgAssumption DEF Channels, Ages
      <3>5. left' \in [Events -> Nat]
        BY <3>1, SpendTyped DEF TypeOK, Events
      <3> QED
        BY <1>1, <3>1, <3>2, <3>3, <3>4, <3>5, BecomeTyped DEF Broadcast, TypeOK
    <2>2. CASE node[i].rid # chan.round
      BY <1>1, <2>2, AbortTyped DEF Broadcast, TypeOK
    <2> QED
      BY <2>1, <2>2
  <1>2. CASE BroadcastLost(i)
    BY <1>2, AbortTyped, SpendTyped DEF BroadcastLost, TypeOK, Events
  <1>3. CASE Receive(i)
    <2>1. PICK seen \in SUBSET Visible(i) :
            /\ IF seen = Visible(i) THEN UNCHANGED left ELSE Spend("rpc")
            /\ \/ Abort(i)
               \/ Become(i, [node[i] EXCEPT !.data = @ \cup News(i, seen)])
               \/ Become(i, [[node[i] EXCEPT !.data = @ \cup News(i, seen)] EXCEPT !.pc = "check"])
      BY <1>3 DEF Receive
    <2>2. Visible(i) \subseteq Events1
      BY CastTyped DEF Visible, TypeOK
    <2>3. [node[i] EXCEPT !.data = @ \cup News(i, seen)] \in Clients
      BY <1>r, <2>1, <2>2 DEF Clients, News
    <2>4. [[node[i] EXCEPT !.data = @ \cup News(i, seen)] EXCEPT !.pc = "check"] \in Clients
      BY <2>3 DEF Clients
    <2>5. left' \in [Events -> Nat]
      BY <2>1, SpendTyped DEF TypeOK, Events
    <2>6. node' \in [Nodes -> Clients]
      BY <2>1, <2>3, <2>4, AbortTyped, BecomeTyped
    <2> QED
      BY <1>3, <2>5, <2>6 DEF Receive, TypeOK
  <1>4. CASE Alright(i)
    <2>1. [node[i] EXCEPT !.pc = "respond", !.next = "enter"] \in Clients
      BY <1>r DEF Clients
    <2>2. left' \in [Events -> Nat] /\ node' \in [Nodes -> Clients]
      BY <1>4, <2>1, AbortTyped, BecomeTyped, SpendTyped DEF Alright, TypeOK, Events
    <2>3. ASSUME SendAlright(i) PROVE chan' \in Channels /\ hist' \in Histories
      BY <1>r, <2>3 DEF SendAlright, Channels, Histories, TypeOK
    <2> QED
      BY <1>4, <2>2, <2>3 DEF Alright, TypeOK
  <1>5. CASE Respond(i)
    <2>1. Waiting(node[i], chan.round, node[i].next) \in Clients
      BY <1>r, WaitingTyped
    <2>2. [node[i] EXCEPT !.pc = "answer", !.ref = chan.round] \in Clients
      BY <1>r DEF Clients
    <2>3. left' \in [Events -> Nat] /\ node' \in [Nodes -> Clients]
      BY <1>5, <1>r, <2>1, <2>2, GotoTyped, AbortTyped, BecomeTyped, SpendTyped
         DEF Respond, TypeOK, Events
    <2>4. chan' \in Channels
      BY <1>5, <1>r DEF Respond, Channels
    <2> QED
      BY <1>5, <2>3, <2>4 DEF Respond, TypeOK
  <1> QED
    BY <1>1, <1>2, <1>3, <1>4, <1>5

\* The steps that may slash a node or save a key.
LEMMA SlashingTyped ==
    ASSUME TypeOK, NEW i \in Nodes,
           \/ Client(i) \/ CheckMissing(i) \/ CheckWrong(i) \/ ComplainAgain(i) \/ Answer(i)
           \/ BlameNext(i) \/ NoResponse(i) \/ End(i)
    PROVE  TypeOK'
  <1> USE PcsNamed
  <1>r. node[i] \in Clients /\ chan \in Channels /\ node[i].rid \in Rounds /\ node[i].next \in Pcs
        /\ chan.round \in Rounds /\ node[i].ref \in Rounds /\ node[i].data \in SUBSET Events1
    BY DEF TypeOK, Clients, Channels
  <1>g. ASSUME NEW r \in Clients, NEW j, ComplainAndGo(i, j, r)
        PROVE  TypeOK'
    <2>1. r.pc \in Pcs
      BY DEF Clients
    <2>2. Waiting(r, chan.round, r.pc) \in Clients
      BY <1>r, <2>1, WaitingTyped
    <2> QED
      BY <1>g, <2>2, ComplainTyped DEF ComplainAndGo
  <1>1. CASE Client(i)
    <2>1. Cast \in SUBSET Events1
      BY CastTyped
    <2> QED
      BY <1>1, <2>1, SavedTyped, AbortTyped, GotoTyped DEF Client, TypeOK
  <1>2. CASE CheckMissing(i)
    <2>1. [node[i] EXCEPT !.pc = "gather"] \in Clients
      BY <1>r DEF Clients
    <2> QED
      BY <1>2, <2>1, <1>g DEF CheckMissing
  <1>3. CASE CheckWrong(i)
    <2>1. PICK j \in Wrong(i) :
            \/ /\ Accusable(i, j) /\ Accuse(i, j)
               /\ Become(i, Waiting([node[i] EXCEPT !.todo = {j}], chan.round, "again"))
               /\ UNCHANGED left
            \/ /\ Accusable(i, j) /\ Spend("tx")
               /\ hist' = [hist EXCEPT !.slip = @ \cup {i}]
               /\ Goto(i, "gather")
               /\ UNCHANGED <<chan, keys, down>>
            \/ /\ ~ Accusable(i, j)
               /\ Goto(i, "gather")
               /\ UNCHANGED <<chan, keys, down, hist, left>>
      BY <1>3 DEF CheckWrong
    <2>2. j \in Nodes /\ UNCHANGED log
      BY <1>3, CastTyped DEF CheckWrong
    <2>3. CASE /\ Accuse(i, j)
               /\ Become(i, Waiting([node[i] EXCEPT !.todo = {j}], chan.round, "again"))
               /\ UNCHANGED left
      <3>1. [node[i] EXCEPT !.todo = {j}] \in Clients
        BY <1>r, <2>2 DEF Clients
      <3>2. Waiting([node[i] EXCEPT !.todo = {j}], chan.round, "again") \in Clients
        BY <1>r, <3>1, WaitingTyped
      <3>3. 0 \in Ages
        BY DkgAssumption DEF Ages
      <3>4. chan' \in Channels
        BY <1>r, <2>2, <2>3, <3>3 DEF Accuse, Channels
      <3> QED
        BY <2>2, <2>3, <3>2, <3>4, BecomeTyped DEF Accuse, TypeOK
    <2>4. CASE /\ Spend("tx")
               /\ hist' = [hist EXCEPT !.slip = @ \cup {i}]
               /\ Goto(i, "gather")
               /\ UNCHANGED <<chan, keys, down>>
      <3>1. hist' \in Histories
        BY <2>4 DEF Histories, TypeOK
      <3> QED
        BY <2>2, <2>4, <3>1, SpendTyped, GotoTyped DEF TypeOK, Events
    <2>5. CASE Goto(i, "gather") /\ UNCHANGED <<chan, keys, down, hist, left>>
      BY <2>2, <2>5, GotoTyped DEF TypeOK
    <2> QED
      BY <2>1, <2>3, <2>4, <2>5
  <1>4. CASE ComplainAgain(i)
    <2>1. [node[i] EXCEPT !.pc = "gather"] \in Clients
          /\ Waiting(node[i], node[i].ref, "gather") \in Clients
      BY <1>r, WaitingTyped DEF Clients
    <2> QED
      BY <1>4, <2>1, ComplainTyped DEF ComplainAgain
  <1>5. CASE Answer(i)
    <2> DEFINE r == Waiting(node[i], node[i].ref, node[i].next)
               guilty == IF \E e \in Cast : e.from = i /\ chan.from \in e.bad
                         THEN i ELSE chan.from
    <2>1. r \in Clients
      BY <1>r, WaitingTyped
    <2>2. CASE Slash(guilty)
               /\ node' = [k \in Nodes |-> IF Replaced(k) THEN Resting
                                          ELSE IF k = i THEN r ELSE node[k]]
               /\ UNCHANGED <<left, log>>
      BY <2>1, <2>2, SlashTyped, RestingTyped DEF TypeOK
    <2>3. CASE Spend("tx") /\ Become(i, r) /\ UNCHANGED <<chan, keys, down, hist, log>>
      BY <2>1, <2>3, SpendTyped, BecomeTyped DEF TypeOK, Events
    <2>4. CASE Become(i, r) /\ UNCHANGED <<chan, keys, down, hist, left, log>>
      BY <2>1, <2>4, BecomeTyped DEF TypeOK
    <2> QED
      BY <1>5, <2>2, <2>3, <2>4 DEF Answer
  <1>6. CASE BlameNext(i)
    <2>1. \A j \in First(node[i].todo) : [node[i] EXCEPT !.todo = @ \ {j}] \in Clients
      BY <1>r DEF Clients
    <2> QED
      BY <1>6, <2>1, <1>g DEF BlameNext
  <1>7. CASE NoResponse(i)
    <2>1. [node[i] EXCEPT !.pc = "last"] \in Clients
      BY <1>r DEF Clients
    <2>2. PICK j \in node[i].todo :
            \/ Abort(i) /\ ChainSame
            \/ Goto(i, "end") /\ ChainSame
            \/ ComplainAndGo(i, j, [node[i] EXCEPT !.pc = "last"])
      BY <1>7 DEF NoResponse
    <2> QED
      BY <2>1, <2>2, <1>g, AbortTyped, GotoTyped, QuietTyped
  <1>8. CASE End(i)
    BY <1>8, <1>r, SavedTyped, AbortTyped DEF End, TypeOK
  <1> QED
    BY <1>1, <1>2, <1>3, <1>4, <1>5, <1>6, <1>7, <1>8

\* Time, kills and nodes that go down keep all types.
LEMMA OutsideTyped ==
    ASSUME TypeOK, Tick \/ \E i \in Nodes : Killed(i) \/ GoDown(i)
    PROVE  TypeOK'
  <1>1. CASE Tick
    <2>1. \A age \in Ages : Older(age) \in Ages
      BY DkgAssumption DEF Ages, Older
    <2>2. chan' \in Channels
      BY <1>1, <2>1 DEF Tick, TypeOK, Channels
    <2>3. \A i \in Nodes : [node[i] EXCEPT !.age = Older(@)] \in Clients
      BY <2>1 DEF TypeOK, Clients
    <2>4. node' \in [Nodes -> Clients]
      BY <1>1, <2>3 DEF Tick, TypeOK
    <2> QED
      BY <1>1, <2>2, <2>4 DEF Tick, TypeOK
  <1>2. ASSUME NEW i \in Nodes, Killed(i) \/ GoDown(i) PROVE TypeOK'
    <2>1. left' \in [Events -> Nat] /\ node' \in [Nodes -> Clients] /\ down' \subseteq Nodes
      BY <1>2, AbortTyped, SpendTyped DEF Killed, GoDown, TypeOK, Events
    <2> QED
      BY <1>2, <2>1 DEF Killed, GoDown, TypeOK
  <1> QED
    BY <1>1, <1>2

\* Every step keeps all types.
LEMMA StepTyped ==
    ASSUME TypeOK, [Next]_vars
    PROVE  TypeOK'
  <1>1. CASE UNCHANGED vars
    BY <1>1 DEF vars, TypeOK
  <1>2. CASE Next
    BY <1>2, ReadTyped, SendTyped, SlashingTyped, OutsideTyped DEF Next, NodeStep
  <1> QED
    BY <1>1, <1>2

\* A channel that was just opened has the types.
LEMMA InitTyped ==
    ASSUME Init
    PROVE  TypeOK
  <1>1. 0 \in Ages /\ 0 \in Rounds
    BY DkgAssumption DEF Ages, Rounds
  <1>2. chan \in Channels
    BY <1>1 DEF Init, Channels
  <1>3. node \in [Nodes -> Clients]
    BY RestingTyped DEF Init
  <1>4. hist \in Histories
    BY <1>2 DEF Init, Histories, Channels
  <1> QED
    BY <1>2, <1>3, <1>4, DkgAssumption DEF Init, TypeOK

\* The channel, the log and the clients keep their types.
THEOREM TypeCorrect == Spec => []TypeOK
  BY InitTyped, StepTyped, PTL DEF Spec

-----------------------------------------------------------------------------
(* The inductive invariant.                                                *)
(*                                                                         *)
(* A client that began before a restart of the round can still be running. *)
(* It is harmless for three reasons: a node that has broadcasted in the    *)
(* round has no such client; a client of the round counts only alrights of *)
(* the round and its own; and to a client of an earlier round some node is *)
(* unknown, whose alright it never counts.                                 *)

\* One event of a node in a round; alrights only when all have sent; the round
\* has succeeded when all are all right; who complains is not.
ChainInv ==
    /\ \A e \in log : e.round <= chan.round /\ e.from \notin e.bad
    /\ \A e, f \in log : e.from = f.from /\ e.round = f.round => e = f
    /\ chan.ack # {} => AllSent
    /\ \A j \in Nodes : chan.since[j] <= chan.round
    /\ chan.ok <=> Completed
    /\ Completed => ~ chan.open /\ chan.round \in hist.won
    /\ Complained => chan.open /\ chan.from \in Nodes \ chan.ack
    /\ Complained \/ chan.from = NoNode
    /\ ~ chan.ever => hist.first

\* Where the client is: before its broadcast, before its alright, after.
Begun    == {"idle", "client", "join", "broadcast"}
Checked  == {"again", "gather", "ack"}
Later    == {"respond", "answer", "enter", "collect", "blame", "blaming", "final", "accuse",
             "accused", "noresponse", "last", "end"}
Resumed  == {"enter", "final", "accused"}

InChecked(r)  == r.pc \in Checked \/ (r.pc = "wait" /\ r.next \in Checked)
InLater(r)    == r.pc \in Later \/ (r.pc = "wait" /\ r.next \in Later)
InEntering(r) == r.pc = "respond" /\ r.next = "enter"

Full(r) == Received(r) = Nodes

Sound(i, r)  == Nodes \ (Received(r) \cup {i}) = {} => \A e \in r.data : i \notin e.bad

Excused(i) == i \in hist.slip \/ i \in chan.ack

\* The client of i, when it runs.
Positions(r) ==
    /\ r.pc = "wait" => r.next \in (Checked \cup Later) \ {"respond", "answer"}
    /\ r.pc \in {"respond", "answer"} => r.next \in Resumed

OfRound(i, r) ==
    /\ r.rid <= chan.round
    /\ i \in Sent => r.rid = chan.round
    /\ r.rid < chan.round => \E k \in Nodes \ {i} : chan.since[k] > r.rid
    /\ r.data \subseteq log
    /\ \A e \in r.data : r.rid <= e.round
    /\ r.pc \notin Begun /\ r.rid = chan.round /\ chan.open => i \in Sent

Counted(i, r) ==
    /\ ~ InLater(r) /\ r.pc # "alright" => r.acks = {}
    /\ r.pc = "alright" => r.acks = {i} /\ chan.from # i
    /\ r.rid = chan.round => r.acks \subseteq chan.ack \cup {i}
    /\ r.rid < chan.round => r.acks # Nodes \/ ~ Full(r)
    /\ InLater(r) /\ i \in r.acks /\ r.rid = chan.round /\ Full(r) =>
          i \in chan.ack \/ (~ chan.open /\ hist.first) \/ (Failed /\ InEntering(r))

Verified(i, r) ==
    r.rid = chan.round /\ chan.open =>
        /\ InChecked(r) => Sound(i, r) \/ Excused(i) \/ Complained
        /\ r.pc = "alright" => Sound(i, r) \/ Excused(i)

\* Each share is made of one event of each node, all of its round.
OneRound ==
    \A i \in Nodes : \A k \in keys[i] :
        {e.from : e \in k.data} = Nodes /\ \A e \in k.data : e.round = k.rid

ClientInv(i, r) ==
    r.pc # "idle" => Positions(r) /\ OfRound(i, r) /\ Counted(i, r) /\ Verified(i, r)

IInv ==
    /\ TypeOK
    /\ ChainInv
    /\ \A i \in Nodes : ClientInv(i, node[i])
    /\ OneRound
    /\ KeyOfSuccess
    /\ AlrightVerified

-----------------------------------------------------------------------------
(* How a client bears what happens on chain. *)

\* The round stays: alrights and events are added, a channel may close.
Forward(i) ==
    /\ chan'.round = chan.round /\ chan'.since = chan.since
    /\ chan.ack \subseteq chan'.ack /\ log \subseteq log'
    /\ chan'.open => chan.open
    /\ hist'.first = hist.first /\ hist.slip \subseteq hist'.slip
    /\ Failed => Failed'
    /\ i \in Sent' => i \in Sent
    /\ Complained /\ chan'.open => Complained'

\* Nor does i complain.
Steady(i) == Forward(i) /\ (chan'.from = i => chan.from = i)

\* Within a round a broadcast is never taken back.
LEMMA SentGrows ==
    ASSUME chan'.round = chan.round, log \subseteq log'
    PROVE  Sent \subseteq Sent'
  BY DEF Sent, Cast

\* A client that moves to a good state is good while the round stays.
LEMMA Moved ==
    ASSUME TypeOK, NEW i \in Nodes, NEW r \in Clients, node'[i] = r, ClientInv(i, r), Steady(i)
    PROVE  ClientInv(i, node[i])'
  <1>1. SUFFICES ASSUME r.pc # "idle"
                 PROVE  (Positions(node[i]) /\ OfRound(i, node[i]) /\ Counted(i, node[i])
                          /\ Verified(i, node[i]))'
    BY DEF ClientInv
  <1>2. Positions(r) /\ OfRound(i, r) /\ Counted(i, r) /\ Verified(i, r)
    BY <1>1 DEF ClientInv
  <1>3. Positions(node[i])'
    BY <1>2 DEF Positions
  <1>4. OfRound(i, node[i])'
    BY <1>2, SentGrows DEF OfRound, Forward, Steady
  <1>5. Counted(i, node[i])'
    BY <1>2 DEF Counted, Forward, Steady, InLater, InEntering, Full, Received
  <1>6. Verified(i, node[i])'
    BY <1>2 DEF Verified, Forward, Steady, InChecked, Sound, Excused, Received
  <1> QED
    BY <1>3, <1>4, <1>5, <1>6

\* The round starts anew because j is replaced.
Advance(j) ==
    /\ chan' = [chan EXCEPT !.round = @ + 1, !.age = 0, !.since[j] = chan.round + 1,
                            !.ack = {}, !.ackAge = 0, !.from = NoNode, !.to = NoNode,
                            !.pre = FALSE, !.toAge = 0, !.ok = FALSE]
    /\ keys' = [keys EXCEPT ![j] = {}]
    /\ hist' = [hist EXCEPT !.slip = {}]
    /\ log' = log

\* A round that starts has no broadcasts.
LEMMA NobodySent ==
    ASSUME ChainInv, NEW j, Advance(j), TypeOK
    PROVE  Cast' = {} /\ Sent' = {}
  <1>1. \A e \in log : e.round # chan.round + 1
    BY DEF ChainInv, TypeOK, Channels, Rounds, Events1
  <1>2. log' = log /\ chan'.round = chan.round + 1
    BY DEF Advance, TypeOK, Channels
  <1> QED
    BY <1>1, <1>2 DEF Cast, Sent

\* A client of a round that starts anew with another node stays good: the new node is unknown to it.
LEMMA Overtaken ==
    ASSUME TypeOK, ChainInv, NEW j \in Nodes, Advance(j), chan.open,
           NEW i \in Nodes \ {j}, NEW r \in Clients, node'[i] = r, ClientInv(i, r)
    PROVE  ClientInv(i, node[i])'
  <1>1. SUFFICES ASSUME r.pc # "idle"
                 PROVE  (Positions(node[i]) /\ OfRound(i, node[i]) /\ Counted(i, node[i])
                          /\ Verified(i, node[i]))'
    BY DEF ClientInv
  <1>2. Positions(r) /\ OfRound(i, r) /\ Counted(i, r) /\ Verified(i, r)
    BY <1>1 DEF ClientInv
  <1>r. /\ chan.round \in Nat /\ r.rid \in Nat /\ r.rid < chan'.round
        /\ chan'.round = chan.round + 1 /\ chan'.from = NoNode /\ chan'.ack = {}
        /\ chan'.since = [chan.since EXCEPT ![j] = chan.round + 1]
        /\ chan.since \in [Nodes -> Nat]
    BY <1>2 DEF TypeOK, Channels, Clients, Advance, Rounds, OfRound
  <1>3. Positions(node[i])'
    BY <1>2 DEF Positions
  <1>4. OfRound(i, node[i])'
    <2>1. \E k \in Nodes \ {i} : chan'.since[k] > r.rid
      BY <1>2, <1>r DEF OfRound, ChainInv
    <2>2. i \notin Sent'
      BY NobodySent
    <2> QED
      BY <1>2, <1>r, <2>1, <2>2 DEF OfRound, Advance
  <1>5. Counted(i, node[i])'
    <2>1. chan.ack # Nodes
      BY DEF ChainInv, Completed
    <2>2. r.acks # Nodes \/ ~ Full(r)
      <3>1. CASE r.rid < chan.round
        BY <1>2, <3>1 DEF Counted
      <3>2. CASE r.rid = chan.round /\ InLater(r)
        <4>1. r.acks \subseteq chan.ack \cup {i} /\ chan.ack \subseteq Nodes
          BY <1>2, <3>2 DEF Counted, TypeOK, Channels
        <4>2. i \in r.acks /\ Full(r) => i \in chan.ack
          BY <1>2, <3>2 DEF Counted, Failed
        <4> QED
          BY <2>1, <4>1, <4>2
      <3>3. CASE ~ InLater(r)
        BY <1>2, <3>3 DEF Counted
      <3> QED
        BY <1>r, <1>2, <3>1, <3>2, <3>3 DEF OfRound
    <2>3. chan'.from # i
      BY <1>r DEF NoNode, Nodes
    <2> QED
      BY <1>2, <1>r, <2>2, <2>3 DEF Counted, InLater, Full, Received
  <1>6. Verified(i, node[i])'
    BY <1>r DEF Verified
  <1> QED
    BY <1>3, <1>4, <1>5, <1>6

-----------------------------------------------------------------------------
(* Steps that leave the chain as it is, and complaints. *)

\* A step off the chain disturbs no client and nothing on chain.
LEMMA Stays ==
    ASSUME UNCHANGED <<chan, log, hist>>
    PROVE  /\ \A i \in Nodes : Steady(i)
           /\ ChainInv => ChainInv'
           /\ AlrightVerified => AlrightVerified'
  <1>1. Sent' = Sent /\ Cast' = Cast
    BY DEF Sent, Cast
  <1> QED
    BY <1>1 DEF Steady, Forward, Failed, Complained, ChainInv, Completed, AllSent, AlrightVerified

\* A step of one client, off the chain, keeps the invariant when what it becomes is good.
LEMMA OneMoves ==
    ASSUME IInv, TypeOK', UNCHANGED <<chan, log, hist>>, (OneRound /\ KeyOfSuccess)',
           NEW i \in Nodes, NEW r \in Clients, Become(i, r), ClientInv(i, r)
    PROVE  IInv'
  <1>1. \A k \in Nodes : Steady(k)
    BY Stays
  <1>2. ClientInv(i, node[i])'
    <2>1. node'[i] = r
      BY DEF Become, IInv, TypeOK
    <2> QED
      BY <1>1, <2>1, Moved DEF IInv
  <1>3. ASSUME NEW k \in Nodes, k # i PROVE ClientInv(k, node[k])'
    <2>1. node'[k] = node[k] /\ node[k] \in Clients
      BY <1>3 DEF Become, IInv, TypeOK
    <2> QED
      BY <1>1, <2>1, Moved DEF IInv
  <1> QED
    BY <1>2, <1>3, Stays DEF IInv

\* The same for a step that saves no key share.
LEMMA QuietKeeps ==
    ASSUME IInv, TypeOK', UNCHANGED <<chan, log, keys, hist>>,
           NEW i \in Nodes, NEW r \in Clients, Become(i, r), ClientInv(i, r)
    PROVE  IInv'
  <1>1. (OneRound /\ KeyOfSuccess)'
    BY DEF IInv, OneRound, KeyOfSuccess
  <1> QED
    BY <1>1, OneMoves

\* A client that ends keeps the invariant.
LEMMA AbortKeeps ==
    ASSUME IInv, TypeOK', UNCHANGED <<chan, log, keys, hist>>, NEW i \in Nodes, Abort(i)
    PROVE  IInv'
  <1>1. ClientInv(i, Resting)
    BY DEF ClientInv, Resting
  <1> QED
    BY <1>1, RestingTyped, QuietKeeps DEF Abort

\* The contract slashes j, whoever asked for it.
LEMMA SlashKeeps ==
    ASSUME IInv, TypeOK', NEW i \in Nodes, NEW j \in Nodes, chan.open, Slash(j), log' = log,
           NEW r \in Clients, ClientInv(i, r),
           node' = [k \in Nodes |-> IF Replaced(k) THEN Resting
                                    ELSE IF k = i THEN r ELSE node[k]]
    PROVE  IInv'
  <1>1. CASE Advance(j)
    <2>1. /\ Replaced(j)
          /\ chan'.since = [chan.since EXCEPT ![j] = chan.round + 1] /\ chan'.round = chan.round + 1
          /\ chan.round \in Nat /\ chan.since \in [Nodes -> Nat]
      <3>1. chan \in Channels /\ chan.round \in Nat /\ chan.since \in [Nodes -> Nat]
        BY DEF IInv, TypeOK, Channels, Rounds
      <3>2. /\ chan'.since = [chan.since EXCEPT ![j] = chan.round + 1]
            /\ chan'.round = chan.round + 1
        BY <1>1, <3>1 DEF Advance, Channels
      <3>3. chan.since[j] <= chan.round
        BY DEF IInv, ChainInv
      <3>4. chan'.since[j] = chan.round + 1
        BY <3>1, <3>2
      <3> QED
        BY <3>1, <3>2, <3>3, <3>4 DEF Replaced
    <2>2. \A k \in Nodes \ {j} : ~ Replaced(k)
      BY <2>1 DEF Replaced
    <2>3. ClientInv(j, node[j])'
      BY <2>1 DEF ClientInv, Resting
    <2>4. ASSUME NEW k \in Nodes \ {j} PROVE ClientInv(k, node[k])'
      <3>1. CASE k = i
        BY <1>1, <2>2, <3>1, Overtaken DEF IInv
      <3>2. CASE k # i
        BY <1>1, <2>2, <3>2, Overtaken DEF IInv, TypeOK
      <3> QED
        BY <3>1, <3>2
    <2>5. ChainInv'
      <3>1. chan'.ack = {} /\ chan'.ok = FALSE /\ chan'.ever = chan.ever /\ hist'.first = hist.first
        BY <1>1 DEF Advance, IInv, TypeOK, Channels, Histories
      <3>2. Nodes # {}
        OBVIOUS
      <3>3. \A e \in log : e.round \in Nat
        BY DEF IInv, TypeOK, Events1, Rounds
      <3>4. \A k \in Nodes : chan'.since[k] <= chan'.round
        BY <2>1 DEF IInv, ChainInv
      <3>5. ~ Completed' /\ ~ Complained' /\ chan'.from = NoNode
        BY <1>1, <3>1, <3>2 DEF Completed, Complained, Advance, IInv, TypeOK, Channels
      <3> QED
        BY <2>1, <3>1, <3>3, <3>4, <3>5 DEF IInv, ChainInv
    <2>6. AlrightVerified'
      BY <1>1 DEF AlrightVerified, Advance, IInv, TypeOK, Channels
    <2>7. (OneRound /\ KeyOfSuccess)'
      <3>1. \A k \in Nodes : keys'[k] \subseteq keys[k]
        BY <1>1 DEF Advance, IInv, TypeOK
      <3>2. hist'.won = hist.won /\ hist'.first = hist.first
        BY <1>1 DEF Advance, IInv, TypeOK, Histories
      <3> QED
        BY <3>1, <3>2 DEF IInv, OneRound, KeyOfSuccess
    <2> QED
      BY <2>3, <2>4, <2>5, <2>6, <2>7 DEF IInv
  <1>2. CASE /\ chan' = [chan EXCEPT !.open = FALSE, !.from = NoNode, !.to = NoNode, !.ok = FALSE]
             /\ UNCHANGED <<keys, down, hist>>
    <2>1. /\ chan'.open = FALSE /\ chan'.ok = FALSE /\ chan'.from = NoNode
          /\ chan'.round = chan.round /\ chan'.since = chan.since /\ chan'.ack = chan.ack
          /\ chan'.ever = chan.ever /\ chan'.to = NoNode
      BY <1>2 DEF IInv, TypeOK, Channels
    <2>2. \A k \in Nodes : Steady(k)
      <3>1. Sent' = Sent
        BY <2>1 DEF Sent, Cast
      <3>2. \A k \in Nodes : chan'.from # k
        BY <2>1 DEF NoNode, Nodes
      <3> QED
        BY <1>2, <2>1, <3>1, <3>2 DEF Steady, Forward, Failed
    <2>3. \A k \in Nodes : ~ Replaced(k)
      BY <2>1 DEF Replaced
    <2>4. ASSUME NEW k \in Nodes PROVE ClientInv(k, node[k])'
      <3>1. CASE k = i
        BY <2>2, <2>3, <3>1, Moved DEF IInv
      <3>2. CASE k # i
        BY <2>2, <2>3, <3>2, Moved DEF IInv, TypeOK
      <3> QED
        BY <3>1, <3>2
    <2>5. ChainInv'
      <3>1. ~ Completed
        BY DEF IInv, ChainInv
      <3>2. Sent' = Sent /\ ~ Completed'
        BY <2>1, <3>1 DEF Sent, Cast, Completed
      <3> QED
        BY <1>2, <2>1, <3>2 DEF IInv, ChainInv, AllSent, Complained
    <2>6. AlrightVerified'
      BY <1>2, <2>1 DEF IInv, AlrightVerified, Cast
    <2>7. (OneRound /\ KeyOfSuccess)'
      BY <1>2 DEF IInv, OneRound, KeyOfSuccess
    <2> QED
      BY <2>4, <2>5, <2>6, <2>7 DEF IInv
  <1> QED
    BY <1>1, <1>2 DEF Slash, Advance

\* A complaint keeps the invariant when its three continuations are good.
LEMMA ComplainKeeps ==
    ASSUME IInv, TypeOK', NEW i \in Nodes, NEW j \in Nodes,
           NEW accepted \in Clients, NEW refused \in Clients, NEW failed \in Clients,
           ClientInv(i, accepted), ClientInv(i, refused), ClientInv(i, failed),
           Complain(i, j, accepted, refused, failed)
    PROVE  IInv'
  <1>1. CASE /\ Slashable(i, j) /\ Slash(j)
             /\ node' = [k \in Nodes |-> IF Replaced(k) THEN Resting
                                         ELSE IF k = i THEN accepted ELSE node[k]]
    BY <1>1, SlashKeeps DEF Complain, Slashable
  <1>2. CASE Become(i, failed) /\ UNCHANGED <<chan, keys, down, hist>>
    BY <1>2, QuietKeeps DEF Complain
  <1>3. CASE Become(i, refused) /\ UNCHANGED <<chan, keys, down, hist, left>>
    BY <1>3, QuietKeeps DEF Complain
  <1> QED
    BY <1>1, <1>2, <1>3 DEF Complain

\* A share is saved at the end of the client.
LEMMA SaveKeeps ==
    ASSUME IInv, TypeOK', UNCHANGED <<chan, log, hist>>, NEW i \in Nodes,
           NEW data, keys' = Saved(i, data), Abort(i),
           {e.from : e \in data} = Nodes => \A e \in data : e.round = node[i].rid,
           {e.from : e \in data} = Nodes => node[i].rid \in hist.won \/ hist.first
    PROVE  IInv'
  <1>1. ClientInv(i, Resting)
    BY DEF ClientInv, Resting
  <1>2. (OneRound /\ KeyOfSuccess)'
    <2>1. CASE {e.from : e \in data} = Nodes
      <3>1. keys' = [keys EXCEPT ![i] = @ \cup {[rid |-> node[i].rid, data |-> data]}]
        BY <2>1 DEF Saved
      <3>2. ASSUME NEW n \in Nodes, NEW k \in keys'[n]
            PROVE  k \in keys[n] \/ k = [rid |-> node[i].rid, data |-> data]
        BY <3>1, <3>2 DEF IInv, TypeOK
      <3> DEFINE new == [rid |-> node[i].rid, data |-> data]
      <3>f. new.data = data /\ new.rid = node[i].rid
        OBVIOUS
      <3> HIDE DEF new
      <3>3. {e.from : e \in new.data} = Nodes /\ \A e \in new.data : e.round = new.rid
        BY <2>1, <3>f
      <3>4. new.rid \in hist.won \/ hist.first
        BY <2>1, <3>f
      <3>5. OneRound'
        BY <3>2, <3>3 DEF IInv, OneRound, new
      <3>6. KeyOfSuccess'
        BY <3>2, <3>4 DEF IInv, KeyOfSuccess, new
      <3> QED
        BY <3>5, <3>6
    <2>2. CASE {e.from : e \in data} # Nodes
      BY <2>2 DEF Saved, IInv, OneRound, KeyOfSuccess
    <2> QED
      BY <2>1, <2>2
  <1> QED
    BY <1>1, <1>2, RestingTyped, OneMoves DEF Abort

-----------------------------------------------------------------------------
(* How a client goes on. *)

\* The types of the parts of a client and of the channel.
LEMMA Fields ==
    ASSUME TypeOK, NEW i \in Nodes
    PROVE  /\ node[i] \in Clients /\ chan \in Channels /\ chan.round \in Rounds
           /\ node[i].rid \in Rounds /\ node[i].ref \in Rounds /\ node[i].next \in Pcs
           /\ chan.ack \subseteq Nodes
  BY DEF TypeOK, Clients, Channels

\* From a step after the alright to the next.
LEMMA LaterStep ==
    ASSUME NEW i \in Nodes, NEW q \in Clients, NEW r \in Clients, ClientInv(i, q),
           r.rid = q.rid, r.data = q.data, r.acks = q.acks,
           InLater(q), InLater(r), Positions(r), InEntering(q) => ~ Failed \/ r = q
    PROVE  ClientInv(i, r)
  <1>1. q.pc # "idle" /\ q.pc \notin Begun /\ r.pc # "alright" /\ ~ InChecked(r)
    BY DEF InLater, InChecked, Later, Checked, Begun
  <1>2. OfRound(i, q) /\ Counted(i, q)
    BY <1>1 DEF ClientInv
  <1>3. OfRound(i, r)
    BY <1>1, <1>2 DEF OfRound
  <1>4. Counted(i, r)
    BY <1>1, <1>2 DEF Counted, Full, Received
  <1>5. Verified(i, r)
    BY <1>1 DEF Verified
  <1> QED
    BY <1>3, <1>4, <1>5 DEF ClientInv

\* From the check of the data to the alright.
LEMMA CheckedStep ==
    ASSUME NEW i \in Nodes, NEW q \in Clients, NEW r \in Clients, ClientInv(i, q),
           r.rid = q.rid, r.data = q.data, r.acks = q.acks,
           q.pc \notin Begun, ~ InLater(q), q.pc # "alright", InChecked(r),
           q.rid = chan.round /\ chan.open => Sound(i, q) \/ Excused(i) \/ Complained
    PROVE  ClientInv(i, r)
  <1>1. q.pc # "idle" /\ r.pc # "alright" /\ ~ InLater(r) /\ r.pc \notin {"respond", "answer"}
        /\ r.pc \notin Begun
    BY DEF InLater, InChecked, Later, Checked, Begun
  <1>2. OfRound(i, q) /\ Counted(i, q)
    BY <1>1 DEF ClientInv
  <1>3. OfRound(i, r)
    BY <1>1, <1>2 DEF OfRound
  <1>4. Counted(i, r)
    BY <1>1, <1>2 DEF Counted, Full, Received
  <1>5. Verified(i, r)
    BY <1>1 DEF Verified, Sound, Received
  <1>6. Positions(r)
    BY <1>1 DEF Positions, InChecked, Checked
  <1> QED
    BY <1>3, <1>4, <1>5, <1>6 DEF ClientInv

\* Before the data is complete.
LEMMA EarlyStep ==
    ASSUME NEW i \in Nodes, NEW r \in Clients, OfRound(i, r), r.acks = {},
           r.pc \in {"client", "join", "broadcast", "receive", "check"}
    PROVE  ClientInv(i, r)
  <1>1. r.pc # "alright" /\ ~ InLater(r) /\ ~ InChecked(r)
    BY DEF InLater, InChecked, Later, Checked
  <1>2. Counted(i, r)
    BY <1>1 DEF Counted
  <1> QED
    BY <1>1, <1>2 DEF ClientInv, Positions, Verified

-----------------------------------------------------------------------------
(* The steps of a client that read the chain only. *)

\* Up to the broadcast.
LEMMA OpeningKeeps ==
    ASSUME IInv, TypeOK', NEW i \in Nodes, Begin(i) \/ Join(i) \/ SkipBroadcast(i)
    PROVE  IInv'
  <1>f. TypeOK /\ ClientInv(i, node[i]) /\ node[i] \in Clients /\ chan.round \in Rounds
    BY Fields DEF IInv
  <1>1. CASE Begin(i)
    <2> DEFINE r == [Resting EXCEPT !.pc = "client", !.rid = chan.round]
    <2>1. r \in Clients /\ r.pc = "client" /\ r.rid = chan.round /\ r.data = {} /\ r.acks = {}
      BY <1>f, RestingTyped, PcsNamed DEF Clients, Resting
    <2>2. OfRound(i, r)
      BY <1>f, <2>1 DEF OfRound, Begun, Rounds
    <2>3. ClientInv(i, r)
      BY <2>1, <2>2, EarlyStep
    <2> QED
      BY <1>1, <2>1, <2>3, QuietKeeps DEF Begin, ChainSame
  <1>2. CASE Join(i) \/ SkipBroadcast(i)
    <2>1. ASSUME NEW pc \in {"broadcast", "receive"}, Goto(i, pc), ChainSame,
                 node[i].pc \in {"join", "broadcast"},
                 pc = "receive" => i \in Sent \/ ~ chan.open
          PROVE  IInv'
      <3> DEFINE r == [node[i] EXCEPT !.pc = pc]
      <3>1. r \in Clients /\ r.pc = pc /\ r.rid = node[i].rid /\ r.data = node[i].data
            /\ r.acks = node[i].acks
        BY <1>f, <2>1, PcsNamed DEF Clients
      <3>2. OfRound(i, node[i]) /\ node[i].acks = {}
        BY <1>f, <2>1 DEF ClientInv, Counted, InLater, Later
      <3>3. OfRound(i, r)
        BY <2>1, <3>1, <3>2 DEF OfRound, Begun
      <3>4. ClientInv(i, r)
        BY <2>1, <3>1, <3>2, <3>3, EarlyStep
      <3> QED
        BY <2>1, <3>1, <3>4, QuietKeeps DEF Goto, ChainSame
    <2>2. CASE Abort(i) /\ ChainSame
      BY <2>2, AbortKeeps DEF ChainSame
    <2> QED
      BY <1>2, <2>1, <2>2 DEF Join, SkipBroadcast, At
  <1> QED
    BY <1>1, <1>2

\* From the check to the alright.
LEMMA CheckedKeeps ==
    ASSUME IInv, TypeOK', NEW i \in Nodes, CheckDone(i) \/ Gather(i) \/ Acknowledge(i)
    PROVE  IInv'
  <1>f. /\ TypeOK /\ ChainInv /\ ClientInv(i, node[i]) /\ node[i] \in Clients
        /\ chan.round \in Rounds /\ node[i].rid \in Rounds
    BY Fields DEF IInv
  <1>1. CASE CheckDone(i)
    <2> DEFINE r == [node[i] EXCEPT !.pc = "gather"]
    <2>1. r \in Clients /\ r.pc = "gather" /\ r.rid = node[i].rid /\ r.data = node[i].data
          /\ r.acks = node[i].acks /\ node[i].pc = "check"
      BY <1>f, <1>1, PcsNamed DEF Clients, CheckDone, At
    <2>2. Sound(i, node[i])
      BY <1>1 DEF CheckDone, Wrong, Sound
    <2>3. ClientInv(i, r)
      BY <1>f, <2>1, <2>2, CheckedStep DEF Begun, InLater, Later, InChecked, Checked
    <2> QED
      BY <1>1, <2>1, <2>3, QuietKeeps DEF CheckDone, Goto, ChainSame
  <1>2. CASE Gather(i)
    <2>1. ASSUME NEW r \in Clients, InChecked(r), r.rid = node[i].rid, r.data = node[i].data,
                 r.acks = node[i].acks, Become(i, r)
          PROVE  IInv'
      <3>1. node[i].pc = "gather"
        BY <1>2 DEF Gather, At
      <3>2. ClientInv(i, r)
        BY <1>f, <2>1, <3>1, CheckedStep
           DEF Begun, InLater, Later, InChecked, Checked, ClientInv, Verified
      <3> QED
        BY <1>2, <2>1, <3>2, QuietKeeps DEF Gather, ChainSame
    <2>2. CASE Goto(i, "ack")
      <3> DEFINE r == [node[i] EXCEPT !.pc = "ack"]
      <3>1. r \in Clients /\ r.pc = "ack" /\ r.rid = node[i].rid /\ r.data = node[i].data
            /\ r.acks = node[i].acks
        BY <1>f, PcsNamed DEF Clients
      <3> QED
        BY <2>1, <2>2, <3>1 DEF Goto, InChecked, Checked
    <2>3. CASE Become(i, Waiting(node[i], node[i].rid, "ack"))
      <3> DEFINE r == Waiting(node[i], node[i].rid, "ack")
      <3>1. r \in Clients
        BY <1>f, PcsNamed, WaitingTyped
      <3>2. r.pc = "wait" /\ r.next = "ack" /\ r.rid = node[i].rid
            /\ r.data = node[i].data /\ r.acks = node[i].acks
        BY <1>f DEF Clients, Waiting
      <3> QED
        BY <2>1, <2>3, <3>1, <3>2 DEF InChecked, Checked
    <2> QED
      BY <1>2, <2>2, <2>3 DEF Gather
  <1>3. CASE Acknowledge(i)
    <2>1. node[i].pc = "ack"
      BY <1>3 DEF Acknowledge, At
    <2>2. OfRound(i, node[i]) /\ Counted(i, node[i]) /\ Verified(i, node[i]) /\ node[i].acks = {}
      BY <1>f, <2>1 DEF ClientInv, Counted, InLater, Later
    <2>3. CASE Abort(i)
      BY <1>3, <2>3, AbortKeeps DEF Acknowledge, ChainSame
    <2>4. CASE ~ Complained /\ Become(i, [node[i] EXCEPT !.pc = "alright", !.acks = {i}])
      <3> DEFINE r == [node[i] EXCEPT !.pc = "alright", !.acks = {i}]
      <3>1. r \in Clients /\ r.pc = "alright" /\ r.rid = node[i].rid /\ r.data = node[i].data
            /\ r.acks = {i}
        BY <1>f, PcsNamed DEF Clients
      <3>2. OfRound(i, r)
        BY <2>1, <2>2, <3>1 DEF OfRound, Begun
      <3>3. chan.from # i
        BY <1>f, <2>4 DEF ChainInv, NoNode, Nodes
      <3>4. r.rid < chan.round => r.acks # Nodes
        BY <3>1, <3>2 DEF OfRound
      <3>5. Counted(i, r)
        BY <3>1, <3>3, <3>4 DEF Counted, InLater, Later
      <3>6. Verified(i, r)
        BY <2>1, <2>2, <2>4, <3>1 DEF Verified, InChecked, Checked, Sound, Received
      <3>7. ClientInv(i, r)
        BY <3>1, <3>2, <3>5, <3>6 DEF ClientInv, Positions
      <3> QED
        BY <1>3, <2>4, <3>1, <3>7, QuietKeeps DEF Acknowledge, ChainSame
    <2>5. CASE Become(i, [node[i] EXCEPT !.pc = "respond", !.next = "enter"])
      <3> DEFINE r == [node[i] EXCEPT !.pc = "respond", !.next = "enter"]
      <3>1. r \in Clients /\ r.pc = "respond" /\ r.next = "enter" /\ r.rid = node[i].rid
            /\ r.data = node[i].data /\ r.acks = {}
        BY <1>f, <2>2, PcsNamed DEF Clients
      <3>2. OfRound(i, r)
        BY <2>1, <2>2, <3>1 DEF OfRound, Begun
      <3>3. Counted(i, r)
        BY <3>1 DEF Counted
      <3>4. Verified(i, r) /\ Positions(r)
        BY <3>1 DEF Verified, InChecked, Checked, Positions, Resumed
      <3>5. ClientInv(i, r)
        BY <3>2, <3>3, <3>4 DEF ClientInv
      <3> QED
        BY <1>3, <2>5, <3>1, <3>5, QuietKeeps DEF Acknowledge, ChainSame
    <2> QED
      BY <1>3, <2>3, <2>4, <2>5 DEF Acknowledge
  <1> QED
    BY <1>1, <1>2, <1>3

\* After the alright.
LEMMA LaterKeeps ==
    ASSUME IInv, TypeOK', NEW i \in Nodes, NEW r \in Clients, Become(i, r), ChainSame,
           r.rid = node[i].rid, r.data = node[i].data, r.acks = node[i].acks,
           InLater(node[i]), InLater(r), Positions(r), InEntering(node[i]) => ~ Failed
    PROVE  IInv'
  <1>1. ClientInv(i, r)
    BY Fields, LaterStep DEF IInv
  <1> QED
    BY <1>1, QuietKeeps DEF ChainSame

\* A step to pc, and a wait before it.
LEMMA LaterGotoKeeps ==
    ASSUME IInv, TypeOK', NEW i \in Nodes, NEW pc \in Later \ {"respond", "answer"},
           Goto(i, pc), ChainSame, InLater(node[i]), ~ InEntering(node[i])
    PROVE  IInv'
  <1> DEFINE r == [node[i] EXCEPT !.pc = pc]
  <1>1. pc \in Pcs
    BY PcsNamed DEF Later
  <1>2. r \in Clients /\ r.pc = pc /\ r.rid = node[i].rid /\ r.data = node[i].data
        /\ r.acks = node[i].acks
    BY <1>1, Fields DEF IInv, Clients
  <1>3. InLater(r) /\ Positions(r)
    BY <1>2 DEF InLater, Positions, Later
  <1> QED
    BY <1>2, <1>3, LaterKeeps DEF Goto

\* A client after its alright that begins to wait keeps the invariant.
LEMMA LaterWaitKeeps ==
    ASSUME IInv, TypeOK', NEW i \in Nodes, NEW q \in Clients, NEW ref \in Rounds,
           NEW next \in Later \ {"respond", "answer"},
           Become(i, Waiting(q, ref, next)), ChainSame, InLater(node[i]),
           InEntering(node[i]) => ~ Failed,
           q.rid = node[i].rid, q.data = node[i].data, q.acks = node[i].acks
    PROVE  IInv'
  <1> DEFINE r == Waiting(q, ref, next)
  <1>1. next \in Pcs
    BY PcsNamed DEF Later
  <1>2. r \in Clients
    BY <1>1, WaitingTyped
  <1>3. r.pc = "wait" /\ r.next = next /\ r.rid = node[i].rid /\ r.data = node[i].data
        /\ r.acks = node[i].acks
    BY DEF Clients, Waiting
  <1>4. InLater(r) /\ Positions(r)
    BY <1>3 DEF InLater, Positions
  <1> QED
    BY <1>2, <1>3, <1>4, LaterKeeps

\* check_response is entered again.
LEMMA LaterRespondKeeps ==
    ASSUME IInv, TypeOK', NEW i \in Nodes, NEW next \in {"final", "accused"},
           Become(i, [node[i] EXCEPT !.pc = "respond", !.next = next]), ChainSame,
           InLater(node[i]), ~ InEntering(node[i])
    PROVE  IInv'
  <1> DEFINE r == [node[i] EXCEPT !.pc = "respond", !.next = next]
  <1>1. r \in Clients /\ r.pc = "respond" /\ r.next = next /\ r.rid = node[i].rid
        /\ r.data = node[i].data /\ r.acks = node[i].acks
    <2>1. node[i] \in Clients /\ next \in Pcs /\ "respond" \in Pcs
      BY PcsNamed, Fields DEF IInv
    <2> QED
      BY <2>1 DEF Clients
  <1>2. InLater(r) /\ Positions(r)
    BY <1>1 DEF InLater, Positions, Later, Resumed
  <1> QED
    BY <1>1, <1>2, LaterKeeps

\* wait_for_fail keeps the invariant, whether it ends with a failure, a new round or the timeout.
LEMMA WaitKeeps ==
    ASSUME IInv, TypeOK', NEW i \in Nodes, Wait(i)
    PROVE  IInv'
  <1>f. TypeOK /\ ClientInv(i, node[i]) /\ node[i] \in Clients /\ node[i].pc = "wait"
    BY Fields DEF IInv, Wait, At
  <1>1. node[i].next \in (Checked \cup Later) \ {"respond", "answer"}
    BY <1>f DEF ClientInv, Positions
  <1>2. CASE Abort(i)
    BY <1>2, AbortKeeps DEF Wait, ChainSame
  <1>3. CASE Goto(i, node[i].next) /\ node[i].next \in Later
    <2>1. InLater(node[i]) /\ ~ InEntering(node[i])
      BY <1>f, <1>3 DEF InLater, InEntering
    <2> QED
      BY <1>1, <1>3, <2>1, LaterGotoKeeps DEF Wait
  <1>4. CASE Goto(i, node[i].next) /\ node[i].next \in Checked
    <2> DEFINE r == [node[i] EXCEPT !.pc = node[i].next]
    <2>1. r \in Clients /\ r.pc = node[i].next /\ r.rid = node[i].rid /\ r.data = node[i].data
          /\ r.acks = node[i].acks
      BY <1>f DEF Clients
    <2>2. InChecked(r) /\ InChecked(node[i]) /\ ~ InLater(node[i])
      BY <1>f, <1>4, <2>1 DEF InChecked, InLater, Checked, Later
    <2>3. node[i].rid = chan.round /\ chan.open => Sound(i, node[i]) \/ Excused(i) \/ Complained
      BY <1>f, <2>2 DEF ClientInv, Verified
    <2> HIDE DEF r
    <2>4. ClientInv(i, r)
      BY <1>f, <2>1, <2>2, <2>3, CheckedStep DEF Begun
    <2> QED
      BY <1>4, <2>1, <2>4, QuietKeeps DEF r, Wait, Goto, ChainSame
  <1> QED
    BY <1>1, <1>2, <1>3, <1>4 DEF Wait

\* An alright that is counted was given in the round of the client.
LEMMA CollectKeeps ==
    ASSUME IInv, TypeOK', NEW i \in Nodes, Collect(i)
    PROVE  IInv'
  <1>f. /\ TypeOK /\ ChainInv /\ ClientInv(i, node[i]) /\ node[i] \in Clients
        /\ chan.ack \subseteq Nodes /\ node[i].pc = "collect" /\ ChainSame
        /\ chan.round \in Nat /\ node[i].rid \in Nat
    BY Fields DEF IInv, Collect, At, Rounds
  <1>1. CASE Goto(i, "blame")
    BY <1>f, <1>1, LaterGotoKeeps DEF InLater, InEntering, Later
  <1>2. CASE Abort(i)
    BY <1>f, <1>2, AbortKeeps DEF ChainSame
  <1>3. CASE Become(i, [node[i] EXCEPT !.acks = @ \cup {j \in chan.ack : Knows(i, j)}])
    <2> DEFINE more == {j \in chan.ack : Knows(i, j)}
               r == [node[i] EXCEPT !.acks = @ \cup more]
    <2>1. r \in Clients /\ r.pc = "collect" /\ r.rid = node[i].rid /\ r.data = node[i].data
          /\ r.acks = node[i].acks \cup more
      BY <1>f DEF Clients
    <2>2. OfRound(i, node[i]) /\ Counted(i, node[i])
      BY <1>f DEF ClientInv
    <2>3. OfRound(i, r)
      BY <1>f, <2>1, <2>2 DEF OfRound
    <2>4. node[i].rid < chan.round => more = {}
      BY <1>f, <2>2 DEF OfRound, ChainInv, AllSent
    <2>5. Counted(i, r)
      <3>1. InLater(r) /\ InLater(node[i]) /\ ~ InEntering(node[i]) /\ r.pc # "alright"
        BY <1>f, <2>1 DEF InLater, InEntering, Later
      <3>2. Full(r) <=> Full(node[i])
        BY <2>1 DEF Full, Received
      <3>3. more \subseteq chan.ack
        OBVIOUS
      <3> HIDE DEF r, more
      <3> QED
        BY <2>1, <2>2, <2>4, <3>1, <3>2, <3>3 DEF Counted
    <2>6. Verified(i, r) /\ Positions(r)
      BY <2>1 DEF Verified, Positions, InChecked, Checked
    <2>7. ClientInv(i, r)
      BY <2>3, <2>5, <2>6 DEF ClientInv
    <2> QED
      BY <1>f, <1>3, <2>1, <2>7, QuietKeeps DEF ChainSame
  <1> QED
    BY <1>1, <1>2, <1>3 DEF Collect

\* The statements after the alrights are gathered that neither complain nor end keep the invariant.
LEMMA BlamingKeeps ==
    ASSUME IInv, TypeOK', NEW i \in Nodes,
           \/ Enter(i) \/ Blame(i) \/ BlameDone(i) \/ Final(i) \/ CheckComplaint(i)
           \/ AwaitAccused(i) \/ AwaitFailure(i)
    PROVE  IInv'
  <1>f. /\ TypeOK /\ node[i] \in Clients /\ chan.round \in Rounds /\ node[i].rid \in Rounds
        /\ chan \in Channels /\ ChainSame
    BY Fields DEF IInv, Enter, Blame, BlameDone, Final, CheckComplaint, AwaitAccused, AwaitFailure
  <1>p. node[i].pc \in {"enter", "blame", "blaming", "final", "accuse", "accused", "last"}
    BY DEF Enter, Blame, BlameDone, Final, CheckComplaint, AwaitAccused, AwaitFailure, At
  <1>l. InLater(node[i]) /\ ~ InEntering(node[i])
    BY <1>p DEF InLater, InEntering, Later
  <1>1. ASSUME NEW pc \in {"collect", "blame", "accuse", "end"}, Goto(i, pc) PROVE IInv'
    BY <1>f, <1>l, <1>1, LaterGotoKeeps DEF Later
  <1>2. ASSUME NEW next \in {"final", "accused"},
               Become(i, [node[i] EXCEPT !.pc = "respond", !.next = next])
        PROVE  IInv'
    BY <1>f, <1>l, <1>2, LaterRespondKeeps
  <1>3. ASSUME NEW next \in {"accuse", "end"}, Become(i, Waiting(node[i], node[i].rid, next))
        PROVE  IInv'
    BY <1>f, <1>l, <1>3, LaterWaitKeeps DEF Later
  <1>4. CASE Become(i, [node[i] EXCEPT !.pc = "blaming",
                                     !.todo = Nodes \ (node[i].acks \cup {i})])
    <2> DEFINE r == [node[i] EXCEPT !.pc = "blaming", !.todo = Nodes \ (node[i].acks \cup {i})]
    <2>1. r \in Clients /\ r.pc = "blaming" /\ r.rid = node[i].rid /\ r.data = node[i].data
          /\ r.acks = node[i].acks
      BY <1>f, PcsNamed DEF Clients
    <2>2. InLater(r) /\ Positions(r)
      BY <2>1 DEF InLater, Positions, Later
    <2> HIDE DEF r
    <2>3. Become(i, r)
      BY <1>4 DEF r
    <2> QED
      BY <1>f, <1>l, <2>1, <2>2, <2>3, LaterKeeps
  <1>5. CASE /\ Complained
             /\ Become(i, Waiting([node[i] EXCEPT !.todo = {chan.to}], node[i].rid, "noresponse"))
    <2> DEFINE q == [node[i] EXCEPT !.todo = {chan.to}]
    <2>1. q \in Clients /\ q.rid = node[i].rid /\ q.data = node[i].data /\ q.acks = node[i].acks
      BY <1>f, <1>5 DEF Clients, Channels, Complained
    <2> HIDE DEF q
    <2>2. Become(i, Waiting(q, node[i].rid, "noresponse"))
      BY <1>5 DEF q
    <2> QED
      BY <1>f, <1>l, <2>1, <2>2, LaterWaitKeeps DEF Later
  <1>6. CASE Abort(i)
    BY <1>f, <1>6, AbortKeeps DEF ChainSame
  <1>7. CASE Enter(i)
    BY <1>1, <1>7 DEF Enter
  <1>8. CASE Blame(i) \/ BlameDone(i)
    BY <1>2, <1>4, <1>8 DEF Blame, BlameDone
  <1>9. CASE Final(i) \/ CheckComplaint(i)
    BY <1>1, <1>2, <1>3, <1>9 DEF Final, CheckComplaint
  <1>10. CASE AwaitAccused(i) \/ AwaitFailure(i)
    BY <1>3, <1>5, <1>6, <1>10 DEF AwaitAccused, AwaitFailure
  <1> QED
    BY <1>7, <1>8, <1>9, <1>10

-----------------------------------------------------------------------------
(* The steps that send to the contract. *)

\* The round goes on and only i moves.
LEMMA SendKeeps ==
    ASSUME IInv, TypeOK', UNCHANGED keys, hist'.first = hist.first, hist.won \subseteq hist'.won,
           NEW i \in Nodes, NEW r, Become(i, r),
           \A k \in Nodes \ {i} : Steady(k),
           ClientInv(i, node[i])', ChainInv', AlrightVerified'
    PROVE  IInv'
  <1>1. ASSUME NEW k \in Nodes, k # i PROVE ClientInv(k, node[k])'
    <2>1. node'[k] = node[k] /\ node[k] \in Clients
      BY <1>1 DEF Become, IInv, TypeOK
    <2> QED
      BY <1>1, <2>1, Moved DEF IInv
  <1>2. (OneRound /\ KeyOfSuccess)'
    BY DEF IInv, OneRound, KeyOfSuccess
  <1> QED
    BY <1>1, <1>2 DEF IInv

\* An event of a node that has sent none in this round.
LEMMA BroadcastKeeps ==
    ASSUME IInv, TypeOK', NEW i \in Nodes, Broadcast(i)
    PROVE  IInv'
  <1>f. /\ TypeOK /\ ChainInv /\ ClientInv(i, node[i]) /\ node[i] \in Clients
        /\ chan \in Channels /\ chan.round \in Nat /\ node[i].pc = "broadcast"
    <2>1. chan.round \in Rounds /\ node[i].pc = "broadcast" /\ TypeOK
      BY Fields DEF IInv, Broadcast, At
    <2> QED
      BY <2>1, Fields DEF IInv, Rounds
  <1>1. CASE node[i].rid # chan.round
    BY <1>1, AbortKeeps DEF Broadcast
  <1>2. CASE node[i].rid = chan.round
    <2>0. i \notin Sent
      BY <1>2, AbortKeeps DEF Broadcast
    <2>1. PICK bad \in SUBSET (Nodes \ {i}) :
            /\ log' = log \cup {[round |-> chan.round, from |-> i, bad |-> bad]}
            /\ chan' = [chan EXCEPT !.ackAge = 0]
            /\ Become(i, [node[i] EXCEPT !.pc = "receive",
                         !.data = {[round |-> chan.round, from |-> i, bad |-> bad]}])
      BY <1>2 DEF Broadcast
    <2> DEFINE e == [round |-> chan.round, from |-> i, bad |-> bad]
               r == [node[i] EXCEPT !.pc = "receive", !.data = {e}]
    <2>2. e.round = chan.round /\ e.from = i /\ i \notin e.bad
      OBVIOUS
    <2>3. /\ r.pc = "receive" /\ r.rid = node[i].rid /\ r.data = {e} /\ r.acks = node[i].acks
      BY <1>f DEF Clients
    <2>n. node'[i] = r
      BY <1>f, <2>1 DEF Become, TypeOK
    <2> HIDE DEF e, r
    <2>4. log' = log \cup {e} /\ Become(i, r)
      BY <2>1 DEF e, r
    <2>5. /\ chan'.round = chan.round /\ chan'.since = chan.since /\ chan'.ack = chan.ack
          /\ chan'.open = chan.open /\ chan'.ok = chan.ok /\ chan'.ever = chan.ever
          /\ chan'.from = chan.from /\ chan'.to = chan.to
          /\ hist' = hist /\ UNCHANGED keys
      BY <1>f, <2>1 DEF Channels, Broadcast
    <2>6. Cast' = Cast \cup {e} /\ Sent' = Sent \cup {i}
      <3>1. Cast' = Cast \cup {e}
        BY <2>2, <2>4, <2>5 DEF Cast
      <3> QED
        BY <2>2, <3>1 DEF Sent
    <2>7. chan.ack = {}
      BY <1>f, <2>0 DEF ChainInv, AllSent
    <2>8. ASSUME NEW k \in Nodes \ {i} PROVE Steady(k)
      BY <2>4, <2>5, <2>6 DEF Steady, Forward, Failed, Complained
    <2>9. ClientInv(i, node[i])'
      <3>1. OfRound(i, node[i]) /\ node[i].acks = {}
        BY <1>f DEF ClientInv, Counted, InLater, Later
      <3>2. OfRound(i, node[i])'
        BY <1>f, <1>2, <2>2, <2>3, <2>n, <2>4, <2>5, <2>6, <3>1 DEF OfRound
      <3>3. Counted(i, node[i])'
        BY <2>3, <2>n, <3>1 DEF Counted, InLater, Later
      <3>4. Verified(i, node[i])' /\ Positions(node[i])'
        BY <2>3, <2>n DEF Verified, Positions, InChecked, Checked
      <3> QED
        BY <3>2, <3>3, <3>4 DEF ClientInv
    <2>10. ChainInv'
      <3>1. \A f \in log : f.from = i => f.round # chan.round
        BY <2>0 DEF Sent, Cast
      <3>2. \A f, g \in log' : f.from = g.from /\ f.round = g.round => f = g
        BY <1>f, <2>2, <2>4, <3>1 DEF ChainInv
      <3>3. \A f \in log' : f.round <= chan'.round /\ f.from \notin f.bad
        BY <1>f, <2>2, <2>4, <2>5 DEF ChainInv
      <3> QED
        BY <1>f, <2>5, <2>7, <3>2, <3>3 DEF ChainInv, Completed, Complained
    <2>11. AlrightVerified'
      BY <2>5, <2>7 DEF AlrightVerified
    <2> QED
      BY <2>4, <2>5, <2>8, <2>9, <2>10, <2>11, SendKeeps
  <1> QED
    BY <1>1, <1>2

\* What is received was sent in the round of the client, or later.
LEMMA ReceiveKeeps ==
    ASSUME IInv, TypeOK', NEW i \in Nodes, Receive(i)
    PROVE  IInv'
  <1>f. /\ TypeOK /\ ChainInv /\ ClientInv(i, node[i]) /\ node[i] \in Clients
        /\ node[i].pc = "receive"
    BY Fields DEF IInv, Receive, At
  <1>1. PICK seen \in SUBSET Visible(i) :
          \/ Abort(i)
          \/ Become(i, [node[i] EXCEPT !.data = @ \cup News(i, seen)])
          \/ Become(i, [[node[i] EXCEPT !.data = @ \cup News(i, seen)] EXCEPT !.pc = "check"])
    BY DEF Receive
  <1>2. UNCHANGED <<chan, log, keys, hist>>
    BY DEF Receive
  <1>3. OfRound(i, node[i]) /\ node[i].acks = {}
    BY <1>f DEF ClientInv, Counted, InLater, Later
  <1>4. \A e \in News(i, seen) : e \in log /\ node[i].rid <= e.round
    BY <1>3 DEF News, Visible, Cast, OfRound
  <1>5. ASSUME NEW r \in Clients, r.pc \in {"receive", "check"}, r.rid = node[i].rid,
               r.acks = node[i].acks, r.data = node[i].data \cup News(i, seen), Become(i, r)
        PROVE  IInv'
    <2>1. OfRound(i, r)
      BY <1>f, <1>3, <1>4, <1>5 DEF OfRound, Begun
    <2>2. ClientInv(i, r)
      BY <1>3, <1>5, <2>1, EarlyStep
    <2> QED
      BY <1>2, <1>5, <2>2, QuietKeeps
  <1>6. News(i, seen) \subseteq Events1
    BY <1>4 DEF IInv, TypeOK
  <1>7. CASE Become(i, [node[i] EXCEPT !.data = @ \cup News(i, seen)])
    <2> DEFINE r == [node[i] EXCEPT !.data = @ \cup News(i, seen)]
    <2>1. r \in Clients /\ r.pc = "receive" /\ r.rid = node[i].rid /\ r.acks = node[i].acks
          /\ r.data = node[i].data \cup News(i, seen)
      BY <1>f, <1>6 DEF Clients
    <2> QED
      BY <1>5, <1>7, <2>1
  <1>8. CASE Become(i, [[node[i] EXCEPT !.data = @ \cup News(i, seen)] EXCEPT !.pc = "check"])
    <2> DEFINE r == [[node[i] EXCEPT !.data = @ \cup News(i, seen)] EXCEPT !.pc = "check"]
    <2>1. r \in Clients /\ r.pc = "check" /\ r.rid = node[i].rid /\ r.acks = node[i].acks
          /\ r.data = node[i].data \cup News(i, seen)
      BY <1>f, <1>6, PcsNamed DEF Clients
    <2> QED
      BY <1>5, <1>8, <2>1
  <1> QED
    BY <1>1, <1>2, <1>7, <1>8, AbortKeeps

\* A node that says it is all right has checked the event of every other node.
LEMMA SoundAlright ==
    ASSUME IInv, NEW i \in Nodes, OfRound(i, node[i]), node[i].rid = chan.round,
           Missing(i) = {}, Sound(i, node[i])
    PROVE  \A e \in Cast : i \notin e.bad
  <1>1. SUFFICES ASSUME NEW e \in Cast, e.from # i PROVE i \notin e.bad
    BY DEF IInv, ChainInv, Cast
  <1>2. e.from \in Nodes
    BY CastTyped DEF IInv, Events1
  <1>3. PICK f \in node[i].data : f.from = e.from
    BY <1>1, <1>2 DEF Missing, Received
  <1>4. f \in log /\ e \in log /\ f.round = e.round
    <2>1. f \in log /\ e \in log /\ f.round <= chan.round /\ chan.round <= f.round
      BY <1>3 DEF OfRound, IInv, ChainInv, Cast
    <2>2. f.round \in Nat /\ chan.round \in Nat
      BY <2>1, Fields DEF IInv, TypeOK, Events1, Rounds
    <2> QED
      BY <2>1, <2>2 DEF Cast
  <1>5. f = e
    BY <1>3, <1>4 DEF IInv, ChainInv
  <1> QED
    BY <1>3, <1>5 DEF Sound, Missing, Received

\* The transaction of an alright keeps the invariant.
LEMMA AlrightKeeps ==
    ASSUME IInv, TypeOK', NEW i \in Nodes, Alright(i)
    PROVE  IInv'
  <1> DEFINE r == [node[i] EXCEPT !.pc = "respond", !.next = "enter"]
             possible == chan.open /\ AllSent /\ i \notin chan.ack /\ chan.from # i
  <1>f. /\ TypeOK /\ ChainInv /\ ClientInv(i, node[i]) /\ node[i] \in Clients
        /\ chan \in Channels /\ hist \in Histories /\ chan.ack \subseteq Nodes
        /\ node[i].pc = "alright" /\ chan.round \in Nat /\ node[i].rid \in Nat
    BY Fields DEF IInv, Alright, At, Rounds, TypeOK
  <1>1. r \in Clients /\ r.pc = "respond" /\ r.next = "enter" /\ r.rid = node[i].rid
        /\ r.data = node[i].data /\ r.acks = node[i].acks
    BY <1>f, PcsNamed DEF Clients
  <1>2. OfRound(i, node[i]) /\ Counted(i, node[i]) /\ Verified(i, node[i]) /\ node[i].acks = {i}
    BY <1>f DEF ClientInv, Counted
  <1>3. InLater(r) /\ InEntering(r) /\ Positions(r) /\ ~ InChecked(r) /\ r.pc \notin Begun
    BY <1>1 DEF InLater, InEntering, Positions, InChecked, Later, Checked, Resumed, Begun
  <1>4. OfRound(i, r)
    BY <1>f, <1>1, <1>2, <1>3 DEF OfRound, Begun
  <1>d. \/ possible /\ SendAlright(i) /\ Become(i, r) /\ UNCHANGED left
        \/ possible /\ Spend("tx") /\ Abort(i) /\ UNCHANGED <<chan, hist>>
        \/ ~ possible /\ Become(i, r) /\ UNCHANGED <<chan, hist, left>>
    BY DEF Alright
  <1>u. UNCHANGED <<log, keys, down>>
    BY DEF Alright
  <1> HIDE DEF r
  <1>5. CASE ~ possible /\ Become(i, r) /\ UNCHANGED <<chan, hist, left>>
    <2>1. ASSUME r.rid = chan.round, Full(r)
          PROVE  i \in chan.ack \/ (~ chan.open /\ hist.first) \/ Failed
      <3>1. AllSent
        <4>1. \A e \in r.data : e \in Cast
          <5>1. \A e \in r.data : e \in log /\ e.round <= chan.round /\ chan.round <= e.round
            BY <1>f, <1>4, <2>1 DEF OfRound, ChainInv
          <5>2. \A e \in log : e.round \in Nat
            BY <1>f DEF TypeOK, Events1, Rounds
          <5> QED
            BY <1>f, <5>1, <5>2 DEF Cast
        <4>2. Nodes \subseteq Sent
          BY <2>1, <4>1 DEF Full, Received, Sent
        <4> QED
          BY <1>f, <4>2, CastTyped DEF AllSent
      <3>2. chan.from # i
        BY <1>f, <1>2 DEF Counted
      <3>3. chan.open => i \in chan.ack
        BY <1>5, <3>1, <3>2
      <3>4. ~ chan.open /\ chan.ok => i \in chan.ack
        BY <1>f DEF ChainInv, Completed
      <3>5. ~ chan.open /\ ~ chan.ok => Failed \/ hist.first
        BY <1>f DEF ChainInv, Failed
      <3> QED
        BY <3>3, <3>4, <3>5
    <2>2. Counted(i, r)
      BY <1>1, <1>2, <1>3, <2>1 DEF Counted, Full, Received
    <2>3. ClientInv(i, r)
      BY <1>1, <1>3, <1>4, <2>2 DEF ClientInv, Verified, InChecked, Checked
    <2> QED
      BY <1>u, <1>1, <1>5, <2>3, QuietKeeps
  <1>6. CASE possible /\ Abort(i) /\ UNCHANGED <<chan, hist>>
    BY <1>u, <1>6, AbortKeeps
  <1>7. CASE possible /\ SendAlright(i) /\ Become(i, r)
    <2> DEFINE ack == chan.ack \cup {i}
    <2>0. i \in Sent /\ node[i].rid = chan.round
      BY <1>2, <1>7 DEF AllSent, OfRound
    <2>1. /\ chan'.round = chan.round /\ chan'.since = chan.since /\ chan'.ack = ack
          /\ chan'.open = (ack # Nodes) /\ chan'.ok = (ack = Nodes)
          /\ chan'.ever = (chan.ever \/ ack = Nodes)
          /\ chan'.from = chan.from /\ chan'.to = chan.to
      BY <1>f, <1>7 DEF SendAlright, Channels
    <2>2. /\ hist'.first = hist.first /\ hist.slip \subseteq hist'.slip
          /\ hist'.won = IF ack = Nodes THEN hist.won \cup {chan.round} ELSE hist.won
          /\ Missing(i) # {} => i \in hist'.slip
      BY <1>f, <1>7 DEF SendAlright, Histories
    <2>3. Cast' = Cast /\ Sent' = Sent /\ node'[i] = r
      BY <1>u, <1>f, <1>7, <2>1 DEF Cast, Sent, Become, TypeOK
    <2>4. ASSUME NEW k \in Nodes \ {i} PROVE Steady(k)
      BY <1>u, <1>7, <2>1, <2>2, <2>3 DEF Steady, Forward, Failed, Complained
    <2>5. ClientInv(i, node[i])'
      <3>1. OfRound(i, node[i])'
        BY <1>1, <1>2, <1>u, <2>0, <2>1, <2>3 DEF OfRound
      <3>2. Counted(i, node[i])'
        BY <1>f, <1>1, <1>2, <2>0, <2>1, <2>3 DEF Counted, InLater, Later
      <3>3. Verified(i, node[i])' /\ Positions(node[i])'
        BY <1>1, <2>3 DEF Verified, Positions, InChecked, Checked, Resumed
      <3> QED
        BY <3>1, <3>2, <3>3 DEF ClientInv
    <2>6. ChainInv'
      <3>1. Complained => chan.from \in Nodes \ ack
        BY <1>f, <1>7 DEF ChainInv
      <3>2. Complained' => chan'.open /\ chan'.from \in Nodes \ chan'.ack
        BY <2>1, <3>1 DEF Complained
      <3>3. Completed' <=> ack = Nodes
        BY <2>1 DEF Completed
      <3>4. Completed' => ~ chan'.open /\ chan'.round \in hist'.won
        BY <2>1, <2>2, <3>3
      <3>5. AllSent'
        BY <1>7, <2>3 DEF AllSent
      <3>6. Complained' \/ chan'.from = NoNode
        BY <1>f, <2>1 DEF ChainInv, Complained
      <3>7. ~ chan'.ever => hist'.first
        BY <1>f, <2>1, <2>2 DEF ChainInv
      <3> QED
        BY <1>f, <1>u, <2>1, <3>2, <3>3, <3>4, <3>5, <3>6, <3>7 DEF ChainInv
    <2>7. AlrightVerified'
      <3>1. i \in hist'.slip \/ \A e \in Cast : i \notin e.bad
        <4>1. CASE Missing(i) = {} /\ i \notin hist.slip
          <5>1. Sound(i, node[i])
            BY <1>f, <1>2, <1>7, <2>0, <4>1 DEF Verified, Excused
          <5> QED
            BY <1>2, <2>0, <4>1, <5>1, SoundAlright
        <4> QED
          BY <2>2, <4>1
      <3> QED
        BY <2>1, <2>2, <2>3, <3>1 DEF IInv, AlrightVerified
    <2>8. hist.won \subseteq hist'.won
      BY <2>2
    <2> QED
      BY <1>u, <1>7, <2>2, <2>4, <2>5, <2>6, <2>7, <2>8, SendKeeps
  <1> QED
    BY <1>d, <1>5, <1>6, <1>7

\* Who is accused in an open round has not failed.
LEMMA RespondKeeps ==
    ASSUME IInv, TypeOK', NEW i \in Nodes, Respond(i)
    PROVE  IInv'
  <1>f. /\ TypeOK /\ ChainInv /\ ClientInv(i, node[i]) /\ node[i] \in Clients
        /\ chan \in Channels /\ chan.round \in Rounds
        /\ node[i].pc = "respond" /\ node[i].next \in Resumed
        /\ UNCHANGED <<log, keys, down, hist>>
    BY Fields DEF IInv, Respond, At, ClientInv, Positions
  <1>l. InLater(node[i]) /\ node[i].next \in Later \ {"respond", "answer"}
    BY <1>f DEF InLater, Later, Resumed
  <1>a. Accused(i) => ~ Failed
    <2>1. i # NoNode
      BY DEF NoNode, Nodes
    <2> QED
      BY <1>f, <2>1 DEF Accused, ChainInv, Complained, Failed
  <1>1. CASE Abort(i) /\ UNCHANGED chan
    BY <1>f, <1>1, AbortKeeps
  <1>2. CASE /\ ~ (Failed /\ node[i].next = "enter")
             /\ Goto(i, node[i].next) /\ UNCHANGED <<chan, left>>
    <2> DEFINE r == [node[i] EXCEPT !.pc = node[i].next]
    <2>1. r \in Clients /\ r.pc = node[i].next /\ r.rid = node[i].rid /\ r.data = node[i].data
          /\ r.acks = node[i].acks
      BY <1>f DEF Clients
    <2>2. InLater(r) /\ Positions(r)
      BY <1>l, <2>1 DEF InLater, Positions, Later
    <2>3. InEntering(node[i]) => ~ Failed
      BY <1>2 DEF InEntering
    <2> QED
      BY <1>f, <1>l, <1>2, <2>1, <2>2, <2>3, LaterKeeps DEF Goto, ChainSame
  <1>3. CASE /\ Accused(i) /\ UNCHANGED chan
             /\ Become(i, Waiting(node[i], chan.round, node[i].next))
    <2> DEFINE r == Waiting(node[i], chan.round, node[i].next)
    <2>1. r \in Clients
      BY <1>f, Fields, WaitingTyped
    <2>2. r.pc = "wait" /\ r.next = node[i].next /\ r.rid = node[i].rid
          /\ r.data = node[i].data /\ r.acks = node[i].acks
      BY <1>f DEF Clients, Waiting
    <2>3. InLater(r) /\ Positions(r)
      BY <1>l, <2>2 DEF InLater, Positions
    <2> HIDE DEF r
    <2>4. ClientInv(i, r)
      BY <1>f, <1>l, <1>a, <1>3, <2>1, <2>2, <2>3, LaterStep
    <2>5. Become(i, r)
      BY <1>3 DEF r
    <2> QED
      BY <1>f, <1>3, <2>1, <2>4, <2>5, QuietKeeps
  <1>4. CASE /\ Accused(i) /\ chan' = [chan EXCEPT !.pre = TRUE]
             /\ Become(i, [node[i] EXCEPT !.pc = "answer", !.ref = chan.round])
    <2> DEFINE r == [node[i] EXCEPT !.pc = "answer", !.ref = chan.round]
    <2>1. r \in Clients /\ r.pc = "answer" /\ r.next = node[i].next /\ r.rid = node[i].rid
          /\ r.data = node[i].data /\ r.acks = node[i].acks
      BY <1>f, PcsNamed DEF Clients
    <2>2. InLater(r) /\ Positions(r)
      BY <1>f, <2>1 DEF InLater, Positions, Later
    <2> HIDE DEF r
    <2>3. ClientInv(i, r)
      BY <1>f, <1>l, <1>a, <1>4, <2>1, <2>2, LaterStep
    <2>4. /\ chan'.round = chan.round /\ chan'.since = chan.since /\ chan'.ack = chan.ack
          /\ chan'.open = chan.open /\ chan'.ok = chan.ok /\ chan'.ever = chan.ever
          /\ chan'.from = chan.from /\ chan'.to = chan.to
      BY <1>f, <1>4 DEF Channels
    <2>5. Cast' = Cast /\ Sent' = Sent
      BY <1>f, <2>4 DEF Cast, Sent
    <2>6. \A k \in Nodes : Steady(k)
      BY <1>f, <2>4, <2>5 DEF Steady, Forward, Failed, Complained
    <2>7. Become(i, r) /\ node'[i] = r
      BY <1>f, <1>4 DEF r, Become, TypeOK
    <2>8. ClientInv(i, node[i])'
      BY <1>f, <2>1, <2>3, <2>6, <2>7, Moved
    <2>9. ChainInv' /\ AlrightVerified'
      BY <1>f, <2>4, <2>5 DEF IInv, ChainInv, AlrightVerified, Completed, Complained, AllSent
    <2> QED
      BY <1>f, <2>6, <2>7, <2>8, <2>9, SendKeeps
  <1> QED
    BY <1>1, <1>2, <1>3, <1>4 DEF Respond

-----------------------------------------------------------------------------
(* Complaints. *)

\* The client of i complains and waits in the position of r.
LEMMA ComplainAndGoKeeps ==
    ASSUME IInv, TypeOK', NEW i \in Nodes, NEW j \in Nodes, NEW r \in Clients,
           ClientInv(i, r), ClientInv(i, Waiting(r, chan.round, r.pc)), ComplainAndGo(i, j, r)
    PROVE  IInv'
  <1>1. r.pc \in Pcs
    BY DEF Clients
  <1>2. Waiting(r, chan.round, r.pc) \in Clients
    BY <1>1, Fields, WaitingTyped DEF IInv
  <1> QED
    BY <1>2, ComplainKeeps DEF ComplainAndGo

\* A complaint after the alright keeps the invariant.
LEMMA LaterComplainKeeps ==
    ASSUME IInv, TypeOK', NEW i \in Nodes, NEW j \in Nodes, NEW r \in Clients,
           InLater(node[i]), ~ InEntering(node[i]), r.pc \in Later \ {"respond", "answer"},
           r.rid = node[i].rid, r.data = node[i].data, r.acks = node[i].acks,
           ComplainAndGo(i, j, r)
    PROVE  IInv'
  <1> DEFINE w == Waiting(r, chan.round, r.pc)
  <1>1. r.pc \in Pcs
    BY DEF Clients
  <1>2. w \in Clients
    BY <1>1, Fields, WaitingTyped DEF IInv
  <1>3. w.pc = "wait" /\ w.next = r.pc /\ w.rid = r.rid /\ w.data = r.data /\ w.acks = r.acks
    BY DEF Clients, Waiting
  <1>4. InLater(w) /\ Positions(w) /\ InLater(r) /\ Positions(r)
    BY <1>3 DEF InLater, Positions, Later
  <1> HIDE DEF w
  <1>5. ClientInv(i, node[i]) /\ node[i] \in Clients
    BY Fields DEF IInv
  <1>6. ClientInv(i, r)
    BY <1>4, <1>5, LaterStep
  <1>7. ClientInv(i, w)
    BY <1>2, <1>3, <1>4, <1>5, LaterStep
  <1> QED
    BY <1>6, <1>7, ComplainAndGoKeeps DEF w

\* A complaint of a missing broadcast keeps the invariant.
LEMMA CheckMissingKeeps ==
    ASSUME IInv, TypeOK', NEW i \in Nodes, CheckMissing(i)
    PROVE  IInv'
  <1> DEFINE r == [node[i] EXCEPT !.pc = "gather"]
             w == Waiting(r, chan.round, r.pc)
  <1>f. TypeOK /\ ClientInv(i, node[i]) /\ node[i] \in Clients /\ node[i].pc = "check"
        /\ chan.round \in Rounds
    BY Fields DEF IInv, CheckMissing, At
  <1>1. PICK j \in Missing(i) : ComplainAndGo(i, j, r)
    BY DEF CheckMissing
  <1>2. j \in Nodes /\ Sound(i, node[i])
    BY <1>1 DEF Missing, Sound, Received
  <1>3. r \in Clients /\ r.pc = "gather" /\ r.rid = node[i].rid /\ r.data = node[i].data
        /\ r.acks = node[i].acks
    BY <1>f, PcsNamed DEF Clients
  <1>4. w \in Clients
    BY <1>f, <1>3, PcsNamed, WaitingTyped
  <1>5. w.pc = "wait" /\ w.next = "gather" /\ w.rid = node[i].rid /\ w.data = node[i].data
        /\ w.acks = node[i].acks
    BY <1>f, <1>3 DEF Waiting, Clients
  <1> HIDE DEF r, w
  <1>6. InChecked(r) /\ InChecked(w) /\ ~ InLater(node[i])
    BY <1>f, <1>3, <1>5 DEF InChecked, InLater, Checked, Later
  <1>7. ClientInv(i, r) /\ ClientInv(i, w)
    BY <1>f, <1>2, <1>3, <1>4, <1>5, <1>6, CheckedStep DEF Begun
  <1> QED
    BY <1>1, <1>2, <1>3, <1>7, ComplainAndGoKeeps DEF w

\* A fault is found: there is a complaint afterwards, or the node is excused.
LEMMA FaultMoved ==
    ASSUME TypeOK, NEW i \in Nodes, NEW r \in Clients, node'[i] = r, ClientInv(i, node[i]),
           r.rid = node[i].rid, r.data = node[i].data, r.acks = node[i].acks,
           node[i].pc = "check", InChecked(r), Forward(i), (Excused(i) \/ Complained)'
    PROVE  ClientInv(i, node[i])'
  <1>1. /\ r.pc # "alright" /\ ~ InLater(r) /\ r.pc \notin {"respond", "answer"}
        /\ r.pc \notin Begun /\ node[i].pc \notin Begun /\ ~ InLater(node[i])
    BY DEF InLater, InChecked, Later, Checked, Begun
  <1>2. OfRound(i, node[i]) /\ Counted(i, node[i]) /\ node[i].acks = {}
    BY <1>1 DEF ClientInv, Counted
  <1>3. OfRound(i, node[i])'
    BY <1>1, <1>2, SentGrows DEF OfRound, Forward
  <1>4. Counted(i, node[i])'
    BY <1>1, <1>2 DEF Counted, InLater
  <1>5. Verified(i, node[i])'
    BY <1>1 DEF Verified
  <1>6. Positions(node[i])'
    BY <1>1 DEF Positions, InChecked, Checked
  <1> QED
    BY <1>3, <1>4, <1>5, <1>6 DEF ClientInv

\* A complaint of wrong data keeps the invariant.
LEMMA CheckWrongKeeps ==
    ASSUME IInv, TypeOK', NEW i \in Nodes, CheckWrong(i)
    PROVE  IInv'
  <1>f. /\ TypeOK /\ ChainInv /\ ClientInv(i, node[i]) /\ node[i] \in Clients
        /\ node[i].pc = "check" /\ chan.round \in Rounds /\ chan \in Channels
        /\ hist \in Histories /\ UNCHANGED log
    BY Fields DEF IInv, CheckWrong, At, TypeOK
  <1>1. PICK j \in Wrong(i) :
          \/ /\ Accusable(i, j) /\ Accuse(i, j)
             /\ Become(i, Waiting([node[i] EXCEPT !.todo = {j}], chan.round, "again"))
             /\ UNCHANGED left
          \/ /\ Accusable(i, j) /\ Spend("tx")
             /\ hist' = [hist EXCEPT !.slip = @ \cup {i}]
             /\ Goto(i, "gather")
             /\ UNCHANGED <<chan, keys, down>>
          \/ /\ ~ Accusable(i, j)
             /\ Goto(i, "gather")
             /\ UNCHANGED <<chan, keys, down, hist, left>>
    BY DEF CheckWrong
  <1>2. j \in Nodes
    BY CastTyped DEF IInv
  <1> DEFINE g == [node[i] EXCEPT !.pc = "gather"]
  <1>3. g \in Clients /\ g.pc = "gather" /\ g.rid = node[i].rid /\ g.data = node[i].data
        /\ g.acks = node[i].acks
    BY <1>f, PcsNamed DEF Clients
  <1>4. InChecked(g) /\ ~ InLater(node[i])
    BY <1>f, <1>3 DEF InChecked, InLater, Checked, Later
  <1> HIDE DEF g
  <1>5. CASE /\ Accusable(i, j) /\ Accuse(i, j)
             /\ Become(i, Waiting([node[i] EXCEPT !.todo = {j}], chan.round, "again"))
    <2> DEFINE q == [node[i] EXCEPT !.todo = {j}]
               r == Waiting(q, chan.round, "again")
    <2>1. q \in Clients /\ q.rid = node[i].rid /\ q.data = node[i].data /\ q.acks = node[i].acks
      BY <1>f, <1>2 DEF Clients
    <2>2. r \in Clients
      BY <1>f, <2>1, PcsNamed, WaitingTyped
    <2>3. r.pc = "wait" /\ r.next = "again" /\ r.rid = node[i].rid /\ r.data = node[i].data
          /\ r.acks = node[i].acks
      BY <2>1 DEF Waiting, Clients
    <2> HIDE DEF q, r
    <2>4. Become(i, r) /\ node'[i] = r
      BY <1>f, <1>5 DEF q, r, Become, TypeOK
    <2>5. InChecked(r)
      BY <2>3 DEF InChecked, Checked
    <2>6. /\ chan'.round = chan.round /\ chan'.since = chan.since /\ chan'.ack = chan.ack
          /\ chan'.open = chan.open /\ chan'.ok = chan.ok /\ chan'.ever = chan.ever
          /\ chan'.from = i /\ chan'.to = j /\ UNCHANGED <<keys, hist>>
      BY <1>f, <1>5 DEF Accuse, Channels
    <2>7. Cast' = Cast /\ Sent' = Sent /\ Complained'
      <3>1. j # NoNode
        BY <1>2 DEF NoNode, Nodes
      <3> QED
        BY <1>f, <2>6, <3>1 DEF Cast, Sent, Complained
    <2>8. Forward(i) /\ \A k \in Nodes \ {i} : Steady(k)
      BY <1>f, <2>6, <2>7 DEF Steady, Forward, Failed
    <2>9. ClientInv(i, node[i])'
      BY <1>f, <2>2, <2>3, <2>4, <2>5, <2>7, <2>8, FaultMoved
    <2>10. ChainInv' /\ AlrightVerified'
      BY <1>f, <1>5, <2>6, <2>7
         DEF IInv, ChainInv, AlrightVerified, Completed, AllSent, Accusable
    <2> QED
      BY <2>4, <2>6, <2>8, <2>9, <2>10, SendKeeps
  <1>6. CASE /\ hist' = [hist EXCEPT !.slip = @ \cup {i}]
             /\ Goto(i, "gather") /\ UNCHANGED <<chan, keys, down>>
    <2>1. hist'.first = hist.first /\ hist'.won = hist.won /\ hist'.slip = hist.slip \cup {i}
      BY <1>f, <1>6 DEF Histories
    <2>2. Become(i, g) /\ node'[i] = g
      BY <1>f, <1>6 DEF g, Goto, Become, TypeOK
    <2>3. Cast' = Cast /\ Sent' = Sent
      BY <1>f, <1>6 DEF Cast, Sent
    <2>4. \A k \in Nodes : Steady(k)
      BY <1>f, <1>6, <2>1, <2>3 DEF Steady, Forward, Failed, Complained
    <2>5. ClientInv(i, node[i])'
      BY <1>f, <1>3, <1>4, <2>1, <2>2, <2>4, FaultMoved DEF Steady, Excused
    <2>6. ChainInv' /\ AlrightVerified'
      BY <1>f, <1>6, <2>1, <2>3
         DEF IInv, ChainInv, AlrightVerified, Completed, Complained, AllSent
    <2> QED
      BY <1>6, <2>1, <2>2, <2>4, <2>5, <2>6, SendKeeps
  <1>7. CASE ~ Accusable(i, j) /\ Goto(i, "gather") /\ UNCHANGED <<chan, keys, down, hist, left>>
    <2>1. ASSUME node[i].rid = chan.round, chan.open
          PROVE  Excused(i) \/ Complained
      <3>1. OfRound(i, node[i])
        BY <1>f DEF ClientInv
      <3>2. i \in Sent
        BY <1>f, <2>1, <3>1 DEF OfRound, Begun
      <3>3. PICK e \in node[i].data : e.from = j
        BY DEF Wrong
      <3>4. e \in log /\ e.round <= chan.round /\ chan.round <= e.round
        BY <1>f, <2>1, <3>1, <3>3 DEF OfRound, ChainInv
      <3>5. e.round = chan.round
        BY <1>f, <3>4 DEF TypeOK, Events1, Rounds
      <3>6. j \in Sent
        BY <3>3, <3>4, <3>5 DEF Sent, Cast
      <3>7. Knows(i, j)
        BY <1>f, <1>2, <2>1 DEF Knows, ChainInv
      <3> QED
        BY <1>7, <2>1, <3>2, <3>6, <3>7 DEF Accusable, Excused
    <2>2. ClientInv(i, g)
      BY <1>f, <1>3, <1>4, <2>1, CheckedStep DEF Begun
    <2> QED
      BY <1>f, <1>3, <1>7, <2>2, QuietKeeps DEF g, Goto
  <1> QED
    BY <1>1, <1>5, <1>6, <1>7

\* The second complaint of report_bad_data keeps the invariant.
LEMMA ComplainAgainKeeps ==
    ASSUME IInv, TypeOK', NEW i \in Nodes, ComplainAgain(i)
    PROVE  IInv'
  <1> DEFINE r == [node[i] EXCEPT !.pc = "gather"]
             w == Waiting(node[i], node[i].ref, "gather")
  <1>f. /\ TypeOK /\ ClientInv(i, node[i]) /\ node[i] \in Clients /\ node[i].pc = "again"
        /\ node[i].ref \in Rounds
    BY Fields DEF IInv, ComplainAgain, At
  <1>1. PICK j \in node[i].todo : Complain(i, j, w, w, r)
    BY DEF ComplainAgain
  <1>2. j \in Nodes
    BY <1>f DEF Clients
  <1>3. r \in Clients /\ r.pc = "gather" /\ r.rid = node[i].rid /\ r.data = node[i].data
        /\ r.acks = node[i].acks
    BY <1>f, PcsNamed DEF Clients
  <1>4. w \in Clients
    BY <1>f, PcsNamed, WaitingTyped
  <1>5. w.pc = "wait" /\ w.next = "gather" /\ w.rid = node[i].rid /\ w.data = node[i].data
        /\ w.acks = node[i].acks
    BY <1>f DEF Waiting, Clients
  <1> HIDE DEF r, w
  <1>6. InChecked(r) /\ InChecked(w) /\ InChecked(node[i]) /\ ~ InLater(node[i])
    BY <1>f, <1>3, <1>5 DEF InChecked, InLater, Checked, Later
  <1>7. ClientInv(i, r) /\ ClientInv(i, w)
    BY <1>f, <1>3, <1>4, <1>5, <1>6, CheckedStep DEF Begun, ClientInv, Verified
  <1> QED
    BY <1>1, <1>2, <1>3, <1>4, <1>7, ComplainKeeps

\* Complaints of missing alrights and of a missing response keep the invariant.
LEMMA LaterComplaintsKeep ==
    ASSUME IInv, TypeOK', NEW i \in Nodes, BlameNext(i) \/ NoResponse(i)
    PROVE  IInv'
  <1>f. /\ TypeOK /\ node[i] \in Clients /\ node[i].pc \in {"blaming", "noresponse"}
        /\ node[i].todo \subseteq Nodes
    BY Fields DEF IInv, BlameNext, NoResponse, At, Clients
  <1>l. InLater(node[i]) /\ ~ InEntering(node[i])
    BY <1>f DEF InLater, InEntering, Later
  <1>1. CASE BlameNext(i)
    <2>1. PICK j \in First(node[i].todo) : ComplainAndGo(i, j, [node[i] EXCEPT !.todo = @ \ {j}])
      BY <1>1 DEF BlameNext
    <2> DEFINE r == [node[i] EXCEPT !.todo = @ \ {j}]
    <2>2. r \in Clients /\ r.pc = "blaming" /\ r.rid = node[i].rid /\ r.data = node[i].data
          /\ r.acks = node[i].acks
      BY <1>f, <1>1 DEF Clients, BlameNext, At
    <2>3. j \in Nodes
      BY <1>f DEF First
    <2> HIDE DEF r
    <2> QED
      BY <1>l, <2>1, <2>2, <2>3, LaterComplainKeeps DEF r, Later
  <1>2. CASE NoResponse(i)
    <2>1. PICK j \in node[i].todo :
            \/ Abort(i) /\ ChainSame
            \/ Goto(i, "end") /\ ChainSame
            \/ ComplainAndGo(i, j, [node[i] EXCEPT !.pc = "last"])
      BY <1>2 DEF NoResponse
    <2> DEFINE r == [node[i] EXCEPT !.pc = "last"]
    <2>2. r \in Clients /\ r.pc = "last" /\ r.rid = node[i].rid /\ r.data = node[i].data
          /\ r.acks = node[i].acks
      BY <1>f, PcsNamed DEF Clients
    <2>3. CASE ComplainAndGo(i, j, r)
      BY <1>f, <1>l, <2>2, <2>3, LaterComplainKeeps DEF Later
    <2>4. CASE Goto(i, "end") /\ ChainSame
      BY <1>l, <2>4, LaterGotoKeeps DEF Later
    <2> QED
      BY <2>1, <2>3, <2>4, AbortKeeps DEF ChainSame
  <1> QED
    BY <1>1, <1>2

\* The contract slashes the one of the two who is wrong.
LEMMA AnswerKeeps ==
    ASSUME IInv, TypeOK', NEW i \in Nodes, Answer(i)
    PROVE  IInv'
  <1> DEFINE r == Waiting(node[i], node[i].ref, node[i].next)
             possible == chan.open /\ chan.to = i /\ chan.pre
             guilty == IF \E e \in Cast : e.from = i /\ chan.from \in e.bad
                       THEN i ELSE chan.from
  <1>f. /\ TypeOK /\ ChainInv /\ ClientInv(i, node[i]) /\ node[i] \in Clients
        /\ node[i].pc = "answer" /\ node[i].next \in Resumed /\ node[i].ref \in Rounds
        /\ node[i].next \in Pcs
    BY Fields DEF IInv, Answer, At, ClientInv, Positions
  <1>1. r \in Clients
    BY <1>f, WaitingTyped
  <1>2. r.pc = "wait" /\ r.next = node[i].next /\ r.rid = node[i].rid /\ r.data = node[i].data
        /\ r.acks = node[i].acks
    BY <1>f DEF Waiting, Clients
  <1>d. \/ /\ possible /\ Slash(guilty)
           /\ node' = [k \in Nodes |-> IF Replaced(k) THEN Resting
                                      ELSE IF k = i THEN r ELSE node[k]]
        \/ Become(i, r) /\ UNCHANGED <<chan, keys, down, hist>>
    BY DEF Answer
  <1>e. log' = log
    BY DEF Answer
  <1>g. possible => guilty \in Nodes
    <2>1. i # NoNode
      BY DEF NoNode, Nodes
    <2> QED
      BY <1>f, <2>1 DEF ChainInv, Complained
  <1> HIDE DEF r, guilty
  <1>3. InLater(r) /\ Positions(r) /\ InLater(node[i]) /\ ~ InEntering(node[i])
    BY <1>f, <1>2 DEF InLater, InEntering, Positions, Later, Resumed
  <1>4. ClientInv(i, r)
    BY <1>f, <1>1, <1>2, <1>3, LaterStep
  <1>5. CASE /\ possible /\ Slash(guilty)
             /\ node' = [k \in Nodes |-> IF Replaced(k) THEN Resting
                                        ELSE IF k = i THEN r ELSE node[k]]
    BY <1>e, <1>g, <1>1, <1>4, <1>5, SlashKeeps
  <1>6. CASE Become(i, r) /\ UNCHANGED <<chan, keys, down, hist>>
    BY <1>e, <1>1, <1>4, <1>6, QuietKeeps
  <1> QED
    BY <1>d, <1>5, <1>6

-----------------------------------------------------------------------------
(* The share, and what happens outside. *)

\* A DKG that is completed is the one the client was begun for.
LEMMA ClientKeeps ==
    ASSUME IInv, TypeOK', NEW i \in Nodes, Client(i)
    PROVE  IInv'
  <1>f. /\ TypeOK /\ ChainInv /\ ClientInv(i, node[i]) /\ node[i] \in Clients
        /\ node[i].pc = "client" /\ UNCHANGED <<chan, log, hist>>
    BY Fields DEF IInv, Client, At
  <1>1. OfRound(i, node[i]) /\ node[i].acks = {}
    BY <1>f DEF ClientInv, Counted, InLater, Later
  <1>2. CASE Completed /\ keys' = Saved(i, Cast) /\ Abort(i)
    <2>1. i \in Sent
      BY <1>f, <1>2 DEF ChainInv, Completed, AllSent
    <2>2. node[i].rid = chan.round
      BY <1>1, <2>1 DEF OfRound
    <2>3. (\A e \in Cast : e.round = node[i].rid) /\ node[i].rid \in hist.won
      BY <1>f, <1>2, <2>2 DEF Cast, ChainInv
    <2> QED
      BY <1>f, <1>2, <2>3, SaveKeeps
  <1>3. CASE ~ Completed /\ UNCHANGED keys /\ Goto(i, "join")
    <2> DEFINE r == [node[i] EXCEPT !.pc = "join"]
    <2>1. r \in Clients /\ r.pc = "join" /\ r.rid = node[i].rid /\ r.data = node[i].data
          /\ r.acks = node[i].acks
      BY <1>f, PcsNamed DEF Clients
    <2>2. OfRound(i, r)
      BY <1>1, <2>1 DEF OfRound, Begun
    <2>3. ClientInv(i, r)
      BY <1>1, <2>1, <2>2, EarlyStep
    <2> QED
      BY <1>f, <1>3, <2>1, <2>3, QuietKeeps DEF Goto
  <1>4. CASE UNCHANGED keys /\ Abort(i)
    BY <1>f, <1>4, AbortKeeps
  <1> QED
    BY <1>2, <1>3, <1>4 DEF Client

\* All alrights and all data: then they are of one round, and it succeeded.
LEMMA EndKeeps ==
    ASSUME IInv, TypeOK', NEW i \in Nodes, End(i)
    PROVE  IInv'
  <1>f. /\ TypeOK /\ ChainInv /\ ClientInv(i, node[i]) /\ node[i] \in Clients
        /\ node[i].pc = "end" /\ UNCHANGED <<chan, log, hist>> /\ Abort(i)
        /\ chan.ack \subseteq Nodes /\ chan.round \in Nat /\ node[i].rid \in Nat
    BY Fields DEF IInv, End, At, Rounds
  <1>1. OfRound(i, node[i]) /\ Counted(i, node[i]) /\ InLater(node[i]) /\ ~ InEntering(node[i])
    BY <1>f DEF ClientInv, InLater, InEntering, Later
  <1>2. CASE node[i].acks = Nodes /\ keys' = Saved(i, node[i].data)
    <2>1. ASSUME {e.from : e \in node[i].data} = Nodes
          PROVE  /\ \A e \in node[i].data : e.round = node[i].rid
                 /\ node[i].rid \in hist.won \/ hist.first
      <3>1. Full(node[i])
        BY <2>1 DEF Full, Received
      <3>2. node[i].rid = chan.round
        BY <1>f, <1>1, <1>2, <3>1 DEF OfRound, Counted
      <3>3. ASSUME NEW e \in node[i].data PROVE e.round = node[i].rid
        <4>1. e \in log /\ e.round <= chan.round /\ node[i].rid <= e.round
          BY <1>f, <1>1 DEF OfRound, ChainInv
        <4>2. e.round \in Nat
          BY <1>f, <4>1 DEF TypeOK, Events1, Rounds
        <4> QED
          BY <1>f, <3>2, <4>1, <4>2
      <3>4. node[i].rid \in hist.won \/ hist.first
        <4>1. i \in chan.ack \/ hist.first
          BY <1>1, <1>2, <3>1, <3>2 DEF Counted
        <4>2. chan.ack \cup {i} = Nodes
          BY <1>f, <1>1, <1>2, <3>2 DEF Counted
        <4>3. i \in chan.ack => Completed
          BY <4>2 DEF Completed
        <4> QED
          BY <1>f, <3>2, <4>1, <4>3 DEF ChainInv
      <3> QED
        BY <3>3, <3>4
    <2> QED
      BY <1>f, <1>2, <2>1, SaveKeeps
  <1>3. CASE keys' = keys
    BY <1>f, <1>3, AbortKeeps
  <1> QED
    BY <1>2, <1>3 DEF End

\* Time keeps the invariant.
LEMMA TickKeeps ==
    ASSUME IInv, TypeOK', Tick
    PROVE  IInv'
  <1>1. /\ chan'.round = chan.round /\ chan'.since = chan.since /\ chan'.ack = chan.ack
        /\ chan'.open = chan.open /\ chan'.ok = chan.ok /\ chan'.ever = chan.ever
        /\ chan'.from = chan.from /\ chan'.to = chan.to
        /\ UNCHANGED <<log, keys, hist>>
    BY DEF Tick, IInv, TypeOK, Channels
  <1>2. Cast' = Cast /\ Sent' = Sent
    BY <1>1 DEF Cast, Sent
  <1>3. \A k \in Nodes : Steady(k)
    BY <1>1, <1>2 DEF Steady, Forward, Failed, Complained
  <1>4. ASSUME NEW k \in Nodes PROVE ClientInv(k, node[k])'
    <2>1. node[k] \in Clients /\ node'[k] \in Clients
      BY DEF IInv, TypeOK
    <2>2. /\ node'[k].pc = node[k].pc /\ node'[k].next = node[k].next
          /\ node'[k].rid = node[k].rid /\ node'[k].data = node[k].data
          /\ node'[k].acks = node[k].acks
      BY <2>1 DEF Tick, Clients
    <2>3. PICK r \in Clients : r = node'[k]
      BY <2>1
    <2>4. ClientInv(k, r)
      <3>1. /\ r.pc = node[k].pc /\ r.next = node[k].next /\ r.rid = node[k].rid
            /\ r.data = node[k].data /\ r.acks = node[k].acks
        BY <2>2, <2>3
      <3>2. ClientInv(k, node[k])
        BY DEF IInv
      <3>3. Positions(node[k]) => Positions(r)
        BY <3>1 DEF Positions
      <3>4. OfRound(k, node[k]) => OfRound(k, r)
        BY <3>1 DEF OfRound
      <3>5. Counted(k, node[k]) => Counted(k, r)
        BY <3>1 DEF Counted, InLater, InEntering, Full, Received
      <3>6. Verified(k, node[k]) => Verified(k, r)
        BY <3>1 DEF Verified, InChecked, Sound, Received
      <3> QED
        BY <3>1, <3>2, <3>3, <3>4, <3>5, <3>6 DEF ClientInv
    <2> QED
      BY <1>3, <2>3, <2>4, Moved DEF IInv
  <1>5. ChainInv' /\ AlrightVerified'
    BY <1>1, <1>2 DEF IInv, ChainInv, AlrightVerified, Completed, Complained, AllSent
  <1>6. (OneRound /\ KeyOfSuccess)'
    BY <1>1 DEF IInv, OneRound, KeyOfSuccess
  <1> QED
    BY <1>4, <1>5, <1>6 DEF IInv

\* Every step keeps the invariant.
LEMMA StepKeeps ==
    ASSUME IInv, [Next]_vars
    PROVE  IInv'
  <1>t. TypeOK'
    BY StepTyped DEF IInv
  <1>1. CASE UNCHANGED vars
    <2>1. UNCHANGED <<chan, log, hist>> /\ keys' = keys /\ node' = node
      BY <1>1 DEF vars
    <2>2. \A k \in Nodes : Steady(k)
      BY <2>1, Stays
    <2>3. ASSUME NEW k \in Nodes PROVE ClientInv(k, node[k])'
      BY <2>1, <2>2, Moved DEF IInv, TypeOK
    <2>4. (OneRound /\ KeyOfSuccess)'
      BY <2>1 DEF IInv, OneRound, KeyOfSuccess
    <2> QED
      BY <1>t, <2>1, <2>3, <2>4, Stays DEF IInv
  <1>2. ASSUME NEW i \in Nodes, NodeStep(i) PROVE IInv'
    <2>1. CASE Begin(i) \/ Join(i) \/ SkipBroadcast(i)
      BY <1>t, <2>1, OpeningKeeps
    <2>2. CASE CheckDone(i) \/ Gather(i) \/ Acknowledge(i)
      BY <1>t, <2>2, CheckedKeeps
    <2>3. CASE Wait(i) \/ Collect(i)
      BY <1>t, <2>3, WaitKeeps, CollectKeeps
    <2>4. CASE \/ Enter(i) \/ Blame(i) \/ BlameDone(i) \/ Final(i) \/ CheckComplaint(i)
               \/ AwaitAccused(i) \/ AwaitFailure(i)
      BY <1>t, <2>4, BlamingKeeps
    <2>5. CASE BroadcastLost(i)
      BY <1>t, <2>5, AbortKeeps DEF BroadcastLost
    <2>6. CASE Broadcast(i) \/ Receive(i) \/ Alright(i) \/ Respond(i)
      BY <1>t, <2>6, BroadcastKeeps, ReceiveKeeps, AlrightKeeps, RespondKeeps
    <2>7. CASE CheckMissing(i) \/ CheckWrong(i) \/ ComplainAgain(i)
      BY <1>t, <2>7, CheckMissingKeeps, CheckWrongKeeps, ComplainAgainKeeps
    <2>8. CASE BlameNext(i) \/ NoResponse(i) \/ Answer(i)
      BY <1>t, <2>8, LaterComplaintsKeep, AnswerKeeps
    <2>9. CASE Client(i) \/ End(i)
      BY <1>t, <2>9, ClientKeeps, EndKeeps
    <2> QED
      BY <1>2, <2>1, <2>2, <2>3, <2>4, <2>5, <2>6, <2>7, <2>8, <2>9 DEF NodeStep
  <1>3. ASSUME NEW i \in Nodes, Killed(i) \/ GoDown(i) PROVE IInv'
    BY <1>t, <1>3, AbortKeeps DEF Killed, GoDown
  <1> QED
    BY <1>t, <1>1, <1>2, <1>3, TickKeeps DEF Next

\* A channel that was just opened satisfies the invariant.
LEMMA InitKept ==
    ASSUME Init
    PROVE  IInv
  <1>1. TypeOK
    BY InitTyped
  <1>2. /\ chan.open /\ chan.round = 0 /\ chan.since = [i \in Nodes |-> 0] /\ chan.ack = {}
        /\ chan.from = NoNode /\ chan.to = NoNode /\ ~ chan.ok /\ hist.first = ~ chan.ever
        /\ log = {} /\ \A i \in Nodes : node[i] = Resting /\ keys[i] = {}
    BY DEF Init
  <1>3. ~ Completed
    BY <1>2, DkgAssumption DEF Completed, Nodes
  <1>4. ChainInv
    BY <1>1, <1>2, <1>3 DEF ChainInv, Complained, TypeOK, Channels
  <1>5. \A i \in Nodes : ClientInv(i, node[i])
    BY <1>2 DEF ClientInv, Resting
  <1>6. OneRound /\ KeyOfSuccess /\ AlrightVerified
    BY <1>2 DEF OneRound, KeyOfSuccess, AlrightVerified
  <1> QED
    BY <1>1, <1>4, <1>5, <1>6 DEF IInv

\* The inductive invariant holds in every state of the key generation.
THEOREM Invariance == Spec => []IInv
  BY InitKept, StepKeeps, PTL DEF Spec

-----------------------------------------------------------------------------
(* Agreement on the key. *)

\* What shares are made of are events on chain.
MadeOnChain == \A i \in Nodes : \A k \in keys[i] : k.data \subseteq log

\* An event stays on chain.
LEMMA LogGrows ==
    ASSUME [Next]_vars
    PROVE  log \subseteq log'
  <1>1. ASSUME NEW i \in Nodes, NodeStep(i)
        PROVE  log \subseteq log'
    <2>1. CASE Broadcast(i)
      BY <2>1 DEF Broadcast
    <2>2. CASE ~ Broadcast(i)
      BY <1>1, <2>2
         DEF NodeStep, ChainSame, Begin, Client, Join, BroadcastLost, SkipBroadcast, Receive,
             CheckDone, CheckMissing, CheckWrong, ComplainAgain, ComplainAndGo, Complain, Wait,
             Gather, Acknowledge, Alright, Respond, Answer, Enter, Collect, Blame, BlameNext,
             BlameDone, Final, CheckComplaint, AwaitAccused, NoResponse, AwaitFailure, End
    <2>. QED BY <2>1, <2>2
  <1>. QED BY <1>1 DEF Next, Killed, GoDown, Tick, vars

\* A round that fails takes shares away and adds none.
LEMMA SlashTakes ==
    ASSUME TypeOK, NEW j, Slash(j), NEW i \in Nodes
    PROVE  keys'[i] \subseteq keys[i]
  BY DEF Slash, TypeOK

\* A share is added when a DKG that is completed is fetched, or at the end of a client.
LEMMA SharesMove ==
    ASSUME TypeOK, [Next]_vars, NEW i \in Nodes, NEW k \in keys'[i]
    PROVE  \/ k \in keys[i]
           \/ k.data = Cast
           \/ k.data = node[i].data /\ node[i].pc = "end"
  <1>1. ASSUME NEW p \in Nodes, NEW data, keys' = Saved(p, data)
        PROVE  k \in keys[i] \/ (p = i /\ k.data = data)
    BY <1>1 DEF Saved, TypeOK
  <1>2. ASSUME NEW p \in Nodes, NEW j, NEW a, NEW b, NEW c, Complain(p, j, a, b, c)
        PROVE  k \in keys[i]
    BY <1>2, SlashTakes DEF Complain
  <1>3. ASSUME NEW p \in Nodes, NodeStep(p)
        PROVE  \/ k \in keys[i]
               \/ k.data = Cast
               \/ k.data = node[i].data /\ node[i].pc = "end"
    <2>1. CASE Client(p)
      BY <1>1, <2>1 DEF Client
    <2>2. CASE End(p)
      BY <1>1, <2>2 DEF End, At
    <2>3. CASE CheckMissing(p) \/ ComplainAgain(p) \/ BlameNext(p)
      BY <1>2, <2>3 DEF CheckMissing, ComplainAgain, BlameNext, ComplainAndGo
    <2>4. CASE NoResponse(p)
      <3>1. PICK j \in node[p].todo :
                \/ keys' = keys
                \/ ComplainAndGo(p, j, [node[p] EXCEPT !.pc = "last"])
        BY <2>4 DEF NoResponse, ChainSame
      <3>. QED BY <1>2, <3>1 DEF ComplainAndGo
    <2>5. CASE Answer(p)
      BY <2>5, SlashTakes DEF Answer
    <2>6. CASE CheckWrong(p)
      BY <2>6 DEF CheckWrong, Accuse
    <2>7. CASE \/ Begin(p) \/ Join(p) \/ Broadcast(p) \/ BroadcastLost(p) \/ SkipBroadcast(p)
               \/ Receive(p) \/ CheckDone(p) \/ Wait(p) \/ Gather(p) \/ Acknowledge(p)
               \/ Alright(p) \/ Respond(p) \/ Enter(p) \/ Collect(p) \/ Blame(p)
               \/ BlameDone(p) \/ Final(p) \/ CheckComplaint(p) \/ AwaitAccused(p)
               \/ AwaitFailure(p)
      BY <2>7 DEF ChainSame, Begin, Join, Broadcast, BroadcastLost, SkipBroadcast, Receive,
                  CheckDone, Wait, Gather, Acknowledge, Alright, Respond, Enter, Collect, Blame,
                  BlameDone, Final, CheckComplaint, AwaitAccused, AwaitFailure
    <2>. QED BY <1>3, <2>1, <2>2, <2>3, <2>4, <2>5, <2>6, <2>7 DEF NodeStep
  <1>4. CASE (\E p \in Nodes : Killed(p) \/ GoDown(p)) \/ Tick \/ UNCHANGED vars
    BY <1>4 DEF Killed, GoDown, Tick, vars
  <1>. QED BY <1>3, <1>4 DEF Next

\* No key share is made of the broadcasts of two rounds, whatever clients of an
\* earlier round are still running, and all shares of a round belong to one key.
THEOREM KeyOfRoundAlways == Spec => []KeyOfRound
  <1>1. Init => MadeOnChain
    BY DEF Init, MadeOnChain
  <1>2. IInv /\ MadeOnChain /\ [Next]_vars => MadeOnChain'
    <2> SUFFICES ASSUME IInv, MadeOnChain, [Next]_vars, NEW i \in Nodes, NEW k \in keys'[i]
                 PROVE  k.data \subseteq log'
      BY DEF MadeOnChain
    <2>1. node[i].pc = "end" => node[i].data \subseteq log
      BY DEF IInv, ClientInv, OfRound
    <2>2. Cast \subseteq log
      BY DEF Cast
    <2>. QED BY <2>1, <2>2, SharesMove, LogGrows DEF IInv, MadeOnChain
  <1>3. IInv /\ MadeOnChain => KeyOfRound
    <2>0. ASSUME IInv,
                 \A i, j \in Nodes : \A k \in keys[i], l \in keys[j] :
                     l.rid = k.rid => l.data = k.data
          PROVE  KeyOfRound
      BY <2>0 DEF KeyOfRound, IInv, OneRound
    <2> SUFFICES ASSUME IInv, MadeOnChain,
                        NEW i \in Nodes, NEW j \in Nodes, NEW k \in keys[i], NEW l \in keys[j],
                        l.rid = k.rid
                 PROVE  l.data = k.data
      BY <2>0
    <2>1. /\ {e.from : e \in k.data} = Nodes /\ \A e \in k.data : e.round = k.rid
          /\ {e.from : e \in l.data} = Nodes /\ \A e \in l.data : e.round = k.rid
          /\ k.data \subseteq log /\ l.data \subseteq log
      BY DEF IInv, OneRound, MadeOnChain
    <2>2. \A e, f \in log : e.from = f.from /\ e.round = f.round => e = f
      BY DEF IInv, ChainInv
    <2>3. ASSUME NEW e \in k.data
          PROVE  e \in l.data
      <3>1. PICK f \in l.data : f.from = e.from
        BY <2>1
      <3>. QED BY <2>1, <2>2, <3>1
    <2>4. ASSUME NEW e \in l.data
          PROVE  e \in k.data
      <3>1. PICK f \in k.data : f.from = e.from
        BY <2>1
      <3>. QED BY <2>1, <2>2, <3>1
    <2>5. l.data \subseteq k.data /\ k.data \subseteq l.data
      BY <2>3, <2>4
    <2>. QED BY <2>5
  <1>. QED BY <1>1, <1>2, <1>3, Invariance, PTL DEF Spec

\* A share of a rotation is saved only when its round succeeded on chain.
THEOREM KeyOfSuccessAlways == Spec => []KeyOfSuccess
  <1>1. IInv => KeyOfSuccess
    BY DEF IInv
  <1> QED
    BY <1>1, Invariance, PTL

\* No node confirms data that it found wrong.
THEOREM AlrightVerifiedAlways == Spec => []AlrightVerified
  <1>1. IInv => AlrightVerified
    BY DEF IInv
  <1> QED
    BY <1>1, Invariance, PTL

=============================================================================
