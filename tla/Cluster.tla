-------------------------------- MODULE Cluster --------------------------------
(***************************************************************************)
(* The graph servers from start to end: NodeManager::init and              *)
(* CommManager::init (engine.cpp, Engine::init), the collective calls of a *)
(* run (module NodeManager), and the end of Engine::destroy, which flushes *)
(* the channels once more.  Node 0 is the master.                          *)
(*                                                                         *)
(* A subscriber gets what is published once its connection is in place and *)
(* nothing of what was published before.  A message that is sent again and *)
(* again until it gets through (MASTERUP, IAMUP) is modelled by the copies *)
(* that do: a lost copy changes nothing.  A message sent once (WORKERUP,   *)
(* ISEEYOUUP, CTRLNONE) may be lost as long as nothing has come through    *)
(* between the two nodes.  The connections of the data sockets, and those  *)
(* between two workers' node sockets, are assumed to be in place when they *)
(* are first used: nothing in the code makes sure of it.                   *)
(*                                                                         *)
(* Of the messages of NodeManager::init only those are kept that some node *)
(* may act on: MASTERUP and INITDONE at a worker, WORKERUP at the master.  *)
(***************************************************************************)
EXTENDS Integers, Sequences, FiniteSets

CONSTANTS
  numNodes,    \* the graph servers are 0 .. numNodes - 1
  Script,      \* the collective calls of a run
  Wrap,        \* 2^32: unsigned arithmetic is modulo Wrap
  Polls,       \* bound: copies of a polling message that get through
  MayLose      \* the workers whose WORKERUP may be lost

ASSUME ClusterOK ==
  /\ numNodes \in Nat \ {0, 1}
  /\ Wrap \in Nat /\ Wrap > numNodes
  /\ Polls \in Nat \ {0}
  /\ MayLose \subseteq 1 .. numNodes - 1

Node == 0 .. numNodes - 1
Master == 0
Worker == Node \ {Master}

VARIABLES
  chan, op, calls, entered, remaining, received, maxEpoch,
  announced, minEpoch, nodesFinishedEpoch,     \* those of NodeManager
  stage,        \* how far a node has come
  lost,         \* the workers whose WORKERUP the master will not hear of
  ctl,          \* ctl[n][m]: what m has sent to n on their control sockets
  linked,       \* the <<n, m>> where control messages of m reach n
  polled,       \* polled[n][m]: how many IAMUP of n have reached m
  subscribed,   \* subscribed[n]: the nodes n has subscribed mutually with
  flush,        \* the data flushes a node has begun
  marks,        \* the NULL_CHAR marks n has not read
  next          \* the node that n's flushControl is at

\* The epochs of the asynchronous pipeline are left to NodeManager's own runs.
NM == INSTANCE NodeManager WITH MaxEpoch <- 1, Staleness <- 0

nodevars == <<chan, remaining>>
callvars == <<op, calls, entered, received, maxEpoch, announced, minEpoch, nodesFinishedEpoch>>
ctlvars == <<ctl, linked, polled, subscribed>>
flushvars == <<flush, marks, next>>
vars == <<nodevars, callvars, stage, lost, ctlvars, flushvars>>

Init ==
  /\ NM!Init
  /\ stage = [n \in Node |-> "down"]
  /\ lost = {}
  /\ ctl = [n \in Node |-> [m \in Node |-> <<>>]]
  /\ linked = {}
  /\ polled = [n \in Node |-> [m \in Node |-> 0]]
  /\ subscribed = [n \in Node |-> {}]
  /\ flush = [n \in Node |-> 0]
  /\ marks = [n \in Node |-> 0]
  /\ next = [n \in Node |-> 0]

At(n, s) == stage[n] = s
Go(n, s) == stage' = [stage EXCEPT ![n] = s]

-----------------------------------------------------------------------------
(* NodeManager::init                                                       *)

\* What m publishes reaches the nodes of T.
Publish(m, T, type) ==
  chan' = [n \in Node |->
             [chan[n] EXCEPT ![m] = IF n \in T THEN Append(@, [type |-> type, info |-> 0]) ELSE @]]

\* The sockets are bound and connected, and the master knows the subscription:
\* as long as it does not, a worker is as good as down.
Start(n) ==
  /\ At(n, "down")
  /\ Go(n, IF n = Master THEN "polls" ELSE "waits")
  /\ remaining' = IF n = Master THEN [remaining EXCEPT ![n] = numNodes - 1] ELSE remaining
  /\ UNCHANGED <<chan, callvars, lost, ctlvars, flushvars>>

\* The master polls; half a second later it reads all that has come.
Poll ==
  /\ At(Master, "polls")
  /\ Publish(Master, {w \in Worker : ~At(w, "down") /\ Len(chan[w][Master]) < Polls}, "MASTERUP")
  /\ Go(Master, "sleeps")
  /\ UNCHANGED <<remaining, callvars, lost, ctlvars, flushvars>>

WorkersUp == Cardinality({x \in Worker \X (1 .. 2 * Polls) : x[2] <= Len(chan[Master][x[1]])})

Drain ==
  /\ At(Master, "sleeps")
  /\ remaining' = [remaining EXCEPT ![Master] = (@ - WorkersUp) % Wrap]
  /\ chan' = [chan EXCEPT ![Master] = [m \in Node |-> <<>>]]
  /\ Go(Master, IF remaining[Master] > WorkersUp THEN "polls" ELSE "done")
  /\ UNCHANGED <<callvars, lost, ctlvars, flushvars>>

InitDone ==
  /\ At(Master, "done")
  /\ Publish(Master, Worker, "INITDONE")
  /\ Go(Master, "hello")
  /\ UNCHANGED <<remaining, callvars, lost, ctlvars, flushvars>>

\* Mutant: a worker answers every MASTERUP.
AnswerEach(w) ==
  /\ At(w, "waits") \/ At(w, "ready")
  /\ chan[w][Master] # <<>> /\ Head(chan[w][Master]).type = "MASTERUP"
  /\ Go(w, "ready")
  /\ lost' \in {lost, lost \cup ({w} \cap MayLose)}
  /\ chan' = [chan EXCEPT ![w][Master] = Tail(@),
                         ![Master][w] = IF w \in lost' THEN @
                                        ELSE Append(@, [type |-> "WORKERUP", info |-> 0])]
  /\ UNCHANGED <<remaining, callvars, ctlvars, flushvars>>

\* A worker answers the first MASTERUP, and waits for INITDONE.  What else it
\* reads meanwhile is gone.
Answer(w) ==
  /\ At(w, "waits")
  /\ chan[w][Master] # <<>> /\ Head(chan[w][Master]).type = "MASTERUP"
  /\ Go(w, "ready")
  /\ lost' \in {lost, lost \cup ({w} \cap MayLose)}
  /\ chan' = [chan EXCEPT ![w][Master] = Tail(@),
                         ![Master][w] = IF w \in lost' THEN @
                                        ELSE Append(@, [type |-> "WORKERUP", info |-> 0])]
  /\ UNCHANGED <<remaining, callvars, ctlvars, flushvars>>

Await(w, m) ==
  LET type == Head(chan[w][m]).type IN
  /\ NM!Take(w, m)
  /\ At(w, "ready") \/ (At(w, "waits") /\ type # "MASTERUP")
  /\ IF At(w, "ready") /\ type = "INITDONE" THEN Go(w, "hello") ELSE UNCHANGED stage
  /\ UNCHANGED <<remaining, callvars, lost, ctlvars, flushvars>>

-----------------------------------------------------------------------------
(* CommManager::init.  A node tells every other node that it is up until   *)
(* it gets an ISEEYOUUP, and answers what it gets meanwhile.  The loop     *)
(* takes the other nodes by turns; here the next turn may be anyone's.     *)

\* The control sockets of a node exist from its CommManager::init on.
HasSockets(n) == stage[n] \notin {"down", "polls", "sleeps", "done", "waits", "ready"}

\* n sends m the messages s.  The first ones may be lost.
SendControl(n, m, c, s) ==
  \/ /\ HasSockets(m)
     /\ ctl' = [c EXCEPT ![m][n] = @ \o s]
     /\ linked' = linked \cup {<<m, n>>}
  \/ /\ <<m, n>> \notin linked
     /\ ctl' = c
     /\ UNCHANGED linked

IAmUp(n, m) ==
  /\ At(n, "hello") /\ m \notin subscribed[n]
  /\ HasSockets(m) /\ polled[n][m] < Polls
  /\ ctl' = [ctl EXCEPT ![m][n] = Append(@, "IAMUP")]
  /\ linked' = linked \cup {<<m, n>>}
  /\ polled' = [polled EXCEPT ![n][m] = @ + 1]
  /\ UNCHANGED <<nodevars, callvars, stage, lost, subscribed, flushvars>>

\* How many messages one turn reads: one, but after an IAMUP all that there are
\* up to an ISEEYOUUP.
TurnReads(s) ==
  LET acks == {i \in DOMAIN s : s[i] = "ISEEYOUUP"} IN
  IF Head(s) # "IAMUP" THEN 1
  ELSE IF acks = {} THEN Len(s)
  ELSE CHOOSE i \in acks : \A j \in acks : i <= j

\* Mutants: an ISEEYOUUP is not answered; an IAMUP is enough.
TurnSilent(n, m) ==
  LET s == ctl[n][m]
      k == TurnReads(s)
      answers == (IF Head(s) = "IAMUP" THEN <<"ISEEYOUUP">> ELSE <<>>) IN
  /\ At(n, "hello") /\ m \notin subscribed[n]
  /\ s # <<>>
  /\ SendControl(n, m, [ctl EXCEPT ![n][m] = SubSeq(s, k + 1, Len(s))], answers)
  /\ subscribed' = IF s[k] = "ISEEYOUUP" THEN [subscribed EXCEPT ![n] = @ \cup {m}] ELSE subscribed
  /\ UNCHANGED <<nodevars, callvars, stage, lost, polled, flushvars>>

TurnHasty(n, m) ==
  LET s == ctl[n][m]
      k == TurnReads(s)
      answers == (IF Head(s) = "IAMUP" THEN <<"ISEEYOUUP">> ELSE <<>>)
                   \o (IF s[k] = "ISEEYOUUP" THEN <<"ISEEYOUUP">> ELSE <<>>) IN
  /\ At(n, "hello") /\ m \notin subscribed[n]
  /\ s # <<>>
  /\ SendControl(n, m, [ctl EXCEPT ![n][m] = SubSeq(s, k + 1, Len(s))], answers)
  /\ subscribed' = [subscribed EXCEPT ![n] = @ \cup {m}]
  /\ UNCHANGED <<nodevars, callvars, stage, lost, polled, flushvars>>

\* One turn answers an IAMUP, or an ISEEYOUUP, or both, with an ISEEYOUUP each.
Turn(n, m) ==
  LET s == ctl[n][m]
      k == TurnReads(s)
      answers == (IF Head(s) = "IAMUP" THEN <<"ISEEYOUUP">> ELSE <<>>)
                   \o (IF s[k] = "ISEEYOUUP" THEN <<"ISEEYOUUP">> ELSE <<>>) IN
  /\ At(n, "hello") /\ m \notin subscribed[n]
  /\ s # <<>>
  /\ SendControl(n, m, [ctl EXCEPT ![n][m] = SubSeq(s, k + 1, Len(s))], answers)
  /\ subscribed' = IF s[k] = "ISEEYOUUP" THEN [subscribed EXCEPT ![n] = @ \cup {m}] ELSE subscribed
  /\ UNCHANGED <<nodevars, callvars, stage, lost, polled, flushvars>>

AllSubscribed(n) == subscribed[n] = Node \ {n}

-----------------------------------------------------------------------------
(* flushData and flushControl, at the end of init and, the other way       *)
(* round, at the end of destroy.                                           *)

FlushData(n) ==
  /\ \/ At(n, "hello") /\ AllSubscribed(n) /\ Go(n, "data")
     \/ At(n, "lastflush") /\ next[n] = numNodes /\ Go(n, "lastdata")
  /\ flush' = [flush EXCEPT ![n] = @ + 1]
  /\ marks' = [m \in Node |-> marks[m] + 1]
  /\ UNCHANGED <<nodevars, callvars, lost, ctlvars, next>>

\* The nodes are taken by number, without oneself.
PeerFrom(n, m) == IF m = n THEN m + 1 ELSE m

\* Mutant: the node does not wait for its own mark.
FlushedDataShort(n) ==
  /\ marks[n] >= numNodes - 1
  /\ marks' = [marks EXCEPT ![n] = @ - (numNodes - 1)]
  /\ \/ At(n, "data") /\ Go(n, "flush") /\ next' = [next EXCEPT ![n] = PeerFrom(n, 0)]
     \/ At(n, "lastdata") /\ Go(n, "closed") /\ UNCHANGED next
  /\ UNCHANGED <<nodevars, callvars, lost, ctlvars, flush>>

\* A node counts marks and not senders.
FlushedData(n) ==
  /\ marks[n] >= numNodes
  /\ marks' = [marks EXCEPT ![n] = @ - numNodes]
  /\ \/ At(n, "data") /\ Go(n, "flush") /\ next' = [next EXCEPT ![n] = PeerFrom(n, 0)]
     \/ At(n, "lastdata") /\ Go(n, "closed") /\ UNCHANGED next
  /\ UNCHANGED <<nodevars, callvars, lost, ctlvars, flush>>

FlushControl(n) ==
  /\ stage[n] \in {"flush", "lastflush"} /\ next[n] < numNodes
  /\ SendControl(n, next[n], ctl, <<"CTRLNONE">>)
  /\ Go(n, IF At(n, "flush") THEN "drain" ELSE "lastdrain")
  /\ UNCHANGED <<nodevars, callvars, lost, polled, subscribed, flushvars>>

\* Reads and drops what there is, up to the CTRLNONE.
FlushedControl(n) ==
  LET s == ctl[n][next[n]]
      ends == {i \in DOMAIN s : s[i] = "CTRLNONE"} IN
  /\ stage[n] \in {"drain", "lastdrain"}
  /\ \E i \in ends :
       /\ \A j \in ends : i <= j
       /\ ctl' = [ctl EXCEPT ![n][next[n]] = SubSeq(s, i + 1, Len(s))]
  /\ Go(n, IF At(n, "drain") THEN "flush" ELSE "lastflush")
  /\ next' = [next EXCEPT ![n] = PeerFrom(n, @ + 1)]
  /\ UNCHANGED <<nodevars, callvars, lost, linked, polled, subscribed, flush, marks>>

-----------------------------------------------------------------------------
(* The run, and Engine::destroy.                                           *)

Up(n) == At(n, "flush") /\ next[n] = numNodes

\* Here all nodes are in the same epoch when they agree on the newest.
Call(n) ==
  /\ Up(n)
  /\ NM!Barriers(n) \/ (NM!Syncs(n) /\ maxEpoch'[n] = announced[n])
  /\ UNCHANGED <<stage, lost, ctlvars, flushvars>>

Destroy(n) ==
  /\ Up(n) /\ op[n] = "idle" /\ calls[n] = Len(Script)
  /\ Go(n, "lastflush")
  /\ next' = [next EXCEPT ![n] = PeerFrom(n, 0)]
  /\ UNCHANGED <<nodevars, callvars, lost, ctlvars, flush, marks>>

-----------------------------------------------------------------------------
Manager(n) ==
  \/ Start(n) \/ Answer(n)
  \/ n = Master /\ (Poll \/ Drain \/ InitDone)
  \/ \E m \in Node : Await(n, m)

Flushes(n) == FlushData(n) \/ FlushedData(n) \/ FlushControl(n) \/ FlushedControl(n)

Runs(n) == Call(n) \/ Destroy(n)

Hello(n) == \E m \in Node \ {n} : IAmUp(n, m) \/ Turn(n, m)

Step(n) == Manager(n) \/ Hello(n) \/ Flushes(n) \/ Runs(n)

Next == \E n \in Node : Step(n)

Spec == Init /\ [][Next]_vars

\* Every node goes on with its program; zmq makes the connection a poll waits
\* for in the end, and polls are repeated for ever.
Fairness == \A n \in Node : WF_vars(Step(n))

FairSpec == Spec /\ Fairness
-----------------------------------------------------------------------------
(* Properties.                                                             *)

Stages == {"down", "polls", "sleeps", "done", "waits", "ready", "hello", "data",
           "flush", "drain", "lastflush", "lastdrain", "lastdata", "closed"}

\* The values the variables may take.  In particular remaining never wraps
\* during init, and no more marks are outstanding than two flushes make.
TypeOK ==
  /\ stage \in [Node -> Stages]
  /\ lost \subseteq MayLose
  /\ op \in [Node -> {"idle", "barrier", "sync"}]
  /\ \A n \in Node : remaining[n] \in 0 .. Wrap - 1 /\ (~HasSockets(n) => remaining[n] < numNodes)
  /\ \A n \in Node : ctl[n] \in [Node -> Seq({"IAMUP", "ISEEYOUUP", "CTRLNONE"})]
  /\ \A n \in Node : marks[n] \in 0 .. 2 * numNodes /\ flush[n] \in 0 .. 2
  /\ \A n \in Node : n \notin subscribed[n] /\ subscribed[n] \subseteq Node

\* A data flush lets nobody out before everybody has begun it, although marks do
\* not say which flush they belong to: a node flushes as in the abstract barrier.
F == INSTANCE Barrier WITH
  entered <- flush,
  left <- [n \in Node |-> IF stage[n] \in {"data", "lastdata"} THEN flush[n] - 1 ELSE flush[n]]
FlushSpec == F!Spec

\* Whoever has subscribed with a node hears it and is heard by it, and once a
\* node is up, nothing of the start-up is left on its control sockets, where
\* controlPullIn asserts that it reads application messages.
ControlClean ==
  \A n \in Node : \A m \in Node \ {n} :
    /\ m \in subscribed[n] => {<<n, m>>, <<m, n>>} \subseteq linked
    /\ Up(n) => ctl[n][m] \in {<<>>, <<"CTRLNONE">>} /\ (ctl[n][m] # <<>> => ~Up(m))

\* Everybody comes up, goes through all collective calls and closes, unless the
\* answer of a worker was lost: it is given only once.
Ends == <>(lost # {} \/ \A n \in Node : At(n, "closed"))

=============================================================================
