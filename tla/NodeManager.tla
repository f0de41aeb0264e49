------------------------------ MODULE NodeManager ------------------------------
(***************************************************************************)
(* The node manager of the graph servers (nodemanager/nodemanager.cpp):    *)
(* global barriers, broadcast of finished epochs, and the agreement on the *)
(* newest epoch, all on one PUB socket and one SUB socket per node.  The   *)
(* nodes are started (init has run) and not stand-alone.                   *)
(*                                                                         *)
(* The clients are the engine's threads.  One of them makes the collective *)
(* calls, barrier() and syncCurrEpoch(), in the order of the program they  *)
(* all run (Script).  Others announce epochs that this node has finished   *)
(* and read what has come in (resource_comm.cpp:28, pipeline.cpp:97), at   *)
(* any time but during a barrier, which is entered with no chunk under way.*)
(* The asynchronous pipeline starts with epoch 2: the first epoch is run in*)
(* sync mode and announced by nobody.                                      *)
(***************************************************************************)
EXTENDS Integers, Sequences, FiniteSets

CONSTANTS
  Node,        \* the graph servers
  Script,      \* the collective calls every node makes, in order
  MaxEpoch,    \* the last epoch, Engine::numEpochs
  Staleness,   \* Engine::staleness
  Wrap         \* 2^32: unsigned arithmetic is modulo Wrap

NumNodes == Cardinality(Node)
NodeMessage == [type : {"BARRIER", "MINEPOCH", "MAXEPOCH"}, info : Nat]

ASSUME NodeManagerOK ==
  /\ IsFiniteSet(Node)
  /\ Script \in Seq({"barrier", "sync"})
  /\ MaxEpoch \in Nat /\ Staleness \in Nat
  /\ Wrap \in Nat /\ Wrap > NumNodes

VARIABLES
  chan,                 \* chan[n][m]: what m has published and n not yet read
  op,                   \* the collective call a node is in, or "idle"
  calls,                \* number of collective calls a node has made
  entered,              \* how many of them are barriers
  remaining,            \* NodeManager::remaining, unsigned
  received, maxEpoch,   \* local variables of syncCurrEpoch
  announced,            \* the newest epoch a node has announced
  minEpoch, nodesFinishedEpoch    \* the engine's

syncvars == <<received, maxEpoch>>
epochvars == <<minEpoch, nodesFinishedEpoch>>
vars == <<chan, op, calls, entered, remaining, syncvars, announced, epochvars>>

Slot(e) == e % (Staleness + 1)

Init ==
  /\ chan = [n \in Node |-> [m \in Node |-> <<>>]]
  /\ op = [n \in Node |-> "idle"]
  /\ calls = [n \in Node |-> 0]
  /\ entered = [n \in Node |-> 0]
  /\ remaining = [n \in Node |-> 0]
  /\ received = [n \in Node |-> 0]
  /\ maxEpoch = [n \in Node |-> 0]
  /\ announced = [n \in Node |-> 1]
  /\ minEpoch = [n \in Node |-> 2]
  /\ nodesFinishedEpoch = [n \in Node |-> [s \in 0..Staleness |-> 0]]

-----------------------------------------------------------------------------
(* Messages.  Everybody subscribes to everybody, also to itself; what one  *)
(* node publishes arrives in order.                                        *)

\* The info of a BARRIER message is not in the code, which sends none: it says
\* which barrier of the sender the message belongs to and nothing reads it.
PublishMsg(m, type, info) ==
  chan' = [n \in Node |->
             [chan[n] EXCEPT ![m] = Append(@, [type |-> type, info |-> info])]]

Take(n, m) ==
  /\ chan[n][m] # <<>>
  /\ chan' = [chan EXCEPT ![n][m] = Tail(@)]

\* One more node has finished epoch e: the last one opens the next epoch.
CountFinished(n, e) ==
  LET all == nodesFinishedEpoch[n][Slot(e)] + 1 = NumNodes IN
  /\ nodesFinishedEpoch' =
       [nodesFinishedEpoch EXCEPT ![n][Slot(e)] = IF all THEN 0 ELSE @ + 1]
  /\ minEpoch' = IF all THEN [minEpoch EXCEPT ![n] = @ + 1] ELSE minEpoch

\* Mutants: remaining is signed; a node counts its own announcement twice.
ParseSigned(n, m, msg) ==
  \/ /\ msg.type = "BARRIER"
     /\ remaining' = [remaining EXCEPT ![n] = @ - 1]
     /\ UNCHANGED epochvars
  \/ /\ msg.type = "MINEPOCH" /\ m # n
     /\ CountFinished(n, msg.info)
     /\ UNCHANGED remaining
  \/ /\ msg.type = "MAXEPOCH" \/ (msg.type = "MINEPOCH" /\ m = n)
     /\ UNCHANGED <<remaining, epochvars>>

ParseOwn(n, m, msg) ==
  \/ /\ msg.type = "BARRIER"
     /\ remaining' = [remaining EXCEPT ![n] = (@ - 1) % Wrap]
     /\ UNCHANGED epochvars
  \/ /\ msg.type = "MINEPOCH"
     /\ CountFinished(n, msg.info)
     /\ UNCHANGED remaining
  \/ /\ msg.type = "MAXEPOCH"
     /\ UNCHANGED <<remaining, epochvars>>

\* parseNodeMsg: MINEPOCH messages of the node itself and MAXEPOCH messages
\* have no effect.
ParseNodeMsg(n, m, msg) ==
  \/ /\ msg.type = "BARRIER"
     /\ remaining' = [remaining EXCEPT ![n] = (@ - 1) % Wrap]
     /\ UNCHANGED epochvars
  \/ /\ msg.type = "MINEPOCH" /\ m # n
     /\ CountFinished(n, msg.info)
     /\ UNCHANGED remaining
  \/ /\ msg.type = "MAXEPOCH" \/ (msg.type = "MINEPOCH" /\ m = n)
     /\ UNCHANGED <<remaining, epochvars>>

-----------------------------------------------------------------------------
(* barrier                                                                 *)

Calls(n, call) ==
  /\ op[n] = "idle"
  /\ calls[n] < Len(Script) /\ Script[calls[n] + 1] = call
  /\ op' = [op EXCEPT ![n] = call]
  /\ calls' = [calls EXCEPT ![n] = @ + 1]

\* Mutants: what came early is forgotten; the node does not wait for itself.
BarrierCallReset(n) ==
  /\ Calls(n, "barrier")
  /\ entered' = [entered EXCEPT ![n] = @ + 1]
  /\ PublishMsg(n, "BARRIER", entered[n] + 1)
  /\ remaining' = [remaining EXCEPT ![n] = NumNodes]
  /\ UNCHANGED <<syncvars, announced, epochvars>>

BarrierCallShort(n) ==
  /\ Calls(n, "barrier")
  /\ entered' = [entered EXCEPT ![n] = @ + 1]
  /\ PublishMsg(n, "BARRIER", entered[n] + 1)
  /\ remaining' = [remaining EXCEPT ![n] = (@ + NumNodes - 1) % Wrap]
  /\ UNCHANGED <<syncvars, announced, epochvars>>

BarrierCall(n) ==
  /\ Calls(n, "barrier")
  /\ entered' = [entered EXCEPT ![n] = @ + 1]
  /\ PublishMsg(n, "BARRIER", entered[n] + 1)
  /\ remaining' = [remaining EXCEPT ![n] = (@ + NumNodes) % Wrap]
  /\ UNCHANGED <<syncvars, announced, epochvars>>

BarrierRecv(n, m) ==
  /\ op[n] = "barrier" /\ remaining[n] > 0
  /\ Take(n, m)
  /\ ParseNodeMsg(n, m, Head(chan[n][m]))
  /\ UNCHANGED <<op, calls, entered, syncvars, announced>>

BarrierReturn(n) ==
  /\ op[n] = "barrier" /\ remaining[n] = 0
  /\ op' = [op EXCEPT ![n] = "idle"]
  /\ UNCHANGED <<chan, calls, entered, remaining, syncvars, announced, epochvars>>

-----------------------------------------------------------------------------
(* syncCurrEpoch.  A node calls it with the newest epoch it has started,   *)
(* which may be ahead of the newest it has finished and announced.         *)

SyncCall(n) ==
  /\ Calls(n, "sync")
  /\ \E epoch \in announced[n] .. minEpoch[n] + Staleness :
       /\ PublishMsg(n, "MAXEPOCH", epoch)
       /\ maxEpoch' = [maxEpoch EXCEPT ![n] = epoch]
  /\ received' = [received EXCEPT ![n] = 0]
  /\ UNCHANGED <<entered, remaining, announced, epochvars>>

SyncRecv(n, m) ==
  LET msg == Head(chan[n][m]) IN
  /\ op[n] = "sync" /\ received[n] < NumNodes
  /\ Take(n, m)
  /\ \/ /\ msg.type = "MAXEPOCH"
        /\ received' = [received EXCEPT ![n] = @ + 1]
        /\ maxEpoch' = [maxEpoch EXCEPT ![n] = IF msg.info > @ THEN msg.info ELSE @]
        /\ UNCHANGED <<remaining, epochvars>>
     \/ /\ msg.type # "MAXEPOCH"
        /\ ParseNodeMsg(n, m, msg)
        /\ UNCHANGED syncvars
  /\ UNCHANGED <<op, calls, entered, announced>>

\* Mutant: the node does not wait for the last answer.
SyncReturnShort(n) ==
  /\ op[n] = "sync" /\ received[n] >= NumNodes - 1
  /\ op' = [op EXCEPT ![n] = "idle"]
  /\ UNCHANGED <<chan, calls, entered, remaining, syncvars, announced, epochvars>>

SyncReturn(n) ==
  /\ op[n] = "sync" /\ received[n] = NumNodes
  /\ op' = [op EXCEPT ![n] = "idle"]
  /\ UNCHANGED <<chan, calls, entered, remaining, syncvars, announced, epochvars>>

-----------------------------------------------------------------------------
(* sendEpochUpdate, and one message of readEpochUpdates.  No chunk starts  *)
(* an epoch beyond minEpoch + Staleness, so none is finished there.        *)

SendEpochUpdate(n) ==
  /\ op[n] # "barrier"
  /\ announced[n] < MaxEpoch /\ announced[n] < minEpoch[n] + Staleness
  /\ announced' = [announced EXCEPT ![n] = @ + 1]
  /\ PublishMsg(n, "MINEPOCH", announced[n] + 1)
  /\ CountFinished(n, announced[n] + 1)
  /\ UNCHANGED <<op, calls, entered, remaining, syncvars>>

ReadEpochUpdates(n, m) ==
  /\ op[n] # "barrier"
  /\ Take(n, m)
  /\ ParseNodeMsg(n, m, Head(chan[n][m]))
  /\ UNCHANGED <<op, calls, entered, syncvars, announced>>

-----------------------------------------------------------------------------
Barriers(n) == BarrierCall(n) \/ (\E m \in Node : BarrierRecv(n, m)) \/ BarrierReturn(n)

Syncs(n) == SyncCall(n) \/ (\E m \in Node : SyncRecv(n, m)) \/ SyncReturn(n)

Updates(n) == SendEpochUpdate(n) \/ \E m \in Node : ReadEpochUpdates(n, m)

Next == \E n \in Node : Barriers(n) \/ Syncs(n) \/ Updates(n)

Spec == Init /\ [][Next]_vars

\* A node goes on through its program, and zmq delivers; whether and when it
\* finishes epochs or reads updates of the others is left to chance.
Fairness == \A n \in Node : WF_vars(Barriers(n)) /\ WF_vars(Syncs(n))

FairSpec == Spec /\ Fairness

-----------------------------------------------------------------------------
(* Properties.                                                             *)

left == [n \in Node |-> IF op[n] = "barrier" THEN entered[n] - 1 ELSE entered[n]]

\* The values the variables may take.
TypeOK ==
  /\ chan \in [Node -> [Node -> Seq(NodeMessage)]]
  /\ op \in [Node -> {"idle", "barrier", "sync"}]
  /\ calls \in [Node -> 0..Len(Script)]
  /\ entered \in [Node -> Nat]
  /\ remaining \in [Node -> 0..(Wrap - 1)]
  /\ received \in [Node -> Nat]
  /\ maxEpoch \in [Node -> Nat]
  /\ announced \in [Node -> Nat]
  /\ minEpoch \in [Node -> Nat]
  /\ nodesFinishedEpoch \in [Node -> [0..Staleness -> Nat]]

\* Nobody leaves its k-th barrier before everybody has entered theirs, although
\* BARRIER messages are only counted: those of a fast node for its next barrier
\* may be taken for those of a slow node, or be read before the reader's own.
NobodyLeavesEarly == \A n, m \in Node : left[n] <= entered[m]

\* The numbers of the BARRIER messages in a channel, and <<sender, number>> of
\* all those that n has read.
Unread(s) == {s[i].info : i \in {j \in DOMAIN s : s[j].type = "BARRIER"}}

Heard(n) ==
  {h \in Node \X (1..Len(Script)) : h[2] <= entered[h[1]] /\ h[2] \notin Unread(chan[n][h[1]])}

Balance(n) == NumNodes * entered[n] - Cardinality(Heard(n))

\* remaining is what a node has still to hear for the barriers it has entered,
\* modulo Wrap: outside barriers messages that came early take it below zero,
\* but by less than one barrier's worth, so the next addition makes it good.
RemainingExact ==
  \A n \in Node :
    /\ remaining[n] = Balance(n) % Wrap
    /\ IF op[n] = "barrier" THEN Balance(n) \in 0..NumNodes
                             ELSE Balance(n) \in (1 - NumNodes)..0

\* An epoch is opened to a node only after all nodes have finished the one that
\* is Staleness + 1 before it, although the ring of counters tells apart only
\* Staleness + 1 epochs and does not know who has announced what.
BoundedStaleness ==
  \A n, m \in Node : minEpoch[n] <= announced[m] + 1

\* The agreements on the newest epoch that a node has come out of.
Agreed(n) ==
  Cardinality({i \in 1 .. calls[n] : Script[i] = "sync"}) - (IF op[n] = "sync" THEN 1 ELSE 0)

\* All nodes that come out of an agreement go on up to the same epoch (it is where
\* they all stop, pipeline.cpp:58), although a node that reads epoch updates may
\* eat the message of another, and each only counts what it hears.
SyncAgrees ==
  \A n, m \in Node :
    op[n] # "sync" /\ op[m] # "sync" /\ Agreed(n) = Agreed(m) /\ Agreed(n) > 0
      => maxEpoch[n] = maxEpoch[m]

\* The nodes' barriers implement the abstract ones.
B == INSTANCE Barrier
BarrierSpec == B!Spec

-----------------------------------------------------------------------------
(* What a comment in the source says and the code does not keep.           *)

\* "Keep receiving messages until heard from all (including self)"
\* (nodemanager.cpp:212): when all nodes call syncCurrEpoch, all get out of it.
SyncReturns == \A n \in Node : op[n] = "sync" ~> op[n] # "sync"

=============================================================================
