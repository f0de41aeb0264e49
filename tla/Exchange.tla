-------------------------------- MODULE Exchange --------------------------------
(***************************************************************************)
(* All graph servers of a cluster in sync mode: each takes its chunks      *)
(* through the phases of the epochs; after each layer they exchange the    *)
(* values of the vertices that others keep as ghosts (engine/ops/          *)
(* pipeline.cpp, gcn_ops.cpp, gat_ops.cpp, verticesPushOut).               *)
(*                                                                         *)
(* The data of a tensor's row is <<v, e>>: the vertex it belongs to and the*)
(* epoch that has computed it.  A phase of a chunk is one action: chunks   *)
(* write rows of their own (ChunkPipeline has its interleavings).  Global  *)
(* barriers do what Barrier promises.  Between two servers messages are in *)
(* order; several receiver threads store them.                             *)
(*                                                                         *)
(* Weight servers may tell the servers of a Lambda build that training has *)
(* converged (CLOSE or DONE); only DONE changes anything in sync mode.     *)
(***************************************************************************)
EXTENDS Tensors, Partition, Channels

CONSTANTS
  Confs,       \* build, gnn, numLayers, numLambdas, numEpochs and graph of a cluster,
               \* and terms: the TERM messages each server gets, in their order
  BatchSize,   \* vertices in a message
  Receivers    \* ghost receiver threads of a server

ASSUME ExchangeOK ==
  /\ \A c \in Confs :
       /\ c.build \in Build /\ c.gnn \in Gnn
       /\ IsGraph(c.graph) /\ c.numLambdas \in Nat \ {0}
       /\ c.numEpochs \in Nat /\ c.numLayers \in Nat /\ c.numLayers > (IF c.gnn = "GCN" THEN 1 ELSE 0)
       /\ c.build # "Lambda" => c.numLambdas = 1
       /\ \A n \in Servers(c.graph) : ProperChunks(LocalVtxCnt(c.graph, n), c.numLambdas)
       /\ c.terms \in [Servers(c.graph) -> Seq({"CLOSE", "DONE"})]
       /\ c.build # "Lambda" \/ c.gnn # "GCN" => \A n \in Servers(c.graph) : c.terms[n] = <<>>
  /\ BatchSize \in Nat \ {0} /\ Receivers \in Nat \ {0}

VARIABLES
  conf,
  chunk, place, todo,          \* chunks, the queues they are in, batches to send
  stage, where, entered,       \* Engine::run, the barrier a server is in, and how many
  currEpoch, schBlock,         \* scheduleAsyncFunc
  scatter, scBlock, layer, currDir,   \* scatterWorkFunc
  recvCnt, ghostVtcsRecvd,     \* acks to come, ghost values stored
  net, hand, checks, receiving,   \* data sockets, ghost receiver threads
  told,                        \* TERM messages that were read, see ConvergeState
  data                         \* savedNNTensors

queues == <<chunk, place, todo>>
run == <<stage, where, entered>>
scheduler == <<currEpoch, schBlock>>
scatterer == <<scatter, scBlock, layer, currDir>>
counters == <<recvCnt, ghostVtcsRecvd>>
receivers == <<hand, checks, receiving, told>>
vars == <<conf, queues, run, scheduler, scatterer, counters, net, receivers, data>>

Node == Servers(conf.graph)
ChunkId == 0..conf.numLambdas - 1
Place == {"sch", "GA", "AV", "SC", "send", "count", "stash", "AE"}
Site == {"", "start", "epoch", "begin", "scatter", "end"}

Inc(c) == IncLayer(conf.gnn, conf.numLayers, c)
Rows(n, i) == ChunkRows(LocalVtxCnt(conf.graph, n), conf.numLambdas, i)
VertexOf(n, r) == CHOOSE v \in Local(conf.graph, n) : LocalId(conf.graph, n, v) = r

TotalGhostCnt(n) == Cardinality(Ghosts(conf.graph, n, currDir[n]))

TensorRows(n, t) ==
  IF IsGhost(t) THEN 0..Cardinality(Ghosts(conf.graph, n, GhostDir(t))) - 1
  ELSE 0..LocalVtxCnt(conf.graph, n) - 1

Init ==
  /\ conf \in Confs
  /\ chunk = [n \in Node |-> [i \in ChunkId |->
       [localId |-> i, layer |-> 0, dir |-> "FORWARD", epoch |-> 1, vertex |-> TRUE]]]
  /\ place = [n \in Node |-> [i \in ChunkId |-> "sch"]]
  /\ todo = [n \in Node |-> [i \in ChunkId |-> {}]]
  /\ stage = [n \in Node |-> "new"]
  /\ where = [n \in Node |-> ""] /\ entered = [n \in Node |-> 0]
  /\ currEpoch = [n \in Node |-> 0] /\ schBlock = [n \in Node |-> TRUE]
  /\ scatter = [n \in Node |-> "run"] /\ scBlock = [n \in Node |-> TRUE]
  /\ layer = [n \in Node |-> 0] /\ currDir = [n \in Node |-> "FORWARD"]
  /\ recvCnt = [n \in Node |-> 0] /\ ghostVtcsRecvd = [n \in Node |-> 0]
  /\ net = [n \in Node |-> [m \in Node |-> <<>>]]
  /\ hand = [n \in Node |-> {}] /\ checks = [n \in Node |-> 0]
  /\ receiving = [n \in Node |-> Receivers] /\ told = [n \in Node |-> 0]
  /\ data = [n \in Node |-> [t \in Tensors(conf.gnn, conf.numLayers) |->
       [r \in TensorRows(n, t) |-> <<0, 0>>]]]

InQueue(n, i, q) == stage[n] = "running" /\ place[n][i] = q
AllIn(n, q) == \A i \in ChunkId : InQueue(n, i, q)

Send(n, i, q, c) ==
  /\ place' = [place EXCEPT ![n][i] = q]
  /\ chunk' = [chunk EXCEPT ![n][i] = c]

-----------------------------------------------------------------------------
(* Global barriers, and Engine::runPipeline around them.                   *)

Enter(n, s) ==
  /\ where' = [where EXCEPT ![n] = s]
  /\ entered' = [entered EXCEPT ![n] = @ + 1]

Leave(n, s) ==
  /\ where[n] = s
  /\ \A m \in Node : entered[m] >= entered[n]
  /\ where' = [where EXCEPT ![n] = ""]
  /\ UNCHANGED entered

StartBarrier(n) ==
  /\ stage[n] = "new" /\ where[n] = ""
  /\ Enter(n, "start")
  /\ UNCHANGED <<conf, queues, stage, scheduler, scatterer, counters, net, receivers, data>>

\* loadChunks; the chunks are in schQueue from Init on, and nobody looks before.
LoadChunks(n) ==
  /\ Leave(n, "start")
  /\ stage' = [stage EXCEPT ![n] = "running"]
  /\ UNCHANGED <<conf, queues, scheduler, scatterer, counters, net, receivers, data>>

\* The scheduler has set pipelineHalt and is joined.
EndBarrier(n) ==
  /\ stage[n] = "halt" /\ where[n] = ""
  /\ Enter(n, "end")
  /\ UNCHANGED <<conf, queues, stage, scheduler, scatterer, counters, net, receivers, data>>

Done(n) ==
  /\ Leave(n, "end")
  /\ stage' = [stage EXCEPT ![n] = "done"]
  /\ UNCHANGED <<conf, queues, scheduler, scatterer, counters, net, receivers, data>>

-----------------------------------------------------------------------------
(* scheduleAsyncFunc in sync mode (Scheduler and ChunkPipeline have more). *)

Schedulable(n, i) ==
  /\ InQueue(n, i, "sch") /\ where[n] = ""
  /\ \A j \in ChunkId : place[n][j] = "sch" => ~Less(chunk[n][i], chunk[n][j])

\* The last state that a weight server has sent.
ConvergeState(n) == IF told[n] \in DOMAIN conf.terms[n] THEN conf.terms[n][told[n]] ELSE "EARLY"

\* All epochs are finished, or the state is DONE when an epoch is.
SchedHalt(n) ==
  /\ \E i \in ChunkId :
       /\ Schedulable(n, i) /\ chunk[n][i].epoch > currEpoch[n]
       /\ chunk[n][i].epoch > conf.numEpochs \/ ConvergeState(n) = "DONE"
  /\ AllIn(n, "sch")
  /\ stage' = [stage EXCEPT ![n] = "halt"]
  /\ UNCHANGED <<conf, queues, where, entered, scheduler, scatterer, counters, net, receivers, data>>

SchedBarrier(n) ==
  /\ \E i \in ChunkId : Schedulable(n, i) /\ chunk[n][i].epoch \in currEpoch[n] + 1..conf.numEpochs
  /\ ConvergeState(n) # "DONE" /\ schBlock[n]
  /\ AllIn(n, "sch")
  /\ Enter(n, "epoch")
  /\ UNCHANGED <<conf, queues, stage, scheduler, scatterer, counters, net, receivers, data>>

SchedUnblock(n) ==
  /\ Leave(n, "epoch")
  /\ schBlock' = [schBlock EXCEPT ![n] = FALSE]
  /\ UNCHANGED <<conf, queues, stage, currEpoch, scatterer, counters, net, receivers, data>>

FirstQueue == IF conf.gnn = "GCN" THEN "GA" ELSE "AV"

SchedStart(n, i) ==
  /\ Schedulable(n, i) /\ chunk[n][i].epoch \in currEpoch[n] + 1..conf.numEpochs
  /\ ConvergeState(n) # "DONE" /\ ~schBlock[n]
  /\ schBlock' = [schBlock EXCEPT ![n] = TRUE]
  /\ currEpoch' = [currEpoch EXCEPT ![n] = @ + 1]
  /\ layer' = [layer EXCEPT ![n] = 0]
  /\ Send(n, i, FirstQueue, chunk[n][i])
  /\ UNCHANGED <<conf, todo, run, scatter, scBlock, currDir, counters, net, receivers, data>>

SchedPass(n, i) ==
  /\ Schedulable(n, i) /\ chunk[n][i].epoch <= currEpoch[n]
  /\ Send(n, i, FirstQueue, chunk[n][i])
  /\ UNCHANGED <<conf, todo, run, scheduler, scatterer, counters, net, receivers, data>>

-----------------------------------------------------------------------------
(* Phases of a chunk.                                                      *)

Write(n, i, c, ph) ==
  data' = [data EXCEPT ![n] = [t \in DOMAIN @ |->
    IF t \notin ph.writes THEN @[t]
    ELSE [r \in DOMAIN @[t] |->
           IF r \notin Rows(n, i) THEN @[t][r]
           ELSE <<VertexOf(n, r), IF Accumulated(conf.build, conf.gnn, t) THEN 0 ELSE c.epoch>>]]]

Gather(n, i) ==
  LET c == chunk[n][i] IN
  /\ InQueue(n, i, "GA")
  /\ Write(n, i, c, Gathering(conf.gnn, conf.numLayers, c))
  /\ IF IsTurn(conf.gnn, conf.numLayers, c)
     THEN Send(n, i, "SC", [c EXCEPT !.dir = "BACKWARD"])
     ELSE Send(n, i, "AV", c)
  /\ UNCHANGED <<conf, todo, run, scheduler, scatterer, counters, net, receivers>>

\* The chunk as applyVertexWorkFunc hands it to NNCompute.
Applied(c) ==
  IF c.dir = "FORWARD" THEN [c EXCEPT !.vertex = TRUE] ELSE Inc([c EXCEPT !.vertex = TRUE])

\* With NNRecvCallback, which sends the chunk on.
ApplyVertex(n, i) ==
  LET c == Applied(chunk[n][i]) IN
  /\ InQueue(n, i, "AV")
  /\ Write(n, i, c, NNCompute(conf.build, conf.gnn, conf.numLayers, c))
  /\ CASE IsLastLayer(c) -> Send(n, i, "sch", Inc(c))
       [] ~IsLastLayer(c) /\ c.dir = "FORWARD" -> Send(n, i, "SC", Inc(c))
       [] OTHER -> Send(n, i, "SC", c)
  /\ UNCHANGED <<conf, todo, run, scheduler, scatterer, counters, net, receivers>>

ApplyEdge(n, i) ==
  LET c == [chunk[n][i] EXCEPT !.vertex = FALSE] IN
  /\ InQueue(n, i, "AE")
  /\ Write(n, i, c, NNCompute(conf.build, conf.gnn, conf.numLayers, c))
  /\ Send(n, i, "GA", c)
  /\ UNCHANGED <<conf, todo, run, scheduler, scatterer, counters, net, receivers>>

-----------------------------------------------------------------------------
(* scatterWorkFunc.                                                        *)

\* Mutant: the values that came in are not counted, only the acks.
CompleteAcked(n) == recvCnt[n] = 0

\* The counters of one direction are complete.  scatterWorkFunc waits while
\* recvCnt > 0, an int: when all chunks are stashed it is not negative (AcksExact).
Complete(n) == recvCnt[n] = 0 /\ ghostVtcsRecvd[n] = TotalGhostCnt(n)

\* Mutant: a server without ghosts does not wait for the others.
ScatterWaitGhosts(n) ==
  /\ where[n] = "" /\ AllIn(n, "stash")
  /\ scatter[n] \in {"run", "woken"}
  /\ \/ /\ ~Complete(n)
        /\ scatter' = [scatter EXCEPT ![n] = "wait"]
        /\ UNCHANGED <<where, entered>>
     \/ /\ Complete(n) /\ TotalGhostCnt(n) = 0
        /\ scatter' = [scatter EXCEPT ![n] = "reset"]
        /\ UNCHANGED <<where, entered>>
     \/ /\ Complete(n) /\ TotalGhostCnt(n) # 0
        /\ scatter' = [scatter EXCEPT ![n] = "barrier"]
        /\ Enter(n, "scatter")
  /\ UNCHANGED <<conf, queues, stage, scheduler, scBlock, layer, currDir, counters, net, receivers, data>>

\* All chunks are stashed: wait for recvCntCond while the counters are not
\* complete, then for the other servers.
ScatterWait(n) ==
  /\ where[n] = "" /\ AllIn(n, "stash")
  /\ scatter[n] \in {"run", "woken"}
  /\ \/ /\ ~Complete(n)
        /\ scatter' = [scatter EXCEPT ![n] = "wait"]
        /\ UNCHANGED <<where, entered>>
     \/ /\ Complete(n)
        /\ scatter' = [scatter EXCEPT ![n] = "barrier"]
        /\ Enter(n, "scatter")
  /\ UNCHANGED <<conf, queues, stage, scheduler, scBlock, layer, currDir, counters, net, receivers, data>>

ScatterLeave(n) ==
  /\ Leave(n, "scatter")
  /\ scatter' = [scatter EXCEPT ![n] = "reset"]
  /\ UNCHANGED <<conf, queues, stage, scheduler, scBlock, layer, currDir, counters, net, receivers, data>>

\* The counters are set back for the next layer and the stash is emptied, here in
\* one step.  The code moves chunk by chunk, and one that is moved may be in its
\* next phases already: they write rows of their own, and the thread that empties
\* the stash is the one that scatters.
ScatterReset(n) ==
  /\ scatter[n] = "reset"
  /\ scatter' = [scatter EXCEPT ![n] = "run"]
  /\ scBlock' = [scBlock EXCEPT ![n] = TRUE]
  /\ recvCnt' = [recvCnt EXCEPT ![n] = 0]
  /\ ghostVtcsRecvd' = [ghostVtcsRecvd EXCEPT ![n] = 0]
  /\ place' = [place EXCEPT ![n] = [i \in ChunkId |-> "AE"]]
  /\ UNCHANGED <<conf, chunk, todo, run, scheduler, layer, currDir, net, receivers, data>>

\* Mutant: no build has it.
NeedsBarrierNever(n) == FALSE

\* "A barrier for pipeline", which the lambda build is compiled without.
NeedsBarrier(n) == conf.build # "Lambda" /\ scBlock[n]

BeginBarrier(n) ==
  /\ NeedsBarrier(n) /\ AllIn(n, "SC")
  /\ where[n] = ""
  /\ Enter(n, "begin")
  /\ UNCHANGED <<conf, queues, stage, scheduler, scatterer, counters, net, receivers, data>>

BeginScatter(n) ==
  /\ Leave(n, "begin")
  /\ scBlock' = [scBlock EXCEPT ![n] = FALSE]
  /\ UNCHANGED <<conf, queues, stage, scheduler, scatter, layer, currDir, counters, net, receivers, data>>

\* scatterGCN and scatterGAT: the chunk's boundary vertices for each receiver,
\* in batches.
Batches(n, i, c) ==
  LET boundary(m) == {v \in GhostMap(conf.graph, n, m, c.dir) :
                        LocalId(conf.graph, n, v) \in Rows(n, i)}
      batch(m, v) == {u \in boundary(m) :
        Cardinality({w \in boundary(m) : w < u}) \div BatchSize
          = Cardinality({w \in boundary(m) : w < v}) \div BatchSize}
  IN UNION {{[to |-> m, vtcs |-> batch(m, v)] : v \in boundary(m)} : m \in Node \ {n}}

ScatterPop(n, i) ==
  LET c == chunk[n][i]
      absLayer == GetAbsLayer(conf.numLayers, c)
  IN
  /\ InQueue(n, i, "SC") /\ ~NeedsBarrier(n) /\ where[n] = ""
  /\ layer' = [layer EXCEPT ![n] = absLayer]
  /\ currDir' = [currDir EXCEPT ![n] = IF absLayer # layer[n] THEN c.dir ELSE @]
  /\ todo' = [todo EXCEPT ![n][i] = Batches(n, i, c)]
  /\ Send(n, i, "send", c)
  /\ UNCHANGED <<conf, run, scheduler, scatter, scBlock, counters, net, receivers, data>>

\* verticesPushOut; the order of the batches does not matter.
VerticesPushOut(n, i) ==
  LET c == chunk[n][i]
      b == CHOOSE x \in todo[n][i] : TRUE
      value(v) == data[n][Sent(conf.gnn, c)][LocalId(conf.graph, n, v)]
  IN
  /\ InQueue(n, i, "send") /\ todo[n][i] # {}
  /\ todo' = [todo EXCEPT ![n][i] = @ \ {b}]
  /\ net' = [net EXCEPT ![n][b.to] = Append(@,
       [kind |-> "data", tensor |-> Stored(conf.gnn, c), dir |-> c.dir, from |-> n,
        rows |-> {<<v, value(v)>> : v \in b.vtcs}])]
  /\ Send(n, i, "count", c)
  /\ UNCHANGED <<conf, run, scheduler, scatterer, counters, receivers, data>>

\* Mutant: messages are counted once per chunk.
CountOnce(n, i) ==
  /\ InQueue(n, i, "count")
  /\ recvCnt' = [recvCnt EXCEPT ![n] = IF todo[n][i] = {} THEN @ + 1 ELSE @]
  /\ Send(n, i, "send", chunk[n][i])
  /\ UNCHANGED <<conf, todo, run, scheduler, scatterer, ghostVtcsRecvd, net, receivers, data>>

\* The ack of the message may have come before.
Count(n, i) ==
  /\ InQueue(n, i, "count")
  /\ recvCnt' = [recvCnt EXCEPT ![n] = @ + 1]
  /\ Send(n, i, "send", chunk[n][i])
  /\ UNCHANGED <<conf, todo, run, scheduler, scatterer, ghostVtcsRecvd, net, receivers, data>>

ScatterStash(n, i) ==
  /\ InQueue(n, i, "send") /\ todo[n][i] = {}
  /\ Send(n, i, "stash", chunk[n][i])
  /\ UNCHANGED <<conf, todo, run, scheduler, scatterer, counters, net, receivers, data>>

-----------------------------------------------------------------------------
(* ghostReceiverGCN and ghostReceiverGAT.                                  *)

FreeReceiver(n) == Cardinality(hand[n]) + checks[n] < receiving[n]

\* Values are acknowledged before they are stored.
RecvValues(n, m) ==
  /\ FreeReceiver(n)
  /\ net[m][n] # <<>> /\ Head(net[m][n]).kind = "data"
  /\ hand' = [hand EXCEPT ![n] = @ \cup {Head(net[m][n])}]
  /\ net' = [net EXCEPT ![m][n] = Tail(@), ![n][m] = Append(@, [kind |-> "ack"])]
  /\ UNCHANGED <<conf, queues, run, scheduler, scatterer, counters, checks, receiving, told, data>>

RecvAck(n, m) ==
  /\ FreeReceiver(n)
  /\ net[m][n] # <<>> /\ Head(net[m][n]).kind = "ack"
  /\ net' = [net EXCEPT ![m][n] = Tail(@)]
  /\ recvCnt' = [recvCnt EXCEPT ![n] = @ - 1]
  /\ checks' = [checks EXCEPT ![n] = @ + 1]
  /\ UNCHANGED <<conf, queues, run, scheduler, scatterer, ghostVtcsRecvd, hand, receiving, told, data>>

StoreValues(n) ==
  /\ \E msg \in hand[n] :
       LET row(v) == GhostRow(conf.graph, n, msg.dir, v)
           stored(r) == {x \in msg.rows : row(x[1]) = r}
       IN
       /\ hand' = [hand EXCEPT ![n] = @ \ {msg}]
       /\ data' = [data EXCEPT ![n][msg.tensor] =
            [r \in DOMAIN @ |-> IF stored(r) = {} THEN @[r] ELSE (CHOOSE x \in stored(r) : TRUE)[2]]]
       /\ ghostVtcsRecvd' = [ghostVtcsRecvd EXCEPT ![n] = @ + Cardinality(msg.rows)]
  /\ checks' = [checks EXCEPT ![n] = @ + 1]
  /\ UNCHANGED <<conf, queues, run, scheduler, scatterer, recvCnt, net, receiving, told>>

\* Mutant: only a server that has sent something is woken.
CheckSenders(n) ==
  /\ checks[n] > 0
  /\ checks' = [checks EXCEPT ![n] = @ - 1]
  /\ scatter' = [scatter EXCEPT ![n] =
       IF @ = "wait" /\ Complete(n) /\ recvCnt[n] > 0 THEN "woken" ELSE @]
  /\ UNCHANGED <<conf, queues, run, scheduler, scBlock, layer, currDir, counters, net, hand, receiving, told, data>>

\* With the lock: signal recvCntCond if the counters are complete.
Check(n) ==
  /\ checks[n] > 0
  /\ checks' = [checks EXCEPT ![n] = @ - 1]
  /\ scatter' = [scatter EXCEPT ![n] = IF @ = "wait" /\ Complete(n) THEN "woken" ELSE @]
  /\ UNCHANGED <<conf, queues, run, scheduler, scBlock, layer, currDir, counters, net, hand, receiving, told, data>>

\* A receiver that finds no message looks at pipelineHalt.  What comes later is
\* drained when all threads are joined, without an ack: it stays in net.
ReceiverEnds(n) ==
  /\ stage[n] \in {"halt", "done"} /\ FreeReceiver(n)
  /\ \A m \in Node : net[m][n] = <<>>
  /\ receiving' = [receiving EXCEPT ![n] = @ - 1]
  /\ UNCHANGED <<conf, queues, run, scheduler, scatterer, counters, net, hand, checks, told, data>>

-----------------------------------------------------------------------------
(* LambdaWorker::worker, the TERM message.                                 *)

\* The chunk's loss has been reported once, by the lambda of the last forward layer.
Reported(c, q) ==
  \/ c.epoch > 1 \/ c.dir = "BACKWARD"
  \/ q = "AV" /\ c.layer = conf.numLayers - 1

\* The weight servers judge the losses of all chunks of all servers (WeightServers),
\* and then send to one server after the other.  Two of their threads may do so at
\* a time, and several threads of a server read: hence an order for each server.
RecvTerm(n) ==
  /\ told[n] < Len(conf.terms[n])
  /\ \A m \in Node, i \in ChunkId : Reported(chunk[m][i], place[m][i])
  /\ told' = [told EXCEPT ![n] = @ + 1]
  /\ UNCHANGED <<conf, queues, run, scheduler, scatterer, counters, net, hand, checks, receiving, data>>

-----------------------------------------------------------------------------
Main(n) == StartBarrier(n) \/ LoadChunks(n) \/ EndBarrier(n) \/ Done(n)

Schedule(n) ==
  \/ SchedHalt(n) \/ SchedBarrier(n) \/ SchedUnblock(n)
  \/ \E i \in ChunkId : SchedStart(n, i) \/ SchedPass(n, i)

Work(n, i) == Gather(n, i) \/ ApplyVertex(n, i) \/ ApplyEdge(n, i)

Scatter(n) ==
  \/ ScatterWait(n) \/ ScatterLeave(n) \/ ScatterReset(n) \/ BeginBarrier(n) \/ BeginScatter(n)
  \/ \E i \in ChunkId :
       ScatterPop(n, i) \/ VerticesPushOut(n, i) \/ Count(n, i) \/ ScatterStash(n, i)

Receive(n) ==
  \/ \E m \in Node \ {n} : RecvValues(n, m) \/ RecvAck(n, m)
  \/ StoreValues(n) \/ Check(n)

\* All have ended, or a server waits forever (see Ends).
Stopped ==
  /\ UNCHANGED vars
  /\ \A n \in Node : stage[n] = "done" \/ where[n] # "" \/ scatter[n] = "wait"
  /\ \A n \in Node : hand[n] = {} /\ checks[n] = 0
  /\ \A n \in Node : receiving[n] = 0 \/ \A m \in Node : net[m][n] = <<>>

Next ==
  \/ \E n \in Node : Main(n) \/ Schedule(n) \/ Scatter(n) \/ Receive(n)
  \/ \E n \in Node : \E i \in ChunkId : Work(n, i)
  \/ \E n \in Node : ReceiverEnds(n) \/ RecvTerm(n)
  \/ Stopped

Spec == Init /\ [][Next]_vars

\* While some thread can take a step, one does: no step is repeated, so that this
\* is all that the threads' fairness comes to.
FairSpec == Spec /\ WF_vars(Next)

-----------------------------------------------------------------------------
(* Properties.                                                             *)

Value == Vertices(conf.graph) \X (0..conf.numEpochs) \cup {<<0, 0>>}

\* Every variable has its type; a chunk's layer has its tensors, and a tensor's
\* row is that of one of the vertices.
TypeOK ==
  /\ conf \in Confs
  /\ chunk \in [Node -> [ChunkId -> Chunk]]
  /\ \A n \in Node, i \in ChunkId :
       chunk[n][i].layer <= (IF conf.gnn = "GCN" THEN conf.numLayers - 1 ELSE conf.numLayers)
  /\ place \in [Node -> [ChunkId -> Place]]
  /\ stage \in [Node -> {"new", "running", "halt", "done"}]
  /\ where \in [Node -> Site] /\ entered \in [Node -> Nat]
  /\ currEpoch \in [Node -> 0..conf.numEpochs] /\ schBlock \in [Node -> BOOLEAN]
  /\ scatter \in [Node -> {"run", "wait", "woken", "barrier", "reset"}]
  /\ scBlock \in [Node -> BOOLEAN]
  /\ layer \in [Node -> 0..2 * conf.numLayers] /\ currDir \in [Node -> PropType]
  /\ recvCnt \in [Node -> Int] /\ ghostVtcsRecvd \in [Node -> Nat]
  /\ checks \in [Node -> 0..Receivers] /\ receiving \in [Node -> 0..Receivers]
  /\ told \in [Node -> Nat] /\ \A n \in Node : told[n] <= Len(conf.terms[n])
  /\ \A n \in Node, t \in Tensors(conf.gnn, conf.numLayers) :
       \A r \in TensorRows(n, t) : data[n][t][r] \in Value

\* The chunk as its next phase sees it, and that phase.
NextChunk(n, i) ==
  CASE place[n][i] = "AV" -> Applied(chunk[n][i])
    [] place[n][i] = "AE" -> [chunk[n][i] EXCEPT !.vertex = FALSE]
    [] OTHER -> chunk[n][i]

NextPhase(n, i) ==
  LET c == NextChunk(n, i) IN
  CASE place[n][i] = "GA" -> Gathering(conf.gnn, conf.numLayers, c)
    [] place[n][i] = "AV" -> NNCompute(conf.build, conf.gnn, conf.numLayers, c)
    [] place[n][i] = "AE" -> NNCompute(conf.build, conf.gnn, conf.numLayers, c)
    [] place[n][i] \in {"SC", "send"} -> Phase({Sent(conf.gnn, c)}, {}, {}, {})
    [] OTHER -> NoPhase

OwnFresh(n, i, t) ==
  \A r \in Rows(n, i) : data[n][t][r] = <<VertexOf(n, r), chunk[n][i].epoch>>

NeighboursFresh(n, i, w, neighbours(_), dir) ==
  \A r \in Rows(n, i) : \A u \in neighbours(VertexOf(n, r)) :
    (IF u \in Local(conf.graph, n) THEN data[n][w.own][LocalId(conf.graph, n, u)]
     ELSE data[n][w.ghost][GhostRow(conf.graph, n, dir, u)]) = <<u, chunk[n][i].epoch>>

PhaseFresh(n, i, exempt) ==
  LET ph == NextPhase(n, i)
      inOf(v) == InNeighbours(conf.graph, v)
      outOf(v) == OutNeighbours(conf.graph, v)
  IN /\ \A t \in ph.own \ exempt : OwnFresh(n, i, t)
     /\ \A w \in ph.inn : NeighboursFresh(n, i, w, inOf, "FORWARD")
     /\ \A w \in ph.out : NeighboursFresh(n, i, w, outOf, "BACKWARD")

\* The epoch is synchronous across servers: whatever a phase reads, of the
\* chunk's own vertices and of their neighbours on all servers, is what this
\* epoch has computed for that vertex, neither older nor newer nor another
\* vertex's (except for what Tensors names as never of its epoch).
InputsFresh ==
  \A n \in Node, i \in ChunkId :
    PhaseFresh(n, i, {t \in Tensors(conf.gnn, conf.numLayers) :
                        \/ Accumulated(conf.build, conf.gnn, t)
                        \/ NeverWritten(conf.build, conf.gnn, t)})

\* A server that weight servers may tell DONE, and one that has stopped for it.
MayStop(n) == \E k \in DOMAIN conf.terms[n] : conf.terms[n][k] = "DONE"
LeavesEarly(n) == where[n] = "end" /\ currEpoch[n] < conf.numEpochs /\ MayStop(n)

\* The servers' barriers match: the k-th barrier of all servers is the same call
\* at the same point of the training.  The one exception is the barrier that waits
\* for all servers to finish: a server that was told DONE calls it after any epoch,
\* whatever the others, not yet told, are waiting for; so it does not "wait for all
\* nodes to finish" (engine.cpp:288), see LeftBehind.
SameBarrier ==
  \A n \in Node, m \in Node :
    where[n] # "" /\ where[m] # "" /\ entered[n] = entered[m]
      => \/ where[n] = where[m] /\ currEpoch[n] = currEpoch[m] /\ layer[n] = layer[m]
         \/ LeavesEarly(n) \/ LeavesEarly(m)

\* recvCnt counts the messages whose ack has not come, except that a message is
\* counted after it was sent.
AcksExact ==
  \A n \in Node :
    recvCnt[n] = Cardinality(SentBy(net, n, "data")) + Cardinality(SentTo(net, n, "ack"))
                   - Cardinality({i \in ChunkId : place[n][i] = "count"})

\* When a server sets its counters back, no value of a later layer is in them,
\* thanks to the barrier at the begin of the scatter phase; without it, in the
\* lambda build, such values are lost from the count.
NothingUncounted == \A n \in Node : conf.build # "Lambda" /\ scatter[n] = "reset" => Complete(n)

\* When the servers start, and nothing changes it later, what dataloader and
\* loadChunks prepared fits together on all servers: ghosts
\* have one sender and rows of their own, neighbours are at hand, chunks share
\* out the vertices, and in a directed graph the degrees of ghosts are right.
PartitionOK ==
  LET g == conf.graph IN
  (\A n \in Node : stage[n] = "new") =>
    /\ GhostsServed(g) /\ GhostRowsApart(g) /\ NeighboursKept(g)
    /\ \A n \in Node : ChunksCover(LocalVtxCnt(g, n), conf.numLambdas)
    /\ ~g.undirected => \A v \in Vertices(g) : NumInEdges(g, v) = GhostDegree(g, v)

\* A server of the lambda build waits for values it has uncounted.
Lost ==
  /\ conf.build = "Lambda"
  /\ \E n \in Node : scatter[n] = "wait" /\ ~Complete(n) /\ recvCnt[n] = 0
  /\ \A n \in Node : hand[n] = {} /\ checks[n] = 0 /\ \A m \in Node : net[n][m] = <<>>

\* A server has stopped early and another one, told too late or not at all, has gone
\* on: it waits for ever, for values, for acks or at a barrier.
LeftBehind ==
  \E n \in Node, m \in Node :
    /\ stage[n] \in {"halt", "done"} /\ currEpoch[n] < conf.numEpochs /\ MayStop(n)
    /\ \/ currEpoch[m] > currEpoch[n]
       \/ stage[n] = "done" /\ entered[m] > entered[n]

\* The training ends on every server, unless values were lost from a count or DONE
\* reached the servers at different epochs; in both cases the code hangs.
Ends == <>((\A n \in Node : stage[n] = "done") \/ Lost \/ LeftBehind)

=============================================================================
