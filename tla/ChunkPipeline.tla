----------------------------- MODULE ChunkPipeline -----------------------------
(***************************************************************************)
(* The pipeline of one graph server: chunks travel through the queues of   *)
(* the engine (engine/ops/pipeline.cpp), LambdaComm runs a lambda for each *)
(* vertex and edge phase and relaunches it after a timeout, LambdaWorkers  *)
(* serve the lambdas' requests, and NNRecvCallback sends the chunk on.     *)
(*                                                                         *)
(* A request is served by one of the workers; its steps are those of the   *)
(* lambda that sent it.  A work function holds a chunk between its pop and *)
(* its push, which nobody can see: it is one action.  Clock values are     *)
(* abstracted: timeoutTable is the set of its keys, and the relaunch thread*)
(* may find any of them overdue at any time.                               *)
(*                                                                         *)
(* The other graph servers are seen through barriers, which this module    *)
(* takes to be passed (NodeManager), and through the epochs they announce. *)
(* convergeState stays EARLY.                                              *)
(***************************************************************************)
EXTENDS ChunkOrder, FiniteSets

CONSTANTS
  Id,        \* local ids of the chunks, numLambdasForward of them
  Slot,      \* bound on the lambdas that run at the same time
  Confs,     \* gnn_type, numLayers, staleness, numEpochs, async of a start-up
  MaxFail    \* bound on the lambdas that die

Queue == {"sch", "GA", "AV", "SC", "stash", "AE"}

ASSUME ChunkPipelineOK ==
  /\ Id \subseteq Nat /\ IsFiniteSet(Id)
  /\ Slot \cap (Queue \cup {"table"}) = {}
  /\ Confs \subseteq [gnn : Gnn, numLayers : Nat \ {0}, staleness : Nat,
                      numEpochs : Nat, async : BOOLEAN]
  /\ \A c \in Confs : c.gnn = "GCN" => c.numLayers > 1
  /\ MaxFail \in Nat

VARIABLES
  conf,                       \* the engine's parameters
  queue,                      \* the engine's priority queues
  currEpoch, minEpoch, async, block, pipelineHalt,   \* the scheduler
  numFinishedEpoch,           \* ring: chunks that have finished an epoch
  announced, peer,            \* newest epoch announced here, and by all others
  timeoutTable,               \* LambdaComm: chunks that wait for a lambda
  recordTable,                \* LambdaComm: layers some lambda has finished
  lam, pushed, fails          \* the lambdas, the gradients they pushed

engine == <<currEpoch, async, block, pipelineHalt>>
epochs == <<numFinishedEpoch, announced, peer>>
lambdas == <<lam, pushed, fails>>
vars == <<conf, queue, engine, minEpoch, epochs, timeoutTable, recordTable, lambdas>>

NoChunk == [localId |-> 0, layer |-> 0, dir |-> "FORWARD", epoch |-> 0, vertex |-> TRUE]
Idle == [st |-> "none", chunk |-> NoChunk]
NumLambdas == Cardinality(Id)

AbsLayer(c) == GetAbsLayer(conf.numLayers, c)
Inc(c) == IncLayer(conf.gnn, conf.numLayers, c)
Ring(e) == e % (conf.staleness + 1)

Init ==
  /\ conf \in Confs
  /\ queue = [q \in Queue |->
       IF q = "sch"
       THEN {[localId |-> i, layer |-> 0, dir |-> "FORWARD", epoch |-> 1, vertex |-> TRUE] : i \in Id}
       ELSE {}]
  /\ currEpoch = 0 /\ minEpoch = 1
  /\ async = FALSE /\ block = TRUE /\ pipelineHalt = FALSE
  /\ numFinishedEpoch = [r \in 0..conf.staleness |-> 0]
  /\ announced = 1 /\ peer = 1
  /\ timeoutTable = {} /\ recordTable = {}
  /\ lam = [s \in Slot |-> Idle]
  /\ pushed = {} /\ fails = 0

-----------------------------------------------------------------------------
(* Queues.                                                                 *)

IsTop(q, c) == c \in queue[q] /\ \A d \in queue[q] : ~Less(c, d)

Move(from, c, to, d) ==
  queue' = [queue EXCEPT ![from] = @ \ {c}, ![to] = @ \cup {d}]

Push(q, c) == queue' = [queue EXCEPT ![q] = @ \cup {c}]
Pop(q, c) == queue' = [queue EXCEPT ![q] = @ \ {c}]

-----------------------------------------------------------------------------
(* LambdaComm: launching and relaunching.                                  *)

Invoke(s, c) ==
  /\ lam[s] = Idle
  /\ lam' = [lam EXCEPT ![s] = [st |-> "start", chunk |-> c]]

\* NNCompute; a chunk that is there already is reported and dropped.
NNCompute(c) ==
  /\ IF c \in timeoutTable
     THEN UNCHANGED <<timeoutTable, lam>>
     ELSE /\ timeoutTable' = timeoutTable \cup {c}
          /\ \E s \in Slot : Invoke(s, c)
  /\ UNCHANGED <<recordTable, pushed, fails>>

\* Mutant: the time is reset but no lambda is invoked.
RelaunchNothing(c) ==
  /\ c \in timeoutTable /\ AbsLayer(c) \in recordTable
  /\ UNCHANGED <<timeoutTable, recordTable, lambdas>>

\* asyncRelaunchLoop finds an entry overdue.  It may be a fresh one: currTS is
\* older than what was entered since, and the difference is unsigned.  Layers
\* that no lambda has finished yet are skipped.
RelaunchLambda(c) ==
  /\ c \in timeoutTable /\ AbsLayer(c) \in recordTable
  /\ \E s \in Slot : Invoke(s, c)
  /\ UNCHANGED <<timeoutTable, recordTable, pushed, fails>>

\* The loop goes through the table without its lock: the entry it has found
\* overdue may be erased, and its memory reused for another one, before
\* relaunchLambda looks it up.
RelaunchOther(c) ==
  /\ c \in timeoutTable /\ recordTable # {}
  /\ \E s \in Slot : Invoke(s, c)
  /\ UNCHANGED <<timeoutTable, recordTable, pushed, fails>>

-----------------------------------------------------------------------------
(* The engine's work functions.                                            *)

\* Where a chunk goes when the scheduler lets it start an epoch.
FirstQueue == IF conf.gnn = "GCN" THEN "GA" ELSE "AV"

\* Mutant: the first chunk that is through ends the run.
SchedHaltEarly(c) ==
  /\ c.epoch > currEpoch /\ c.epoch > conf.numEpochs
  /\ pipelineHalt' = TRUE
  /\ UNCHANGED <<queue, currEpoch, minEpoch, async, block>>

\* (1): all chunks have finished numEpochs.
SchedHalt(c) ==
  /\ c.epoch > currEpoch /\ c.epoch > conf.numEpochs
  /\ Cardinality(queue["sch"]) = NumLambdas
  /\ pipelineHalt' = TRUE
  /\ UNCHANGED <<queue, currEpoch, minEpoch, async, block>>

\* (4.1): in sync mode an epoch starts when all chunks have come, after a barrier.
SchedBarrier(c) ==
  /\ c.epoch > currEpoch /\ c.epoch <= conf.numEpochs
  /\ ~async /\ block
  /\ Cardinality(queue["sch"]) = NumLambdas
  /\ block' = FALSE
  /\ UNCHANGED <<queue, currEpoch, minEpoch, async, pipelineHalt>>

\* Mutant: the bound is one epoch too large.
SchedStartLate(c) ==
  /\ c.epoch > currEpoch /\ c.epoch <= conf.numEpochs
  /\ IF async THEN c.epoch <= minEpoch + conf.staleness + 1 ELSE ~block
  /\ currEpoch' = currEpoch + 1
  /\ block' = (currEpoch = 0 \/ (~async /\ currEpoch >= minEpoch) \/ block)
  /\ async' = IF currEpoch = 0 THEN FALSE ELSE IF currEpoch = 1 THEN conf.async ELSE async
  /\ minEpoch' = IF currEpoch = 1 THEN minEpoch + 1 ELSE minEpoch
  /\ Move("sch", c, FirstQueue, c)
  /\ UNCHANGED pipelineHalt

\* (3), (4.2), (5): the first chunk of an epoch, within the staleness bound or
\* after the barrier.  Epoch 1 is run in sync mode; epoch 2 switches to async.
SchedStart(c) ==
  /\ c.epoch > currEpoch /\ c.epoch <= conf.numEpochs
  /\ IF async THEN c.epoch <= minEpoch + conf.staleness ELSE ~block
  /\ currEpoch' = currEpoch + 1
  /\ block' = (currEpoch = 0 \/ (~async /\ currEpoch >= minEpoch) \/ block)
  /\ async' = IF currEpoch = 0 THEN FALSE ELSE IF currEpoch = 1 THEN conf.async ELSE async
  /\ minEpoch' = IF currEpoch = 1 THEN minEpoch + 1 ELSE minEpoch
  /\ Move("sch", c, FirstQueue, c)
  /\ UNCHANGED pipelineHalt

\* The other chunks of a running epoch.
SchedPass(c) ==
  /\ c.epoch <= currEpoch
  /\ Move("sch", c, FirstQueue, c)
  /\ UNCHANGED <<engine, minEpoch>>

Schedule ==
  /\ ~pipelineHalt
  /\ \E c \in queue["sch"] :
       /\ IsTop("sch", c)
       /\ SchedHalt(c) \/ SchedBarrier(c) \/ SchedStart(c) \/ SchedPass(c)
  /\ UNCHANGED <<conf, epochs, timeoutTable, recordTable, lambdas>>

\* gatherWorkFunc, run by several threads, so that chunks may overtake each other:
\* any chunk may be the next.  The last forward layer of GAT is the turning point.
Gather ==
  /\ ~pipelineHalt
  /\ \E c \in queue["GA"] :
       IF conf.gnn = "GAT" /\ c.dir = "FORWARD" /\ c.layer = conf.numLayers
       THEN Move("GA", c, "SC", [c EXCEPT !.dir = "BACKWARD"])
       ELSE Move("GA", c, "AV", c)
  /\ UNCHANGED <<conf, engine, minEpoch, epochs, timeoutTable, recordTable, lambdas>>

\* applyVertexWorkFunc: backward, the layer is decremented before the lambda.
ApplyVertex ==
  /\ ~pipelineHalt
  /\ \E c \in queue["AV"] :
       LET d == [c EXCEPT !.vertex = TRUE] IN
       /\ IsTop("AV", c)
       /\ Pop("AV", c)
       /\ NNCompute(IF d.dir = "FORWARD" THEN d ELSE Inc(d))
  /\ UNCHANGED <<conf, engine, minEpoch, epochs>>

\* scatterWorkFunc, run by several threads too: in sync mode and in epoch 1 chunks
\* are stashed until all are there and the barrier is passed.
Scatter ==
  /\ ~pipelineHalt
  /\ Cardinality(queue["stash"]) # NumLambdas
  /\ \E c \in queue["SC"] :
       Move("SC", c, IF ~async \/ c.epoch = 1 THEN "stash" ELSE "AE", c)
  /\ UNCHANGED <<conf, engine, minEpoch, epochs, timeoutTable, recordTable, lambdas>>

ScatterAll ==
  /\ ~pipelineHalt
  /\ Cardinality(queue["stash"]) = NumLambdas
  /\ queue' = [queue EXCEPT !["stash"] = {}, !["AE"] = @ \cup queue["stash"]]
  /\ UNCHANGED <<conf, engine, minEpoch, epochs, timeoutTable, recordTable, lambdas>>

\* applyEdgeWorkFunc: GCN has no edge network.
ApplyEdge ==
  /\ ~pipelineHalt
  /\ \E c \in queue["AE"] :
       LET d == [c EXCEPT !.vertex = FALSE] IN
       /\ IsTop("AE", c)
       /\ \/ /\ conf.gnn = "GCN"
             /\ Move("AE", c, "GA", d)
             /\ UNCHANGED <<timeoutTable, recordTable, lambdas>>
          \/ /\ conf.gnn = "GAT"
             /\ Pop("AE", c)
             /\ NNCompute(d)
  /\ UNCHANGED <<conf, engine, minEpoch, epochs>>

-----------------------------------------------------------------------------
(* Lambdas and the LambdaWorkers that serve them.                          *)

At(s, st) == lam[s].st = st
Goto(s, st) == lam' = [lam EXCEPT ![s].st = st]
End(s) == lam' = [lam EXCEPT ![s] = Idle]
Expected(s) == lam[s].chunk \in timeoutTable

\* Phases that end with a gradient for the weight server: all backward ones, and the
\* last forward one of GCN, which is also the first backward one.
HasGradient(c) ==
  \/ c.dir = "BACKWARD"
  \/ conf.gnn = "GCN" /\ c.layer = conf.numLayers - 1

\* sendTensors: a chunk that nobody waits for is refused its data.
Pull(s) ==
  /\ At(s, "start")
  /\ IF Expected(s) THEN Goto(s, "got") ELSE End(s)
  /\ UNCHANGED <<conf, queue, engine, minEpoch, epochs, timeoutTable, recordTable, pushed, fails>>

\* Mutant: a GCN lambda ignores the answer, as a GAT lambda does.
AnswerIgnored(s, st) == IF HasGradient(lam[s].chunk) THEN Goto(s, st) ELSE End(s)

\* The answer of the graph server.  Only then a lambda of a last phase pushes
\* its gradient to the weight server, a GCN lambda if it was accepted; a GAT lambda
\* does not look at the answer (gat/main.cpp:188, 315, 319).
Answer(s, st) ==
  IF HasGradient(lam[s].chunk) /\ (st = "ok" \/ conf.gnn = "GAT") THEN Goto(s, st) ELSE End(s)

\* recvTensors, recvETensors, markFinish: is the chunk expected?  The tensors are
\* stored after the lock of this test is released.
CheckExist(s) ==
  /\ At(s, "got")
  /\ IF Expected(s) THEN Goto(s, "recv") ELSE Answer(s, "refused")
  /\ UNCHANGED <<conf, queue, engine, minEpoch, epochs, timeoutTable, recordTable, pushed, fails>>

Accept(s) ==
  /\ Goto(s, "callback")
  /\ timeoutTable' = timeoutTable \ {lam[s].chunk}
  /\ recordTable' = IF lam[s].chunk.vertex
                    THEN recordTable \cup {AbsLayer(lam[s].chunk)} ELSE recordTable

\* Mutant: the worker's test of the table is relied upon.
NNRecvUnchecked(s) ==
  /\ At(s, "recv")
  /\ Accept(s)
  /\ UNCHANGED <<conf, queue, engine, minEpoch, epochs, pushed, fails>>

\* NNRecv: the first result of a chunk is accepted.
NNRecv(s) ==
  /\ At(s, "recv")
  /\ \/ Expected(s) /\ Accept(s)
     \/ ~Expected(s) /\ Answer(s, "refused") /\ UNCHANGED <<timeoutTable, recordTable>>
  /\ UNCHANGED <<conf, queue, engine, minEpoch, epochs, pushed, fails>>

\* NNRecvCallbackGCN and NNRecvCallbackGAT: the next queue of a chunk.
SendOn(c) ==
  CASE ~c.vertex -> Push("GA", c)
    [] c.vertex /\ IsLastLayer(c) -> Push("sch", Inc(c))
    [] c.vertex /\ c.dir = "FORWARD" -> Push("SC", Inc(c))
    [] OTHER -> Push("SC", c)

\* The last layer of an epoch of the asynchronous pipeline is counted.
Counted(c) == IsLastLayer(c) /\ async

\* Mutant: the counter of the ring is not reset for the next epoch.
CallbackNoReset(s) ==
  LET c == lam[s].chunk
      n == numFinishedEpoch[Ring(c.epoch)] + 1
  IN
  /\ At(s, "callback")
  /\ IF Counted(c) THEN numFinishedEpoch' = [numFinishedEpoch EXCEPT ![Ring(c.epoch)] = n]
     ELSE UNCHANGED numFinishedEpoch
  /\ IF Counted(c) /\ n = NumLambdas
     THEN Goto(s, "announce") /\ UNCHANGED queue
     ELSE Answer(s, "ok") /\ SendOn(c)
  /\ UNCHANGED <<conf, engine, minEpoch, announced, peer, timeoutTable, recordTable, pushed, fails>>

Callback(s) ==
  LET c == lam[s].chunk
      n == numFinishedEpoch[Ring(c.epoch)] + 1
      all == Counted(c) /\ n = NumLambdas
  IN
  /\ At(s, "callback")
  /\ numFinishedEpoch' =
       IF Counted(c)
       THEN [numFinishedEpoch EXCEPT ![Ring(c.epoch)] = IF all THEN 0 ELSE n]
       ELSE numFinishedEpoch
  /\ IF all THEN Goto(s, "announce") /\ UNCHANGED queue
     ELSE Answer(s, "ok") /\ SendOn(c)
  /\ UNCHANGED <<conf, engine, minEpoch, announced, peer, timeoutTable, recordTable, pushed, fails>>

\* sendEpochUpdate: minEpoch follows when all servers have finished the epoch.
Announce(s) ==
  /\ At(s, "announce")
  /\ Goto(s, "enqueue")
  /\ announced' = lam[s].chunk.epoch
  /\ minEpoch' = IF peer >= announced' THEN minEpoch + 1 ELSE minEpoch
  /\ UNCHANGED <<conf, queue, engine, numFinishedEpoch, peer, timeoutTable, recordTable, pushed, fails>>

Enqueue(s) ==
  /\ At(s, "enqueue")
  /\ Answer(s, "ok")
  /\ SendOn(lam[s].chunk)
  /\ UNCHANGED <<conf, engine, minEpoch, epochs, timeoutTable, recordTable, pushed, fails>>

PushGradient(s) ==
  /\ lam[s].st \in {"ok", "refused"}
  /\ pushed' = pushed \cup {lam[s].chunk}
  /\ End(s)
  /\ UNCHANGED <<conf, queue, engine, minEpoch, epochs, timeoutTable, recordTable, fails>>

\* A lambda dies; what it has asked a worker to do is still done.
Fail(s) ==
  /\ lam[s].st \in {"start", "got", "ok", "refused"}
  /\ fails < MaxFail
  /\ fails' = fails + 1
  /\ End(s)
  /\ UNCHANGED <<conf, queue, engine, minEpoch, epochs, timeoutTable, recordTable, pushed>>

\* readEpochUpdates: the slowest of the other servers has finished one more epoch.
ReadEpochUpdates ==
  /\ async /\ peer < conf.numEpochs /\ peer < minEpoch + conf.staleness
  /\ peer' = peer + 1
  /\ minEpoch' = IF announced >= peer' THEN minEpoch + 1 ELSE minEpoch
  /\ UNCHANGED <<conf, queue, engine, numFinishedEpoch, announced, timeoutTable, recordTable, lambdas>>

-----------------------------------------------------------------------------
LambdaStep(s) ==
  \/ Pull(s) \/ CheckExist(s) \/ NNRecv(s)
  \/ Callback(s) \/ Announce(s) \/ Enqueue(s) \/ PushGradient(s)

Relaunch(i) ==
  /\ \E c \in timeoutTable : c.localId = i /\ (RelaunchLambda(c) \/ RelaunchOther(c))
  /\ UNCHANGED <<conf, queue, engine, minEpoch, epochs>>

FoundOverdue(i) ==
  /\ \E c \in timeoutTable : c.localId = i /\ RelaunchLambda(c)
  /\ UNCHANGED <<conf, queue, engine, minEpoch, epochs>>

Next ==
  \/ Schedule \/ Gather \/ ApplyVertex \/ Scatter \/ ScatterAll \/ ApplyEdge
  \/ ReadEpochUpdates
  \/ \E i \in Id : Relaunch(i)
  \/ \E s \in Slot : LambdaStep(s) \/ Fail(s)

Spec == Init /\ [][Next]_vars

\* Threads keep running; what is overdue for long enough is found by each scan;
\* the other servers go on with their epochs.
FairSpec ==
  /\ Spec
  /\ WF_vars(Schedule) /\ WF_vars(Gather) /\ WF_vars(ApplyVertex)
  /\ WF_vars(Scatter) /\ WF_vars(ScatterAll) /\ WF_vars(ApplyEdge)
  /\ WF_vars(ReadEpochUpdates)
  /\ \A i \in Id : SF_vars(FoundOverdue(i))
  /\ \A s \in Slot : WF_vars(LambdaStep(s))

-----------------------------------------------------------------------------
LambdaStates == {"none", "start", "got", "recv", "callback", "announce",
                 "enqueue", "ok", "refused"}

\* Types of the variables; queues, timeoutTable and lambdas hold chunks of Id.
TypeOK ==
  LET chunks == (UNION {queue[q] : q \in Queue}) \cup timeoutTable \cup pushed IN
  /\ conf \in Confs
  /\ \A c \in chunks : c \in Chunk /\ c.localId \in Id /\ c.layer <= conf.numLayers
  /\ DOMAIN queue = Queue
  /\ currEpoch \in 0..conf.numEpochs /\ minEpoch \in 1..conf.numEpochs + 1
  /\ async \in BOOLEAN /\ block \in BOOLEAN /\ pipelineHalt \in BOOLEAN
  /\ numFinishedEpoch \in [0..conf.staleness -> {0} \cup 1..NumLambdas - 1]
  /\ {announced, peer} \subseteq {1} \cup 2..conf.numEpochs
  /\ recordTable \subseteq 0..2 * conf.numLayers - 1
  /\ lam \in [Slot -> [st : LambdaStates, chunk : Chunk]]
  /\ fails \in 0..MaxFail

\* Accepted results whose callback has not sent the chunk on yet.
InCallback(s) == lam[s].st \in {"callback", "announce", "enqueue"}

\* Where the chunks are: in a queue, waiting for a lambda, or with a worker.
InQueues == UNION {{<<q, c>> : c \in queue[q]} : q \in Queue}
InTable == {<<"table", c>> : c \in timeoutTable}
InWorkers == {<<s, lam[s].chunk>> : s \in {t \in Slot : InCallback(t)}}
Held == InQueues \cup InTable \cup InWorkers

\* A chunk is in one queue, waits for one lambda phase, or is sent on by one
\* worker, and is never at two places: no result is accepted twice and no chunk
\* is lost, however many lambdas were launched for it (lambda_comm.cpp:61).
OnePlace ==
  /\ {h[2].localId : h \in Held} = Id
  /\ Cardinality(Held) = NumLambdas

\* When the scheduler stops the pipeline every chunk has finished the last epoch
\* and waits in its queue, and only surplus lambdas still run (pipeline.cpp:34).
AllDoneAtHalt ==
  pipelineHalt =>
    /\ Cardinality(queue["sch"]) = NumLambdas
    /\ \A c \in queue["sch"] : c.epoch = conf.numEpochs + 1
    /\ \A s \in Slot : ~InCallback(s)

Pushing(s) == lam[s].st \in {"ok", "refused"}

\* Of all lambdas of a GCN phase at most one pushes a gradient: the one whose
\* result was accepted (gcn/main.cpp:118 and 199).
GradientOnce ==
  conf.gnn = "GCN" =>
    \A s \in Slot :
      Pushing(s) =>
        /\ lam[s].chunk \notin pushed
        /\ \A t \in Slot \ {s} : Pushing(t) => lam[t].chunk # lam[s].chunk

\* A lambda that is told to "give up this chunk" (lambdaworker.cpp:178) pushes no
\* gradient for it.
GivenUp ==
  [][\A s \in Slot : At(s, "refused") /\ lam'[s] = Idle => pushed' = pushed]_vars

-----------------------------------------------------------------------------
(* The abstract specification.                                             *)

\* The lambda phase that a chunk in a queue or in timeoutTable waits for.
Awaited(place, c) ==
  LET vertex == [c EXCEPT !.vertex = TRUE]
      edge == [c EXCEPT !.vertex = FALSE]
      apply == IF c.dir = "FORWARD" THEN vertex ELSE Inc(vertex)
  IN CASE place \in {"sch", "table"} -> c
       [] place \in {"GA", "AV", "SC", "stash", "AE"} /\ conf.gnn = "GCN" -> apply
       [] place = "AV" /\ conf.gnn = "GAT" -> apply
       [] place = "GA" /\ conf.gnn = "GAT" ->
            IF c.dir = "FORWARD" /\ c.layer = conf.numLayers
            THEN [edge EXCEPT !.dir = "BACKWARD"] ELSE apply
       [] OTHER -> edge

Number(c) == PhaseNumber(conf.gnn, conf.numLayers, c)

\* How many phases each chunk has finished.
Finished ==
  LET phases(h) == IF h[1] \in Slot THEN Number(h[2]) + 1 ELSE Number(Awaited(h[1], h[2]))
  IN [i \in Id |-> CHOOSE n \in {phases(h) : h \in {x \in Held : x[2].localId = i}} : TRUE]

Order == INSTANCE PhaseOrder WITH
  shape <- [phases |-> NumPhases(conf.gnn, conf.numLayers),
            staleness |-> IF conf.async THEN conf.staleness ELSE 0],
  at <- Finished

\* Each chunk goes through the phases of its epochs in order and within the
\* staleness bound, and epochs are announced once, in order and complete.
OrderSpec == Order!Spec

\* The pipeline comes to its end, unless all lambdas of some layer have died
\* before one of them finished: then nobody relaunches them (lambda_comm.cpp:101).
Deserted ==
  \E c \in timeoutTable :
    /\ AbsLayer(c) \notin recordTable
    /\ \A s \in Slot : lam[s].chunk # c

Ends == <>pipelineHalt \/ <>[]Deserted

=============================================================================
