# Formal models of Dorylus

Dorylus trains graph neural networks on graph servers (which hold the graph and
do the sparse work), serverless lambdas (which do the dense work) and weight
servers (which hold the weights and apply gradients). Training is a pipeline:
a graph server cuts its vertices into chunks, each chunk goes through gather,
apply-vertex, scatter and apply-edge for every layer, forward and backward, and
with bounded staleness chunks of different epochs are under way at once. This
directory holds TLA+ models of that protocol logic, the TLC configurations that
check them and proofs of what they promise, checked by TLAPS.

Paths below are relative to `src/src/`. `PROJECT.json` lists components, runs,
the lines each definition models, mutants of the definitions, hazards and
theorems. A module is checked with
`tlc -config <cfg> <module>`, its proofs with `tlapm <module>`.

## 1. Inventory

| component | state | operations | hard behaviour | what makes it correct |
|---|---|---|---|---|
| **WeightTensor** `weight-server/weighttensor.cpp` | version -> (reference count, matrix), chunk -> version, accumulated local and ghost gradients with counters, two mutexes | updateVersion, getMat, decRef, localUpdate, ghostUpdate, tryApplyUpdate(Fake) | relaunched lambdas repeat calls; the optimizer writes in place; replies are sent without a copy; one function takes no lock | a chunk sees one snapshot of the weights; counts are exact; nothing leaks, nothing is freed in use; gradients are applied once |
| **ServerWorker** `weight-server/serverworker.cpp` (6 threads) | a socket each | PULL, PUSH, EVAL, INFO, TERM of lambdas and graph servers | several requests of one chunk in different workers; BLOCK spin; ACK before effect | each push is counted once; no worker waits for ever |
| **WeightServer** `weight-server/weightserver.cpp` | weightsStore, ackCnt, epoch, publisher/subscriber | applyUpdate, receiver | publication races with application; acknowledgements counted over all tensors | all servers apply the same gradients; an applyUpdate ends |
| **Early stop** (same file) | accLossTable, wsAccTable, convergeState | updateLocalAccLoss, updateGlobalAccLoss, tryEarlyStop | reports of different epochs interleave; the state is compared and assigned without a lock | a logged sum has each client's report once (that states only go forward is false, see section 6) |
| **NodeManager** `graph-server/nodemanager` | `remaining`, PUB/SUB sockets, the engine's `minEpoch` and `nodesFinishedEpoch` | barrier, sendEpochUpdate, readEpochUpdates, syncCurrEpoch, start-up handshake | messages of one call are read in another; fast nodes are a call ahead | a barrier is a barrier; epochs are opened in order and not too early |
| **Engine scheduler** `engine/ops/pipeline.cpp` | schQueue, currEpoch, minEpoch, maxEpoch, async, block | scheduleAsyncFunc, loadChunks, runPipeline | switch async/sync while nodes are in different epochs; DONE reaches nodes at different times | staleness bound; all nodes meet in the same barriers; the pipeline ends |
| **Pipeline queues** | GA, AV, SC, AE queues ordered by `Chunk::operator<` | the work functions, incLayer | chunks of several epochs in one queue | the order is a strict weak order; no chunk is lost |
| **Scatter / ghost receiver** `engine/ops/gcn_ops.cpp`, `gat_ops.cpp` | recvCnt, ghostVtcsRecvd, ghost tables | scatter, verticesPushOut, ghostReceiver | acknowledgement before the counter, reset after the barrier | a layer starts with all ghost data; no count is lost |
| **LambdaComm / LambdaWorker** `graph-server/commmanager` | timeoutTable, recordTable | NNCompute, NNRecv, relaunch loop, recvTensors, markFinish | duplicates, timeouts racing results, unlocked iteration | each chunk goes on exactly once per phase; no chunk is forgotten |
| **Lambda functions** `funcs/gcn`, `funcs/gat` | none | pull data, pull weights, push results, push gradients | may die between two pushes | results come from one set of weights |
| **MessageService** `commmanager/message_service.cpp` | three client threads, prefetched weights | prefetch, getWeightMatrix, sendWeightUpdate | a prefetch overlaps an update | the weights used belong to the epoch |
| **Start-up** (both server kinds) | | MASTERUP, WORKERUP, INITDONE; weight distribution | PUB/SUB loses early messages | everybody starts |
| **CommManager** `graph-server/commmanager/commmanager.cpp` | control and data sockets between graph servers | handshake, flushData, flushControl, data channels | polls that come late, marks of two flushes on one socket | nothing of the start-up is left for later readers; a flush is a barrier |
| **Graph loading** `graph-server/graph`, `engine/utils.cpp` | local vertices, ghosts, send lists, rows, degrees | processEdge, the ghost lists, loadChunks | two servers derive the two sides of one list from the same file | what one sends is what the other expects |
| AdamOptimizer, CPU/GPU kernels, matrices, zmq.hpp, scripts | data | numeric or sequential I/O | none of the protocol kind | not modelled |

How they interact: a graph server's work functions hand chunks to LambdaComm,
which invokes a lambda; the lambda pulls data from a LambdaWorker and weights
from a ServerWorker, pushes its result to the LambdaWorker (whose NNRecv moves
the chunk to the next queue) and, in the backward pass, its gradient to the
ServerWorker (decRef, localUpdate, applyUpdate). Weight servers publish their
rounds to each other (receiver). Graph servers exchange ghost vertices directly
and meet in NodeManager's barriers. The master weight server tells the graph
servers when training converges (a TERM message read by LambdaWorker), upon which
schedulers agree on an epoch (syncCurrEpoch) and go back to sync mode at CLOSE, or end
the run at DONE.

## 2. How the modules are built on each other

```
Barrier  <---- refined by ---- NodeManager <---- instantiated by ---- Cluster
   ^----------------- refined by (flushData) ---------------------------'
WeightSnapshots <---- refined by ---- WeightTensor        WeightServers --- extends ---> Channels
PhaseOrder <--------- refined by ---- ChunkPipeline --- extends ---> ChunkOrder
Exchange --- extends ---> Tensors (--> ChunkOrder), Partition, Channels
```

| module | what it is | checked by | proved in |
|---|---|---|---|
| `WeightTensor`, abstract `WeightSnapshots` | one tensor of one weight server, with all its lambdas | tensor_* | `WeightTensorProofs` |
| `WeightServers` | all weight servers, all requests, early stop, start and end | servers | `WeightServersProofs` |
| `NodeManager`, abstract `Barrier` | the collective calls of the graph servers | node_* | `NodeManagerProofs` |
| `Cluster` | start-up handshakes and flushes around NodeManager | cluster | `ClusterProofs` |
| `ChunkOrder` | operator<, incLayer, getAbsLayer | (pure) | `ChunkPipelineProofs` |
| `ChunkPipeline`, abstract `PhaseOrder` | the asynchronous pipeline of one graph server and its lambdas | pipeline_* | `ChunkPipelineProofs` |
| `Partition` | the graph each server loads | exchange | `ExchangeProofs` |
| `Tensors` | what each phase reads and writes | exchange | `ExchangeProofs` |
| `Channels` | how many messages of a kind sequences and queues hold | (pure) | `ChannelsProofs` |
| `Exchange` | all graph servers in sync mode, scatter and ghost receivers, early end | exchange | `ExchangeProofs`, `ExchangeRoundProofs` |

What is still worth doing, in this order: the switch of a running asynchronous
pipeline to sync mode (branch 2 of scheduleAsyncFunc, with the servers in
different epochs); the tensors of asynchronous scatter; three weight servers with
pushes (their runs, that is: the theorems about WeightServers hold for any number). A
theorem still wanted: TypeOK of WeightServers.

## 3. WeightTensor

`WeightTensor.tla` is one weight tensor of one weight server with everything
that acts on it. Its *state* is that of the class (`currVer`, `ver2Mat`,
`chunk2Ver`, the two update matrices and counters), plus `heap` (the matrices'
buffers, since the code moves, copies, frees and sends them without copying), the
receiver thread `rcv`, the peers' updates `inbox`, and per chunk the phase its graph
server waits for and the lambdas working on it (`lam`). A matrix is the set of
gradients summed in it. `mode` is chosen once, as the server is started: `sync` or
asynchronous, and `fake` for GAT, where workers call tryApplyUpdateFake. In `fake` mode
a chunk has one lambda at a time, because the lambdas of the model give up when they
are refused, which GAT lambdas do not (section 5).

*Actions.* One per critical section or unlocked step: `SendTensors` (getMat under
wmtx; the reply only refers to the buffer) and `Receive` (the buffer is read as
the reply leaves), `RecvUpdateTensor` (decRef), `LocalUpdate`, `Publish`,
`ApplyUpdate` for a push; `RecvGhost`, `GhostAdd`, `GhostReadCnt`, `GhostWriteCnt`,
`RecvApply` for the receiver, whose ghostUpdate is unlocked and so split; `Launch`,
`FinishForward`, `FinishBackward`, `Refused`, `Fail` for the lambdas and the graph
server's decision whether a result is the first one. A worker's steps are those
of the lambda whose request it serves: six workers are enough for the lambdas of
the runs.

*Abstraction.* `WeightSnapshots.tla` says what a tensor promises: the first pull of a
chunk takes a snapshot, results are computed from it however often weights are
updated, and it lives until the chunk's update arrives. `SnapshotSpec` is
WeightTensor's refinement of it.

*Not in the model*: `stop` (never set: stopUpdate has no caller), the numbers (Adam,
learning rate), and what several tensors and servers have in common (the wait for
ackCnt, `epoch`, the BLOCK spin), which is WeightServers' (section 6). Peers' updates
arrive at any time, but in sync mode no round is closed by a peer that has not
this server's update of the round before.

| run | instance | shows |
|---|---|---|
| tensor_overlap | 1 chunk in 2 epochs, forward and backward, 2 lambdas at a time that may die, 1 peer update; sync/async, GCN/GAT (564 000 states) | every safety property and the refinement, with overtaken, relaunched and dead lambdas |
| tensor_rounds | 2 chunks, 2 epochs, rounds of 2 local updates, 2 peer updates; GCN, sync/async; no failures (237 000 states) | gradients conserved with several holders of a version, and `Reclaimed` |
| tensor_stale_reply | 2 lambdas on 1 chunk | *violated*: a freed buffer is still referred to by a queued reply |

*Bounds.* Two lambdas of a chunk give every pairwise overlap, which is what the
version maps can confuse; two epochs let a version be stashed, moved and freed;
two chunks give a version two holders. More of each repeats these cases, and the
theorems need no bound. Deadlock checking is off because a run ends when all
chunks are through.

*Fairness.* `FairSpec` assumes that every thread and lambda keeps running (weak
fairness per chunk and lambda, and for the receiver): threads are scheduled by
the operating system, and a lambda that dies is relaunched. `Fail` has no
fairness. `Reclaimed` is checked with one lambda per chunk at a time: an
overtaken lambda may pin its chunk after the chunk was released, and then
nobody releases it. This leak (one version of the weights per occurrence) is a
fact of the code and not contradicted by anything it says; see the hazards.

`GradientsConserved` allows a lambda that dies between its two pushes to lose its
gradient, as the code does: the graph server has already accepted its result. It
speaks of this server's own gradients only: in sync mode a worker may reset the
ghost update and its counter between the unlocked steps of ghostUpdate
(`weighttensor.cpp:148`; its comment says that only the receiver thread calls this
function, but that thread is not the only one to write the two), and then a peer's
gradient is lost or counted again. The model has these steps, so this is a statement about what
survives the race.

## 4. NodeManager

`NodeManager.tla` has the four operations used after start-up and the engine's
counters that they update. `chan[n][m]` is what node m has published and n not yet
read: PUB/SUB over TCP keeps the order of one sender and says nothing of several,
the high-water marks are off, and every node subscribes to itself too. A call is
a `Call`, `Recv`... and `Return` action; `ReadEpochUpdates` is one message of
readEpochUpdates' loop. `remaining` is unsigned (`Wrap` stands for 2^32). A BARRIER
message carries in the model, and not in the code, the number of the barrier it
belongs to: only `Heard`, a property's helper, reads it.

The clients are as general as the code allows: all nodes make the same collective
calls (`Script`), and between and during syncCurrEpoch other threads may read
messages and announce epochs, within the staleness bound of the scheduler. The
asynchronous pipeline starts at epoch 2, whence the initial values. The start of the
sockets, and the calls of a whole run around them, are in Cluster (section 7).

That the barrier is one (`BarrierSpec`: nobody leaves before everybody has entered)
is not obvious: messages are counted, not attributed. A fast node's
message for barrier k+1 may stand in for a slow node's for k, and a message may be
read by readEpochUpdates before its reader enters. The argument: let k be the
barrier of the first node to leave too early. Nobody has entered a barrier after k,
so there are at most N messages for each of 1..k, and one is missing, but a
node leaves its k-th barrier only after N*k messages. `RemainingExact` says that `remaining`
is this count modulo `Wrap`, and that messages which came early take it below
zero by less than N, so that the addition at the next entry makes it good.
`BoundedStaleness` is the same question for the ring of `nodesFinishedEpoch`.

| run | instance | shows |
|---|---|---|
| node_staleness | 3 nodes (symmetric), 2 barriers, 2 announced epochs, ring of one slot (830 000 states) | the refinement of `Barrier` and the bounds where messages of three senders mix |
| node_program | 2 nodes, sync - barrier - barrier, the calls of the end of an asynchronous run, epochs up to 3, staleness 1 (94 000 states) | whoever comes out of the agreement has the same newest epoch (`SyncAgrees`) |
| node_sync | 2 nodes, one syncCurrEpoch | *violated*: a MAXEPOCH message is discarded by readEpochUpdates and its reader waits for ever |

Three nodes are needed for one sender's message to replace another's at a third
node; one slot in the ring makes every pair of epochs collide. Deadlock checking is
off because the program ends (and, with sync in it, may hang as node_sync shows).
Fairness (node_sync): a node goes on through its program and zmq delivers what was sent (weak
fairness of its collective calls); reading and announcing epochs are left to chance.

The comment at `nodemanager.cpp:140` ("there should be no remaining messages in flight or
in someone's message queue after leaving the global barrier") does not hold either:
a message of the next barrier may be there. It does no harm, which is what
`BarrierSafe` proves.

## 5. ChunkPipeline

`ChunkOrder.tla` holds the pure part: `Less` is Chunk's operator<, `IncLayerGCN` and
`IncLayerGAT` are the engine's layer arithmetic, and `PhaseNumber` numbers the lambda
phases of a training in program order, which only properties use. A chunk's
globalId and bounds are functions of its localId.

`ChunkPipeline.tla` is the pipeline of one graph server.

*State.* `queue` (the engine's priority queues and SCStashQueue), the scheduler's
`currEpoch`, `minEpoch`, `async`, `block`, `pipelineHalt`, the ring `numFinishedEpoch`,
LambdaComm's `timeoutTable` (its keys) and `recordTable` (its keys), and the lambdas
`lam`, each with the chunk it was invoked for. `announced` and `peer` stand for the ring
`nodesFinishedEpoch`: the newest epoch announced here, and by all other servers;
NodeManager (section 4) checks that the ring counts so. `pushed` is the history of gradients that
were sent to the weight server.

*Actions.* `Schedule` has one alternative per branch of scheduleAsyncFunc. `Gather`,
`ApplyVertex`, `Scatter`, `ScatterAll`, `ApplyEdge` are one round each of the work
functions. Gather and scatter run in several threads, so they take any chunk; the others
have one thread and take the top. Nobody sees a chunk between its pop and its push. A
lambda with the worker that serves it goes through `Pull`, `CheckExist` (the test of
recvTensors, recvETensors or markFinish, after which the lock is released), `NNRecv` (the
second test, atomic with the removal), `Callback`, and for the last chunk of an epoch
`Announce` and `Enqueue`, which are three critical sections. Then `PushGradient`, in which
GCN and GAT differ. `Relaunch` starts a surplus lambda for any chunk in the table
whose layer has a record: overdue, or taken for overdue, since the subtraction in
asyncRelaunchLoop is unsigned and `currTS` may be the older value. `RelaunchOther` is the
outcome of its unlocked iteration, that the reference found belongs to another entry
by the time it is used. A crash of that iteration is undefined behaviour without
an outcome to model. `Fail` is the death of a lambda.

*Abstraction.* `PhaseOrder.tla` says what a pipeline promises: a chunk finishes its phases
one after the other, none twice, within the staleness bound and after the synchronous
first epoch, and an epoch is announced once, in order, when all chunks have
finished it. In the refinement the phases a chunk has finished are read off the place it
is at (`Held`, `Awaited`). All `Fail`, relaunch and duplicate steps are stutters.

*Not in the model*: barriers are passed (NodeManager) and ghost data arrives (Exchange
has it for sync mode); tensors, and so the duplicate that overwrites them after the test in
recvTensors; convergeState stays EARLY (Exchange has TERM messages, in sync mode); the queues' clear() at the end.
GCN lambdas are written for two layers (`gcn/main.cpp:313`), so no other number is run.

| run | instance | shows |
|---|---|---|
| pipeline_order | 2 chunks, 2 lambdas at a time (symmetric); GCN asynchronous with staleness 0 and 1 for 3 epochs, GCN sync for 2, GAT asynchronous for 3 (530 000 states) | the safety properties and the refinement under every surplus lambda |
| pipeline_ends | the same chunks, GCN asynchronous for 2 epochs and GAT sync for 1, one lambda dies (540 000 states) | the pipeline ends |
| pipeline_given_up | GAT, 1 epoch | *violated*: a refused lambda pushes its gradient |

*Bounds.* Two lambdas at a time give a duplicate of either chunk, before and after the
first is accepted. A lambda that dies without being relaunched is one that never takes
another step, so pipeline_order needs no failures. Three epochs use a ring entry of
staleness 0 again, and with staleness 1 have chunks of epochs 2 and 3 mixed in all
queues. Two chunks give the counters a first and a last one.
Deadlock checking is off because the run ends.

*Fairness.* `FairSpec` lets every thread and every lambda that is alive go on (weak
fairness), the other servers announce their epochs, and the relaunch thread find each
chunk that stays overdue (strong fairness, since a free `Slot`, which the model and not the
code asks for, may come and go). `Fail` and spurious relaunches have no fairness. `Ends`
has an exception, `Deserted`: a chunk of a layer without record is never relaunched
(`lambda_comm.cpp:101`), and forward edge phases of GAT's last layer have no record in
the whole first epoch, because only vertex phases write one.

## 6. WeightServers

`WeightServers.tla` is all weight servers with the graph servers of a CPU or GPU
build as their clients (these fetch and update weights themselves, one pull and one
push per layer and epoch, prefetching through MessageService's threads).

*State.* Per server: how far it has started (`boot`, `remaining`), the requests dealt to its
workers and whose turn it is (`queue`, `rr`: a zmq DEALER deals round robin, it does
not look who is free), what each worker and the receiver thread is doing
(`busy`), `tot` (localUpdTot, unset until graph server 0's INFO), the two
layers' `local`, `ghost` and `weights` matrices, `epoch`, `ackCnt`, the loss tables and
`convergeState`. Per client: `main` and `snd` (the steps of an epoch and of wSndThread) and
what it has `pulled`. A matrix is the set of gradients summed in it, each named by
its client and epoch. `flaws` marks races of the code that have happened in a run.

*Actions.* `PollServers` to `TakeWeights` are the two start-up handshakes; `Prefetch`,
`Forward`, `LastLayer`, `Backward`, `SendPush` the client; `Info` and `SetTotals`,
`Pull`, `Push`, `ApplyUpdate`, `AcksWait`, `Eval`, `Report`, `Terminate` a
worker, cut where it lets others go on (`SetTotals` comes after its acknowledgement, `ApplyUpdate`
after the lock under which the update was closed, so that another thread may
have touched `local` by then); `RecvData`, `RecvAck`, `RecvAccLoss` the receiver;
`EarlyStop` compares the state without a lock and `Switch` assigns it. There are the two tensors
of a two-layer GCN; GAT's tensors and networks of other depths are not in the model.

*Races.* The code has three more, which the model goes through and the properties name as
exceptions: an update or report comes before the totals (*early*; INFO is
acknowledged before it takes effect, `serverworker.cpp:182`), the copy for the peers is taken from
a matrix that is being applied (*raced*, `weightserver.cpp:104`; the copy then
contains `Torn`), and the master misses
an answer that a server gives only once (*unheard*).

*The state goes back.* The comment at `weightserver.cpp:279` ("state transition can only be in
order EARLY -> CLOSE -> DONE") does not hold. tryEarlyStop runs after `accMtx` is released, in
workers and in the receiver: with one sum that calls for CLOSE and one that calls for DONE, two
threads may both compare with EARLY, the one assigns and sends DONE and the other CLOSE after
it. The run reaches this with two servers and two epochs. The property that does hold,
without exception, is `SumsHeeded`: once no thread is between comparison and
assignment, the state is one that a logged sum of losses has called for, and it is EARLY only if none has
called for more. Graph servers that are told DONE and then CLOSE are in Exchange (section 8).

| run | instance | shows |
|---|---|---|
| servers | 6 workers; 2 servers to the end with an epoch of updates; 1 server with 2 clients for 2 epochs with BLOCK; loss reports at 1, 2 and 3 servers; totals that are set late (146 000 states) | with BLOCK a pull gets all gradients of earlier epochs and no other (`PullsExact`), nothing is applied twice, no worker waits for an ack that nobody sends (`AcksExact`), a logged loss has one report of each client, no sum's call to stop is dropped (`SumsHeeded`), and all servers end |

*Bounds.* Two servers give each other rounds, acks and partial sums; three are needed for
partial sums that arrive in either order. Two servers with pushes are run for one
epoch, three with pushes and two with more epochs exceed what TLC can enumerate in
this project's time. Two layers are what MessageService has room for
(`message_service.cpp:121`), and the `epoch * 2` of the BLOCK test fits no other
number. BLOCK and SYNC are both set in the configuration the start script of the CPU
and GPU builds uses (`run/run-onnode`). Not in the run, because the code then
hangs: five or more clients of one server, where a push can be dealt behind a blocked
pull (`serverworker.cpp:82`). Deadlock checking is off because a run ends, or hangs after a
flaw; that it ends otherwise is `Ends`.

*Fairness.* Weak fairness of Next as a whole, since no step is repeated but the
master's polls, and weak fairness of the other servers' start beside these.

## 7. Cluster

`Cluster.tla` puts NodeManager (by INSTANCE, the variables shared) between the start and the end
of the graph servers: `Start`, `Poll`, `Drain`, `InitDone`, `Answer` and `Await` are
NodeManager::init with a master that polls, workers that answer once and a
subscription that may come too late; `IAmUp` and `Turn` are CommManager::init's handshake of
each pair over control sockets, both sides polling; `FlushData`, `FlushedData`, `FlushControl`,
`FlushedControl` are the flushes; `Call` are the collective calls; `Destroy` is the second
data flush, after which the node is closed.

Two of its properties are of the kind that holds by counting. `FlushSpec`: a flush
counts marks and not senders on a socket that the flush at the end uses again; it is
still a barrier (the abstract module is `Barrier`, as for NodeManager), because the
collective calls lie between. `ControlClean`: whoever counts a peer as subscribed hears it
and is heard, and when a node is up nothing of the handshake, however many polls it took,
is left on a control socket, where controlPullIn asserts that it reads application
messages.

| run | instance | shows |
|---|---|---|
| cluster | 3 nodes, one poll per pair that gets through late, one WORKERUP that may be lost, syncCurrEpoch and a barrier (186 000 states) | `ControlClean`, `FlushSpec`, and that all nodes come up, go through the calls and close, unless the answer was lost (`nodemanager.cpp:99`) |

Three nodes give two handshakes at one node at a time, and one sender's mark that
could stand in for another's. All nodes are in the same epoch when they agree on
it; a barrier *before* a syncCurrEpoch hangs like node_sync, since it discards MAXEPOCH. Data
sockets, and node sockets between two workers, are assumed to be connected when first
used: nothing in the code makes sure of it. flushControl goes through the pairs in
one order on all nodes, which is why it cannot deadlock. Fairness: every node
goes on, and a polled connection comes up in the end. Deadlock checking is off
because the run ends.

## 8. Partition, Tensors and Exchange

`Partition.tla` has, as operators on a graph (a partition, a set of edges and the
flag for undirected ones), what each graph server loads: processEdge's ghosts, the
forward and backward send lists, the rows of local vertices and ghosts, CSC and CSR
neighbours, degrees, and loadChunks' bounds. The two sides of every list are derived as the code derives
them, each server for itself.

`Tensors.tla` says which saved tensors a phase of each build (CPU, GPU, lambda) and
network (GCN, GAT) reads and writes, of the chunk's own rows and of its neighbours',
and two things it never does: `Accumulated` (the backward gather of a GAT layer adds to aTg,
which is never set back) and `NeverWritten`.

`Exchange.tla` is all graph servers in sync mode. *State*: each server's chunks with the queue
they are in, the epoch barrier of the scheduler, the scatter thread (`scatter`, `scBlock`,
`layer`, `currDir`), `recvCnt` and `ghostVtcsRecvd`, the messages between two servers in order,
what receiver threads hold in their hands (`receiving`: the threads that have not ended), how many TERM
messages were read (`told`), and `data`: for each row of each tensor the
vertex and the epoch it was computed for. *Actions*: `StartBarrier` to `Done` are
Engine::run, `Sched...` the branches of scheduleAsyncFunc, `Gather`, `ApplyVertex` and
`ApplyEdge` a phase of a chunk as one step (its interleavings with duplicates
are ChunkPipeline's), `ScatterWait`, `ScatterLeave`, `ScatterReset`, `BeginBarrier`,
`BeginScatter` the waiting part of scatterWorkFunc, `ScatterPop`,
`VerticesPushOut`, `Count` and `ScatterStash` its loop (a message is counted after it was
sent), and `RecvValues`, `RecvAck`, `StoreValues`, `Check` the receivers, who acknowledge
before they count. `ReceiverEnds` is a receiver that sees pipelineHalt. Global barriers do what `Barrier` promises.
`ScatterReset` empties the stash in one step, which the code does chunk by chunk
(`pipeline.cpp:277`). There is one scatter thread: in CPU and GPU builds only thread 0 gets through
the barrier at the begin of the phase (`block` is local to each thread), in Lambda builds
the others scatter too, which is not modelled.

*Early end.* In a Lambda build with GCN the weight servers judge the losses that lambdas
report, and tell the graph servers CLOSE or DONE (GAT lambdas report none, and the CPU and
GPU builds have no LambdaWorker to read the message). `conf.terms` says what each server is told and
`RecvTerm` reads it, at any time after all chunks have reported for the first time: servers
are told one after the other, by threads of the weight server that may overtake each other, so each
server has an order and a time of its own. In sync mode CLOSE changes nothing (but it may
replace DONE), and at DONE the scheduler halts after the epoch it is in: `SchedHalt`, before the
barrier of the epoch and before the next epoch (`SchedBarrier`, `SchedStart`), as in
`pipeline.cpp:26-27`. Then servers no longer end together. One that waits in the barrier between
two epochs is let go by the last barrier of one that has halted, and goes on by itself unless DONE has
come by then; nobody sends it the values, acks or barrier messages that it waits for. So the comment at that
last barrier ("Wait for all nodes to finish", `engine.cpp:288`) does not hold: a server that has
stopped early leaves it while another is still training. `SameBarrier` excepts the last barrier of a server that has stopped early
(`LeavesEarly`) and `Ends` the server that was left behind (`LeftBehind`); everything else is checked with
early ends in the run.

| run | instance | shows |
|---|---|---|
| exchange | 2 and 3 servers, 4 vertices (3 for 3 servers), 1 or 2 chunks, 1 or 2 epochs, all builds, GCN with 2 layers, GAT with 1 and 2; directed and undirected graphs, one-sided exchange, self-loops, a server without neighbours; messages of one vertex, 2 receivers; 2 Lambda servers told DONE, then CLOSE, and CLOSE, then DONE (223 000 states) | each phase reads what this epoch has computed, of its own rows and of all neighbours' (`InputsFresh`); the k-th barrier of all servers is the same call at the same point (`SameBarrier`); acks are counted exactly; no count is lost; the loaded graphs fit; training ends, without deadlock |

`NothingUncounted` is about the barrier at the begin of a scatter phase, which the CPU
and GPU builds compile in and the lambda build does not (`pipeline.cpp:275`): with it
the counters are set back only when nothing of a later phase is in them. Without it a fast
server's values may be counted before a slow one sets its counters back, and the slow one
waits for ever; `Ends` has this as its exception (`Lost`). Ghost degrees of undirected
graphs differ from the owner's (`dataloader.cpp:209`), so `PartitionOK` claims
them for directed graphs. It looks at the graph once, at the start, since nothing changes it; its work is done over the
graphs of the run by TLC and over all graphs by the proofs. `ExchangeOK` assumes `ProperChunks`: loadChunks
underflows if the last chunks would be empty (`utils.cpp:603`).

*Bounds.* Two servers with two boundary vertices give a send list of two messages that
two receivers store in either order; two epochs let a value of the epoch before be
mistaken for this one's; one-sided graphs make a server ready to go on while its
peer still waits. *Fairness*: weak fairness of Next, no step being repeated.

## 9. Proofs

TLAPS proves, for every value of the constants that the modules' assumptions allow:

* `WeightTensorProofs`: TypeOK, SameRefMats, RefCntExact, BuffersOwned, PushIsPinned,
  SameWeights, PinnedImmutable, SnapshotSpec and GradientsConserved. The inductive invariant `IInv` adds
  to the store's properties that buffer numbers never exceed the version (`BuffersOld`,
  so the buffer of a stashed version's successor is fresh), and per lambda (`LamOK`) what it
  has pulled: as long as its chunk waits for the phase the lambda works on, the
  chunk is pinned and the lambda's reply is the pinned version's buffer. That
  is why stale replies do no harm: they belong to results that are refused.
  `UsedOK` ties the accepted results to the pinned snapshot. `GradInv` counts gradients:
  of the lambdas on a chunk at most one is on its way to push the gradient the graph server has accepted
  (`OnePush`), peers' updates hold no gradient of this server (`Foreign`), and what was accepted is
  in the update, in the weights, on its way or lost by a dead lambda (`Conserved`).
* `NodeManagerProofs`: TypeOK, RemainingExact, BarrierSafe (nobody leaves a barrier early),
  BarrierSpec, BoundedStaleness (`StalenessBounded`) and SyncAgrees (`EpochAgreed`). `IInv` adds `ChannelsOK`: BARRIER messages under way are different ones
  that their senders have sent. The counting argument above is `AheadByOne`,
  `NotAllEntered` and `AllEntered`. SyncAgrees has the hypothesis `OneSync`, that the program
  calls syncCurrEpoch at most once, as the pipeline does (`pipeline.cpp:58`); with two
  calls it is false, since a message of the first may be read in the second.
* `ChunkPipelineProofs`: TypeOK, OrderSpec, OnePlace, AllDoneAtHalt and GradientOnce, for any number of
  chunks, layers, epochs, slots and every staleness. The inductive invariant `PlacesOK` says
  where a chunk may be: each chunk is on its `Route` (which layers and directions occur in
  which queue) and in an epoch the scheduler has opened, no two places hold the
  same localId, and every localId is somewhere. The steps are of three kinds only: they move no
  chunk, move one by a `Hop`, or move the stash; so the invariant is shown for these
  kinds and each action is shown to be one of them. GradientOnce adds that the phases whose gradient was
  pushed are behind their chunk (`Past`), measured by PhaseNumber; that is why a
  late duplicate is refused. TypeOK needs that the ring of counters is exact: each counter
  is the number of chunks that have finished its epoch, and minEpoch is one above the slowest chunk (`EInv`);
  OrderSpec then follows, since a step of the pipeline is a step of one chunk to its next phase.
  The same module has what the order of chunks needs: operator< is a strict (`LessStrict`) and total
  (`LessTotal`) order on all chunks, so no chunk is lost in or doubled by a map or a queue, and
  `IncLayerGCNNext`: for every number of layers, incLayer takes a GCN chunk to the next lambda phase.
* `ClusterProofs`: TypeOK, FlushSpec and ControlClean, for any number of nodes and polls. A
  node's marks are those of the flushes the others have begun less the ones it took away
  (`Marks`, `Together`); on the control sockets (`Control`) what a node has sent to another ends in
  exactly the marks it has sent and the other has not read (`InOrder`), and answers are pending
  only until their reader has subscribed (`Heard`).
* `ChannelsProofs`: lemmas only, on how many messages of a kind a queue or a row of queues holds
  after a send or a receive, and which updates and pulls are in a queue that changes at either end. The two
  proofs that acknowledgements are counted exactly rest on the first.
* `WeightServersProofs`: AcksExact and ReportsOnce. An update or
  its acknowledgement is in exactly one place between its sender and the decrement of ackCnt
  (`Counting`); until the master is up nothing is (`Early`), so ackCnt's start value is right. A loss report is at
  one place at a time (`Spot`, `Apart`): a request, the table of its server, a worker's sum, a
  message, server 0's table or the log; and all reports anywhere are of a last layer that its client
  has finished (`Known`), so the next one is new. A table holds one report per client of its server
  (`Own`), and the totals split the clients as ServerOf does (`Split`), so a table as large as the
  total is full; in the same way server 0's table has all servers (`Covering`).
* `WeightServersProofs`, AppliedOnce (`GradientsAppliedOnce`), also where totals are set late. A gradient of a client of s
  goes one way on s, from its request to localUpdMat and the weights, and one on every other server,
  from the request to the worker that closes the update, a message, ghostUpdMat and the weights there.
  The inductive invariant `AppInv` has each gradient at one stage of each way (`OnePlace`), and no
  gradient at any stage that its client has not pushed (`Pushed`), so that a new push is at none. What makes
  it inductive is `SentWhole`: localUpdMat is kept after a copy of it was sent, and then it is
  complete, so that a later push cannot close and send the same gradients again before the update is
  applied. A torn copy spoils only the ways to other servers (`Track`): what is said of a gradient at home
  holds even then.
* `WeightServersProofs`, PullsExact (`PullsAreExact`), for any number of servers, workers and epochs, also
  where totals are set late. The inductive invariant `PullInv` has, with BLOCK, that a server which has updated a layer k
  times has the gradients of k epochs of all clients, and no others (`LevelsOK`). What it holds for the layer besides
  is then of epoch k: not of an earlier one by `OnePlace`, nor of a later one, because no client pushes
  before all have got the weights of that epoch (`PaceOK`, `FloorsOK`). Hence an update that a server sends is all of its
  clients' gradients of one epoch (`Block`), and ghostUpdCnt counts different servers (`GhostsOK`),
  though it does not look at who sent what: with three or more servers a fast peer's next update cannot
  overtake a slow peer's last one. A pull of epoch e that is not blocked finds two layers
  that have been updated at least 2e times together and each at most e times, so e times each. At most one pull per client
  is in any queue (`PullsOK`), and the master's weights come before anything else (`FirstOK`).
* `ExchangeProofs`, facts about any graph: the send lists of all servers are the
  ghost lists of their receivers without overlap (`EachGhostServed`), neighbours are at hand
  (`EachNeighbourKept`), rows are one to one (`EachGhostARow`, `EachVertexARow`), degrees of
  ghosts agree in directed graphs (`DegreesAgree`), and loadChunks' bounds share out the rows
  (`ChunksShareOut`); so PartitionOK, as no step changes the configuration.
* `ExchangeProofs`, invariants: AcksExact, SameBarrier and TypeOK.
  AcksExact: what a server waits for is what it has sent and not yet been acknowledged,
  message by message (`Balanced`), and it sets recvCnt back only when nothing is (`Quiet`).
  SameBarrier (`BarriersMatch`): all chunks of a server are in one gap between two scatter phases
  (`ChunkAt`), so the number of barriers a server has entered is a function of its epoch and phase
  (`Base`, `Extra`), and conversely the number tells which barrier it is (`Slot`, `Digits`). The last barrier is the one
  exception: its number says so only if the server has not stopped early (`Finished`, `StoppedEarly`).
  TypeOK: values, batches and messages are rows of vertices of the graph (`DataInv`).
* `ExchangeRoundProofs`: NothingUncounted (`NoneUncounted`). The scatter phases of all epochs are
  numbered in one count, a server's rounds. From the last value of a phase on, a server's next
  values are those of the next round (`Closing`), and by the barriers (`Together`) a sender is
  in the round its receiver expects, one behind or one ahead. Each value of that round is at one
  place only: with a chunk that has not begun it, in a batch, on the net, in a receiver's hand
  (`Owed`, `InTime`, `Apart`), or counted (`CountAt`). ghostVtcsRecvd alone is not inductive:
  servers are in two rounds at once, so messages of both are on the net together, and only
  `InTime` tells that those to one receiver are all of the round it expects.
* `ExchangeRoundProofs`, InputsFresh (`InputsAreFresh`), for all graphs, builds and both networks. It
  rests on a timetable of the epoch in `ExchangeProofs`: after scatter phase s come the edges, the gather
  and the vertices, at 3s, 3s + 1 and 3s + 2, and each saved tensor is due at one of these times
  (`Due`). Every phase of `Tensors` reads only own rows that were due before it and neighbours'
  that an earlier scatter phase has sent (`GatherReads`), and writes all that is due until the
  chunk's next phase (`Fits`). The inductive invariant `FreshInv` follows a value on its way: what
  is due is in the rows of its chunk (`OwnAt`); what is under way to a server is of the one
  scatter phase and epoch that it expects (`FlightAt`, where the rounds and `InTime` come in); what it is not
  owed any more is in its ghosts (`ArrivedAt`); and there it stays until all its chunks have ended
  the epoch (`KeptAt`). Two facts make the last one hold: no two scatter phases of an epoch share a ghost tensor
  (`StoreApart`), and when a value of the next epoch comes its sender has left the epoch's barrier, so
  that the receiver has nothing more to read (`Wrapped`). The tensors that InputsFresh
  exempts are those that `Tensors` names (`Accumulated`, `NeverWritten`). The theorem reaches as far
  as `InStep`, that no server has stopped before the last epoch: then nobody leaves a barrier
  alone (`Together`), on which the argument rests. In CPU and GPU builds this is always so, and NothingUncounted,
  which is about these, needs no such condition. What is read after a server has stopped early is
  model-checked only (the run exchange has InputsFresh throughout).

Assumptions are the typing of constants, finiteness of the sets of chunks and nodes, a
Junk value that is no gradient, chunks that are not called like peers' gradients, more values of
unsigned than nodes, fewer clients than the value that says localUpdTot is not set (-1u in the code), slots that
are not named like queues, a natural number of epochs, and GCN networks of
at least two layers (`gcn/main.cpp` is written for two). `EpochAgreed` and `InputsAreFresh` alone have hypotheses (OneSync, InStep).

Model-checked only: TypeOK and SumsHeeded of
WeightServers (no obstacle is known but the length of the arguments); and the liveness properties (Reclaimed, Ends), which are out of the
prover's reach, like anything about ENABLED or by induction over recursive data.

## 10. Not modelled

* Branch 2 of scheduleAsyncFunc, the switch of a *running asynchronous* pipeline to sync mode
  when a TERM message of the weight server arrives: ChunkPipeline has one server, whose
  convergence state stays EARLY, and Exchange starts in sync mode. For the same reason DONE in an asynchronous
  pipeline is not modelled (in sync mode it is, section 8). Its collective
  calls are checked by themselves (node_program, node_sync, cluster).
* The tensors of asynchronous mode, in which receivers acknowledge nothing and scatter waits for
  nobody: reading older ghosts is what that mode permits, so there is no freshness to state.
* Numeric kernels, Adam, activations, matrices: the models keep which vertex, epoch or gradient a
  number stands for. Configuration and file parsing, logging, reports and output are data.
* The data races inside one socket or one iterator (`nodemanager.cpp:16`, the GPU's detached
  evaluation thread, the map iterated in asyncRelaunchLoop): undefined behaviour without
  outcomes to enumerate. Where the outcomes can be named (torn copy, lost counter
  update, wrong chunk relaunched) they are in the models.
* ThreadPool, Lock, Cond and Barrier of `common/` and `graph-server/utils` are wrappers of pthreads; zmq.hpp is a
  vendored binding, and sockets are modelled from how the code uses them. Cluster scripts,
  benchmarks and comparison code are not part of the program.

Each hazard that no property covers, or that one covers in part, says so in `PROJECT.json`.
