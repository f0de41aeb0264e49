----------------------------- MODULE WeightServers -----------------------------
(***************************************************************************)
(* The weight servers and the graph servers of a CPU or GPU build that     *)
(* train with them in sync mode (weightserver.cpp, serverworker.cpp,       *)
(* message_service.cpp, weight_comm.cpp): pulls, pushes, loss reports, the *)
(* exchange of updates between weight servers, early stop and the end.     *)
(*                                                                         *)
(* A gradient is <<client, epoch>>, a matrix the set of the gradients added*)
(* to it.  The versions of a matrix are WeightTensor's concern: here every *)
(* pull gets the newest one, since each chunk pulls once.  Graph servers   *)
(* (clients) keep step as Exchange has it.  Epochs count from 0.           *)
(***************************************************************************)
EXTENDS Channels, FiniteSetsExt

CONSTANTS
  Confs,     \* number of servers, clients and epochs, BLOCK, the states of acc, and
             \* what to look at: traffic, and whether totals may be set late
  Workers    \* NUM_LISTENERS

\* EARLY, CLOSE and DONE; acc[e] is the one that epoch e's accuracy calls for.
Converge == 0..2

\* localUpdTot is -1u until it is set, more than there are clients.
Unset == 1000
ASSUME UnsetOK == \A c \in Confs : c.clients < Unset

ASSUME ServersOK ==
  /\ \A c \in Confs :
       /\ {c.servers, c.clients, c.epochs} \subseteq Nat \ {0} /\ c.servers <= c.clients
       /\ {c.block, c.late} \subseteq BOOLEAN /\ c.traffic \subseteq {"PUSH", "EVAL", "TERM"}
       /\ c.acc \in [0..c.epochs - 1 -> Converge]
  /\ Workers \in Nat \ {0}

VARIABLES
  conf,
  boot, remaining,          \* how far a server has started, and how many it waits for
  main, snd, pulled,        \* a client's phases, wSndThread, and wReqThread's weights
  informed,                 \* WeightComm of graph server 0: infos sent and acknowledged
  queue, rr, busy,          \* requests dealt to the workers, whose turn it is, what threads do
  tot, local, weights,      \* localUpdTot, localUpdMat, the newest weights
  ghost, ghostUpdCnt,       \* ghostUpdMat and its count
  epoch, ackCnt,            \* tensors updated, acks to come
  net,                      \* messages between servers
  accTable, wsAccTable,     \* accLossTable, and server 0's table of partial sums
  convergeState, logged,    \* tryEarlyStop, and the sums that were logged
  term, flaws               \* auxiliary: races that have happened

clients == <<main, snd, pulled, informed>>
requests == <<queue, rr>>
tensors == <<tot, local, weights, ghost, ghostUpdCnt, epoch>>
peers == <<ackCnt, net>>
losses == <<accTable, wsAccTable, convergeState, logged>>
started == <<boot, remaining>>
vars == <<conf, started, clients, requests, busy, tensors, peers, losses, term, flaws>>

\* MessageService makes room for two layers.
Layer == 0..1
Server == 0..conf.servers - 1
Client == 0..conf.clients - 1
Worker == 0..Workers - 1
Receiver == Workers
Grad == Client \X (0..conf.epochs - 1)

\* What a copy contains that was made during or after the update, be it what it may.
Torn == <<-1, 0>>

\* The client's weight server, as CPUComm and ComputingServer choose it.
ServerOf(c) == c % conf.servers

Init ==
  /\ conf \in Confs
  /\ boot = [s \in Server |-> IF s = 0 THEN "polls" ELSE "waits"]
  /\ remaining = conf.servers - 1
  /\ main = [c \in Client |-> -1] /\ snd = [c \in Client |-> -1]
  /\ pulled = [c \in Client |-> <<>>]
  /\ informed = 0
  /\ queue = [s \in Server |-> [w \in Worker |-> <<>>]] /\ rr = [s \in Server |-> 0]
  /\ busy = [s \in Server |-> [t \in Worker \cup {Receiver} |-> [at |-> "idle"]]]
  /\ tot = [s \in Server |-> Unset]
  /\ local = [s \in Server |-> [l \in Layer |-> {}]]
  /\ weights = [s \in Server |-> [l \in Layer |-> {}]]
  /\ ghost = [s \in Server |-> [l \in Layer |-> {}]]
  /\ ghostUpdCnt = [s \in Server |-> [l \in Layer |-> 0]]
  /\ epoch = [s \in Server |-> 0]
  /\ ackCnt = [s \in Server |-> 0]
  /\ net = [s \in Server |-> [t \in Server |-> <<>>]]
  /\ accTable = [s \in Server |-> {}] /\ wsAccTable = {}
  /\ convergeState = 0 /\ logged = <<>>
  /\ term = [s \in Server |-> FALSE] /\ flaws = {}

-----------------------------------------------------------------------------
(* Start: the master, server 0, waits for the others and then sends them   *)
(* the first weights (WeightServer's constructor).                         *)

Others(s) == Server \ {s}

Boots(s, stage) == boot[s] = stage
Booted(s, stage) == boot' = [boot EXCEPT ![s] = stage]

SetUp == UNCHANGED <<conf, clients, requests, busy, tot, local, ghost, ghostUpdCnt, epoch,
                     ackCnt, losses, term>>

\* The master repeats MASTERUP; a copy that is lost changes nothing.
PollServers ==
  /\ Boots(0, "polls")
  /\ net' = [net EXCEPT ![0] = [t \in Server |->
       IF t # 0 /\ @[t] = <<>> THEN <<[kind |-> "MASTERUP"]>> ELSE @[t]]]
  /\ Booted(0, "sleeps")
  /\ SetUp /\ UNCHANGED <<remaining, weights, flaws>>

\* What is sent when all have answered: the weights, of all layers, are one message.
FirstWeights == <<[kind |-> "DATA", layer |-> 0, upd |-> {}]>>

\* Later it counts the answers; after the last one it sends INITDONE and the weights.
CountServers ==
  LET up == Cardinality(SentTo(net, 0, "WORKERUP")) IN
  /\ Boots(0, "sleeps")
  /\ IF remaining > up
     THEN /\ Booted(0, "polls") /\ remaining' = remaining - up
          /\ net' = [t \in Server |-> [net[t] EXCEPT ![0] = <<>>]]
     ELSE /\ Booted(0, "acks") /\ remaining' = conf.servers - 1
          /\ net' = [t \in Server |-> [u \in Server |->
               IF u = 0 THEN <<>>
               ELSE IF t = 0 THEN net[t][u] \o <<[kind |-> "INITDONE"]>> \o FirstWeights
               ELSE net[t][u]]]
  /\ SetUp /\ UNCHANGED <<weights, flaws>>

CountAcks ==
  /\ Boots(0, "acks")
  /\ \/ /\ remaining = 0 /\ Booted(0, "up")
        /\ UNCHANGED <<remaining, net>>
     \/ \E t \in Server :
          /\ net[t][0] # <<>>
          /\ net' = [net EXCEPT ![t][0] = Tail(@)]
          /\ remaining' = IF Head(net[t][0]).kind = "ACK" THEN remaining - 1 ELSE remaining
          /\ UNCHANGED boot
  /\ SetUp /\ UNCHANGED <<weights, flaws>>

\* s, not the master, has read the next message of t.
Hears(s, t) == s # 0 /\ net[t][s] # <<>>
Answers(s, t, m) == net' = [net EXCEPT ![t][s] = Tail(@), ![s][t] = @ \o m]

\* The others answer the first MASTERUP, once: nothing makes sure that the master's
\* connection is in place by then.
HearMaster(s, t) ==
  /\ Boots(s, "waits") /\ Hears(s, t) /\ Head(net[t][s]).kind = "MASTERUP"
  /\ Booted(s, "ready")
  /\ \/ Answers(s, t, <<[kind |-> "WORKERUP"]>>) /\ UNCHANGED flaws
     \/ Answers(s, t, <<>>) /\ flaws' = flaws \cup {"unheard"}
  /\ SetUp /\ UNCHANGED <<remaining, weights>>

\* They wait for INITDONE and discard what else comes.
HearDone(s, t) ==
  /\ Boots(s, "ready") /\ Hears(s, t)
  /\ IF Head(net[t][s]).kind = "INITDONE" THEN Booted(s, "weights") ELSE UNCHANGED boot
  /\ Answers(s, t, <<>>)
  /\ SetUp /\ UNCHANGED <<remaining, weights, flaws>>

\* And they take the next message for the weights, whatever it is.
TakeWeights(s, t) ==
  LET msg == Head(net[t][s]) IN
  /\ Boots(s, "weights") /\ Hears(s, t)
  /\ Booted(s, "up")
  /\ weights' = [weights EXCEPT ![s] =
       [l \in Layer |-> IF msg.kind = "DATA" THEN msg.upd ELSE {Torn}]]
  /\ Answers(s, t, <<[kind |-> "ACK"]>>)
  /\ SetUp /\ UNCHANGED <<remaining, flaws>>

-----------------------------------------------------------------------------
(* Clients.                                                                *)

\* The proxy deals requests to the workers in turn.
Request(s, req) ==
  /\ queue' = [queue EXCEPT ![s][rr[s]] = Append(@, req)]
  /\ rr' = [rr EXCEPT ![s] = (@ + 1) % Workers]

\* Four phases an epoch: forward to the last layer, the last layer, back to
\* layer 0, prefetch.  All but the last follow a barrier of the graph servers.
Phase(c) == main[c] % 4
EpochOf(c) == main[c] \div 4
InStep(c) == \A d \in Client : main[d] >= main[c]

\* WeightComm::updateChunkCnt tells the servers, one by one, how many chunks
\* each will serve.
SplitTot(s, cnt, n) == cnt \div n + (IF s < cnt % n THEN 1 ELSE 0)

SendInfo ==
  /\ informed \in {2 * s : s \in Server}
  /\ LET s == informed \div 2 IN
       Request(s, [op |-> "INFO", cnt |-> SplitTot(s, conf.clients, conf.servers)])
  /\ informed' = informed + 1
  /\ UNCHANGED <<conf, started, main, snd, pulled, busy, tensors, peers, losses, term, flaws>>

\* prefetchWeightsMatrix: increment the epoch and pull the layers, one by one.
Prefetch(c) ==
  /\ Phase(c) = 3 /\ snd[c] = -1
  /\ main[c] = -1 /\ c = 0 => informed = 2 * conf.servers
  /\ main' = [main EXCEPT ![c] = @ + 1]
  /\ pulled' = [pulled EXCEPT ![c] = <<>>]
  /\ Request(ServerOf(c), [op |-> "PULL", client |-> c, epoch |-> EpochOf(c) + 1, layer |-> 0])
  /\ UNCHANGED <<conf, started, snd, informed, busy, tensors, peers, losses, term, flaws>>

\* getWeightMatrix joins the threads.
Forward(c) ==
  /\ ~conf.late => \A s \in Server : tot[s] # Unset
  /\ main[c] >= 0 /\ Phase(c) = 0 /\ EpochOf(c) < conf.epochs /\ InStep(c)
  /\ snd[c] = -1 /\ Len(pulled[c]) = Cardinality(Layer)
  /\ main' = [main EXCEPT ![c] = @ + 1]
  /\ UNCHANGED <<conf, started, snd, pulled, informed, requests, busy, tensors, peers, losses, term, flaws>>

\* sendWeightUpdate starts wSndThread.
Sends(c, l) == snd' = IF "PUSH" \in conf.traffic THEN [snd EXCEPT ![c] = l] ELSE snd

\* The last layer: sendAccloss, then the update.
LastLayer(c) ==
  /\ Phase(c) = 1 /\ InStep(c)
  /\ main' = [main EXCEPT ![c] = @ + 1]
  /\ Sends(c, 1)
  /\ IF "EVAL" \in conf.traffic
     THEN Request(ServerOf(c), [op |-> "EVAL", client |-> c, epoch |-> EpochOf(c)])
     ELSE UNCHANGED requests
  /\ UNCHANGED <<conf, started, pulled, informed, busy, tensors, peers, losses, term, flaws>>

Backward(c) ==
  /\ Phase(c) = 2 /\ InStep(c) /\ snd[c] = -1
  /\ main' = [main EXCEPT ![c] = @ + 1]
  /\ Sends(c, 0)
  /\ UNCHANGED <<conf, started, pulled, informed, requests, busy, tensors, peers, losses, term, flaws>>

\* wSndThread.
SendPush(c) ==
  /\ snd[c] # -1
  /\ snd' = [snd EXCEPT ![c] = -1]
  /\ Request(ServerOf(c), [op |-> "PUSH", client |-> c, layer |-> snd[c],
                           epoch |-> EpochOf(c)])
  /\ UNCHANGED <<conf, started, main, pulled, informed, busy, tensors, peers, losses, term, flaws>>

\* WeightComm::shutdown of graph server 0 at the end.
Shutdown ==
  /\ "TERM" \in conf.traffic
  /\ informed = 2 * conf.servers
  /\ \A c \in Client : main[c] = 4 * conf.epochs
  /\ informed' = informed + 1
  /\ queue' = [s \in Server |-> [queue[s] EXCEPT ![rr[s]] = Append(@, [op |-> "TERM"])]]
  /\ rr' = [s \in Server |-> (rr[s] + 1) % Workers]
  /\ UNCHANGED <<conf, started, main, snd, pulled, busy, tensors, peers, losses, term, flaws>>

-----------------------------------------------------------------------------
(* Workers.                                                                *)

\* A worker at the start of a request with this op.
Serves(s, w, op) ==
  /\ Boots(s, "up") /\ ~term[s]
  /\ busy[s][w].at = "idle" /\ queue[s][w] # <<>> /\ Head(queue[s][w]).op = op

At(s, t, at) == ~term[s] /\ busy[s][t].at = at

Goto(s, t, b) == busy' = [busy EXCEPT ![s][t] = b]

\* The request or message is done.
Finish(s, t) ==
  /\ Goto(s, t, [at |-> "idle"])
  /\ queue' = IF t = Receiver THEN queue ELSE [queue EXCEPT ![s][t] = Tail(@)]
  /\ UNCHANGED rr

\* setNumLambdas acknowledges first.
Info(s, w) ==
  /\ Serves(s, w, "INFO")
  /\ informed' = informed + 1
  /\ Goto(s, w, [at |-> "totals"])
  /\ UNCHANGED <<conf, started, main, snd, pulled, requests, tensors, peers, losses, term, flaws>>

\* setLocalUpdTot and clearAccLoss.
SetTotals(s, w) ==
  /\ At(s, w, "totals")
  /\ tot' = [tot EXCEPT ![s] = Head(queue[s][w]).cnt]
  /\ accTable' = [accTable EXCEPT ![s] = {}]
  /\ wsAccTable' = IF s = 0 THEN {} ELSE wsAccTable
  /\ Finish(s, w)
  /\ UNCHANGED <<conf, started, clients, local, weights, ghost, ghostUpdCnt, epoch, peers,
                 convergeState, logged, term, flaws>>

\* Mutant: "chunk.epoch * 2 > ws.epoch" without the factor.
BlockedOnce(s, req) == conf.block /\ req.epoch > epoch[s]

\* Mutant: the comparison is not strict.
BlockedEqual(s, req) == conf.block /\ req.epoch * 2 >= epoch[s] /\ req.epoch > 0

\* sendTensors: with BLOCK, forward pulls wait for the updates of the epochs before.
Blocked(s, req) == conf.block /\ req.epoch * 2 > epoch[s]

\* The reply, and the client's request for the next layer.
Pull(s, w) ==
  LET req == Head(queue[s][w])
      c == req.client
      q == [queue EXCEPT ![s][w] = Tail(@)]
  IN
  /\ Serves(s, w, "PULL") /\ ~Blocked(s, req)
  /\ pulled' = [pulled EXCEPT ![c] = Append(@, weights[s][req.layer])]
  /\ IF req.layer + 1 \in Layer
     THEN /\ queue' = [q EXCEPT ![s][rr[s]] = Append(@, [req EXCEPT !.layer = @ + 1])]
          /\ rr' = [rr EXCEPT ![s] = (@ + 1) % Workers]
     ELSE queue' = q /\ UNCHANGED rr
  /\ UNCHANGED <<conf, started, main, snd, informed, busy, tensors, peers, losses, term, flaws>>

\* recvUpdateTensor.  umtx is held by a tryApplyUpdate as a whole.
Push(s, w) ==
  LET req == Head(queue[s][w])
      l == req.layer
  IN
  /\ Serves(s, w, "PUSH")
  /\ local' = [local EXCEPT ![s][l] = @ \cup {<<req.client, req.epoch>>}]
  /\ flaws' = IF tot[s] = Unset THEN flaws \cup {"early"} ELSE flaws
  /\ IF Cardinality(local'[s][l]) = tot[s]
     THEN Goto(s, w, [at |-> "apply", layer |-> l, closed |-> local'[s][l]]) /\ UNCHANGED requests
     ELSE Finish(s, w)
  /\ UNCHANGED <<conf, started, clients, tot, weights, ghost, ghostUpdCnt, epoch, peers, losses, term>>

\* ghostUpdMat gets this content.
KeepGhost(s, l, upd, cnt) ==
  /\ ghost' = [ghost EXCEPT ![s][l] = upd]
  /\ ghostUpdCnt' = [ghostUpdCnt EXCEPT ![s][l] = cnt]

\* Mutant: the counts are not compared again.
TryApplyUpdateAlways(s, l, upd, cnt) ==
  /\ weights' = [weights EXCEPT ![s][l] = @ \cup local[s][l] \cup upd]
  /\ local' = [local EXCEPT ![s][l] = {}]
  /\ KeepGhost(s, l, {}, 0)
  /\ epoch' = [epoch EXCEPT ![s] = @ + 1]
  /\ UNCHANGED tot

\* Mutant: ghostUpdMat is not zeroed.
TryApplyUpdateKeep(s, l, upd, cnt) ==
  IF Cardinality(local[s][l]) >= tot[s] /\ cnt >= Cardinality(Others(s))
  THEN /\ weights' = [weights EXCEPT ![s][l] = @ \cup local[s][l] \cup upd]
       /\ local' = [local EXCEPT ![s][l] = {}]
       /\ KeepGhost(s, l, upd, 0)
       /\ epoch' = [epoch EXCEPT ![s] = @ + 1]
       /\ UNCHANGED tot
  ELSE KeepGhost(s, l, upd, cnt) /\ UNCHANGED <<tot, local, weights, epoch>>

\* WeightTensor::tryApplyUpdate, sync, with ghostUpdMat and its count as they are by
\* then; its callers count the epoch.
TryApplyUpdate(s, l, upd, cnt) ==
  IF Cardinality(local[s][l]) >= tot[s] /\ cnt >= Cardinality(Others(s))
  THEN /\ weights' = [weights EXCEPT ![s][l] = @ \cup local[s][l] \cup upd]
       /\ local' = [local EXCEPT ![s][l] = {}]
       /\ KeepGhost(s, l, {}, 0)
       /\ epoch' = [epoch EXCEPT ![s] = @ + 1]
       /\ UNCHANGED tot
  ELSE KeepGhost(s, l, upd, cnt) /\ UNCHANGED <<tot, local, weights, epoch>>

\* Mutant: the server counts on its own ack too.
AcksToComeAll(s) == Cardinality(Server)

AcksToCome(s) == Cardinality(Others(s))

\* applyUpdate: count the acks to come, send a copy of the update to the peers and
\* apply it if theirs have come.  localUpdMat is copied without umtx: the receiver
\* may have applied and zeroed it.  What comes after the copy is in the same action:
\* if the receiver comes between, it applies the update instead.
ApplyUpdate(s, w) ==
  LET l == busy[s][w].layer
      raced == local[s][l] # busy[s][w].closed
      copy == IF raced THEN {Torn} ELSE local[s][l]
  IN
  /\ At(s, w, "apply")
  /\ ackCnt' = [ackCnt EXCEPT ![s] = @ + AcksToCome(s)]
  /\ net' = [net EXCEPT ![s] = [t \in Server |->
       IF t = s THEN @[t] ELSE Append(@[t], [kind |-> "DATA", layer |-> l, upd |-> copy])]]
  /\ flaws' = IF raced THEN flaws \cup {"raced"} ELSE flaws
  /\ TryApplyUpdate(s, l, ghost[s][l], ghostUpdCnt[s][l])
  /\ Goto(s, w, [at |-> "acks"])
  /\ UNCHANGED <<conf, started, clients, requests, losses, term>>

\* ackCntCV: one count for all layers.
AcksWait(s, w) ==
  /\ At(s, w, "acks") /\ ackCnt[s] = 0
  /\ Finish(s, w)
  /\ UNCHANGED <<conf, started, clients, tensors, peers, losses, term, flaws>>

-----------------------------------------------------------------------------
(* Loss reports and early stop.                                            *)

\* numLambdas is 0 until it is set.
NumLambdas(s) == IF tot[s] = Unset THEN 0 ELSE tot[s]

\* Mutant: a sum is made one report early.
WholeSumShort(s, table) == Cardinality(table) + 1 >= NumLambdas(s)

WholeSum(s, table) == Cardinality(table) >= NumLambdas(s)

\* updateLocalAccLoss: a client's report replaces the one before; the first reports
\* of all clients are summed up.
Eval(s, w) ==
  LET req == Head(queue[s][w])
      report == <<req.client, req.epoch>>
      found == {r \in accTable[s] : r[1] = req.client}
      table == (accTable[s] \ found) \cup {report}
  IN
  /\ Serves(s, w, "EVAL")
  /\ flaws' = IF tot[s] = Unset THEN flaws \cup {"early"} ELSE flaws
  /\ IF found = {} /\ WholeSum(s, table)
     THEN /\ accTable' = [accTable EXCEPT ![s] = {}]
          /\ Goto(s, w, [at |-> "report", sum |-> table])
          /\ UNCHANGED requests
     ELSE /\ accTable' = [accTable EXCEPT ![s] = table]
          /\ Finish(s, w)
  /\ UNCHANGED <<conf, started, clients, tensors, peers, wsAccTable, convergeState, logged, term>>

\* updateGlobalAccLoss, by a thread of server 0.
UpdateGlobalAccLoss(t, node, sum) ==
  LET found == {x \in wsAccTable : x.node = node}
      table == (wsAccTable \ found) \cup {[node |-> node, sum |-> sum]}
  IN
  IF found = {} /\ Cardinality(table) >= conf.servers
  THEN LET all == UNION {x.sum : x \in table} IN
       /\ wsAccTable' = {}
       /\ logged' = Append(logged, all)
       /\ Goto(0, t, [at |-> "early", epoch |-> Max({r[2] : r \in all})])
       /\ UNCHANGED <<requests, convergeState>>
  ELSE /\ wsAccTable' = table
       /\ Finish(0, t)
       /\ UNCHANGED <<logged, convergeState>>

\* The second half of updateLocalAccLoss.
Report(s, w) ==
  /\ At(s, w, "report")
  /\ IF s = 0
     THEN UpdateGlobalAccLoss(w, s, busy[s][w].sum) /\ UNCHANGED net
     ELSE /\ net' = [net EXCEPT ![s][0] = Append(@, [kind |-> "ACCLOSS", sum |-> busy[s][w].sum])]
          /\ Finish(s, w)
          /\ UNCHANGED <<wsAccTable, convergeState, logged>>
  /\ UNCHANGED <<conf, started, clients, tensors, ackCnt, accTable, term, flaws>>

\* Mutant: only DONE is sent.
EarlyStopDone(t) ==
  LET currState == conf.acc[busy[0][t].epoch] IN
  /\ At(0, t, "early")
  /\ IF currState > convergeState /\ currState = 2
     THEN Goto(0, t, [at |-> "switch", to |-> currState]) /\ UNCHANGED requests
     ELSE Finish(0, t)
  /\ UNCHANGED <<conf, started, clients, tensors, peers, losses, term, flaws>>

\* tryEarlyStop compares ...
EarlyStop(t) ==
  LET currState == conf.acc[busy[0][t].epoch] IN
  /\ At(0, t, "early")
  /\ IF currState > convergeState
     THEN Goto(0, t, [at |-> "switch", to |-> currState]) /\ UNCHANGED requests
     ELSE Finish(0, t)
  /\ UNCHANGED <<conf, started, clients, tensors, peers, losses, term, flaws>>

\* ... and then sets the state and sends it to the graph servers, without a lock.
Switch(t) ==
  /\ At(0, t, "switch")
  /\ convergeState' = busy[0][t].to
  /\ Finish(0, t)
  /\ UNCHANGED <<conf, started, clients, tensors, peers, accTable, wsAccTable, logged, term, flaws>>

-----------------------------------------------------------------------------
(* The receiver thread.                                                    *)

Receives(s, t, kind) ==
  /\ Boots(s, "up") /\ At(s, Receiver, "idle")
  /\ net[t][s] # <<>> /\ Head(net[t][s]).kind = kind

\* An update is acknowledged and added to ghostUpdMat; tryApplyUpdate, called only
\* when all peers' have come, finds out whether the server's own has too.
RecvData(s, t) ==
  LET msg == Head(net[t][s])
      l == msg.layer
      upd == ghost[s][l] \cup msg.upd
      cnt == ghostUpdCnt[s][l] + 1
  IN
  /\ Receives(s, t, "DATA")
  /\ net' = [net EXCEPT ![t][s] = Tail(@), ![s][t] = Append(@, [kind |-> "ACK"])]
  /\ IF cnt = Cardinality(Others(s)) THEN TryApplyUpdate(s, l, upd, cnt)
     ELSE KeepGhost(s, l, upd, cnt) /\ UNCHANGED <<tot, local, weights, epoch>>
  /\ UNCHANGED <<conf, started, clients, requests, busy, ackCnt, losses, term, flaws>>

RecvAck(s, t) ==
  /\ Receives(s, t, "ACK")
  /\ net' = [net EXCEPT ![t][s] = Tail(@)]
  /\ ackCnt' = [ackCnt EXCEPT ![s] = @ - 1]
  /\ UNCHANGED <<conf, started, clients, requests, busy, tensors, losses, term, flaws>>

RecvAccLoss(s, t) ==
  /\ Receives(s, t, "ACCLOSS") /\ s = 0
  /\ net' = [net EXCEPT ![t][s] = Tail(@)]
  /\ UpdateGlobalAccLoss(Receiver, t, Head(net[t][s]).sum)
  /\ UNCHANGED <<conf, started, clients, tensors, ackCnt, accTable, term, flaws>>

\* terminateServer: main returns.
Terminate(s, w) ==
  /\ Serves(s, w, "TERM")
  /\ term' = [term EXCEPT ![s] = TRUE]
  /\ Finish(s, w)
  /\ UNCHANGED <<conf, started, clients, tensors, peers, losses, flaws>>

-----------------------------------------------------------------------------
Train(c) == Prefetch(c) \/ Forward(c) \/ LastLayer(c) \/ Backward(c) \/ SendPush(c)

Work(s, w) ==
  \/ Info(s, w) \/ SetTotals(s, w) \/ Pull(s, w) \/ Terminate(s, w)
  \/ Push(s, w) \/ ApplyUpdate(s, w) \/ AcksWait(s, w)
  \/ Eval(s, w) \/ Report(s, w)

Receive(s) == \E t \in Others(s) : RecvData(s, t) \/ RecvAck(s, t) \/ RecvAccLoss(s, t)

\* All servers have ended, or have nothing left to do.
Ended ==
  \/ \A s \in Server : term[s]
  \/ /\ "TERM" \notin conf.traffic
     /\ \A c \in Client : main[c] = 4 * conf.epochs /\ Len(pulled[c]) = Cardinality(Layer)
     /\ \A s \in Server, t \in Server : net[s][t] = <<>>
     /\ \A s \in Server : \A t \in Worker \cup {Receiver} : busy[s][t].at = "idle"
     /\ \A s \in Server, w \in Worker : queue[s][w] = <<>>

MasterStarts == PollServers \/ CountServers \/ CountAcks

Starts(s) ==
  s \in Server /\ \E t \in Others(s) : HearMaster(s, t) \/ HearDone(s, t) \/ TakeWeights(s, t)

Next ==
  \/ MasterStarts \/ \E s \in Others(0) : Starts(s)
  \/ SendInfo \/ Shutdown
  \/ \E c \in Client : Train(c)
  \/ \E s \in Server : Receive(s) \/ \E w \in Worker : Work(s, w)
  \/ \E t \in Worker \cup {Receiver} : EarlyStop(t) \/ Switch(t)

Spec == Init /\ [][Next]_vars

\* While some thread can take a step, one does; and the master's polls do not keep
\* the other servers from going on.  No other step is repeated, so that this is all
\* that the threads' fairness comes to.
FairSpec ==
  Spec /\ WF_vars(Next) /\ \A s \in UNION {1..c.servers - 1 : c \in Confs} : WF_vars(Starts(s))

-----------------------------------------------------------------------------
(* Properties.                                                             *)

Upd == Grad \cup {Torn}
Msg ==
  [kind : {"DATA"}, layer : Layer, upd : SUBSET Upd] \cup [kind : {"ACK"}]
    \cup [kind : {"MASTERUP", "WORKERUP", "INITDONE"}] \cup [kind : {"ACCLOSS"}, sum : SUBSET Grad]

\* Every variable has its type; the acks of a server are never negative.
TypeOK ==
  /\ conf \in Confs
  /\ boot \in [Server -> {"polls", "sleeps", "acks", "waits", "ready", "weights", "up"}]
  /\ remaining \in 0..conf.servers - 1
  /\ main \in [Client -> -1..4 * conf.epochs] /\ snd \in [Client -> {-1} \cup Layer]
  /\ \A c \in Client : Len(pulled[c]) <= Cardinality(Layer)
  /\ informed \in 0..2 * conf.servers + 1
  /\ rr \in [Server -> Worker] /\ tot \in [Server -> Nat]
  /\ \A m \in {local, weights, ghost} : m \in [Server -> [Layer -> SUBSET Upd]]
  /\ ghostUpdCnt \in [Server -> [Layer -> Nat]]
  /\ epoch \in [Server -> 0..Cardinality(Layer) * conf.epochs] /\ ackCnt \in [Server -> Nat]
  /\ \A s \in Server, t \in Server : \A i \in DOMAIN net[s][t] : net[s][t][i] \in Msg
  /\ accTable \in [Server -> SUBSET Grad] /\ convergeState \in Converge
  /\ term \in [Server -> BOOLEAN] /\ flaws \subseteq {"early", "raced", "unheard"}

\* With BLOCK the training is synchronous: the weights that a client gets for an
\* epoch contain every gradient of the epochs before, of all clients on all servers,
\* and no other; unless a server copied an update that was being applied.
PullsExact ==
  conf.block /\ "raced" \notin flaws =>
    \A c \in Client : main[c] >= 0 =>
      \A i \in DOMAIN pulled[c] : pulled[c][i] = Client \X (0..EpochOf(c) - 1)

\* No gradient that is in the weights waits to be applied a second time.
AppliedOnce ==
  \A s \in Server, l \in Layer : "raced" \notin flaws =>
    (local[s][l] \cup ghost[s][l]) \cap weights[s][l] = {} /\ local[s][l] \cap ghost[s][l] = {}

\* ackCnt counts the updates under way to the peers and the acks under way back:
\* no worker waits for an ack that nobody will send.
AcksExact ==
  (\A s \in Server : Boots(s, "up")) => \A s \in Server :
    ackCnt[s] = Cardinality(SentBy(net, s, "DATA")) + Cardinality(SentTo(net, s, "ACK"))

\* A sum of loss reports that is logged has one report of each client, and no report
\* is in two of them; unless reports came before the totals.
ReportsOnce ==
  "early" \notin flaws =>
    /\ \A i \in DOMAIN logged : \A c \in Client : Cardinality({r \in logged[i] : r[1] = c}) = 1
    /\ \A i \in DOMAIN logged, j \in DOMAIN logged : i # j => logged[i] \cap logged[j] = {}

\* What the logged sums of all servers call for is heeded: once no thread is still
\* judging one, convergeState is what some sum has called for, and EARLY only if none
\* has called for more.  Not that "state transition can only be in order EARLY ->
\* CLOSE -> DONE" (weightserver.cpp:279): two threads may both compare with EARLY, and
\* the one that sets CLOSE may come after the one that sets DONE.
SumsHeeded ==
  LET Called == {conf.acc[Max({r[2] : r \in logged[i]})] : i \in DOMAIN logged} IN
  (\A t \in Worker \cup {Receiver} : busy[0][t].at \notin {"early", "switch"}) =>
    IF Called \subseteq {0} THEN convergeState = 0 ELSE convergeState \in Called \ {0}

\* Every server ends: no worker waits for ever, in a pull or for acks; unless a server
\* got an update before it knew how many to expect, or the master missed its answer.
Ends == <>(Ended \/ flaws \cap {"early", "unheard"} # {})

=============================================================================
